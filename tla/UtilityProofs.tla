---------------------------- MODULE UtilityProofs ----------------------------
(***************************************************************************)
(* Proofs about parts of Utility.                                          *)
(*                                                                         *)
(* Times: sums and differences are exact, for every number of ticks to the *)
(* second, every width of a long and every size of a double.  The core is  *)
(* arithmetic that truncates towards zero (QuotRem, QuotUnique) and the    *)
(* integers that a double holds (DoubleExact); the check of the range of   *)
(* seconds in doubles rests on the gap at the end of a long (UlpsAtTheTop).*)
(*                                                                         *)
(* Critical events: what the outermost object saved is what the program    *)
(* had, and what any other one saved is the handler of the class, so that  *)
(* the destructors of nested objects leave what they should (SavedInv).    *)
(*                                                                         *)
(* Environment: a set is written in its order (WrittenInOrder), so that a  *)
(* merge gives what is in the two lists.                                   *)
(*                                                                         *)
(* Calls of the operating system: sleeping, raising limits, throwing and   *)
(* reading a file each have an invariant of their own.                     *)
(*                                                                         *)
(* Configuration: what a value means to a member (DatumMeans), and lines   *)
(* that are applied one by one (ConfigInv).                                *)
(*                                                                         *)
(* Identifiers: the text of an id, place by place (TextPlaces), which both *)
(* writers make, and options that take arguments one behind the other      *)
(* (CommandLineInv).                                                       *)
(*                                                                         *)
(* Usage of resources: what an object stands for, whatever it was made of  *)
(* (UsageInv).                                                             *)
(***************************************************************************)
EXTENDS TimeValues, CriticalEvents, Environment, ProcessCalls, Configuration,
        Identifiers, RsrcUsage, NumberProofs, SequenceTheorems, FiniteSetTheorems, TLAPS

-----------------------------------------------------------------------------
(* Truncating division.                                                    *)

\* A product of positive integers is positive, and products keep an order.
LEMMA ProductOrder ==
  ASSUME NEW a \in Int, NEW b \in Int, NEW n \in Nat \ {0}, a * n < b * n
  PROVE  a < b
<1> SUFFICES ASSUME b <= a PROVE FALSE
  OBVIOUS
<1>1. PICK d \in Nat : a = b + d
  <2> a - b \in Nat /\ a = b + (a - b)
    OBVIOUS
  <2> QED OBVIOUS
<1>2. a * n = b * n + d * n
  BY <1>1
<1>3. d * n >= 0
  OBVIOUS
<1> QED BY <1>2, <1>3

\* What \div gives, for a dividend that is not negative.
LEMMA DivMod ==
  ASSUME NEW a \in Nat, NEW b \in Nat \ {0}
  PROVE  /\ a \div b \in Nat
         /\ a % b \in 0 .. b - 1
         /\ a = b * (a \div b) + (a % b)
OBVIOUS

\* Quotient and remainder restore the dividend, and the remainder has its sign.
LEMMA QuotRem ==
  ASSUME NEW a \in Int, NEW b \in Nat \ {0}
  PROVE  /\ Quot(a, b) \in Int
         /\ Rem(a, b) \in Int
         /\ a = b * Quot(a, b) + Rem(a, b)
         /\ -b < Rem(a, b) /\ Rem(a, b) < b
         /\ a >= 0 => Rem(a, b) >= 0 /\ Quot(a, b) >= 0
         /\ a <= 0 => Rem(a, b) <= 0 /\ Quot(a, b) <= 0
<1>1. CASE a >= 0
  <2>1. Quot(a, b) = a \div b
    BY <1>1 DEF Quot
  <2>2. /\ a \div b \in Nat
        /\ a % b \in 0 .. b - 1
        /\ a = b * (a \div b) + (a % b)
    <3> a \in Nat
      BY <1>1
    <3> QED BY DivMod
  <2>3. Rem(a, b) = a % b
    BY <2>1, <2>2 DEF Rem
  <2>4. a = 0 => a \div b = 0 /\ a % b = 0
    OBVIOUS
  <2> QED BY <2>1, <2>2, <2>3, <2>4, <1>1
<1>2. CASE a < 0
  <2> DEFINE p == -a
  <2>1. p \in Nat /\ p > 0
    BY <1>2
  <2>2. Quot(a, b) = -(p \div b)
    BY <1>2 DEF Quot
  <2>3. /\ p \div b \in Nat
        /\ p % b \in 0 .. b - 1
        /\ p = b * (p \div b) + (p % b)
    BY <2>1, DivMod
  <2> HIDE DEF p
  <2>4. Rem(a, b) = -(p % b)
    <3>1. b * (-(p \div b)) = -(b * (p \div b))
      BY <2>3
    <3> QED BY <2>2, <2>3, <3>1 DEF Rem, p
  <2>5. a = b * Quot(a, b) + Rem(a, b)
    BY <2>2, <2>3, <2>4 DEF Rem
  <2> QED BY <1>2, <2>2, <2>3, <2>4, <2>5
<1> QED BY <1>1, <1>2

\* Nothing else is the quotient.
LEMMA QuotUnique ==
  ASSUME NEW a \in Int, NEW b \in Nat \ {0}, NEW q \in Int, NEW r \in Int,
         a = b * q + r, -b < r, r < b,
         a >= 0 => r >= 0,
         a <= 0 => r <= 0
  PROVE  Quot(a, b) = q
<1> DEFINE p == Quot(a, b)
           s == Rem(a, b)
<1>1. /\ p \in Int /\ s \in Int /\ a = b * p + s /\ -b < s /\ s < b
      /\ (a >= 0 => s >= 0) /\ (a <= 0 => s <= 0)
  BY QuotRem
<1> HIDE DEF p, s
<1>2. b * (p - q) = r - s
  BY <1>1
<1>3. -b < r - s /\ r - s < b
  BY <1>1
<1>4. (p - q) * b < 1 * b
  BY <1>1, <1>2, <1>3
<1>5. (-1) * b < (p - q) * b
  BY <1>1, <1>2, <1>3
<1>6. p - q < 1 /\ -1 < p - q
  <2>1. p - q \in Int
    BY <1>1
  <2> QED BY <1>4, <1>5, <2>1, ProductOrder
<1> QED BY <1>1, <1>6 DEF p

-----------------------------------------------------------------------------
(* Ticks, and the carry between fraction and seconds.                      *)

LEMMA TicksPositive ==
  /\ MicroPerSec \in Nat \ {0}
  /\ NanoPerSec \in Nat \ {0}
  /\ \A class \in Classes : TicksPerSec(class) \in Nat \ {0}
  /\ \A unit \in Units : UnitsPerSec(unit) \in Nat \ {0}
<1> USE TicksAssumption
<1>1. MicroPerSec \in Nat \ {0}
  BY DEF MicroPerSec
<1>2. NanoPerSec \in Nat \ {0}
  BY <1>1 DEF NanoPerSec
<1> QED BY <1>1, <1>2 DEF TicksPerSec, UnitsPerSec, Classes, Units

\* Carry moves whole seconds out of the sum and leaves a fraction that is not
\* negative, and nothing is lost: per units of scale ticks make a second.  The
\* fraction is less than a second if that of the object is a normal one.
LEMMA CarryExact ==
  ASSUME NEW t, TimeOK(t), NEW n \in Int, NEW per \in Nat \ {0}, NEW scale \in Nat \ {0},
         per * scale = TicksPerSec(t.class)
  PROVE  LET c == Carry(t, n, per, scale)
             N == TicksPerSec(t.class)
         IN /\ c.secs \in Int /\ c.frac \in Int
            /\ c.secs * N + c.frac = t.frac + n * scale
            /\ 0 <= c.frac /\ c.frac <= N
            /\ Normal(t) => c.frac < N
<1> DEFINE c == Carry(t, n, per, scale)
           N == TicksPerSec(t.class)
           q == Quot(n, per)
           r == Rem(n, per)
           f == t.frac + r * scale
<1>1. N \in Nat \ {0} /\ t.frac \in Int /\ -N < t.frac /\ t.frac <= N
  BY TicksPositive DEF TimeOK
<1>2. q \in Int /\ r \in Int /\ n = per * q + r /\ -per < r /\ r < per
  BY QuotRem
<1>3. c = CASE f >= N -> [secs |-> q + Quot(f, N), frac |-> Rem(f, N)]
            [] f < 0  -> [secs |-> q - 1 + Quot(f, N), frac |-> N + Rem(f, N)]
            [] OTHER  -> [secs |-> q, frac |-> f]
  BY DEF Carry
<1>4. per * scale = N
  OBVIOUS
<1> HIDE DEF c, N, q, r
<1>5. n * scale = q * N + r * scale
  <2>1. n * scale = (per * q) * scale + r * scale
    BY <1>2
  <2>2. (per * q) * scale = q * (per * scale)
    BY <1>2
  <2> QED BY <2>1, <2>2, <1>4
<1>6. f \in Int
  BY <1>1, <1>2
<1>7. /\ Quot(f, N) \in Int /\ Rem(f, N) \in Int
      /\ f = N * Quot(f, N) + Rem(f, N)
      /\ -N < Rem(f, N) /\ Rem(f, N) < N
      /\ f >= 0 => Rem(f, N) >= 0
      /\ f <= 0 => Rem(f, N) <= 0
  BY <1>1, <1>6, QuotRem
<1> DEFINE p == Quot(f, N)
           s == Rem(f, N)
<1>8. t.frac + n * scale = q * N + f
  BY <1>1, <1>2, <1>5
<1> HIDE DEF f
<1>9. CASE f >= N
  <2>1. c.secs = q + p /\ c.frac = s
    BY <1>1, <1>3, <1>6, <1>9
  <2>2. (q + p) * N = q * N + N * p
    BY <1>1, <1>2, <1>7
  <2> QED BY <2>1, <2>2, <1>1, <1>2, <1>6, <1>7, <1>8, <1>9 DEF c, N
<1>10. CASE f < 0
  <2>1. c.secs = q - 1 + p /\ c.frac = N + s
    BY <1>1, <1>3, <1>6, <1>10
  <2>2. (q - 1 + p) * N = q * N - N + N * p
    BY <1>1, <1>2, <1>7
  <2>3. Normal(t) => s < 0
    <3> SUFFICES ASSUME Normal(t) PROVE s < 0
      OBVIOUS
    <3>1. 0 <= t.frac
      BY DEF Normal
    <3>2. -N < f
      <4>1. -(per * scale) < r * scale
        <5>1. (r + per) * scale > 0
          BY <1>2
        <5>2. (r + per) * scale = r * scale + per * scale
          BY <1>2
        <5>3. r * scale \in Int /\ per * scale \in Int
          BY <1>2
        <5> QED BY <5>1, <5>2, <5>3
      <4>2. r * scale \in Int
        BY <1>2
      <4> QED BY <1>1, <1>4, <3>1, <4>1, <4>2 DEF f
    <3>3. Quot(f, N) = 0
      <4>1. f = N * 0 + f /\ f < N
        BY <1>1, <1>6, <1>10
      <4>2. 0 \in Int /\ f <= 0 /\ ~(f >= 0)
        BY <1>6, <1>10
      <4> QED BY <1>1, <1>6, <3>2, <4>1, <4>2, QuotUnique
    <3> QED BY <1>1, <1>6, <1>7, <1>10, <3>3
  <2>4. c.secs * N + c.frac = t.frac + n * scale /\ 0 <= c.frac /\ c.frac <= N
    BY <2>1, <2>2, <1>1, <1>2, <1>6, <1>7, <1>8, <1>10
  <2>5. Normal(t) => c.frac < N
    BY <1>1, <1>7, <2>1, <2>3
  <2> QED BY <2>1, <2>4, <2>5, <1>1, <1>2, <1>7 DEF c, N
<1>11. CASE ~(f >= N) /\ ~(f < 0)
  <2>1. c.secs = q /\ c.frac = f
    BY <1>3, <1>11
  <2> QED BY <2>1, <1>1, <1>2, <1>6, <1>8, <1>11 DEF c, N
<1> QED BY <1>9, <1>10, <1>11 DEF c, N

-----------------------------------------------------------------------------
(* The ticks that a call adds.                                             *)

\* A count of units that are whole ticks.
LEMMA QuotExact ==
  ASSUME NEW n \in Int, NEW per \in Nat \ {0}, NEW scale \in Nat \ {0},
         NEW N \in Nat \ {0}, per * scale = N
  PROVE  Quot(n * N, per) = n * scale
<1>1. n * N \in Int /\ n * scale \in Int
  OBVIOUS
<1>2. n * N = per * (n * scale) + 0
  <2>1. n * (per * scale) = per * (n * scale)
    OBVIOUS
  <2> QED BY <2>1
<1> QED BY <1>1, <1>2, QuotUnique

\* A common factor cancels.
LEMMA QuotCancel ==
  ASSUME NEW n \in Int, NEW m \in Nat \ {0}, NEW k \in Nat \ {0}
  PROVE  Quot(n * m, m * k) = Quot(n, k)
<1> DEFINE q == Quot(n, k)
           r == Rem(n, k)
<1>1. /\ q \in Int /\ r \in Int /\ n = k * q + r /\ -k < r /\ r < k
      /\ n >= 0 => r >= 0
      /\ n <= 0 => r <= 0
  BY QuotRem
<1> HIDE DEF q, r
<1>2. m * k \in Nat \ {0} /\ n * m \in Int /\ r * m \in Int
  BY <1>1
<1>3. n * m = (m * k) * q + r * m
  BY <1>1
<1>4. -(m * k) < r * m /\ r * m < m * k
  <2>1. k - r > 0 /\ r + k > 0
    BY <1>1
  <2>2. (k - r) * m > 0 /\ (r + k) * m > 0
    BY <2>1, <1>1
  <2> QED BY <2>2, <1>1
<1>5. n * m >= 0 => r * m >= 0
  <2>1. n < 0 => n * m < 0
    OBVIOUS
  <2>2. r >= 0 => r * m >= 0
    BY <1>1
  <2> QED BY <2>1, <2>2, <1>1
<1>6. n * m <= 0 => r * m <= 0
  <2>1. n > 0 => n * m > 0
    OBVIOUS
  <2>2. r <= 0 => r * m <= 0
    BY <1>1
  <2> QED BY <2>1, <2>2, <1>1
<1>7. Quot(n * m, m * k) = q
  BY <1>1, <1>2, <1>3, <1>4, <1>5, <1>6, QuotUnique
<1> QED BY <1>7 DEF q

\* The carry c accounts for the ticks that unit and n stand for.
Accounts(t, c, unit, n) ==
  LET N == TicksPerSec(t.class)
  IN /\ c.secs \in Int /\ c.frac \in Int
     /\ c.secs * N + c.frac = t.frac + TicksAdded(t, unit, n)
     /\ -N < c.frac /\ c.frac <= N
     /\ t.class = "TimeT" => c.frac = 0
     /\ Normal(t) => 0 <= c.frac /\ c.frac < N

\* A class whose fraction is not looked at: AddSeconds, and every call of TimeT.
LEMMA WholeAccounts ==
  ASSUME NEW t, TimeOK(t), NEW unit \in Units, NEW n \in Int, NEW s \in Int,
         TicksAdded(t, unit, n) = s * TicksPerSec(t.class)
  PROVE  Accounts(t, [secs |-> s, frac |-> t.frac], unit, n)
<1>1. TicksPerSec(t.class) \in Nat \ {0} /\ t.frac \in Int
  BY TicksPositive DEF TimeOK
<1>2. s * TicksPerSec(t.class) \in Int
  BY <1>1
<1> QED BY <1>1, <1>2 DEF Accounts, TimeOK, Normal

LEMMA CarryAccounts ==
  ASSUME NEW t, TimeOK(t), t.class # "TimeT", NEW unit \in Units, NEW n \in Int,
         NEW m \in Int, NEW per \in Nat \ {0}, NEW scale \in Nat \ {0},
         per * scale = TicksPerSec(t.class),
         TicksAdded(t, unit, n) = m * scale
  PROVE  Accounts(t, Carry(t, m, per, scale), unit, n)
<1> DEFINE c == Carry(t, m, per, scale)
           N == TicksPerSec(t.class)
<1>1. N \in Nat \ {0}
  BY TicksPositive DEF TimeOK
<1>2. /\ c.secs \in Int /\ c.frac \in Int
      /\ c.secs * N + c.frac = t.frac + m * scale
      /\ 0 <= c.frac /\ c.frac <= N
      /\ Normal(t) => c.frac < N
  BY CarryExact
<1> HIDE DEF c
<1>3. Accounts(t, c, unit, n)
  BY <1>1, <1>2 DEF Accounts
<1> QED BY <1>3 DEF c

\* Every call is an Add with a carry that accounts for its argument.
LEMMA CallsAccount ==
  ASSUME NEW t, TimeOK(t), NEW unit \in Units, NEW n \in Int
  PROVE  \E c : AddUnits(t, unit, n) = Add(t, c) /\ Accounts(t, c, unit, n)
<1> DEFINE N == TicksPerSec(t.class)
           U == UnitsPerSec(unit)
<1>1. N \in Nat \ {0} /\ U \in Nat \ {0} /\ t.class \in Classes
  BY TicksPositive DEF TimeOK
<1>2. /\ MicroPerSec \in Nat \ {0} /\ NanoPerSec \in Nat \ {0}
      /\ MilliPerSec \in Nat \ {0} /\ MicroPerMilli \in Nat \ {0}
      /\ NanoPerMicro \in Nat \ {0} /\ MicroPerMilli * NanoPerMicro \in Nat \ {0}
  BY TicksPositive, TicksAssumption
<1>3. TicksAdded(t, unit, n) = Quot(n * N, U)
  BY DEF TicksAdded
<1> HIDE DEF N, U
<1>4. CASE unit = "second"
  <2>1. U = 1
    BY <1>4 DEF UnitsPerSec, U
  <2>2. Quot(n * N, 1) = n * N
    <3>1. n * N \in Int
      BY <1>1
    <3> HIDE DEF N
    <3> QED BY <3>1 DEF Quot
  <2>3. TicksAdded(t, unit, n) = n * N
    BY <1>3, <2>1, <2>2
  <2>4. AddUnits(t, unit, n) = Add(t, [secs |-> n, frac |-> t.frac])
    BY <1>4 DEF AddUnits, AddSeconds
  <2> QED BY <2>3, <2>4, WholeAccounts DEF N
<1>5. CASE t.class = "TimeT" /\ unit # "second"
  <2>1. N = 1 /\ n * 1 = n
    BY <1>5 DEF TicksPerSec, N
  <2>2. Quot(n, U) \in Int
    BY <1>1, QuotRem
  <2> TicksAdded(t, unit, n) = Quot(n, U) * N
    BY <1>3, <2>1, <2>2
  <2>3. AddUnits(t, unit, n) = Add(t, [secs |-> Quot(n, U), frac |-> t.frac])
    BY <1>5 DEF U, AddUnits, AddSeconds, UnitsPerSec, Units, Classes,
                TimeTAddMilliseconds, TimeTAddMicroseconds, TimeTAddNanoseconds
  <2> QED BY <2>2, <2>3, WholeAccounts DEF N
<1>6. CASE t.class = "TimeVal" /\ unit # "second"
  <2>1. N = MicroPerSec
    BY <1>6 DEF TicksPerSec, N
  <2>2. CASE unit = "milli"
    <3>1. U * MicroPerMilli = N
      BY <2>1, <2>2 DEF U, UnitsPerSec, MicroPerSec
    <3>s. MicroPerMilli \in Nat \ {0}
      BY <1>2
    <3>2. TicksAdded(t, unit, n) = n * MicroPerMilli
      <4>1. Quot(n * N, U) = n * MicroPerMilli
        BY <1>1, <3>1, <3>s, QuotExact
      <4> QED BY <1>3, <4>1
    <3>3. AddUnits(t, unit, n) = Add(t, Carry(t, n, U, MicroPerMilli))
      BY <1>6, <2>2 DEF AddUnits, TimeValAddMilliseconds, UnitsPerSec, U
    <3> QED BY <1>1, <1>6, <3>1, <3>s, <3>2, <3>3, CarryAccounts DEF N
  <2>3. CASE unit = "micro"
    <3>1. U * 1 = N
      BY <1>2, <2>1, <2>3 DEF U, UnitsPerSec
    <3>s. 1 \in Nat \ {0}
      BY <1>2
    <3>2. TicksAdded(t, unit, n) = n * 1
      <4>1. Quot(n * N, U) = n * 1
        BY <1>1, <3>1, <3>s, QuotExact
      <4> QED BY <1>3, <4>1
    <3>3. AddUnits(t, unit, n) = Add(t, Carry(t, n, U, 1))
      BY <1>6, <2>3 DEF AddUnits, TimeValAddMicroseconds, UnitsPerSec, U
    <3> QED BY <1>1, <1>6, <3>1, <3>s, <3>2, <3>3, CarryAccounts DEF N
  <2>4. CASE unit = "nano"
    <3>1. U = N * NanoPerMicro /\ MicroPerSec * 1 = N
      BY <1>2, <2>1, <2>4 DEF U, UnitsPerSec, NanoPerSec
    <3>2. TicksAdded(t, unit, n) = Quot(n, NanoPerMicro)
      <4>1. Quot(n * N, N * NanoPerMicro) = Quot(n, NanoPerMicro)
        BY <1>1, <1>2, QuotCancel
      <4> QED BY <1>3, <3>1, <4>1
    <3>3. Quot(n, NanoPerMicro) \in Int
      BY <1>2, QuotRem
    <3>4. TicksAdded(t, unit, n) = Quot(n, NanoPerMicro) * 1
      BY <3>2, <3>3
    <3>5. AddUnits(t, unit, n) = Add(t, Carry(t, Quot(n, NanoPerMicro), MicroPerSec, 1))
      BY <1>6, <2>4 DEF AddUnits, TimeValAddNanoseconds, TimeValAddMicroseconds
    <3> QED BY <1>2, <1>6, <3>1, <3>3, <3>4, <3>5, CarryAccounts DEF N
  <2> QED BY <1>6, <2>2, <2>3, <2>4 DEF Units
<1>7. CASE t.class = "TimeSpec" /\ unit # "second"
  <2>1. N = NanoPerSec
    BY <1>7 DEF TicksPerSec, N
  <2>2. CASE unit = "milli"
    <3> DEFINE scale == MicroPerMilli * NanoPerMicro
    <3>1. U * scale = N
      BY <1>2, <2>1, <2>2 DEF U, UnitsPerSec, MicroPerSec, NanoPerSec
    <3>s. scale \in Nat \ {0}
      BY <1>2
    <3> HIDE DEF scale
    <3>2. TicksAdded(t, unit, n) = n * scale
      <4>1. Quot(n * N, U) = n * scale
        BY <1>1, <3>1, <3>s, QuotExact
      <4> QED BY <1>3, <4>1
    <3>3. AddUnits(t, unit, n) = Add(t, Carry(t, n, U, scale))
      BY <1>7, <2>2 DEF AddUnits, TimeSpecAddMilliseconds, UnitsPerSec, U, scale
    <3> QED BY <1>1, <1>7, <3>1, <3>s, <3>2, <3>3, CarryAccounts DEF N
  <2>3. CASE unit = "micro"
    <3>1. U * NanoPerMicro = N
      BY <2>1, <2>3 DEF U, UnitsPerSec, NanoPerSec
    <3>s. NanoPerMicro \in Nat \ {0}
      BY <1>2
    <3>2. TicksAdded(t, unit, n) = n * NanoPerMicro
      <4>1. Quot(n * N, U) = n * NanoPerMicro
        BY <1>1, <3>1, <3>s, QuotExact
      <4> QED BY <1>3, <4>1
    <3>3. AddUnits(t, unit, n) = Add(t, Carry(t, n, U, NanoPerMicro))
      BY <1>7, <2>3 DEF AddUnits, TimeSpecAddMicroseconds, UnitsPerSec, U
    <3> QED BY <1>1, <1>7, <3>1, <3>s, <3>2, <3>3, CarryAccounts DEF N
  <2>4. CASE unit = "nano"
    <3>1. U * 1 = N
      BY <1>2, <2>1, <2>4 DEF U, UnitsPerSec
    <3>s. 1 \in Nat \ {0}
      BY <1>2
    <3>2. TicksAdded(t, unit, n) = n * 1
      <4>1. Quot(n * N, U) = n * 1
        BY <1>1, <3>1, <3>s, QuotExact
      <4> QED BY <1>3, <4>1
    <3>3. AddUnits(t, unit, n) = Add(t, Carry(t, n, U, 1))
      BY <1>7, <2>4 DEF AddUnits, TimeSpecAddNanoseconds, UnitsPerSec, U
    <3> QED BY <1>1, <1>7, <3>1, <3>s, <3>2, <3>3, CarryAccounts DEF N
  <2> QED BY <1>7, <2>2, <2>3, <2>4 DEF Units
<1> QED BY <1>1, <1>4, <1>5, <1>6, <1>7 DEF Classes

-----------------------------------------------------------------------------
(* The object.                                                             *)

LEMMA WrapLongType ==
  ASSUME NEW a \in Int
  PROVE  WrapLong(a) \in Longs /\ (a \in Longs => WrapLong(a) = a)
<1> DEFINE M == 2 * (LongMax + 1)
<1>1. LongMax \in Nat /\ M \in Nat \ {0}
  BY TicksAssumption
<1>2. (a + LongMax + 1) % M \in 0 .. M - 1
  BY <1>1
<1>3. a \in Longs => a + LongMax + 1 \in 0 .. M - 1
  BY <1>1 DEF Longs
<1>4. \A x \in 0 .. M - 1 : x % M = x
  BY <1>1
<1> QED BY <1>1, <1>2, <1>3, <1>4 DEF WrapLong, Unsigned, Longs

\* A call that accounts for its argument leaves a value of the class.
LEMMA AddTyped ==
  ASSUME NEW t, TimeOK(t), NEW c, NEW unit, NEW n, Accounts(t, c, unit, n)
  PROVE  TimeOK(Add(t, c).time)
<1>1. CASE Add(t, c).thrown
  BY <1>1 DEF Add
<1>2. CASE ~Add(t, c).thrown
  <2>1. Add(t, c).time = Time(t.class, WrapLong(t.sec + c.secs), c.frac)
    BY <1>2 DEF Add
  <2>2. t.sec + c.secs \in Int
    BY TicksAssumption DEF TimeOK, Accounts, Longs
  <2>3. WrapLong(t.sec + c.secs) \in Longs
    BY <2>2, WrapLongType
  <2> QED BY <2>1, <2>3 DEF Time, TimeOK, Accounts
<1> QED BY <1>1, <1>2

\* Such a call adds exactly its argument, where the sum is in the range.
LEMMA AddExact ==
  ASSUME NEW t, TimeOK(t), NEW c, NEW unit \in Units, NEW n \in Int, Accounts(t, c, unit, n),
         ~Add(t, c).thrown, SumWithin(t, unit, n, -1)
  PROVE  Ticks(Add(t, c).time) = TimeSum(t, unit, n)
<1> DEFINE N == TicksPerSec(t.class)
           added == TicksAdded(t, unit, n)
           x == t.sec + c.secs
<1>1. /\ N \in Nat \ {0} /\ t.sec \in Int /\ t.frac \in Int /\ LongMax \in Nat
      /\ c.secs \in Int /\ c.frac \in Int
  BY TicksPositive, TicksAssumption DEF TimeOK, Accounts, Longs
<1>2. added \in Int
  <2>1. UnitsPerSec(unit) \in Nat \ {0}
    BY TicksPositive
  <2>2. n * N \in Int
    BY <1>1
  <2> QED BY <2>1, <2>2, QuotRem DEF TicksAdded
<1>3. c.secs * N + c.frac = t.frac + added /\ -N < c.frac /\ c.frac <= N
  BY DEF Accounts
<1>4. -LongMax * N <= t.sec * N + t.frac + added /\ t.sec * N + t.frac + added < LongMax * N
  <2>1. -LongMax - 1 - (-1) = -LongMax /\ LongMax + 1 + (-1) = LongMax
    BY <1>1
  <2> QED BY <2>1, <1>1, <1>2 DEF SumWithin, TimeSum, Ticks
<1>5. Add(t, c).time = Time(t.class, WrapLong(x), c.frac)
  BY DEF Add
<1>6. TimeSum(t, unit, n) = t.sec * N + t.frac + added
  BY DEF TimeSum, Ticks
<1>7. Ticks(Time(t.class, x, c.frac)) = x * N + c.frac
  BY DEF Ticks, Time
<1> HIDE DEF N, added
<1>8. x * N + c.frac = t.sec * N + t.frac + added
  BY <1>1, <1>2, <1>3
<1>9. x * N < (LongMax + 1) * N /\ (-LongMax - 2) * N < x * N
  BY <1>1, <1>2, <1>3, <1>4, <1>8
<1>10. x \in Longs
  <2>1. x \in Int /\ LongMax + 1 \in Int /\ -LongMax - 2 \in Int
    BY <1>1
  <2>2. x < LongMax + 1
    BY <1>1, <1>9, <2>1, ProductOrder
  <2>3. -LongMax - 2 < x
    BY <1>1, <1>9, <2>1, ProductOrder
  <2> QED BY <1>1, <2>1, <2>2, <2>3 DEF Longs
<1>11. WrapLong(x) = x
  BY <1>1, <1>10, WrapLongType
<1> QED BY <1>5, <1>6, <1>7, <1>8, <1>11

\* A value that is made of seconds in range and a fraction of the class.
LEMMA TimeMade ==
  ASSUME NEW class \in Classes, NEW sec \in Longs, NEW frac \in Int,
         -TicksPerSec(class) < frac, frac <= TicksPerSec(class),
         class = "TimeT" => frac = 0
  PROVE  TimeOK(Time(class, sec, frac))
BY DEF TimeOK, Time

\* The quotient of a long is a long.
LEMMA QuotLong ==
  ASSUME NEW a \in Longs, NEW b \in Nat \ {0}
  PROVE  Quot(a, b) \in Longs
<1> DEFINE q == Quot(a, b)
           r == Rem(a, b)
<1>1. a \in Int /\ LongMax \in Nat
  BY TicksAssumption DEF Longs
<1>2. /\ q \in Int /\ r \in Int /\ a = b * q + r
      /\ a >= 0 => r >= 0 /\ q >= 0
      /\ a <= 0 => r <= 0 /\ q <= 0
  BY <1>1, QuotRem
<1> HIDE DEF q, r
<1>3. CASE a >= 0
  <2>1. b * q >= q
    <3>1. b - 1 \in Nat /\ q \in Nat
      BY <1>2, <1>3
    <3>2. (b - 1) * q >= 0
      BY <3>1
    <3> QED BY <3>1, <3>2
  <2> QED BY <1>1, <1>2, <1>3, <2>1 DEF Longs, q
<1>4. CASE a < 0
  <2>1. b * q <= q
    <3>1. b - 1 \in Nat /\ -q \in Nat
      BY <1>1, <1>2, <1>4
    <3>2. (b - 1) * (-q) >= 0
      BY <3>1
    <3>3. (b - 1) * (-q) = q - b * q
      BY <1>2
    <3> QED BY <3>2, <3>3, <1>2
  <2> QED BY <1>1, <1>2, <1>4, <2>1 DEF Longs, q
<1> QED BY <1>1, <1>3, <1>4

LEMMA DifferenceTyped ==
  ASSUME NEW lhs, NEW rhs, TimeOK(lhs), TimeOK(rhs), lhs.class \in {"TimeVal", "TimeSpec"},
         NEW rounded \in Int
  PROVE  /\ TimeOK(TimeSpecGetDifference(lhs, rhs))
         /\ TimeOK(Time("TimeVal", DoubleToLong(Quot(rounded, MicroPerSec)),
                                   Rem(rounded, MicroPerSec)))
<1>1. /\ Ticks(lhs) \in Int /\ Ticks(rhs) \in Int
      /\ MicroPerSec \in Nat \ {0} /\ NanoPerSec \in Nat \ {0} /\ LongMax \in Nat
  <2>1. TicksPerSec(lhs.class) \in Nat \ {0} /\ TicksPerSec(rhs.class) \in Nat \ {0}
    BY TicksPositive DEF TimeOK
  <2>2. lhs.sec \in Int /\ rhs.sec \in Int /\ lhs.frac \in Int /\ rhs.frac \in Int
    BY TicksAssumption DEF TimeOK, Longs
  <2> QED BY <2>1, <2>2, TicksPositive, TicksAssumption DEF Ticks
<1>2. TimeOK(TimeSpecGetDifference(lhs, rhs))
  <2> DEFINE apart == WrapLong(ToTicks(lhs)) - WrapLong(ToTicks(rhs))
             ticks == WrapLong(apart)
  <2>1. ToTicks(lhs) \in Int /\ ToTicks(rhs) \in Int
    BY <1>1 DEF ToTicks, Unsigned
  <2>2. apart \in Int
    BY <1>1, <2>1, WrapLongType DEF Longs
  <2> HIDE DEF apart
  <2>3. ticks \in Longs /\ ticks \in Int
    BY <1>1, <2>2, WrapLongType DEF Longs
  <2> HIDE DEF ticks
  <2>4. Quot(ticks, NanoPerSec) \in Longs
    BY <1>1, <2>3, QuotLong
  <2>5. /\ Rem(ticks, NanoPerSec) \in Int
        /\ -NanoPerSec < Rem(ticks, NanoPerSec) /\ Rem(ticks, NanoPerSec) < NanoPerSec
    BY <1>1, <2>3, QuotRem
  <2>6. TimeOK(Time("TimeSpec", Quot(ticks, NanoPerSec), Rem(ticks, NanoPerSec)))
    BY <1>1, <2>4, <2>5, TimeMade DEF TicksPerSec, Classes
  <2> QED BY <2>6 DEF TimeSpecGetDifference, ticks, apart
<1>3. TimeOK(Time("TimeVal", DoubleToLong(Quot(rounded, MicroPerSec)),
                             Rem(rounded, MicroPerSec)))
  <2>1. DoubleToLong(Quot(rounded, MicroPerSec)) \in Longs
    BY <1>1 DEF DoubleToLong, Longs
  <2>2. /\ Rem(rounded, MicroPerSec) \in Int
        /\ -MicroPerSec < Rem(rounded, MicroPerSec) /\ Rem(rounded, MicroPerSec) < MicroPerSec
    BY <1>1, QuotRem
  <2> QED BY <1>1, <2>1, <2>2, TimeMade DEF TicksPerSec, Classes
<1> QED BY <1>2, <1>3

LEMMA DoubleType ==
  ASSUME NEW a \in Int
  PROVE  Double(a) \in Int
<1>1. ASSUME NEW n \in Int
      PROVE  Nearest(n, UlpOf(n)) \in Int
  <2> DEFINE ulp == UlpOf(n)
             low == n \div ulp
  <2>1. ulp \in Nat \ {0}
    <3>1. CASE \E p \in Ulps : IsUlp(p, n)
      <4>1. (CHOOSE p \in Ulps : IsUlp(p, n)) \in Ulps
        BY <3>1
      <4> QED BY <3>1, <4>1, TicksAssumption DEF UlpOf
    <3>2. CASE ~\E p \in Ulps : IsUlp(p, n)
      BY <3>2 DEF UlpOf
    <3> QED BY <3>1, <3>2
  <2> HIDE DEF ulp
  <2>2. low \in Int
    BY <1>1, <2>1
  <2>3. (low + 1) * ulp \in Int /\ low * ulp \in Int
    BY <2>1, <2>2
  <2> HIDE DEF low
  <2>4. Nearest(n, ulp) \in {(low + 1) * ulp, low * ulp}
    BY DEF Nearest, low
  <2> QED BY <2>3, <2>4 DEF ulp
<1>2. Nearest(a, UlpOf(a)) \in Int /\ Nearest(-a, UlpOf(-a)) \in Int
  BY <1>1
<1> QED BY <1>2 DEF Double

\* The calls other than Add.
LEMMA SubtractTyped ==
  ASSUME NEW lhs, NEW rhs, TimeOK(lhs), TimeOK(rhs), lhs.class \in {"TimeVal", "TimeSpec"},
         rhs.class = lhs.class
  PROVE  TimeOK(GetDifference(lhs, rhs)) /\ TimeOK(GetDifferenceAbs(lhs, rhs))
<1>1. ASSUME NEW x, NEW y, TimeOK(x), TimeOK(y), x.class \in {"TimeVal", "TimeSpec"},
             y.class = x.class
      PROVE  TimeOK(GetDifference(x, y))
  <2>1. CASE x.class = "TimeVal"
    <3>1. /\ MicroPerSec \in Int /\ x.sec \in Int /\ x.frac \in Int
          /\ y.sec \in Int /\ y.frac \in Int
      BY <1>1, TicksPositive, TicksAssumption DEF TimeOK, Longs
    <3>2. Double(x.sec) \in Int /\ Double(y.sec) \in Int
      BY <3>1, DoubleType
    <3>3. Double(x.sec) * MicroPerSec \in Int /\ Double(y.sec) * MicroPerSec \in Int
      BY <3>1, <3>2
    <3>4. /\ Double(Double(x.sec) * MicroPerSec) + x.frac \in Int
          /\ Double(Double(y.sec) * MicroPerSec) + y.frac \in Int
      BY <3>1, <3>3, DoubleType
    <3>5. DoubleTicks(x) \in Int /\ DoubleTicks(y) \in Int
      BY <3>4, DoubleType DEF DoubleTicks
    <3>6. DoubleTicks(x) - DoubleTicks(y) \in Int
      BY <3>5
    <3>7. Double(DoubleTicks(x) - DoubleTicks(y)) \in Int
      BY <3>6, DoubleType
    <3>8. TimeOK(TimeValGetDifference(x, y))
      BY <1>1, <3>7, DifferenceTyped DEF TimeValGetDifference
    <3> QED BY <2>1, <3>8 DEF GetDifference
  <2>2. CASE x.class = "TimeSpec"
    <3>1. TimeOK(TimeSpecGetDifference(x, y))
      BY <1>1, DifferenceTyped, 0 \in Int
    <3> QED BY <2>2, <3>1 DEF GetDifference
  <2> QED BY <1>1, <2>1, <2>2
<1>2. TimeOK(GetDifference(lhs, rhs)) /\ TimeOK(GetDifference(rhs, lhs))
  BY <1>1
<1> QED BY <1>2 DEF GetDifferenceAbs

LEMMA ConvertTyped ==
  ASSUME NEW t, TimeOK(t)
  PROVE  /\ t.class = "TimeSpec" => TimeOK(ToTimeVal(t))
         /\ t.class = "TimeVal" => TimeOK(FromTimeVal(t))
         /\ TimeOK(ToTimeT(t)) /\ TimeOK(TimeValToTimeT(t))
<1> DEFINE M == MicroPerSec
           k == NanoPerMicro
<1>1. /\ M \in Nat \ {0} /\ k \in Nat \ {0} /\ NanoPerSec = M * k
      /\ t.sec \in Longs /\ t.frac \in Int
  BY TicksPositive, TicksAssumption DEF NanoPerSec, TimeOK
<1>2. TimeOK(ToTimeT(t)) /\ TimeOK(TimeValToTimeT(t))
  BY <1>1, TimeMade, 0 \in Int DEF ToTimeT, TimeValToTimeT, TicksPerSec, Classes
<1> HIDE DEF M, k
<1>3. CASE t.class = "TimeSpec"
  <2> DEFINE q == Quot(t.frac, k)
             r == Rem(t.frac, k)
  <2>1. /\ q \in Int /\ r \in Int /\ t.frac = k * q + r /\ -k < r /\ r < k
        /\ t.frac >= 0 => r >= 0
        /\ t.frac <= 0 => r <= 0
    BY <1>1, QuotRem
  <2>2. -(M * k) < t.frac /\ t.frac <= M * k
    BY <1>1, <1>3 DEF TimeOK, TicksPerSec
  <2> HIDE DEF q, r
  <2>3. q * k < (M + 1) * k
    BY <1>1, <2>1, <2>2
  <2>4. (-M) * k < q * k
    BY <1>1, <2>1, <2>2
  <2>5. q < M + 1 /\ -M < q
    <3>1. M + 1 \in Int /\ -M \in Int
      BY <1>1
    <3> QED BY <1>1, <2>1, <2>3, <2>4, <3>1, ProductOrder
  <2>6. -TicksPerSec("TimeVal") < q /\ q <= TicksPerSec("TimeVal")
    BY <1>1, <2>1, <2>5 DEF TicksPerSec, M
  <2>7. TimeOK(Time("TimeVal", t.sec, q))
    BY <1>1, <2>1, <2>6, TimeMade DEF Classes
  <2> QED BY <1>2, <1>3, <2>7 DEF ToTimeVal, q, k
<1>4. CASE t.class = "TimeVal"
  <2>1. -M < t.frac /\ t.frac <= M
    BY <1>4 DEF TimeOK, TicksPerSec, M
  <2>2. t.frac * k \in Int
    BY <1>1
  <2>3. -(M * k) < t.frac * k /\ t.frac * k <= M * k
    <3>1. (t.frac + M) * k > 0 /\ (M - t.frac) * k >= 0
      BY <1>1, <2>1
    <3> QED BY <1>1, <3>1
  <2>4. -TicksPerSec("TimeSpec") < t.frac * k /\ t.frac * k <= TicksPerSec("TimeSpec")
    BY <1>1, <2>2, <2>3 DEF TicksPerSec
  <2>5. TimeOK(Time("TimeSpec", t.sec, t.frac * k))
    BY <1>1, <2>2, <2>4, TimeMade DEF Classes
  <2> QED BY <1>2, <1>4, <2>5 DEF FromTimeVal, k
<1> QED BY <1>2, <1>3, <1>4

\* Each unit is a whole number of nanoseconds.
LEMMA UnitScale ==
  ASSUME NEW unit \in Units
  PROVE  /\ NanoPerSec \div UnitsPerSec(unit) \in Nat \ {0}
         /\ UnitsPerSec(unit) * (NanoPerSec \div UnitsPerSec(unit)) = NanoPerSec
<1> DEFINE U == UnitsPerSec(unit)
           N == NanoPerSec
<1>1. U \in Nat \ {0} /\ N \in Nat \ {0}
  BY TicksPositive
<1>2. \E k \in Nat \ {0} : N = U * k
  <2>0. /\ MilliPerSec \in Nat \ {0} /\ MicroPerMilli \in Nat \ {0} /\ NanoPerMicro \in Nat \ {0}
        /\ MicroPerMilli * NanoPerMicro \in Nat \ {0} /\ 1 \in Nat \ {0}
        /\ MicroPerSec \in Nat \ {0}
    BY TicksAssumption, TicksPositive
  <2>1. CASE unit = "second"
    <3>1. N = U * N
      BY <1>1, <2>1 DEF UnitsPerSec
    <3> QED BY <1>1, <3>1
  <2>2. CASE unit = "milli"
    <3>1. N = U * (MicroPerMilli * NanoPerMicro)
      BY <2>0, <2>2 DEF UnitsPerSec, NanoPerSec, MicroPerSec
    <3> QED BY <2>0, <3>1
  <2>3. CASE unit = "micro"
    <3>1. N = U * NanoPerMicro
      BY <2>3 DEF UnitsPerSec, NanoPerSec
    <3> QED BY <2>0, <3>1
  <2>4. CASE unit = "nano"
    <3>1. N = U * 1
      BY <1>1, <2>4 DEF UnitsPerSec
    <3> QED BY <2>0, <3>1
  <2> QED BY <2>1, <2>2, <2>3, <2>4 DEF Units
<1> HIDE DEF U, N
<1>3. PICK k \in Nat \ {0} : N = U * k
  BY <1>2
<1>4. N = U * k + 0
  BY <1>1, <1>3
<1>5. Quot(N, U) = k
  BY <1>1, <1>4, QuotUnique
<1>6. N \div U = k
  BY <1>1, <1>5 DEF Quot
<1> QED BY <1>1, <1>3, <1>6 DEF U, N

LEMMA FromTicksTyped ==
  ASSUME NEW n \in Nat, NEW unit \in Units
  PROVE  TimeOK(TimeSpecFromUnits(unit, n)) /\ TimeOK(TimeValFromMicroseconds(n))
<1> DEFINE U == UnitsPerSec(unit)
           k == NanoPerSec \div U
<1>1. /\ U \in Nat \ {0} /\ k \in Nat \ {0} /\ U * k = NanoPerSec
      /\ NanoPerSec \in Nat \ {0} /\ MicroPerSec \in Nat \ {0}
  BY TicksPositive, UnitScale
<1>2. TimeSpecFromUnits(unit, n) = Time("TimeSpec", WrapLong(n \div U), (n % U) * k)
  BY DEF TimeSpecFromUnits
<1> HIDE DEF U, k
<1>3. n \div U \in Int /\ n % U \in 0 .. U - 1 /\ n \div MicroPerSec \in Int
      /\ n % MicroPerSec \in 0 .. MicroPerSec - 1
  BY <1>1
<1>4. (n % U) * k \in Int /\ 0 <= (n % U) * k /\ (n % U) * k <= U * k
  <2>1. (n % U) * k >= 0 /\ (U - (n % U)) * k >= 0
    BY <1>1, <1>3
  <2> QED BY <1>1, <1>3, <2>1
<1>5. TimeOK(Time("TimeSpec", WrapLong(n \div U), (n % U) * k))
  <2>1. -TicksPerSec("TimeSpec") < (n % U) * k /\ (n % U) * k <= TicksPerSec("TimeSpec")
    BY <1>1, <1>4 DEF TicksPerSec
  <2> QED BY <1>3, <1>4, <2>1, WrapLongType, TimeMade DEF Classes
<1>6. TimeOK(Time("TimeVal", WrapLong(n \div MicroPerSec), n % MicroPerSec))
  <2>1. /\ -TicksPerSec("TimeVal") < n % MicroPerSec
        /\ n % MicroPerSec <= TicksPerSec("TimeVal")
        /\ n % MicroPerSec \in Int
    BY <1>1, <1>3 DEF TicksPerSec
  <2> QED BY <1>3, <2>1, WrapLongType, TimeMade DEF Classes
<1> QED BY <1>2, <1>5, <1>6 DEF TimeValFromMicroseconds

-----------------------------------------------------------------------------
(* Theorems.                                                               *)

\* The fraction stays within a second of either sign, in every sequence of
\* calls: a sum of it and of another one fits the int that the code makes it in.
THEOREM TimeTypeCorrect == TimeSpecification => []TimeTypeOK
<1>0. /\ MicroPerSec \in Nat \ {0} /\ NanoPerSec \in Nat \ {0} /\ LongMax \in Longs
      /\ 0 \in Longs /\ Others \subseteq Longs
  BY TicksPositive, TicksAssumption DEF Longs
<1>1. \A class \in Classes, sec \in Longs : TimeOK(Time(class, sec, 0))
  BY TimeMade, TicksPositive
<1>2. \A class \in {"TimeVal", "TimeSpec"}, sec \in Longs :
        TimeOK(Time(class, sec, TicksPerSec(class) - 1))
  BY TimeMade, TicksPositive DEF Classes
<1>3. \A class \in {"TimeVal", "TimeSpec"} : \A t \in OtherTimes(class) :
        TimeOK(t) /\ t.class = class
  BY <1>0, <1>1, <1>2 DEF OtherTimes, Classes, Time
<1>4. TimeInit => TimeTypeOK
  BY <1>0, <1>1 DEF TimeInit, TimeTypeOK
<1>5. TimeTypeOK /\ [TimeNext]_time => TimeTypeOK'
  <2> SUFFICES ASSUME TimeOK(time), [TimeNext]_time
               PROVE  TimeOK(time')
    BY DEF TimeTypeOK
  <2> USE DEF Assign
  <2>1. CASE TimeAdd
    <3>1. PICK unit \in Units, n \in Amounts : time' = AddUnits(time, unit, n).time
      BY <2>1 DEF TimeAdd
    <3>2. n \in Int
      BY TicksAssumption
    <3>3. PICK c : AddUnits(time, unit, n) = Add(time, c) /\ Accounts(time, c, unit, n)
      BY <3>2, CallsAccount
    <3>4. TimeOK(Add(time, c).time)
      BY <3>3, AddTyped
    <3> QED BY <3>1, <3>3, <3>4
  <2>2. CASE TimeTSetTo
    BY <2>2, <1>0, <1>1 DEF TimeTSetTo, TimeTLimits, Classes
  <2>3. CASE TimeValSetTo
    BY <2>3, <1>0, <1>1, <1>2, <1>3 DEF TimeValSetTo, TimeValLimits, Classes, TicksPerSec
  <2>4. CASE TimeSpecSetTo
    BY <2>4, <1>0, <1>1, <1>2, <1>3 DEF TimeSpecSetTo, TimeSpecLimits, Classes, TicksPerSec
  <2>5. CASE TimeSubtract
    <3>1. time.class \in {"TimeVal", "TimeSpec"}
      BY <2>5 DEF TimeSubtract, TimeOK, Classes
    <3>2. PICK other \in OtherTimes(time.class) :
            time' = GetDifference(time, other) \/ time' = GetDifferenceAbs(time, other)
      BY <2>5 DEF TimeSubtract
    <3>3. TimeOK(other) /\ other.class = time.class
      BY <1>3, <3>1
    <3> QED BY <3>1, <3>2, <3>3, SubtractTyped
  <2>6. CASE TimeConvert
    BY <2>6, ConvertTyped DEF TimeConvert
  <2>7. CASE TimeFromTicks
    <3> DEFINE ticks == ToTicks(time)
    <3>1. ticks \in Nat
      <4>1. TicksPerSec(time.class) \in Nat \ {0} /\ time.sec \in Int /\ time.frac \in Int
        BY TicksPositive, TicksAssumption DEF TimeOK, Longs
      <4>2. Ticks(time) \in Int
        BY <4>1 DEF Ticks
      <4>3. 2 * (LongMax + 1) \in Nat \ {0}
        BY TicksAssumption
      <4> QED BY <4>2, <4>3 DEF ToTicks, Unsigned
    <3>2. \A unit \in Units : ticks \div (NanoPerSec \div UnitsPerSec(unit)) \in Nat
      <4> HIDE DEF ticks
      <4> TAKE unit \in Units
      <4>1. NanoPerSec \div UnitsPerSec(unit) \in Nat \ {0}
        BY UnitScale
      <4> HIDE <4>1
      <4> DEFINE k == NanoPerSec \div UnitsPerSec(unit)
      <4>2. k \in Nat \ {0}
        BY <4>1
      <4> HIDE DEF k
      <4>3. ticks \div k \in Nat
        BY <3>1, <4>2, DivMod
      <4> QED BY <4>3 DEF k
    <3> HIDE DEF ticks
    <3>3. "second" \in Units
      BY DEF Units
    <3>4. CASE time' = TimeValFromMicroseconds(ticks)
      BY <3>1, <3>3, <3>4, FromTicksTyped
    <3>5. CASE \E unit \in Units :
                 time' = TimeSpecFromUnits(unit, ticks \div (NanoPerSec \div UnitsPerSec(unit)))
      BY <3>2, <3>5, FromTicksTyped
    <3> QED BY <2>7, <3>4, <3>5 DEF TimeFromTicks, ticks
  <2>8. CASE UNCHANGED time
    BY <2>8
  <2> QED BY <2>1, <2>2, <2>3, <2>4, <2>5, <2>6, <2>7, <2>8 DEF TimeNext
<1> QED BY <1>4, <1>5, PTL DEF TimeSpecification

\* Whatever calls were made before: an Add call adds exactly its argument in
\* whole ticks, or throws and changes nothing.
THEOREM TimeSumsExact == TimeSpecification => []TimeSumExact
<1>1. TimeTypeOK => TimeSumExact
  <2> SUFFICES ASSUME TimeOK(time), NEW unit \in Units, NEW n \in Amounts
               PROVE  LET sum == AddUnits(time, unit, n)
                      IN IF sum.thrown THEN sum.time = time
                         ELSE SumWithin(time, unit, n, -1)
                                => Ticks(sum.time) = TimeSum(time, unit, n)
    BY DEF TimeTypeOK, TimeSumExact
  <2>1. n \in Int
    BY TicksAssumption
  <2>2. PICK c : AddUnits(time, unit, n) = Add(time, c) /\ Accounts(time, c, unit, n)
    BY <2>1, CallsAccount
  <2>3. Add(time, c).thrown => Add(time, c).time = time
    BY DEF Add
  <2>4. ~Add(time, c).thrown /\ SumWithin(time, unit, n, -1)
          => Ticks(Add(time, c).time) = TimeSum(time, unit, n)
    BY <2>1, <2>2, AddExact
  <2> QED BY <2>2, <2>3, <2>4
<1> QED BY <1>1, TimeTypeCorrect, PTL

-----------------------------------------------------------------------------
(* Differences.                                                            *)

LEMMA EvenHalf ==
  ASSUME NEW n \in Nat, n % 2 = 0
  PROVE  \E k \in Nat : n = 2 * k
<1>1. n \div 2 \in Nat /\ n = 2 * (n \div 2)
  OBVIOUS
<1> QED BY <1>1

\* A number below DoubleSize has the ulp 1, and one up to twice that at most 2.
LEMMA SmallUlps ==
  ASSUME NEW n \in Nat, n < 2 * DoubleSize
  PROVE  /\ UlpOf(n) \in {1, 2}
         /\ n < DoubleSize => UlpOf(n) = 1
<1>1. DoubleSize \in Nat /\ Ulps \subseteq Nat \ {0}
  BY TicksAssumption
<1>2. ASSUME NEW p \in Ulps, IsUlp(p, n)
      PROVE  p \in {1, 2} /\ (n < DoubleSize => p = 1)
  <2>1. p \in Nat \ {0} /\ (p = 1 \/ p % 2 = 0)
    BY <1>1, DoublesAssumption
  <2>2. n < p * DoubleSize /\ (p = 1 \/ 2 * n >= p * DoubleSize)
    BY <1>2 DEF IsUlp
  <2>3. ASSUME p \notin {1, 2} PROVE FALSE
    <3>1. p >= 4
      BY <2>1, <2>3
    <3>2. PICK r \in Nat : p = 4 + r
      <4>1. p - 4 \in Nat /\ p = 4 + (p - 4)
        BY <2>1, <3>1
      <4> QED BY <4>1
    <3>3. p * DoubleSize = 4 * DoubleSize + r * DoubleSize
      BY <1>1, <3>2
    <3>4. r * DoubleSize \in Nat
      BY <1>1
    <3> QED BY <1>1, <2>2, <2>3, <3>3, <3>4
  <2>4. ASSUME n < DoubleSize, p = 2 PROVE FALSE
    BY <1>1, <2>2, <2>4
  <2> QED BY <2>3, <2>4
<1>3. CASE \E p \in Ulps : IsUlp(p, n)
  <2>1. UlpOf(n) \in Ulps /\ IsUlp(UlpOf(n), n)
    BY <1>3 DEF UlpOf
  <2> QED BY <1>2, <2>1
<1>4. CASE ~\E p \in Ulps : IsUlp(p, n)
  BY <1>4 DEF UlpOf
<1> QED BY <1>3, <1>4

\* Doubles hold every integer up to DoubleSize, and the even ones up to twice that.
LEMMA DoubleExact ==
  ASSUME NEW a \in Int, \/ -DoubleSize <= a /\ a <= DoubleSize
                        \/ /\ -2 * DoubleSize < a /\ a < 2 * DoubleSize
                           /\ \E k \in Int : a = 2 * k
  PROVE  Double(a) = a
<1>1. DoubleSize \in Nat /\ MicroPerSec \in Nat \ {0}
  BY TicksAssumption, TicksPositive
<1>2. DoubleSize > 0
  BY <1>1, DoublesAssumption
<1>3. ASSUME NEW n \in Nat,
             n < DoubleSize \/ (n < 2 * DoubleSize /\ \E k \in Int : n = 2 * k)
      PROVE  Nearest(n, UlpOf(n)) = n
  <2>1. UlpOf(n) \in {1, 2} /\ (n < DoubleSize => UlpOf(n) = 1)
    BY <1>1, <1>2, <1>3, SmallUlps
  <2>2. Nearest(n, 1) = n
    <3>1. n \div 1 = n /\ n % 1 = 0
      OBVIOUS
    <3> QED BY <3>1 DEF Nearest
  <2>3. ASSUME NEW k \in Int, n = 2 * k PROVE Nearest(n, 2) = n
    <3>1. n \div 2 = k /\ n % 2 = 0
      BY <2>3
    <3> QED BY <2>3, <3>1 DEF Nearest
  <2> QED BY <1>3, <2>1, <2>2, <2>3
<1>4. \E k \in Int : DoubleSize = 2 * k
  BY <1>1, DoublesAssumption, EvenHalf
<1>5. CASE a >= 0
  <2>1. a \in Nat /\ (a < DoubleSize \/ (a < 2 * DoubleSize /\ \E k \in Int : a = 2 * k))
    BY <1>1, <1>2, <1>4, <1>5
  <2> QED BY <1>3, <1>5, <2>1 DEF Double
<1>6. CASE a < 0
  <2>1. PICK n \in Nat : n = -a
    <3>1. -a \in Nat
      BY <1>6
    <3> QED BY <3>1
  <2>2. n < DoubleSize \/ (n < 2 * DoubleSize /\ \E k \in Int : n = 2 * k)
    <3>1. CASE -DoubleSize <= a
      BY <1>1, <1>2, <1>4, <2>1, <3>1
    <3>2. CASE -2 * DoubleSize < a /\ \E k \in Int : a = 2 * k
      <4>1. PICK k \in Int : a = 2 * k
        BY <3>2
      <4>2. -k \in Int /\ n = 2 * (-k)
        BY <2>1, <4>1
      <4> QED BY <1>1, <2>1, <3>2, <4>2
    <3> QED BY <1>6, <3>1, <3>2
  <2>3. Nearest(-a, UlpOf(-a)) = n
    BY <1>3, <2>1, <2>2
  <2> QED BY <1>6, <2>1, <2>3 DEF Double
<1> QED BY <1>5, <1>6

\* Ticks that fit a double are not rounded on the way there.
LEMMA DoubleTicksExact ==
  ASSUME NEW t, TimeOK(t), t.class = "TimeVal",
         -DoubleSize <= Ticks(t), Ticks(t) <= DoubleSize
  PROVE  DoubleTicks(t) = Ticks(t)
<1> DEFINE M == MicroPerSec
           s == t.sec
           f == t.frac
<1>1. /\ M \in Nat \ {0} /\ DoubleSize \in Nat /\ s \in Int /\ f \in Int
      /\ M < DoubleSize /\ M % 2 = 0
  BY TicksPositive, TicksAssumption, DoublesAssumption DEF TimeOK, Longs
<1>2. -M < f /\ f <= M /\ Ticks(t) = s * M + f
  BY DEF TimeOK, TicksPerSec, Ticks
<1>3. DoubleTicks(t) = Double(Double(Double(s) * M) + f)
  BY DEF DoubleTicks
<1> HIDE DEF M, s, f
<1>4. PICK x \in Int : x = s * M
  BY <1>1
<1>5. -2 * DoubleSize < x /\ x < 2 * DoubleSize /\ -DoubleSize <= x + f /\ x + f <= DoubleSize
  BY <1>1, <1>2, <1>4
<1>6. PICK half \in Nat : M = 2 * half /\ half >= 1
  <2>1. PICK half \in Nat : M = 2 * half
    BY <1>1, EvenHalf
  <2> QED BY <1>1, <2>1
<1>7. x = 2 * (s * half) /\ s * half \in Int
  BY <1>1, <1>4, <1>6
<1>8. -DoubleSize <= s /\ s <= DoubleSize
  <2>1. PICK y \in Int : y = s * half
    BY <1>7
  <2>2. PICK h \in Nat : half = h + 1
    <3>1. half - 1 \in Nat /\ half = (half - 1) + 1
      BY <1>6
    <3> QED BY <3>1
  <2>3. y = s + s * h
    BY <1>1, <2>1, <2>2
  <2>4. s * h \in Int /\ (s >= 0 => s * h >= 0) /\ (s <= 0 => s * h <= 0)
    BY <1>1
  <2>5. -DoubleSize < y /\ y < DoubleSize
    BY <1>1, <1>5, <1>7, <2>1
  <2> QED BY <1>1, <2>3, <2>4, <2>5
<1>9. Double(s) = s
  BY <1>1, <1>8, DoubleExact
<1>10. Double(x) = x
  BY <1>5, <1>7, DoubleExact
<1>11. Double(x + f) = x + f
  BY <1>1, <1>5, DoubleExact
<1> QED BY <1>2, <1>3, <1>4, <1>9, <1>10, <1>11

\* A tick count that fits a signed one is not changed by making it unsigned.
LEMMA WrapUnsigned ==
  ASSUME NEW a \in Longs
  PROVE  WrapLong(Unsigned(a)) = a
<1>1. PICK M \in Nat \ {0} : M = 2 * (LongMax + 1)
  <2>1. 2 * (LongMax + 1) \in Nat \ {0}
    BY TicksAssumption
  <2> QED BY <2>1
<1>2. LongMax \in Nat /\ a \in Int /\ -LongMax - 1 <= a /\ a <= LongMax
  BY TicksAssumption DEF Longs
<1>3. CASE a >= 0
  <2>1. a % M = a
    BY <1>1, <1>2, <1>3
  <2>2. Unsigned(a) = a
    BY <1>1, <2>1 DEF Unsigned
  <2> QED BY <1>2, <2>2, WrapLongType
<1>4. CASE a < 0
  <2>1. PICK b \in Nat : b = a + M /\ b < M
    <3>1. a + M \in Nat /\ a + M < M
      BY <1>1, <1>2, <1>4
    <3> QED BY <3>1
  <2>2. a % M = b
    BY <1>1, <1>2, <2>1
  <2>3. PICK c \in Nat : c = a + LongMax + 1 /\ c < M
    <3>1. a + LongMax + 1 \in Nat /\ a + LongMax + 1 < M
      BY <1>1, <1>2, <1>4
    <3> QED BY <3>1
  <2>4. b + LongMax + 1 = c + M
    BY <1>1, <1>2, <2>1, <2>3
  <2>5. (c + M) % M = c
    BY <1>1, <2>3
  <2>6. WrapLong(Unsigned(a)) = c - LongMax - 1
    <3>1. Unsigned(a) = b
      BY <1>1, <2>2 DEF Unsigned
    <3>2. Unsigned(b + LongMax + 1) = c
      BY <1>1, <2>4, <2>5 DEF Unsigned
    <3> QED BY <3>1, <3>2 DEF WrapLong
  <2> QED BY <1>2, <2>3, <2>6
<1> QED BY <1>2, <1>3, <1>4

\* Normal values of a class are ordered as their ticks.
LEMMA CompareTicks ==
  ASSUME NEW lhs, NEW rhs, TimeOK(lhs), TimeOK(rhs), rhs.class = lhs.class,
         Normal(lhs), Normal(rhs)
  PROVE  TimeSpecCompare(lhs, rhs) >= 0 <=> Ticks(lhs) >= Ticks(rhs)
<1> DEFINE N == TicksPerSec(lhs.class)
<1>1. /\ N \in Nat \ {0} /\ lhs.sec \in Int /\ rhs.sec \in Int
      /\ lhs.frac \in Int /\ rhs.frac \in Int
  BY TicksPositive, TicksAssumption DEF TimeOK, Longs
<1>2. /\ 0 <= lhs.frac /\ lhs.frac < N /\ 0 <= rhs.frac /\ rhs.frac < N
      /\ Ticks(lhs) = lhs.sec * N + lhs.frac /\ Ticks(rhs) = rhs.sec * N + rhs.frac
  BY DEF Normal, Ticks
<1> HIDE DEF N
<1>3. ASSUME NEW a \in Int, NEW b \in Int, a < b PROVE (b - a) * N >= N /\ b * N = a * N + (b - a) * N
  <2>1. PICK d \in Nat : b - a = d + 1
    <3>1. b - a - 1 \in Nat /\ b - a = (b - a - 1) + 1
      BY <1>3
    <3> QED BY <3>1
  <2>2. (d + 1) * N = d * N + N /\ d * N >= 0
    BY <1>1
  <2>3. b = a + (b - a)
    BY <1>3
  <2>4. b * N = a * N + (d + 1) * N
    BY <1>1, <2>1, <2>3
  <2>5. d * N \in Nat
    BY <1>1
  <2> QED BY <1>1, <2>1, <2>2, <2>4, <2>5
<1>4. PICK x \in Int, y \in Int : x = lhs.sec * N /\ y = rhs.sec * N
  BY <1>1
<1>5. CASE lhs.sec > rhs.sec
  <2>1. x >= y + N
    <3>1. PICK z \in Int : z = (lhs.sec - rhs.sec) * N
      BY <1>1
    <3>2. z >= N /\ x = y + z
      BY <1>1, <1>3, <1>4, <1>5, <3>1
    <3> QED BY <1>1, <3>2
  <2>2. Ticks(lhs) >= Ticks(rhs)
    BY <1>1, <1>2, <1>4, <2>1
  <2>3. TimeSpecCompare(lhs, rhs) = 1
    BY <1>1, <1>5 DEF TimeSpecCompare
  <2> QED BY <2>2, <2>3
<1>6. CASE lhs.sec < rhs.sec
  <2>1. y >= x + N
    <3>1. PICK z \in Int : z = (rhs.sec - lhs.sec) * N
      BY <1>1
    <3>2. z >= N /\ y = x + z
      BY <1>1, <1>3, <1>4, <1>6, <3>1
    <3> QED BY <1>1, <3>2
  <2>2. ~(Ticks(lhs) >= Ticks(rhs))
    BY <1>1, <1>2, <1>4, <2>1
  <2>3. TimeSpecCompare(lhs, rhs) = -1
    BY <1>1, <1>6 DEF TimeSpecCompare
  <2> QED BY <2>2, <2>3
<1>7. CASE lhs.sec = rhs.sec
  <2>1. TimeSpecCompare(lhs, rhs) = IF lhs.frac > rhs.frac THEN 1
                                    ELSE IF lhs.frac < rhs.frac THEN -1 ELSE 0
    BY <1>1, <1>7 DEF TimeSpecCompare
  <2> QED BY <1>1, <1>2, <1>4, <1>7, <2>1
<1> QED BY <1>1, <1>5, <1>6, <1>7

\* A tick count that the subtraction of its class is exact for.
Exact(class, n) == IF class = "TimeVal" THEN Abs(n) <= DoubleSize ELSE n = WrapLong(n)

LEMMA DifferenceExact ==
  ASSUME NEW lhs, NEW rhs, TimeOK(lhs), TimeOK(rhs), lhs.class \in {"TimeVal", "TimeSpec"},
         rhs.class = lhs.class,
         Exact(lhs.class, Ticks(lhs)), Exact(lhs.class, Ticks(rhs)),
         Exact(lhs.class, Ticks(lhs) - Ticks(rhs))
  PROVE  LET d == GetDifference(lhs, rhs)
         IN /\ d.frac \in Int /\ Ticks(d) = Ticks(lhs) - Ticks(rhs)
            /\ Abs(d.frac) < TicksPerSec(lhs.class)
            /\ d.sec * d.frac >= 0
<1> DEFINE N == TicksPerSec(lhs.class)
<1>1. /\ N \in Nat \ {0} /\ LongMax \in Nat /\ DoubleSize \in Nat /\ DoubleSize <= LongMax
      /\ \A n \in Longs : n \in Int
  BY TicksPositive, TicksAssumption, DoublesAssumption DEF TimeOK, Longs
<1>2. PICK a \in Int, b \in Int : a = Ticks(lhs) /\ b = Ticks(rhs)
  <2>1. lhs.sec \in Int /\ rhs.sec \in Int /\ lhs.frac \in Int /\ rhs.frac \in Int
    BY TicksAssumption DEF TimeOK, Longs
  <2>2. Ticks(lhs) = lhs.sec * N + lhs.frac /\ Ticks(rhs) = rhs.sec * N + rhs.frac
    BY DEF Ticks
  <2> HIDE DEF N
  <2>3. Ticks(lhs) \in Int /\ Ticks(rhs) \in Int
    BY <1>1, <2>1, <2>2
  <2> QED BY <2>3
<1>3. PICK n \in Int : n = a - b
  BY <1>2
<1>4. n \in Longs /\ GetDifference(lhs, rhs) = Time(lhs.class, Quot(n, N), Rem(n, N))
  <2>1. CASE lhs.class = "TimeVal"
    <3>1. \A m \in Int : Abs(m) <= DoubleSize => -DoubleSize <= m /\ m <= DoubleSize
      BY <1>1 DEF Abs
    <3>2. \A m \in {a, b, n} : -DoubleSize <= m /\ m <= DoubleSize
      BY <1>2, <1>3, <2>1, <3>1 DEF Exact
    <3>3. DoubleTicks(lhs) = a /\ DoubleTicks(rhs) = b
      BY <1>2, <2>1, <3>2, DoubleTicksExact
    <3>4. Double(a - b) = n
      BY <1>2, <1>3, <3>2, DoubleExact
    <3>5. n \in Longs
      BY <1>1, <1>3, <3>2 DEF Longs
    <3>6. Quot(n, MicroPerSec) \in Longs
      BY <3>5, TicksPositive, QuotLong
    <3>7. GetDifference(lhs, rhs) = Time("TimeVal", Quot(n, MicroPerSec), Rem(n, MicroPerSec))
      BY <2>1, <3>3, <3>4, <3>6 DEF GetDifference, TimeValGetDifference, DoubleToLong
    <3> QED BY <2>1, <3>5, <3>7 DEF TicksPerSec
  <2>2. CASE lhs.class = "TimeSpec"
    <3>1. \A m \in {a, b, n} : m = WrapLong(m)
      BY <1>2, <1>3, <2>2 DEF Exact
    <3>2. \A m \in {a, b, n} : m \in Longs
      BY <1>2, <1>3, <3>1, WrapLongType
    <3>3. WrapLong(ToTicks(lhs)) = a /\ WrapLong(ToTicks(rhs)) = b
      BY <1>2, <3>2, WrapUnsigned DEF ToTicks
    <3>4. WrapLong(a - b) = n
      BY <1>3, <3>1
    <3>5. GetDifference(lhs, rhs) = Time("TimeSpec", Quot(n, NanoPerSec), Rem(n, NanoPerSec))
      BY <2>2, <3>3, <3>4 DEF GetDifference, TimeSpecGetDifference
    <3> QED BY <2>2, <3>2, <3>5 DEF TicksPerSec
  <2> QED BY <2>1, <2>2
<1> HIDE DEF N
<1>5. PICK q \in Int, r \in Int :
        /\ q = Quot(n, N) /\ r = Rem(n, N) /\ n = N * q + r /\ -N < r /\ r < N
        /\ n >= 0 => r >= 0 /\ q >= 0
        /\ n <= 0 => r <= 0 /\ q <= 0
  BY <1>1, <1>3, QuotRem
<1>6. q * r >= 0
  <2>1. q >= 0 /\ r >= 0 => q * r >= 0
    OBVIOUS
  <2>2. q <= 0 /\ r <= 0 => q * r >= 0
    OBVIOUS
  <2> QED BY <1>3, <1>5, <2>1, <2>2
<1>7. Abs(r) < N
  BY <1>1, <1>5 DEF Abs
<1>8. Ticks(Time(lhs.class, q, r)) = q * N + r
  BY DEF Ticks, Time, N
<1>9. q * N + r = n
  BY <1>1, <1>5
<1> QED BY <1>2, <1>3, <1>4, <1>5, <1>6, <1>7, <1>8, <1>9 DEF Time, N

\* Whatever calls were made before: a difference added to what was subtracted gives what it
\* was taken from, with seconds and fraction of one sign, and GetDifferenceAbs is the
\* distance; where the tick counts fit 64 bits (TimeSpec.cpp:450), or a double, which all the
\* roundings on the way to them then leave alone (TimeVal.cpp:385).
THEOREM TimeDifferencesExact == TimeSpecification => []TimeDifferenceExact
<1>1. \A class \in {"TimeVal", "TimeSpec"} : \A t \in OtherTimes(class) :
        TimeOK(t) /\ Normal(t) /\ t.class = class
  <2> SUFFICES ASSUME NEW class \in {"TimeVal", "TimeSpec"}, NEW sec \in Others,
                      NEW frac \in {0, TicksPerSec(class) - 1}
               PROVE  LET t == Time(class, sec, frac)
                      IN TimeOK(t) /\ Normal(t) /\ t.class = class
    BY DEF OtherTimes
  <2>1. TicksPerSec(class) \in Nat \ {0} /\ sec \in Longs /\ class \in Classes
    BY TicksPositive, TicksAssumption DEF Classes
  <2>2. frac \in Int /\ 0 <= frac /\ frac < TicksPerSec(class) /\ -TicksPerSec(class) < frac
    BY <2>1
  <2>3. TimeOK(Time(class, sec, frac))
    BY <2>1, <2>2, TimeMade
  <2> QED BY <2>2, <2>3 DEF Normal, Time
<1>2. TimeTypeOK => TimeDifferenceExact
  <2> SUFFICES ASSUME TimeOK(time), time.class # "TimeT", NEW other \in OtherTimes(time.class),
                      \A n \in {Ticks(time), Ticks(other), Ticks(time) - Ticks(other),
                                Ticks(other) - Ticks(time)} : Exact(time.class, n)
               PROVE  LET between == GetDifference(time, other)
                          apart   == GetDifferenceAbs(time, other)
                      IN /\ Ticks(other) + Ticks(between) = Ticks(time)
                         /\ Abs(between.frac) < TicksPerSec(time.class)
                         /\ between.sec * between.frac >= 0
                         /\ Normal(time) => Ticks(apart) = Abs(Ticks(time) - Ticks(other))
    BY DEF TimeTypeOK, TimeDifferenceExact, Exact
  <2>1. time.class \in {"TimeVal", "TimeSpec"}
    BY DEF TimeOK, Classes
  <2>2. TimeOK(other) /\ Normal(other) /\ other.class = time.class
    BY <1>1, <2>1
  <2>3. PICK a \in Int, b \in Int : a = Ticks(time) /\ b = Ticks(other)
    <3>1. /\ TicksPerSec(time.class) \in Nat \ {0} /\ time.sec \in Int /\ time.frac \in Int
          /\ other.sec \in Int /\ other.frac \in Int
      BY <2>2, TicksPositive, TicksAssumption DEF TimeOK, Longs
    <3>2. Ticks(time) \in Int /\ Ticks(other) \in Int
      BY <2>2, <3>1 DEF Ticks
    <3> QED BY <3>2
  <2>4. LET d == GetDifference(time, other)
        IN /\ Ticks(d) = a - b /\ Abs(d.frac) < TicksPerSec(time.class) /\ d.sec * d.frac >= 0
    BY <2>1, <2>2, <2>3, DifferenceExact
  <2>5. Ticks(GetDifference(other, time)) = b - a
    BY <2>1, <2>2, <2>3, DifferenceExact
  <2>6. ASSUME Normal(time) PROVE Ticks(GetDifferenceAbs(time, other)) = Abs(a - b)
    <3>1. TimeSpecCompare(time, other) >= 0 <=> a >= b
      BY <2>2, <2>3, <2>6, CompareTicks
    <3>2. CASE a >= b
      <4>1. GetDifferenceAbs(time, other) = GetDifference(time, other)
        BY <3>1, <3>2 DEF GetDifferenceAbs
      <4>2. Abs(a - b) = a - b
        BY <3>2 DEF Abs
      <4> QED BY <2>4, <4>1, <4>2
    <3>3. CASE a < b
      <4>1. GetDifferenceAbs(time, other) = GetDifference(other, time)
        BY <3>1, <3>3 DEF GetDifferenceAbs
      <4>2. Abs(a - b) = b - a
        BY <3>3 DEF Abs
      <4> QED BY <2>5, <4>1, <4>2
    <3> QED BY <3>2, <3>3
  <2>7. b + (a - b) = a
    OBVIOUS
  <2> QED BY <2>3, <2>4, <2>6, <2>7
<1> QED BY <1>2, TimeTypeCorrect, PTL

-----------------------------------------------------------------------------
(* The range check of a sum of seconds, which is made in doubles.  Between *)
(* LongMax + 1 and twice that these are the multiples of 2 * top, and half *)
(* as far apart below.                                                     *)

LEMMA TopDoubles ==
  \E top \in Nat : /\ top \in Ulps /\ 2 * top \in Ulps /\ top >= 2 /\ top % 2 = 0
                   /\ LongMax + 1 = top * DoubleSize
<1>1. PICK top \in Ulps : LongMax + 1 = top * DoubleSize /\ 2 * top \in Ulps
  BY DoublesAssumption
<1>2. top \in Nat \ {0} /\ DoubleSize \in Nat /\ LongMax \in Nat /\ DoubleSize <= LongMax
  BY TicksAssumption, DoublesAssumption
<1>3. top # 1
  <2> SUFFICES ASSUME top = 1 PROVE FALSE
    OBVIOUS
  <2>1. LongMax + 1 = DoubleSize
    BY <1>1, <1>2
  <2> QED BY <1>2, <2>1
<1>4. top % 2 = 0
  BY <1>3, DoublesAssumption
<1> QED BY <1>1, <1>2, <1>3, <1>4

\* The ulp that is chosen is one, or one that fits.
LEMMA UlpFits ==
  ASSUME NEW a \in Nat
  PROVE  /\ UlpOf(a) \in Nat \ {0}
         /\ UlpOf(a) = 1 \/ (UlpOf(a) \in Ulps /\ UlpOf(a) * DoubleSize <= 2 * a)
         /\ \A p \in Ulps : IsUlp(p, a) => UlpOf(a) = p
<1>1. Ulps \subseteq Nat \ {0} /\ DoubleSize \in Nat /\ 1 \in Ulps
  BY TicksAssumption, DoublesAssumption
<1>2. ASSUME NEW p \in Ulps, NEW q \in Ulps, IsUlp(p, a), IsUlp(q, a), p < q PROVE FALSE
  <2>1. 2 * p <= q /\ p \in Nat \ {0} /\ q \in Nat \ {0}
    BY <1>1, <1>2, DoublesAssumption
  <2>2. a < p * DoubleSize /\ 2 * a >= q * DoubleSize
    BY <1>2, <2>1 DEF IsUlp
  <2>3. (2 * p) * DoubleSize <= q * DoubleSize
    <3>1. q - 2 * p \in Nat
      BY <2>1
    <3>2. (q - 2 * p) * DoubleSize >= 0
      BY <1>1, <3>1
    <3>3. (q - 2 * p) * DoubleSize = q * DoubleSize - (2 * p) * DoubleSize
      BY <1>1, <2>1
    <3>4. q * DoubleSize \in Int /\ (2 * p) * DoubleSize \in Int
      BY <1>1, <2>1
    <3> QED BY <3>2, <3>3, <3>4
  <2>4. (2 * p) * DoubleSize = 2 * (p * DoubleSize)
    BY <1>1, <2>1
  <2>5. p * DoubleSize \in Int /\ q * DoubleSize \in Int
    BY <1>1, <2>1
  <2> QED BY <2>2, <2>3, <2>4, <2>5
<1>3. CASE \E p \in Ulps : IsUlp(p, a)
  <2>1. UlpOf(a) \in Ulps /\ IsUlp(UlpOf(a), a)
    BY <1>3 DEF UlpOf
  <2>2. UlpOf(a) \in Nat \ {0}
    BY <1>1, <2>1
  <2>3. UlpOf(a) = 1 \/ UlpOf(a) * DoubleSize <= 2 * a
    <3>1. PICK u \in Nat \ {0} : u = UlpOf(a)
      BY <2>2
    <3>2. u * DoubleSize \in Int
      BY <1>1, <3>1
    <3> QED BY <2>1, <3>1, <3>2 DEF IsUlp
  <2>4. ASSUME NEW p \in Ulps, IsUlp(p, a) PROVE UlpOf(a) = p
    <3>1. ~(p < UlpOf(a)) /\ ~(UlpOf(a) < p)
      BY <1>2, <2>1, <2>4
    <3>2. p \in Nat
      BY <1>1
    <3> QED BY <2>2, <3>1, <3>2
  <2> QED BY <2>1, <2>2, <2>3, <2>4
<1>4. CASE ~\E p \in Ulps : IsUlp(p, a)
  BY <1>4 DEF UlpOf
<1> QED BY <1>3, <1>4

\* Rounding moves a number by half an ulp at most, and not at all below half an
\* ulp from a multiple.
LEMMA NearestBounds ==
  ASSUME NEW a \in Nat, NEW p \in Nat \ {0}
  PROVE  /\ Nearest(a, p) \in Nat
         /\ 2 * (Nearest(a, p) - a) <= p /\ 2 * (a - Nearest(a, p)) <= p
         /\ p = 1 => Nearest(a, p) = a
<1> DEFINE low  == a \div p
           part == a % p
           up   == 2 * part > p \/ (2 * part = p /\ low % 2 = 1)
<1>1. low \in Nat /\ part \in 0 .. p - 1 /\ a = p * low + part
  BY DivMod
<1>2. Nearest(a, p) = IF up THEN (low + 1) * p ELSE low * p
  BY DEF Nearest
<1>3. up => 2 * part >= p
  BY <1>1
<1>4. ~up => 2 * part <= p
  BY <1>1
<1> HIDE DEF low, part, up
<1>5. (low + 1) * p = low * p + p /\ p * low = low * p /\ low * p \in Nat
  BY <1>1
<1>6. CASE up
  <2>1. Nearest(a, p) = low * p + p
    BY <1>2, <1>5, <1>6
  <2> QED BY <1>1, <1>3, <1>5, <1>6, <2>1
<1>7. CASE ~up
  <2>1. Nearest(a, p) = low * p
    BY <1>2, <1>7
  <2> QED BY <1>1, <1>4, <1>5, <1>7, <2>1
<1> QED BY <1>6, <1>7

LEMMA NearestMultiple ==
  ASSUME NEW p \in Nat \ {0}, NEW k \in Nat, NEW r \in Nat, 2 * r < p
  PROVE  Nearest(k * p + r, p) = k * p
<1>1. (k * p + r) \div p = k /\ (k * p + r) % p = r
  <2>1. k * p + r \in Nat /\ r \in 0 .. p - 1
    OBVIOUS
  <2> DEFINE a == k * p + r
             q == a \div p
             s == a % p
  <2>2. q \in Nat /\ s \in 0 .. p - 1 /\ a = p * q + s
    BY <2>1, DivMod
  <2>3. (q - k) * p = r - s
    BY <2>1, <2>2
  <2> HIDE DEF q, s
  <2>4. (q - k) * p < 1 * p /\ (-1) * p < (q - k) * p
    BY <2>1, <2>2, <2>3
  <2>5. q - k < 1 /\ -1 < q - k
    <3>1. q - k \in Int
      BY <2>2
    <3> QED BY <2>4, <3>1, ProductOrder
  <2>6. q = k
    BY <2>2, <2>5
  <2>7. s = r
    BY <2>1, <2>2, <2>3, <2>6
  <2> QED BY <2>6, <2>7 DEF q, s
<1> QED BY <1>1 DEF Nearest

\* top is how far apart the largest doubles are that are less than LongMax + 1.
IsTop(top) ==
  /\ top \in Nat /\ top \in Ulps /\ 2 * top \in Ulps /\ top >= 2 /\ top % 2 = 0
  /\ LongMax + 1 = top * DoubleSize

\* A number below the end of the longs has an ulp of top at most, and at the
\* end begins the next one.
LEMMA UlpsAtTheTop ==
  ASSUME NEW top, IsTop(top), NEW a \in Nat
  PROVE  /\ a < LongMax + 1 => UlpOf(a) <= top
         /\ LongMax + 1 <= a /\ a < 2 * (LongMax + 1) => UlpOf(a) = 2 * top
         /\ LongMax + 1 <= 2 * a /\ a < LongMax + 1 => UlpOf(a) = top
<1>1. /\ DoubleSize \in Nat /\ LongMax \in Nat /\ Ulps \subseteq Nat \ {0}
      /\ top \in Nat \ {0} /\ top \in Ulps /\ 2 * top \in Ulps /\ top >= 2
      /\ LongMax + 1 = top * DoubleSize
  BY TicksAssumption DEF IsTop
<1>2. /\ UlpOf(a) \in Nat \ {0}
      /\ UlpOf(a) = 1 \/ (UlpOf(a) \in Ulps /\ UlpOf(a) * DoubleSize <= 2 * a)
      /\ \A p \in Ulps : IsUlp(p, a) => UlpOf(a) = p
  BY UlpFits
<1>3. (2 * top) * DoubleSize = 2 * (LongMax + 1)
  BY <1>1
<1>4. ASSUME a < LongMax + 1, UlpOf(a) > top PROVE FALSE
  <2>1. PICK u \in Nat \ {0} : u = UlpOf(a)
    BY <1>2
  <2>2. u \in Ulps /\ u * DoubleSize <= 2 * a /\ u > top
    BY <1>1, <1>2, <1>4, <2>1
  <2>3. 2 * top <= u
    BY <1>1, <2>2, DoublesAssumption
  <2>4. PICK r \in Nat : u = 2 * top + r
    <3>1. u - 2 * top \in Nat /\ u = 2 * top + (u - 2 * top)
      BY <1>1, <2>1, <2>3
    <3> QED BY <3>1
  <2>5. u * DoubleSize = (2 * top) * DoubleSize + r * DoubleSize /\ r * DoubleSize \in Nat
    BY <1>1, <2>4
  <2> QED BY <1>1, <1>3, <1>4, <2>2, <2>5
<1>5. ASSUME LongMax + 1 <= a, a < 2 * (LongMax + 1) PROVE UlpOf(a) = 2 * top
  <2>1. IsUlp(2 * top, a)
    BY <1>1, <1>3, <1>5 DEF IsUlp
  <2> QED BY <1>1, <1>2, <2>1
<1>6. ASSUME LongMax + 1 <= 2 * a, a < LongMax + 1 PROVE UlpOf(a) = top
  <2>1. IsUlp(top, a)
    BY <1>1, <1>6 DEF IsUlp
  <2> QED BY <1>1, <1>2, <2>1
<1>7. UlpOf(a) \in Int /\ top \in Int
  BY <1>1, <1>2
<1> QED BY <1>4, <1>5, <1>6, <1>7

LEMMA FourDoubles == DoubleSize \in Nat /\ DoubleSize >= 4 /\ \E k \in Nat : DoubleSize = 2 * k
<1>1. DoubleSize \in Nat /\ DoubleSize % 2 = 0
  BY TicksAssumption, DoublesAssumption
<1>2. MicroPerSec >= 2
  <2>1. MilliPerSec \in Nat /\ MilliPerSec >= 2 /\ MicroPerMilli \in Nat /\ MicroPerMilli >= 1
    BY TicksAssumption
  <2>2. MilliPerSec * MicroPerMilli >= MilliPerSec * 1
    BY <2>1
  <2> QED BY <2>1, <2>2 DEF MicroPerSec
<1>3. MicroPerSec \in Nat /\ MicroPerSec < DoubleSize
  BY TicksPositive, DoublesAssumption
<1>4. PICK k \in Nat : DoubleSize = 2 * k
  BY <1>1, EvenHalf
<1> QED BY <1>1, <1>2, <1>3, <1>4

\* Half a top beyond the end of the longs a number is still rounded to that end,
\* and a whole top beyond it no longer is.
LEMMA DoublesAtTheTop ==
  ASSUME NEW top, IsTop(top), NEW a \in Nat
  PROVE  /\ Double(a) \in Nat
         /\ LongMax + 1 <= a /\ 2 * (a - (LongMax + 1)) <= top => Double(a) = LongMax + 1
         /\ a <= LongMax + 1 => 2 * (Double(a) - a) <= top /\ 2 * (a - Double(a)) <= top
         /\ 2 * (a - (LongMax + 1)) <= top => Double(a) <= LongMax + 1
         /\ LongMax + 1 + top < a => LongMax + 1 < Double(a)
<1> DEFINE T == LongMax + 1
           u == UlpOf(a)
           x == Nearest(a, u)
<1>1. /\ T \in Nat /\ Ulps \subseteq Nat \ {0}
      /\ top \in Nat \ {0} /\ top \in Ulps /\ 2 * top \in Ulps /\ top >= 2
      /\ T = top * DoubleSize
  BY TicksAssumption DEF IsTop
<1>2. DoubleSize \in Nat /\ DoubleSize >= 4 /\ \E k \in Nat : DoubleSize = 2 * k
  BY FourDoubles
<1>3. /\ u \in Nat \ {0}
      /\ u = 1 \/ (u \in Ulps /\ u * DoubleSize <= 2 * a)
  BY UlpFits
<1>4. /\ a < T => u <= top
      /\ T <= a /\ a < 2 * T => u = 2 * top
  BY UlpsAtTheTop
<1>5. Double(a) = x
  BY DEF Double
<1>6. x \in Nat /\ 2 * (x - a) <= u /\ 2 * (a - x) <= u /\ (u = 1 => x = a)
  BY <1>3, NearestBounds
<1>t. top * DoubleSize >= 4 * top
  <2>1. PICK r \in Nat : DoubleSize = 4 + r
    <3>1. DoubleSize - 4 \in Nat /\ DoubleSize = 4 + (DoubleSize - 4)
      BY <1>2
    <3> QED BY <3>1
  <2>2. top * DoubleSize = top * 4 + top * r /\ top * r \in Nat
    BY <1>1, <2>1
  <2> QED BY <1>1, <2>2
<1>7. ASSUME T <= a, 2 * (a - T) <= top PROVE x = T
  <2>1. u = 2 * top
    BY <1>1, <1>4, <1>t, <1>7
  <2>2. PICK k \in Nat : DoubleSize = 2 * k
    BY <1>2
  <2>3. T = k * (2 * top)
    BY <1>1, <2>2
  <2>4. PICK r \in Nat : a = T + r
    <3>1. a - T \in Nat /\ a = T + (a - T)
      BY <1>1, <1>7
    <3> QED BY <3>1
  <2>5. 2 * r < 2 * top /\ 2 * top \in Nat \ {0}
    BY <1>1, <1>7, <2>4
  <2>6. Nearest(k * (2 * top) + r, 2 * top) = k * (2 * top)
    BY <2>5, NearestMultiple
  <2> QED BY <2>1, <2>3, <2>4, <2>6
<1>8. ASSUME T + top < a PROVE T < x
  <2>1. CASE u <= 2 * top
    <3> HIDE DEF T, x, u
    <3> QED BY <1>1, <1>3, <1>6, <1>8, <2>1
  <2>2. CASE u > 2 * top
    <3>1. u \in Ulps /\ u * DoubleSize <= 2 * a
      BY <1>1, <1>3, <2>2
    <3>2. 4 * top <= u
      <4>1. 2 * (2 * top) <= u
        BY <1>1, <2>2, <3>1, DoublesAssumption
      <4> QED BY <1>1, <1>3, <4>1
    <3>3. PICK r \in Nat : u = 4 * top + r
      <4>1. u - 4 * top \in Nat /\ u = 4 * top + (u - 4 * top)
        BY <1>1, <1>3, <3>2
      <4> QED BY <4>1
    <3>4. u * DoubleSize = 4 * T + r * DoubleSize /\ r * DoubleSize \in Nat
      BY <1>1, <1>2, <3>3
    <3>5. 2 * a >= 4 * T
      BY <1>1, <3>1, <3>4
    <3>6. PICK d \in Nat : DoubleSize = 4 + d
      <4>1. DoubleSize - 4 \in Nat /\ DoubleSize = 4 + (DoubleSize - 4)
        BY <1>2
      <4> QED BY <4>1
    <3>7. u * DoubleSize = u * 4 + u * d /\ u * d \in Nat
      BY <1>3, <3>6
    <3>8. 4 * u <= 2 * a
      BY <1>3, <3>1, <3>7
    <3> HIDE DEF T, x, u
    <3> QED BY <1>1, <1>3, <1>6, <1>t, <3>5, <3>8
  <2> QED BY <1>1, <1>3, <2>1, <2>2
<1>9. ASSUME a <= T PROVE 2 * (x - a) <= top /\ 2 * (a - x) <= top
  <2>1. CASE a < T
    <3>1. u <= top
      BY <1>4, <2>1
    <3> HIDE DEF T, x, u
    <3> QED BY <1>1, <1>3, <1>6, <3>1
  <2>2. CASE a = T
    <3>1. x = T
      BY <1>1, <1>7, <2>2
    <3> HIDE DEF T, x, u
    <3> QED BY <1>1, <2>2, <3>1
  <2> QED BY <1>1, <1>9, <2>1, <2>2
<1>10. ASSUME 2 * (a - T) <= top PROVE x <= T
  <2>1. CASE T <= a
    BY <1>1, <1>7, <1>10, <2>1
  <2>2. CASE a < T /\ u = top
    <3>0. x = (a \div top) * top \/ x = (a \div top + 1) * top
      BY <2>2 DEF Nearest
    <3>1. /\ a \div top \in Nat /\ a = top * (a \div top) + (a % top)
          /\ a % top \in 0 .. top - 1
      BY <1>1, DivMod
    <3>2. PICK q \in Nat : q = a \div top
      BY <3>1
    <3>3. q * top <= a /\ q * top \in Nat
      BY <1>1, <3>1, <3>2
    <3>4. q * top < DoubleSize * top
      BY <1>1, <1>2, <2>2, <3>3
    <3>5. q < DoubleSize
      BY <1>1, <1>2, <3>4, ProductOrder
    <3>6. PICK r \in Nat : DoubleSize = q + 1 + r
      <4>1. DoubleSize - q - 1 \in Nat /\ DoubleSize = q + 1 + (DoubleSize - q - 1)
        BY <1>2, <3>5
      <4> QED BY <4>1
    <3>7. T = (q + 1) * top + r * top /\ r * top \in Nat
      BY <1>1, <3>6
    <3>8. (q + 1) * top = q * top + top
      BY <1>1
    <3> HIDE DEF T, x, u
    <3> QED BY <1>1, <3>0, <3>2, <3>3, <3>7, <3>8
  <2>3. CASE a < T /\ u # top
    <3>1. 2 * u <= top
      <4>1. u < top
        BY <1>1, <1>3, <1>4, <2>3
      <4>2. CASE u = 1
        BY <1>1, <4>2
      <4>3. CASE u # 1
        BY <1>1, <1>3, <4>1, <4>3, DoublesAssumption
      <4> QED BY <4>2, <4>3
    <3>2. 2 * a <= T \/ u = top
      BY <1>1, UlpsAtTheTop, <2>3
    <3> HIDE DEF T, x, u
    <3> QED BY <1>1, <1>3, <1>6, <1>t, <2>3, <3>1, <3>2
  <2> QED BY <1>1, <2>1, <2>2, <2>3
<1> HIDE DEF x
<1> QED BY <1>5, <1>6, <1>7, <1>8, <1>9, <1>10

\* Rounding is the same on both sides of zero.
LEMMA DoubleNegative ==
  ASSUME NEW a \in Nat
  PROVE  Double(-a) = -Double(a) /\ Double(a) \in Nat
<1>1. Double(a) = Nearest(a, UlpOf(a)) /\ Double(a) \in Nat
  BY UlpFits, NearestBounds DEF Double
<1>2. CASE a = 0
  <2>1. 2 * (0 - Double(0)) <= UlpOf(0) /\ 2 * (Double(0) - 0) <= UlpOf(0)
    BY <1>1, <1>2, UlpFits, NearestBounds
  <2>2. Double(0) = 0
    BY FourDoubles, DoubleExact
  <2> QED BY <1>1, <1>2, <2>2
<1>3. CASE a # 0
  <2>1. ~(-a >= 0) /\ -(-a) = a
    BY <1>3
  <2> QED BY <1>1, <2>1 DEF Double
<1> QED BY <1>2, <1>3

\* The two ends of the longs, as doubles.
LEMMA DoublesOfTheEnds ==
  ASSUME NEW top, IsTop(top)
  PROVE  Double(-LongMax - 1) = -LongMax - 1 /\ Double(LongMax) = LongMax + 1
<1>1. /\ DoubleSize \in Nat /\ LongMax \in Nat
      /\ top \in Nat \ {0} /\ top >= 2 /\ LongMax + 1 = top * DoubleSize
  BY TicksAssumption DEF IsTop
<1>2. Double(LongMax + 1) = LongMax + 1
  BY <1>1, DoublesAtTheTop
<1>3. Double(-(LongMax + 1)) = -(LongMax + 1)
  BY <1>1, <1>2, DoubleNegative
<1>4. Double(LongMax) = LongMax + 1
  <2>1. UlpOf(LongMax) = top
    BY <1>1, UlpsAtTheTop
  <2>2. PICK k \in Nat : DoubleSize = 2 * (k + 1)
    <3>1. PICK m \in Nat : DoubleSize = 2 * m
      BY FourDoubles
    <3>2. m - 1 \in Nat /\ DoubleSize = 2 * ((m - 1) + 1)
      BY <3>1, FourDoubles
    <3> QED BY <3>2
  <2>3. LongMax = (2 * k + 1) * top + (top - 1)
    BY <1>1, <2>2
  <2>4. LongMax \div top = 2 * k + 1 /\ LongMax % top = top - 1
    <3>1. /\ LongMax \div top \in Nat /\ LongMax % top \in 0 .. top - 1
          /\ LongMax = top * (LongMax \div top) + (LongMax % top)
      BY <1>1, DivMod
    <3>2. PICK q \in Nat, r \in Nat : q = LongMax \div top /\ r = LongMax % top
      BY <3>1
    <3>3. (q - (2 * k + 1)) * top = top - 1 - r /\ r <= top - 1
      BY <1>1, <2>3, <3>1, <3>2
    <3>4. (q - (2 * k + 1)) * top < 1 * top /\ (-1) * top < (q - (2 * k + 1)) * top
      BY <1>1, <3>2, <3>3
    <3>5. q - (2 * k + 1) < 1 /\ -1 < q - (2 * k + 1)
      <4>1. q - (2 * k + 1) \in Int
        BY <3>2
      <4> QED BY <1>1, <3>4, <4>1, ProductOrder
    <3>6. q = 2 * k + 1
      BY <3>2, <3>5
    <3>7. r = top - 1
      BY <1>1, <3>2, <3>3, <3>6
    <3> QED BY <3>2, <3>6, <3>7
  <2>5. (2 * k + 1) % 2 = 1
    BY <2>2
  <2>6. 2 * (top - 1) > top \/ 2 * (top - 1) = top
    BY <1>1
  <2>7. Nearest(LongMax, top) = (2 * k + 1 + 1) * top
    BY <2>4, <2>5, <2>6 DEF Nearest
  <2>8. (2 * k + 1 + 1) * top = LongMax + 1
    BY <1>1, <2>2
  <2> QED BY <1>1, <2>1, <2>7, <2>8 DEF Double
<1>5. -(LongMax + 1) = -LongMax - 1
  BY <1>1
<1> QED BY <1>3, <1>4, <1>5

\* What is refused does not fit a long, and what is let through misses it by one
\* and a half top at most: half of one for the seconds, one for the sum.
LEMMA AllowedMeans ==
  ASSUME NEW top, IsTop(top), NEW sec \in Longs, NEW n \in -DoubleSize .. DoubleSize
  PROVE  /\ SecondsAllowed(sec, n) => /\ 2 * (sec + n) <= 2 * (LongMax + 1) + 3 * top
                                      /\ -(2 * (LongMax + 1) + 3 * top) <= 2 * (sec + n)
         /\ sec + n \in Longs => SecondsAllowed(sec, n)
<1> DEFINE T   == LongMax + 1
           sum == Double(sec) + n
<1>1. LongMax \in Nat /\ T \in Nat /\ T = LongMax + 1 /\ top \in Nat /\ DoubleSize \in Nat
  BY TicksAssumption DEF IsTop
<1>2. Double(-LongMax - 1) = -T /\ Double(LongMax) = T
  BY <1>1, DoublesOfTheEnds
<1>3. n \in Int /\ Double(n) = n
  BY <1>1, DoubleExact
<1>4. sec \in Int /\ -T <= sec /\ sec < T
  BY <1>1, TicksAssumption DEF Longs
<1>5. Double(sec) \in Int /\ 2 * (Double(sec) - sec) <= top /\ 2 * (sec - Double(sec)) <= top
  <2>1. CASE sec >= 0
    <3>1. sec \in Nat
      BY <1>4, <2>1
    <3> QED BY <1>1, <1>4, <3>1, DoublesAtTheTop
  <2>2. CASE sec < 0
    <3>1. PICK a \in Nat : a = -sec
      <4>1. -sec \in Nat
        BY <1>4, <2>2
      <4> QED BY <4>1
    <3>2. sec = -a /\ a <= T
      BY <1>1, <1>4, <3>1
    <3>3. Double(sec) = -Double(a) /\ Double(a) \in Nat
      BY <3>1, <3>2, DoubleNegative
    <3>4. 2 * (Double(a) - a) <= top /\ 2 * (a - Double(a)) <= top
      BY <3>2, DoublesAtTheTop
    <3> QED BY <1>1, <3>1, <3>2, <3>3, <3>4
  <2> QED BY <1>4, <2>1, <2>2
<1>6. SecondsAllowed(sec, n) <=> (-T <= Double(sum) /\ Double(sum) <= T)
  BY <1>2, <1>3 DEF SecondsAllowed
<1>7. sum \in Int
  BY <1>3, <1>5
<1> HIDE DEF T
<1>8. PICK s \in Int : s = sum
  BY <1>7
<1>9. ASSUME -T <= Double(s), Double(s) <= T PROVE s <= T + top /\ -(T + top) <= s
  <2>1. CASE s >= 0
    <3>1. s \in Nat
      BY <2>1
    <3>2. ~(T + top < s)
      BY <1>1, <1>9, <3>1, DoublesAtTheTop
    <3> QED BY <1>1, <2>1, <3>2
  <2>2. CASE s < 0
    <3>1. PICK a \in Nat : a = -s
      <4>1. -s \in Nat
        BY <2>2
      <4> QED BY <4>1
    <3>2. Double(s) = -Double(a) /\ Double(a) \in Nat
      <4>1. s = -a
        BY <3>1
      <4> QED BY <4>1, DoubleNegative
    <3>3. ~(T + top < a)
      <4>1. Double(a) <= T
        BY <1>1, <1>9, <3>2
      <4> QED BY <1>1, <3>1, <3>2, <4>1, DoublesAtTheTop
    <3> QED BY <1>1, <2>2, <3>1, <3>3
  <2> QED BY <2>1, <2>2
<1>10. ASSUME 2 * (s - T) <= top, 2 * (-s - T) <= top
       PROVE  -T <= Double(s) /\ Double(s) <= T
  <2>1. CASE s >= 0
    <3>1. s \in Nat
      BY <2>1
    <3>2. Double(s) \in Nat /\ Double(s) <= T
      BY <1>1, <1>10, <3>1, DoublesAtTheTop
    <3> QED BY <1>1, <3>2
  <2>2. CASE s < 0
    <3>1. PICK a \in Nat : a = -s
      <4>1. -s \in Nat
        BY <2>2
      <4> QED BY <4>1
    <3>2. Double(s) = -Double(a) /\ Double(a) \in Nat
      <4>1. s = -a
        BY <3>1
      <4> QED BY <4>1, DoubleNegative
    <3>3. Double(a) <= T
      <4>1. 2 * (a - T) <= top
        BY <1>10, <3>1
      <4> QED BY <1>1, <3>1, <4>1, DoublesAtTheTop
    <3> QED BY <1>1, <3>2, <3>3
  <2> QED BY <2>1, <2>2
<1>11. sec + n \in Longs => -T <= sec + n /\ sec + n < T
  BY <1>1, TicksAssumption DEF Longs
<1>12. SecondsAllowed(sec, n) <=> (-T <= Double(s) /\ Double(s) <= T)
  BY <1>6, <1>8
<1>13. PICK d \in Int : d = Double(sec)
  BY <1>5
<1>14. s = d + n /\ 2 * (d - sec) <= top /\ 2 * (sec - d) <= top
  BY <1>5, <1>8, <1>13
<1>15. sec + n \in Longs => 2 * (s - T) <= top /\ 2 * (-s - T) <= top
  BY <1>1, <1>3, <1>4, <1>11, <1>14
<1>16. s <= T + top /\ -(T + top) <= s
       => 2 * (sec + n) <= 2 * T + 3 * top /\ -(2 * T + 3 * top) <= 2 * (sec + n)
  BY <1>1, <1>3, <1>4, <1>14
<1> QED BY <1>1, <1>9, <1>10, <1>12, <1>15, <1>16

\* What a call adds to the seconds of a normal value is no larger than its argument.
LEMMA SecondsBounded ==
  ASSUME NEW t, TimeOK(t), Normal(t), NEW c, NEW unit \in Units, NEW n \in Amounts,
         Accounts(t, c, unit, n)
  PROVE  c.secs \in -DoubleSize .. DoubleSize
<1> DEFINE N == TicksPerSec(t.class)
           U == UnitsPerSec(unit)
           q == Quot(n * N, U)
<1>1. /\ N \in Nat \ {0} /\ U \in Nat \ {0} /\ DoubleSize \in Nat
      /\ n \in Int /\ -DoubleSize <= n /\ n <= DoubleSize
  BY TicksPositive, TicksAssumption, DoublesAssumption DEF TimeOK
<1>2. /\ c.secs \in Int /\ c.frac \in Int /\ t.frac \in Int
      /\ c.secs * N + c.frac = t.frac + q
      /\ 0 <= c.frac /\ c.frac < N /\ 0 <= t.frac /\ t.frac < N
  BY DEF Accounts, TicksAdded, Normal, TimeOK
<1>3. n * N \in Int
  BY <1>1
<1>4. /\ q \in Int /\ Rem(n * N, U) \in Int
      /\ n * N = U * q + Rem(n * N, U)
      /\ -U < Rem(n * N, U) /\ Rem(n * N, U) < U
      /\ n * N >= 0 => Rem(n * N, U) >= 0 /\ q >= 0
      /\ n * N <= 0 => Rem(n * N, U) <= 0 /\ q <= 0
  BY <1>1, <1>3, QuotRem
<1> HIDE DEF N, U, q
<1>5. n * N <= DoubleSize * N /\ -(DoubleSize * N) <= n * N
  <2>1. (DoubleSize - n) * N >= 0 /\ (DoubleSize + n) * N >= 0
    BY <1>1
  <2>2. (DoubleSize - n) * N = DoubleSize * N - n * N
    BY <1>1
  <2>3. (DoubleSize + n) * N = DoubleSize * N + n * N
    BY <1>1
  <2>4. DoubleSize * N \in Int
    BY <1>1
  <2> QED BY <1>3, <2>1, <2>2, <2>3, <2>4
<1>6. q <= DoubleSize * N /\ -(DoubleSize * N) <= q
  <2>1. q >= 0 => U * q >= q
    <3> SUFFICES ASSUME q >= 0 PROVE U * q >= q
      OBVIOUS
    <3>1. (U - 1) * q >= 0 /\ (U - 1) * q = U * q - q
      BY <1>1, <1>4
    <3>2. U * q \in Int
      BY <1>1, <1>4
    <3> QED BY <1>4, <3>1, <3>2
  <2>2. q <= 0 => U * q <= q
    <3> SUFFICES ASSUME q <= 0 PROVE U * q <= q
      OBVIOUS
    <3>1. (U - 1) * (-q) >= 0 /\ (U - 1) * (-q) = q - U * q
      BY <1>1, <1>4
    <3>2. U * q \in Int
      BY <1>1, <1>4
    <3> QED BY <1>4, <3>1, <3>2
  <2>3. PICK m \in Int, d \in Int, w \in Int, r \in Int :
          m = n * N /\ d = DoubleSize * N /\ w = U * q /\ r = Rem(n * N, U)
    BY <1>1, <1>3, <1>4
  <2>4. /\ m = w + r /\ m <= d /\ -d <= m
        /\ (m >= 0 => r >= 0 /\ q >= 0) /\ (m <= 0 => r <= 0 /\ q <= 0)
        /\ (q >= 0 => w >= q) /\ (q <= 0 => w <= q)
    BY <1>4, <1>5, <2>1, <2>2, <2>3
  <2>5. q <= d /\ -d <= q
    BY <1>4, <2>4
  <2> QED BY <2>3, <2>5
<1>7. c.secs * N < (DoubleSize + 1) * N /\ (-DoubleSize - 1) * N < c.secs * N
  <2>1. (DoubleSize + 1) * N = DoubleSize * N + N /\ (-DoubleSize - 1) * N = -(DoubleSize * N) - N
    BY <1>1
  <2>2. DoubleSize * N \in Int /\ c.secs * N \in Int
    BY <1>1, <1>2
  <2> QED BY <1>1, <1>2, <1>4, <1>6, <2>1, <2>2
<1>8. c.secs < DoubleSize + 1 /\ -DoubleSize - 1 < c.secs
  <2>1. DoubleSize + 1 \in Int /\ -DoubleSize - 1 \in Int
    BY <1>1
  <2> QED BY <1>1, <1>2, <1>7, <2>1, ProductOrder
<1> QED BY <1>1, <1>2, <1>8

\* Whatever calls were made before: an Add call of a normal value refuses no sum
\* that fits a long, and what it lets through beyond is one and a half ulps of
\* the largest doubles below the end of the longs.
THEOREM TimeLimitsChecked == TimeSpecification => []TimeLimitChecked
<1> DEFINE slack == (3 * ((LongMax + 1) \div DoubleSize)) \div 2
<1>1. PICK top : IsTop(top)
  BY TopDoubles DEF IsTop
<1>2. /\ LongMax \in Nat /\ DoubleSize \in Nat \ {0} /\ top \in Nat
      /\ LongMax + 1 = top * DoubleSize /\ top % 2 = 0
  BY <1>1, TicksAssumption, FourDoubles DEF IsTop
<1>3. slack \in Nat /\ 2 * slack = 3 * top
  <2>1. (LongMax + 1) \div DoubleSize = top
    <3>1. (top * DoubleSize) \div DoubleSize = top
      <4>1. /\ (top * DoubleSize) \div DoubleSize \in Nat
            /\ (top * DoubleSize) % DoubleSize \in 0 .. DoubleSize - 1
            /\ top * DoubleSize
                 = DoubleSize * ((top * DoubleSize) \div DoubleSize)
                     + ((top * DoubleSize) % DoubleSize)
        <5> top * DoubleSize \in Nat
          BY <1>2
        <5> QED BY <1>2, DivMod
      <4>2. PICK q \in Nat, r \in 0 .. DoubleSize - 1 :
              q = (top * DoubleSize) \div DoubleSize /\ top * DoubleSize = DoubleSize * q + r
        BY <4>1
      <4>3. (top - q) * DoubleSize = r
        BY <1>2, <4>2
      <4>4. (top - q) * DoubleSize < 1 * DoubleSize /\ (-1) * DoubleSize < (top - q) * DoubleSize
        BY <1>2, <4>2, <4>3
      <4>5. top - q < 1 /\ -1 < top - q
        <5>1. top - q \in Int
          BY <1>2, <4>2
        <5> QED BY <1>2, <4>4, <5>1, ProductOrder
      <4> QED BY <1>2, <4>2, <4>5
    <3> QED BY <1>2, <3>1
  <2>2. PICK h \in Nat : top = 2 * h
    BY <1>2, EvenHalf
  <2>3. (3 * top) \div 2 = 3 * h
    BY <2>2
  <2> QED BY <2>1, <2>2, <2>3
<1> HIDE DEF slack
<1>4. ASSUME TimeOK(time), Normal(time), NEW unit \in Units, NEW n \in Amounts
      PROVE  IF AddUnits(time, unit, n).thrown THEN ~SumWithin(time, unit, n, 0)
             ELSE SumWithin(time, unit, n, slack + 1)
  <2>1. n \in Int
    BY TicksAssumption
  <2>2. PICK c : AddUnits(time, unit, n) = Add(time, c) /\ Accounts(time, c, unit, n)
    BY <1>4, <2>1, CallsAccount
  <2>3. c.secs \in -DoubleSize .. DoubleSize
    BY <1>4, <2>2, SecondsBounded
  <2> DEFINE N == TicksPerSec(time.class)
             x == time.sec + c.secs
             allowed == c.secs # 0 => SecondsAllowed(time.sec, c.secs)
  <2>4. N \in Nat \ {0} /\ time.sec \in Longs /\ time.sec \in Int /\ time.frac \in Int
    BY <1>4, TicksPositive, TicksAssumption DEF TimeOK, Longs
  <2>5. Add(time, c).thrown <=> ~allowed
    BY DEF Add
  <2>6. x \in Int /\ c.frac \in Int /\ 0 <= c.frac /\ c.frac < N
    BY <1>2, <1>4, <2>2, <2>3, <2>4 DEF Accounts
  <2>7. TimeSum(time, unit, n) = x * N + c.frac
    <3>1. c.secs * N + c.frac = time.frac + TicksAdded(time, unit, n)
      BY <2>2 DEF Accounts
    <3>2. TicksAdded(time, unit, n) \in Int
      <4>1. UnitsPerSec(unit) \in Nat \ {0} /\ n * N \in Int
        BY <2>1, <2>4, TicksPositive
      <4> QED BY <4>1, QuotRem DEF TicksAdded
    <3>3. TimeSum(time, unit, n) = time.sec * N + time.frac + TicksAdded(time, unit, n)
      BY DEF TimeSum, Ticks
    <3>4. c.secs \in Int
      BY <1>2, <2>3
    <3> HIDE DEF N
    <3>5. x * N = time.sec * N + c.secs * N /\ time.sec * N \in Int /\ c.secs * N \in Int
      BY <2>4, <3>4
    <3>6. PICK added \in Int : added = TicksAdded(time, unit, n)
      BY <3>2
    <3> HIDE DEF x
    <3>7. c.secs * N + c.frac = time.frac + added
      BY <3>1, <3>6 DEF N
    <3>8. TimeSum(time, unit, n) = time.sec * N + time.frac + added
      BY <3>3, <3>6 DEF N
    <3> QED BY <2>4, <2>6, <3>5, <3>7, <3>8
  <2>8. allowed => /\ 2 * x <= 2 * (LongMax + 1) + 3 * top
                   /\ -(2 * (LongMax + 1) + 3 * top) <= 2 * x
    <3>1. CASE c.secs = 0
      <4>1. x = time.sec
        BY <2>4, <3>1
      <4>2. -LongMax - 1 <= x /\ x <= LongMax
        BY <1>2, <2>4, <4>1 DEF Longs
      <4> HIDE DEF x
      <4> QED BY <1>2, <2>6, <4>2
    <3>2. CASE c.secs # 0
      BY <1>1, <2>3, <2>4, <3>2, AllowedMeans
    <3> QED BY <3>1, <3>2
  <2>9. x \in Longs => allowed
    BY <1>1, <2>3, <2>4, AllowedMeans
  <2> HIDE DEF N, x, allowed
  <2>10. ASSUME allowed PROVE SumWithin(time, unit, n, slack + 1)
    <3>1. x <= LongMax + 1 + slack /\ -(LongMax + 1 + slack) <= x
      BY <1>2, <1>3, <2>6, <2>8, <2>10
    <3> DEFINE e == LongMax + 1 + (slack + 1)
    <3>2. x + 1 <= e /\ -e <= x /\ e \in Int /\ -LongMax - 1 - (slack + 1) = -e
      BY <1>2, <1>3, <2>6, <3>1
    <3> HIDE DEF e
    <3>3. (e - (x + 1)) * N >= 0 /\ (x + e) * N >= 0
      BY <2>4, <2>6, <3>2
    <3>4. (e - (x + 1)) * N = e * N - x * N - N /\ (x + e) * N = x * N + e * N /\ (-e) * N = -(e * N)
      BY <2>4, <2>6, <3>2
    <3>5. e * N \in Int /\ x * N \in Int
      BY <2>4, <2>6, <3>2
    <3>6. (-e) * N <= x * N + c.frac /\ x * N + c.frac < e * N
      BY <2>4, <2>6, <3>3, <3>4, <3>5
    <3> QED BY <2>7, <3>2, <3>6 DEF SumWithin, N, e
  <2>11. ASSUME SumWithin(time, unit, n, 0) PROVE allowed
    <3> DEFINE e == LongMax + 1
    <3>1. e \in Int /\ LongMax + 1 + 0 = e /\ -LongMax - 1 - 0 = -e
      BY <1>2
    <3>2. (-e) * N <= x * N + c.frac /\ x * N + c.frac < e * N
      BY <2>7, <2>11, <3>1 DEF SumWithin, N
    <3> HIDE DEF e
    <3>3. x * N < e * N /\ (-e - 1) * N < x * N
      <4>1. (-e - 1) * N = (-e) * N - N /\ (-e) * N \in Int /\ x * N \in Int /\ e * N \in Int
        BY <2>4, <2>6, <3>1
      <4> QED BY <2>4, <2>6, <3>2, <4>1
    <3>4. x < e /\ -e - 1 < x
      <4>1. -e - 1 \in Int
        BY <3>1
      <4> QED BY <2>4, <2>6, <3>1, <3>3, <4>1, ProductOrder
    <3>5. x \in Longs
      BY <1>2, <2>6, <3>4 DEF Longs, e
    <3> QED BY <2>9, <3>5
  <2> QED BY <2>2, <2>5, <2>10, <2>11
<1>5. TimeTypeOK => TimeLimitChecked
  BY <1>4 DEF TimeTypeOK, TimeLimitChecked, slack
<1> QED BY <1>5, TimeTypeCorrect, PTL

-----------------------------------------------------------------------------
(* Critical events: what an object has saved.                              *)

Dispositions == ProgramHandlers \cup {"SignalHandler"}

\* An object on its way through InstallHandlers and its destructor.
Object(phase, list, left) == [phase |-> phase, list |-> list, left |-> left]
One(x)    == << <<"SIGINT", x>> >>
Two(x, y) == << <<"SIGINT", x>>, <<"SIGTERM", y>> >>

IsObject(o) ==
  \/ o = NoObject
  \/ o = Object("installing", <<>>, <<"SIGINT", "SIGTERM">>)
  \/ \E x \in Dispositions : \/ o = Object("installing", One(x), <<"SIGTERM">>)
                             \/ o = Object("restoring", One(x), <<>>)
  \/ \E x \in Dispositions, y \in Dispositions :
       o = Object("live", Two(x, y), <<>>) \/ o = Object("restoring", Two(x, y), <<>>)

IsHistory(h) ==
  \E order : \E original \in [Signals -> ProgramHandlers], nested \in BOOLEAN,
                leaked \in SUBSET Signals :
    h = [original |-> original, order |-> order, nested |-> nested, leaked |-> leaked]

EventsTyped ==
  /\ disposition \in [Signals -> Dispositions]
  /\ DOMAIN handlers = EventHandlers /\ handlers = [o \in EventHandlers |-> handlers[o]]
  /\ \A o \in EventHandlers : IsObject(handlers[o])
  /\ IsHistory(eventHistory)

Busy(o) == handlers[o].phase \in {"installing", "restoring"}

\* The objects that are built and not being destroyed stand in their order, and only the
\* last one of all can be busy.
InOrder ==
  LET order == eventHistory.order
  IN /\ order \in Seq(EventHandlers)
     /\ \A i, j \in 1 .. Len(order) : order[i] = order[j] => i = j
     /\ \A o \in EventHandlers :
          handlers[o].phase \in {"installing", "live"} <=> \E i \in 1 .. Len(order) : order[i] = o
     /\ \A i \in 1 .. Len(order) - 1 : handlers[order[i]].phase = "live"
     /\ \A o, p \in EventHandlers : Busy(o) /\ Busy(p) => o = p

\* No other object is around this one.
Outermost(o) ==
  IF handlers[o].phase = "restoring" THEN eventHistory.order = <<>> ELSE eventHistory.order[1] = o

\* What the outermost object has saved is what the program had, and what any other one has
\* saved is the class's own handler.
SavedInv ==
  \A o \in EventHandlers : \A i \in DOMAIN handlers[o].list :
    LET signal == handlers[o].list[i][1]
    IN handlers[o].list[i][2] = IF signal \in eventHistory.leaked \/ ~Outermost(o)
                                THEN "SignalHandler" ELSE eventHistory.original[signal]

EventInv == EventsTyped /\ (eventHistory.nested => InOrder /\ SavedInv /\ HandlersInPlace)

LEMMA TwoSignals == Signals = {"SIGINT", "SIGTERM"}
<1>1. signal_set \in Seq({"SIGINT", "SIGTERM"}) /\ Len(signal_set) = 2
      /\ signal_set[1] = "SIGINT" /\ signal_set[2] = "SIGTERM"
  BY DEF signal_set
<1>2. DOMAIN signal_set = {1, 2}
  BY <1>1
<1> QED BY <1>1, <1>2 DEF Signals, ToSet

\* What the phases say about the lists.
LEMMA ObjectLists ==
  ASSUME NEW o, IsObject(o)
  PROVE  /\ o.phase \in {"none", "installing", "live", "restoring"}
         /\ o.phase = "none" => o.list = <<>>
         /\ o.phase = "live" => \A signal \in Signals : \E i \in DOMAIN o.list : o.list[i][1] = signal
         /\ \A i \in DOMAIN o.list : o.list[i][1] \in Signals /\ o.list[i][2] \in Dispositions
         /\ \A i, j \in DOMAIN o.list : o.list[i][1] = o.list[j][1] => i = j
<1> USE TwoSignals DEF Object, One, Two
<1>1. CASE o = NoObject
  BY <1>1 DEF NoObject
<1>2. CASE o = Object("installing", <<>>, <<"SIGINT", "SIGTERM">>)
  BY <1>2
<1>3. ASSUME NEW x \in Dispositions, NEW phase \in {"installing", "restoring"}, NEW left,
             o = Object(phase, One(x), left)
      PROVE  /\ o.phase = phase
             /\ DOMAIN o.list = {1}
             /\ o.list[1] = <<"SIGINT", x>>
  BY <1>3
<1>4. ASSUME NEW x \in Dispositions, NEW y \in Dispositions,
             NEW phase \in {"live", "restoring"},
             o = Object(phase, Two(x, y), <<>>)
      PROVE  /\ o.phase = phase
             /\ DOMAIN o.list = {1, 2}
             /\ o.list[1] = <<"SIGINT", x>> /\ o.list[2] = <<"SIGTERM", y>>
  BY <1>4
<1>5. CASE \E x \in Dispositions : \/ o = Object("installing", One(x), <<"SIGTERM">>)
                                   \/ o = Object("restoring", One(x), <<>>)
  <2>1. PICK x \in Dispositions : \/ o = Object("installing", One(x), <<"SIGTERM">>)
                                  \/ o = Object("restoring", One(x), <<>>)
    BY <1>5
  <2>2. o.phase \in {"installing", "restoring"} /\ DOMAIN o.list = {1} /\ o.list[1] = <<"SIGINT", x>>
    BY <1>3, <2>1
  <2> HIDE DEF Object, One, Two
  <2> QED BY <2>2
<1>6. CASE \E x \in Dispositions, y \in Dispositions :
             o = Object("live", Two(x, y), <<>>) \/ o = Object("restoring", Two(x, y), <<>>)
  <2>1. PICK x \in Dispositions, y \in Dispositions :
             o = Object("live", Two(x, y), <<>>) \/ o = Object("restoring", Two(x, y), <<>>)
    BY <1>6
  <2>2. /\ o.phase \in {"live", "restoring"} /\ DOMAIN o.list = {1, 2}
        /\ o.list[1] = <<"SIGINT", x>> /\ o.list[2] = <<"SIGTERM", y>>
    BY <1>4, <2>1
  <2> HIDE DEF Object, One, Two
  <2> QED BY <2>2
<1> QED BY <1>1, <1>2, <1>5, <1>6 DEF IsObject

\* A turn of the loop of InstallHandlers, for an object that saves x.
Turned(o, x) == [phase |-> IF Len(o.left) = 1 THEN "live" ELSE "installing",
                 list  |-> Append(o.list, <<Head(o.left), x>>),
                 left  |-> Tail(o.left)]

LEMMA AppendShort ==
  ASSUME NEW a, NEW b
  PROVE  Append(<<>>, a) = <<a>> /\ Append(<<a>>, b) = <<a, b>>
<1>1. /\ <<a>> \in Seq({a, b}) /\ <<>> \in Seq({a, b}) /\ <<a, b>> \in Seq({a, b})
      /\ Len(<<a>>) = 1 /\ Len(<<a, b>>) = 2 /\ <<a, b>>[1] = a /\ <<a, b>>[2] = b /\ <<a>>[1] = a
  OBVIOUS
<1>2. Append(<<>>, a) = <<a>>
  BY <1>1
<1>3. /\ Append(<<a>>, b) \in Seq({a, b}) /\ Len(Append(<<a>>, b)) = 2
      /\ Append(<<a>>, b)[1] = a /\ Append(<<a>>, b)[2] = b
  BY <1>1
<1>4. Append(<<a>>, b) = <<a, b>>
  <2>1. PICK s \in Seq({a, b}), t \in Seq({a, b}) : s = Append(<<a>>, b) /\ t = <<a, b>>
    BY <1>1, <1>3
  <2>2. Len(s) = 2 /\ Len(t) = 2 /\ s[1] = t[1] /\ s[2] = t[2]
    BY <1>1, <1>3, <2>1
  <2>3. \A i \in 1 .. Len(s) : s[i] = t[i]
    <3>1. \A i \in 1 .. 2 : i = 1 \/ i = 2
      OBVIOUS
    <3> QED BY <2>2, <3>1
  <2>4. s = t
    BY <2>2, <2>3, SeqEqual
  <2> QED BY <2>1, <2>4
<1> QED BY <1>2, <1>4

LEMMA InstallingTurn ==
  ASSUME NEW o, IsObject(o), o.phase = "installing", NEW x \in Dispositions
  PROVE  /\ IsObject(Turned(o, x)) /\ Turned(o, x).phase \in {"installing", "live"}
         /\ Head(o.left) \in Signals
         /\ \A i \in DOMAIN o.list : o.list[i][1] # Head(o.left)
         /\ DOMAIN Turned(o, x).list = DOMAIN o.list \cup {Len(o.list) + 1}
         /\ Len(o.list) + 1 \notin DOMAIN o.list
         /\ \A i \in DOMAIN o.list : Turned(o, x).list[i] = o.list[i]
         /\ Turned(o, x).list[Len(o.list) + 1] = <<Head(o.left), x>>
<1> USE TwoSignals
<1>1. CASE o = Object("installing", <<>>, <<"SIGINT", "SIGTERM">>)
  <2>1. /\ o.list = <<>> /\ Head(o.left) = "SIGINT" /\ Len(o.left) = 2
        /\ Tail(o.left) = <<"SIGTERM">>
    BY <1>1 DEF Object
  <2>2. Turned(o, x) = Object("installing", One(x), <<"SIGTERM">>)
    <3>1. Append(<<>>, <<"SIGINT", x>>) = One(x)
      BY AppendShort DEF One
    <3>2. Turned(o, x) = [phase |-> "installing", list |-> Append(<<>>, <<"SIGINT", x>>),
                          left |-> <<"SIGTERM">>]
      <4>1. <<Head(o.left), x>> = <<"SIGINT", x>>
        BY <2>1
      <4>2. (IF Len(o.left) = 1 THEN "live" ELSE "installing") = "installing"
        BY <2>1
      <4> QED BY <2>1, <4>1, <4>2, Zenon DEF Turned
    <3> QED BY <3>1, <3>2 DEF Object
  <2>3. IsObject(Turned(o, x))
    BY <2>2 DEF IsObject
  <2> QED BY <2>1, <2>2, <2>3 DEF Object, One
<1>2. CASE \E y \in Dispositions : o = Object("installing", One(y), <<"SIGTERM">>)
  <2>0. PICK y \in Dispositions : o = Object("installing", One(y), <<"SIGTERM">>)
    BY <1>2
  <2>1. /\ o.list = One(y) /\ Head(o.left) = "SIGTERM" /\ Len(o.left) = 1
        /\ Tail(o.left) = <<>> /\ DOMAIN o.list = {1} /\ Len(o.list) = 1
        /\ o.list[1] = <<"SIGINT", y>>
    BY <2>0 DEF Object, One
  <2>2. Append(One(y), <<"SIGTERM", x>>) = Two(y, x)
    BY AppendShort DEF One, Two
  <2>3. Turned(o, x) = Object("live", Two(y, x), <<>>)
    BY <2>1, <2>2 DEF Turned, Object
  <2>4. IsObject(Turned(o, x))
    BY <2>3 DEF IsObject
  <2>5. /\ Turned(o, x).phase = "live" /\ DOMAIN Turned(o, x).list = {1, 2}
        /\ Turned(o, x).list[1] = <<"SIGINT", y>> /\ Turned(o, x).list[2] = <<"SIGTERM", x>>
    BY <2>3 DEF Object, Two
  <2> QED BY <2>1, <2>4, <2>5
<1>3. o.phase # "live" /\ o.phase # "restoring" /\ o.phase # "none"
  OBVIOUS
<1> QED BY <1>1, <1>2, <1>3 DEF IsObject, Object, NoObject

\* A turn of the destructor's loop.
Restored(o) == IF Len(o.list) = 1 THEN NoObject
               ELSE [phase |-> "restoring", list |-> Front(o.list), left |-> <<>>]

LEMMA RestoringTurn ==
  ASSUME NEW o, IsObject(o), o.phase = "restoring"
  PROVE  LET saved == Last(o.list)
         IN /\ IsObject(Restored(o)) /\ Restored(o).phase \in {"none", "restoring"}
            /\ \E i \in DOMAIN o.list : saved = o.list[i]
            /\ saved[1] \in Signals /\ saved[2] \in Dispositions
            /\ \A i \in DOMAIN Restored(o).list :
                 i \in DOMAIN o.list /\ Restored(o).list[i] = o.list[i] /\ o.list[i][1] # saved[1]
            /\ \A i \in DOMAIN o.list : o.list[i][1] # saved[1] => i \in DOMAIN Restored(o).list
<1> USE TwoSignals
<1>1. CASE \E x \in Dispositions : o = Object("restoring", One(x), <<>>)
  <2>0. PICK x \in Dispositions : o = Object("restoring", One(x), <<>>)
    BY <1>1
  <2>1. o.list = One(x) /\ Len(o.list) = 1 /\ DOMAIN o.list = {1} /\ o.list[1] = <<"SIGINT", x>>
    BY <2>0 DEF Object, One
  <2>2. Restored(o) = NoObject /\ Last(o.list) = <<"SIGINT", x>>
    BY <2>1 DEF Restored, Last
  <2>3. NoObject.phase = "none" /\ DOMAIN NoObject.list = {} /\ IsObject(NoObject)
    BY DEF NoObject, IsObject
  <2> QED BY <2>1, <2>2, <2>3
<1>2. CASE \E x \in Dispositions, y \in Dispositions : o = Object("restoring", Two(x, y), <<>>)
  <2>0. PICK x \in Dispositions, y \in Dispositions : o = Object("restoring", Two(x, y), <<>>)
    BY <1>2
  <2>1. /\ o.list = Two(x, y) /\ Len(o.list) = 2 /\ DOMAIN o.list = {1, 2}
        /\ o.list[1] = <<"SIGINT", x>> /\ o.list[2] = <<"SIGTERM", y>>
    BY <2>0 DEF Object, Two
  <2>2. Front(o.list) = One(x)
    <3>1. Front(o.list) = SubSeq(o.list, 1, 1)
      BY <2>1 DEF Front
    <3> QED BY <2>1, <3>1 DEF One, Two
  <2>3. Restored(o) = Object("restoring", One(x), <<>>)
    BY <2>0, <2>1, <2>2 DEF Restored, Object
  <2>4. Last(o.list) = <<"SIGTERM", y>>
    BY <2>1 DEF Last
  <2>5. IsObject(Restored(o))
    BY <2>3 DEF IsObject
  <2>6. /\ Restored(o).phase = "restoring" /\ DOMAIN Restored(o).list = {1}
        /\ Restored(o).list[1] = <<"SIGINT", x>>
    BY <2>3 DEF Object, One
  <2> QED BY <2>1, <2>4, <2>5, <2>6
<1> QED BY <1>1, <1>2 DEF IsObject, Object, NoObject

\* What a step on one object leaves to be shown.
LEMMA OneObject ==
  ASSUME EventsTyped, NEW object \in EventHandlers, NEW o, IsObject(o),
         handlers' = [handlers EXCEPT ![object] = o],
         disposition' \in [Signals -> Dispositions], IsHistory(eventHistory')
  PROVE  /\ EventsTyped'
         /\ handlers'[object] = o
         /\ \A other \in EventHandlers : other # object => handlers'[other] = handlers[other]
<1>1. /\ handlers'[object] = o
      /\ \A other \in EventHandlers : other # object => handlers'[other] = handlers[other]
      /\ DOMAIN handlers' = EventHandlers
      /\ handlers' = [other \in EventHandlers |-> handlers'[other]]
  <2>1. handlers' = [other \in EventHandlers |-> IF other = object THEN o ELSE handlers[other]]
    BY DEF EventsTyped
  <2> QED BY <2>1
<1>2. \A other \in EventHandlers : IsObject(handlers'[other])
  BY <1>1 DEF EventsTyped
<1> QED BY <1>1, <1>2 DEF EventsTyped

\* Something is on a list if it is on the outermost object's, which all others are inside of.
LEMMA AroundLists ==
  ASSUME EventsTyped, InOrder, Len(eventHistory.order) > 1
  PROVE  \A signal \in Signals : Listed(eventHistory.order[1], signal)
<1> DEFINE order == eventHistory.order
           first == order[1]
<1>1. order \in Seq(EventHandlers) /\ 1 \in 1 .. Len(order) - 1
  BY DEF InOrder
<1>2. handlers[first].phase = "live" /\ first \in EventHandlers
  BY <1>1 DEF InOrder
<1>3. IsObject(handlers[first])
  BY <1>2 DEF EventsTyped
<1> QED BY <1>2, <1>3, ObjectLists DEF Listed

LEMMA BuildStep ==
  ASSUME EventInv, NEW object \in EventHandlers, CriticalEventHandler(object)
  PROVE  EventInv'
<1> DEFINE o == Object("installing", <<>>, <<"SIGINT", "SIGTERM">>)
           h == eventHistory
<1>1. /\ handlers[object].phase = "none" /\ handlers' = [handlers EXCEPT ![object] = o]
      /\ disposition' = disposition
      /\ h' = [h EXCEPT !.order = Append(@, object), !.nested = @ /\ Alone(object)]
  BY DEF CriticalEventHandler, Object, signal_set
<1>2. EventsTyped
  BY DEF EventInv
<1>3. /\ h'.original = h.original /\ h'.leaked = h.leaked /\ h'.order = Append(h.order, object)
      /\ h'.nested => h.nested /\ Alone(object)
      /\ IsHistory(h')
  <2>0. PICK order : \E original \in [Signals -> ProgramHandlers], nested \in BOOLEAN,
                          leaked \in SUBSET Signals :
          h = [original |-> original, order |-> order, nested |-> nested, leaked |-> leaked]
    BY <1>2 DEF EventsTyped, IsHistory
  <2>1. PICK original \in [Signals -> ProgramHandlers], nested \in BOOLEAN,
             leaked \in SUBSET Signals :
          h = [original |-> original, order |-> order, nested |-> nested, leaked |-> leaked]
    BY <2>0
  <2>2. PICK alone \in BOOLEAN : alone = Alone(object)
    BY DEF Alone
  <2>3. h' = [original |-> original, order |-> Append(order, object),
              nested |-> nested /\ alone, leaked |-> leaked]
    BY <1>1, <2>1, <2>2
  <2>4. (nested /\ alone) \in BOOLEAN
    BY <2>1, <2>2
  <2> QED BY <2>1, <2>2, <2>3, <2>4 DEF IsHistory
<1>4. IsObject(o) /\ o.phase = "installing" /\ o.list = <<>>
  BY DEF IsObject, Object
<1> HIDE DEF o
<1>5. /\ EventsTyped' /\ handlers'[object] = o
      /\ \A other \in EventHandlers : other # object => handlers'[other] = handlers[other]
  <2>1. disposition' \in [Signals -> Dispositions]
    BY <1>1, <1>2 DEF EventsTyped
  <2> QED BY <1>1, <1>2, <1>3, <1>4, <2>1, OneObject
<1>6. ASSUME h'.nested PROVE InOrder' /\ SavedInv' /\ HandlersInPlace'
  <2>1. InOrder /\ SavedInv /\ HandlersInPlace /\ h.nested
        /\ \A other \in EventHandlers : other # object => handlers[other].phase \in {"none", "live"}
    BY <1>3, <1>6 DEF EventInv, Alone
  <2>2. PICK s \in Seq(EventHandlers) : s = h.order
    BY <2>1 DEF InOrder
  <2>3. PICK t \in Seq(EventHandlers) :
          /\ t = h'.order /\ Len(t) = Len(s) + 1 /\ t[Len(s) + 1] = object
          /\ \A i \in 1 .. Len(s) : t[i] = s[i]
    <3>1. h'.order = Append(s, object)
      BY <1>3, <2>2
    <3> QED BY <3>1, AppendProperties
  <2>4. handlers[object].list = <<>>
    BY <1>1, <1>2, ObjectLists DEF EventsTyped
  <2>5. /\ \A i, j \in 1 .. Len(s) : s[i] = s[j] => i = j
        /\ \A x \in EventHandlers :
             handlers[x].phase \in {"installing", "live"} <=> \E i \in 1 .. Len(s) : s[i] = x
    BY <2>1, <2>2 DEF InOrder
  <2>6. \A i \in 1 .. Len(s) : s[i] # object
    BY <1>1, <2>5
  <2>7. \A i \in 1 .. Len(t) : i \in 1 .. Len(s) \/ i = Len(s) + 1
    BY <2>3
  <2>a. \A i, j \in 1 .. Len(t) : t[i] = t[j] => i = j
    BY <2>3, <2>5, <2>6, <2>7
  <2>b. \A x \in EventHandlers :
          handlers'[x].phase \in {"installing", "live"} <=> \E i \in 1 .. Len(t) : t[i] = x
    <3> TAKE x \in EventHandlers
    <3>1. CASE x = object
      <4>1. Len(s) + 1 \in 1 .. Len(t)
        BY <2>3
      <4> QED BY <1>4, <1>5, <2>3, <3>1, <4>1
    <3>2. CASE x # object
      <4>1. (\E i \in 1 .. Len(t) : t[i] = x) <=> \E i \in 1 .. Len(s) : s[i] = x
        <5>1. \A i \in 1 .. Len(s) : i \in 1 .. Len(t)
          BY <2>3
        <5> QED BY <2>3, <2>7, <3>2, <5>1
      <4> QED BY <1>5, <2>5, <3>2, <4>1
    <3> QED BY <3>1, <3>2
  <2>c. \A i \in 1 .. Len(t) - 1 : handlers'[t[i]].phase = "live"
    <3> TAKE i \in 1 .. Len(t) - 1
    <3>1. i \in 1 .. Len(s) /\ t[i] = s[i] /\ s[i] \in EventHandlers /\ s[i] # object
      BY <2>3, <2>6
    <3>2. handlers[s[i]].phase \in {"installing", "live"}
      BY <2>5, <3>1
    <3> QED BY <1>5, <2>1, <3>1, <3>2
  <2>d. \A x, y \in EventHandlers : Busy(x)' /\ Busy(y)' => x = y
    BY <1>5, <2>1 DEF Busy
  <2>8. InOrder'
    BY <2>3, <2>a, <2>b, <2>c, <2>d DEF InOrder
  <2>9. SavedInv'
    <3> SUFFICES ASSUME NEW x \in EventHandlers, NEW i \in DOMAIN handlers'[x].list
                 PROVE  handlers'[x].list[i][2] =
                          IF handlers'[x].list[i][1] \in h'.leaked \/ ~Outermost(x)'
                          THEN "SignalHandler" ELSE h'.original[handlers'[x].list[i][1]]
      BY DEF SavedInv
    <3>1. x # object
      BY <1>4, <1>5
    <3>2. handlers'[x] = handlers[x] /\ handlers[x].phase = "live"
      <4>1. IsObject(handlers[x]) /\ handlers'[x] = handlers[x] /\ handlers[x].list # <<>>
        BY <1>2, <1>5, <3>1 DEF EventsTyped
      <4> QED BY <2>1, <3>1, <4>1, ObjectLists
    <3>3. PICK j \in 1 .. Len(s) : s[j] = x
      BY <2>5, <3>2
    <3>4. 1 \in 1 .. Len(s) /\ t[1] = s[1]
      BY <2>3, <3>3
    <3>5. Outermost(x)' <=> Outermost(x)
      BY <2>2, <2>3, <3>2, <3>4 DEF Outermost
    <3> QED BY <1>3, <2>1, <3>2, <3>5 DEF SavedInv
  <2>10. HandlersInPlace'
    <3>1. \A x \in EventHandlers, signal \in Signals : Listed(x, signal)' <=> Listed(x, signal)
      BY <1>4, <1>5, <2>4 DEF Listed
    <3> QED BY <1>1, <1>3, <2>1, <3>1 DEF HandlersInPlace
  <2> QED BY <2>8, <2>9, <2>10
<1> QED BY <1>5, <1>6 DEF EventInv

\* Steps that change one object and leave the order of all as it is.
LEMMA SameOrder ==
  ASSUME EventsTyped, InOrder, NEW object \in EventHandlers,
         eventHistory' = eventHistory,
         \A other \in EventHandlers : other # object => handlers'[other] = handlers[other],
         \/ handlers[object].phase = "installing" /\ handlers'[object].phase \in {"installing", "live"}
         \/ handlers[object].phase = "restoring" /\ handlers'[object].phase \in {"none", "restoring"}
  PROVE  InOrder'
<1>1. PICK s \in Seq(EventHandlers) : s = eventHistory.order /\ s = eventHistory'.order
  BY DEF InOrder
<1>2. /\ \A i, j \in 1 .. Len(s) : s[i] = s[j] => i = j
      /\ \A x \in EventHandlers :
           handlers[x].phase \in {"installing", "live"} <=> \E i \in 1 .. Len(s) : s[i] = x
      /\ \A i \in 1 .. Len(s) - 1 : handlers[s[i]].phase = "live"
      /\ \A x, y \in EventHandlers : Busy(x) /\ Busy(y) => x = y
  BY <1>1 DEF InOrder
<1>3. \A x \in EventHandlers :
        handlers'[x].phase \in {"installing", "live"} <=> handlers[x].phase \in {"installing", "live"}
  OBVIOUS
<1>4. \A i \in 1 .. Len(s) - 1 : handlers'[s[i]].phase = "live"
  <2> TAKE i \in 1 .. Len(s) - 1
  <2>1. i \in 1 .. Len(s) /\ s[i] \in EventHandlers
    BY <1>1
  <2> QED BY <1>2, <2>1
<1>5. \A x \in EventHandlers : Busy(x)' => Busy(x)
  BY DEF Busy
<1>6. \A x, y \in EventHandlers : Busy(x)' /\ Busy(y)' => x = y
  BY <1>2, <1>5
<1> QED BY <1>1, <1>2, <1>3, <1>4, <1>6 DEF InOrder

\* While an object is busy, the others that are on the way are live and around it.
LEMMA OnlyAround ==
  ASSUME EventsTyped, InOrder, NEW object \in EventHandlers, Busy(object)
  PROVE  /\ \A other \in EventHandlers : other # object => handlers[other].phase \in {"none", "live"}
         /\ \A signal \in Signals :
              (\E other \in EventHandlers : other # object /\ Listed(other, signal)) <=> ~Outermost(object)
<1>1. PICK s \in Seq(EventHandlers) : s = eventHistory.order
  BY DEF InOrder
<1>2. /\ \A i, j \in 1 .. Len(s) : s[i] = s[j] => i = j
      /\ \A x \in EventHandlers :
           handlers[x].phase \in {"installing", "live"} <=> \E i \in 1 .. Len(s) : s[i] = x
      /\ \A i \in 1 .. Len(s) - 1 : handlers[s[i]].phase = "live"
      /\ \A x, y \in EventHandlers : Busy(x) /\ Busy(y) => x = y
  BY <1>1 DEF InOrder
<1>3. \A other \in EventHandlers : other # object => handlers[other].phase \in {"none", "live"}
  <2> TAKE other \in EventHandlers
  <2>1. handlers[other].phase \in {"none", "installing", "live", "restoring"}
    BY ObjectLists DEF EventsTyped
  <2> QED BY <1>2, <2>1 DEF Busy
<1>4. \A other \in EventHandlers, signal \in Signals : other # object =>
        (Listed(other, signal) <=> handlers[other].phase = "live")
  <2> SUFFICES ASSUME NEW other \in EventHandlers, NEW signal \in Signals, other # object
               PROVE  Listed(other, signal) <=> handlers[other].phase = "live"
    OBVIOUS
  <2>1. IsObject(handlers[other])
    BY DEF EventsTyped
  <2>2. handlers[other].phase = "none" => handlers[other].list = <<>>
    BY <2>1, ObjectLists
  <2>3. handlers[other].phase = "live" => Listed(other, signal)
    BY <2>1, ObjectLists DEF Listed
  <2>4. handlers[other].list = <<>> => ~Listed(other, signal)
    BY DEF Listed
  <2> QED BY <1>3, <2>2, <2>3, <2>4
<1>5. (\E other \in EventHandlers : other # object /\ handlers[other].phase = "live")
        <=> ~Outermost(object)
  <2>1. CASE handlers[object].phase = "restoring"
    <3>1. Outermost(object) <=> s = <<>>
      BY <1>1, <2>1 DEF Outermost
    <3>2. ~\E i \in 1 .. Len(s) : s[i] = object
      BY <1>2, <2>1
    <3>3. ASSUME s # <<>>
          PROVE  \E other \in EventHandlers : other # object /\ handlers[other].phase = "live"
      <4>1. 1 \in 1 .. Len(s) /\ s[1] \in EventHandlers
        BY <3>3
      <4> QED BY <1>2, <1>3, <3>2, <4>1
    <3>4. ASSUME s = <<>>, NEW other \in EventHandlers
          PROVE  handlers[other].phase # "live"
      <4>1. ~\E i \in 1 .. Len(s) : s[i] = other
        BY <3>4
      <4> QED BY <1>2, <4>1
    <3> QED BY <3>1, <3>3, <3>4
  <2>2. CASE handlers[object].phase = "installing"
    <3>1. Outermost(object) <=> s[1] = object
      BY <1>1, <2>2 DEF Outermost
    <3>2. PICK i \in 1 .. Len(s) : s[i] = object
      BY <1>2, <2>2
    <3>3. i = Len(s)
      BY <1>2, <2>2, <3>2
    <3>4. ASSUME s[1] # object
          PROVE  \E other \in EventHandlers : other # object /\ handlers[other].phase = "live"
      <4>1. 1 \in 1 .. Len(s) - 1 /\ s[1] \in EventHandlers
        BY <3>2, <3>3, <3>4
      <4> QED BY <1>2, <3>4, <4>1
    <3>5. ASSUME s[1] = object, NEW other \in EventHandlers, other # object
          PROVE  handlers[other].phase # "live"
      <4>1. Len(s) = 1
        BY <1>2, <3>2, <3>3, <3>5
      <4>2. ~\E j \in 1 .. Len(s) : s[j] = other
        BY <3>5, <4>1
      <4> QED BY <1>2, <4>2
    <3> QED BY <3>1, <3>4, <3>5
  <2> QED BY <2>1, <2>2 DEF Busy
<1> QED BY <1>3, <1>4, <1>5

LEMMA InstallStep ==
  ASSUME EventInv, NEW object \in EventHandlers, InstallHandler(object)
  PROVE  EventInv'
<1> DEFINE old == handlers[object]
           signal == Head(old.left)
           x == disposition[signal]
           new == Turned(old, x)
           h == eventHistory
<1>1. /\ old.phase = "installing" /\ handlers' = [handlers EXCEPT ![object] = new]
      /\ disposition' = [disposition EXCEPT ![signal] = "SignalHandler"] /\ h' = h
  BY DEF InstallHandler, Turned
<1>2. EventsTyped /\ IsObject(old) /\ Busy(object)
  BY <1>1 DEF EventInv, EventsTyped, Busy
<1>3. signal \in Signals /\ x \in Dispositions
  <2>1. signal \in Signals
    BY <1>1, <1>2, InstallingTurn, "SignalHandler" \in Dispositions DEF Dispositions
  <2> QED BY <1>2, <2>1 DEF EventsTyped
<1>4. /\ IsObject(new) /\ new.phase \in {"installing", "live"}
      /\ \A i \in DOMAIN old.list : old.list[i][1] # signal
      /\ DOMAIN new.list = DOMAIN old.list \cup {Len(old.list) + 1}
      /\ Len(old.list) + 1 \notin DOMAIN old.list
      /\ \A i \in DOMAIN old.list : new.list[i] = old.list[i]
      /\ new.list[Len(old.list) + 1] = <<signal, x>>
  BY <1>1, <1>2, <1>3, InstallingTurn
<1>5. EventsTyped' /\ handlers'[object] = new
      /\ \A other \in EventHandlers : other # object => handlers'[other] = handlers[other]
  <2>1. disposition' \in [Signals -> Dispositions]
    BY <1>1, <1>2 DEF EventsTyped, Dispositions
  <2>2. IsHistory(h')
    BY <1>1, <1>2 DEF EventsTyped
  <2> HIDE DEF new
  <2> QED BY <1>1, <1>2, <1>4, <2>1, <2>2, OneObject
<1> DEFINE n == Len(old.list) + 1
<1> HIDE DEF new, x, signal, n
<1>6. ASSUME h.nested PROVE InOrder' /\ SavedInv' /\ HandlersInPlace'
  <2>1. InOrder /\ SavedInv /\ HandlersInPlace
    BY <1>6 DEF EventInv
  <2>2. InOrder'
    BY <1>1, <1>2, <1>4, <1>5, <2>1, SameOrder
  <2>3. \A y \in EventHandlers : Outermost(y)' <=> Outermost(y)
    <3>1. \A y \in EventHandlers : handlers'[y].phase = "restoring" <=> handlers[y].phase = "restoring"
      BY <1>1, <1>4, <1>5
    <3> QED BY <1>1, <3>1 DEF Outermost
  <2>4. x = IF signal \in h.leaked \/ ~Outermost(object) THEN "SignalHandler" ELSE h.original[signal]
    <3>1. ~Listed(object, signal)
      BY <1>4 DEF Listed
    <3>2. (\E y \in EventHandlers : Listed(y, signal)) <=> ~Outermost(object)
      BY <1>2, <1>3, <2>1, <3>1, OnlyAround
    <3> QED BY <1>3, <1>6, <2>1, <3>2 DEF HandlersInPlace, x
  <2>5. SavedInv'
    <3> SUFFICES ASSUME NEW y \in EventHandlers, NEW i \in DOMAIN handlers'[y].list
                 PROVE  handlers'[y].list[i][2] =
                          IF handlers'[y].list[i][1] \in h'.leaked \/ ~Outermost(y)'
                          THEN "SignalHandler" ELSE h'.original[handlers'[y].list[i][1]]
      BY DEF SavedInv
    <3>1. CASE y # object
      BY <1>1, <1>5, <2>1, <2>3, <3>1 DEF SavedInv
    <3>2. CASE y = object /\ i \in DOMAIN old.list
      BY <1>1, <1>4, <1>5, <2>1, <2>3, <3>2 DEF SavedInv
    <3>3. CASE y = object /\ i = n
      <4>1. handlers'[y].list[i][1] = signal /\ handlers'[y].list[i][2] = x
        BY <1>4, <1>5, <3>3 DEF n
      <4> QED BY <1>1, <2>3, <2>4, <3>3, <4>1
    <3> QED BY <1>4, <1>5, <3>1, <3>2, <3>3 DEF n
  <2>6. HandlersInPlace'
    <3>1. \A sig \in Signals :
            (\E y \in EventHandlers : Listed(y, sig)') <=>
               sig = signal \/ \E y \in EventHandlers : Listed(y, sig)
      <4> TAKE sig \in Signals
      <4>1. \A y \in EventHandlers : y # object => (Listed(y, sig)' <=> Listed(y, sig))
        BY <1>5 DEF Listed
      <4>2. Listed(object, sig)' <=> sig = signal \/ Listed(object, sig)
        <5>1. (\E i \in DOMAIN new.list : new.list[i][1] = sig) <=>
                \/ new.list[n][1] = sig
                \/ \E i \in DOMAIN old.list : old.list[i][1] = sig
          BY <1>4 DEF n
        <5>2. new.list[n][1] = signal
          BY <1>4 DEF n
        <5> QED BY <1>5, <5>1, <5>2 DEF Listed
      <4> QED BY <4>1, <4>2
    <3>2. \A sig \in Signals :
            disposition'[sig] = IF sig = signal THEN "SignalHandler" ELSE disposition[sig]
      BY <1>1, <1>2 DEF EventsTyped
    <3> QED BY <1>1, <1>6, <2>1, <3>1, <3>2 DEF HandlersInPlace
  <2> QED BY <2>2, <2>5, <2>6
<1> QED BY <1>1, <1>5, <1>6 DEF EventInv

LEMMA FrontShorter ==
  ASSUME NEW S, NEW s \in Seq(S), s # <<>>
  PROVE  \E t \in Seq(S) : /\ t = Front(s) /\ Len(t) = Len(s) - 1
                           /\ \A i \in 1 .. Len(s) - 1 : t[i] = s[i]
<1>1. PICK n : n = Len(s) - 1
  OBVIOUS
<1>2. n \in Nat /\ Len(s) = n + 1
  BY <1>1, EmptySeq, LenProperties
<1>3. \A i \in 1 .. n : s[i] \in S
  BY <1>2, ElementOfSeq
<1>4. /\ SubSeq(s, 1, n) \in Seq(S)
      /\ Len(SubSeq(s, 1, n)) = IF 1 <= n THEN n - 1 + 1 ELSE 0
      /\ \A i \in 1 .. n - 1 + 1 : SubSeq(s, 1, n)[i] = s[1 + i - 1]
  <2>1. 1 \in Int /\ n \in Int
    BY <1>2
  <2> QED BY <1>3, <2>1, SubSeqProperties
<1>5. Len(SubSeq(s, 1, n)) = n
  BY <1>2, <1>4
<1>6. \A i \in 1 .. n : SubSeq(s, 1, n)[i] = s[i]
  <2> SUFFICES ASSUME NEW i \in 1 .. n
               PROVE  SubSeq(s, 1, n)[i] = s[i]
    OBVIOUS
  <2>1. i \in 1 .. n - 1 + 1 /\ 1 + i - 1 = i
    BY <1>2
  <2> QED BY <1>4, <2>1
<1> QED BY <1>1, <1>4, <1>5, <1>6 DEF Front

\* The order without its last object.
LEMMA OthersInOrder ==
  ASSUME EventsTyped, InOrder, NEW object \in EventHandlers,
         eventHistory'.order = Front(eventHistory.order),
         eventHistory.order # <<>>, eventHistory.order[Len(eventHistory.order)] = object,
         handlers[object].phase \in {"installing", "live"},
         \A other \in EventHandlers : other # object =>
           handlers'[other] = handlers[other] /\ handlers[other].phase \in {"none", "live"},
         handlers'[object].phase \in {"none", "restoring"}
  PROVE  /\ InOrder'
         /\ Outermost(object) <=> eventHistory'.order = <<>>
         /\ \A other \in EventHandlers : other # object /\ handlers[other].phase = "live" =>
              (Outermost(other)' <=> Outermost(other))
<1>1. PICK s \in Seq(EventHandlers) : s = eventHistory.order /\ s # <<>>
  BY DEF InOrder
<1>2. /\ \A i, j \in 1 .. Len(s) : s[i] = s[j] => i = j
      /\ \A x \in EventHandlers :
           handlers[x].phase \in {"installing", "live"} <=> \E i \in 1 .. Len(s) : s[i] = x
  BY <1>1 DEF InOrder
<1>3. PICK t \in Seq(EventHandlers) : /\ t = eventHistory'.order /\ Len(t) = Len(s) - 1
                                      /\ \A i \in 1 .. Len(s) - 1 : t[i] = s[i]
  BY <1>1, FrontShorter
<1>4. Len(s) \in 1 .. Len(s) /\ s[Len(s)] = object /\ Len(t) \in Nat
  BY <1>1, EmptySeq
<1>5. \A i \in 1 .. Len(t) : i \in 1 .. Len(s) /\ t[i] = s[i] /\ t[i] # object
  BY <1>2, <1>3, <1>4
<1>6. \A i \in 1 .. Len(s) : i \in 1 .. Len(t) \/ s[i] = object
  BY <1>3, <1>4
<1>7. \A i, j \in 1 .. Len(t) : t[i] = t[j] => i = j
  BY <1>2, <1>5
<1>8. \A x \in EventHandlers :
        handlers'[x].phase \in {"installing", "live"} <=> \E i \in 1 .. Len(t) : t[i] = x
  <2> TAKE x \in EventHandlers
  <2>1. CASE x = object
    BY <1>5, <2>1
  <2>2. CASE x # object
    <3>1. (\E i \in 1 .. Len(s) : s[i] = x) <=> \E i \in 1 .. Len(t) : t[i] = x
      BY <1>5, <1>6, <2>2
    <3> QED BY <1>2, <2>2, <3>1
  <2> QED BY <2>1, <2>2
<1>9. \A i \in 1 .. Len(t) - 1 : handlers'[t[i]].phase = "live"
  <2> TAKE i \in 1 .. Len(t) - 1
  <2>1. i \in 1 .. Len(t) /\ t[i] \in EventHandlers /\ t[i] # object
    BY <1>3, <1>5
  <2>2. handlers[t[i]].phase \in {"installing", "live"}
    BY <1>2, <1>5, <2>1
  <2> QED BY <2>1, <2>2
<1>10. \A x, y \in EventHandlers : Busy(x)' /\ Busy(y)' => x = y
  BY DEF Busy
<1>11. InOrder'
  BY <1>3, <1>7, <1>8, <1>9, <1>10 DEF InOrder
<1>12. Outermost(object) <=> t = <<>>
  <2>1. Outermost(object) <=> s[1] = object
    BY <1>1 DEF Outermost
  <2>2. s[1] = object <=> Len(s) = 1
    <3>1. 1 \in 1 .. Len(s) /\ Len(s) \in 1 .. Len(s)
      BY <1>4
    <3>2. s[1] = s[Len(s)] <=> 1 = Len(s)
      BY <1>2, <3>1
    <3> QED BY <1>4, <3>2
  <2>3. t = <<>> <=> Len(t) = 0
    BY EmptySeq
  <2> QED BY <1>3, <1>4, <2>1, <2>2, <2>3
<1>13. ASSUME NEW other \in EventHandlers, other # object, handlers[other].phase = "live"
       PROVE  Outermost(other)' <=> Outermost(other)
  <2>1. \E i \in 1 .. Len(t) : t[i] = other
    BY <1>8, <1>13
  <2>2. t[1] = s[1]
    BY <1>3, <2>1
  <2> QED BY <1>1, <1>3, <1>13, <2>2 DEF Outermost
<1> QED BY <1>3, <1>11, <1>12, <1>13

LEMMA FailStep ==
  ASSUME EventInv, NEW object \in EventHandlers, InstallHandlerFails(object)
  PROVE  EventInv'
<1> DEFINE h == eventHistory
           only == {signal \in Signals : {other \in EventHandlers : Listed(other, signal)} = {object}}
<1>1. /\ handlers[object].phase = "installing" /\ handlers' = [handlers EXCEPT ![object] = NoObject]
      /\ disposition' = disposition
      /\ h' = [h EXCEPT !.order = Front(@), !.leaked = @ \cup only]
  BY DEF InstallHandlerFails
<1>2. EventsTyped /\ Busy(object)
  BY <1>1 DEF EventInv, Busy
<1>a. PICK lost \in SUBSET Signals : lost = only
  OBVIOUS
<1> HIDE DEF only
<1>3. /\ h'.original = h.original /\ h'.leaked = h.leaked \cup lost /\ h'.order = Front(h.order)
      /\ h'.nested = h.nested
      /\ IsHistory(h')
  <2>0. PICK order : \E original \in [Signals -> ProgramHandlers], nested \in BOOLEAN,
                          leaked \in SUBSET Signals :
          h = [original |-> original, order |-> order, nested |-> nested, leaked |-> leaked]
    BY <1>2 DEF EventsTyped, IsHistory
  <2>1. PICK original \in [Signals -> ProgramHandlers], nested \in BOOLEAN,
             leaked \in SUBSET Signals :
          h = [original |-> original, order |-> order, nested |-> nested, leaked |-> leaked]
    BY <2>0
  <2>2. h' = [original |-> original, order |-> Front(order),
              nested |-> nested, leaked |-> leaked \cup lost]
    BY <1>1, <1>a, <2>1
  <2>3. leaked \cup lost \in SUBSET Signals
    OBVIOUS
  <2> QED BY <2>1, <2>2, <2>3 DEF IsHistory
<1>4. IsObject(NoObject) /\ NoObject.phase = "none" /\ NoObject.list = <<>>
  BY DEF IsObject, NoObject
<1>5. /\ EventsTyped' /\ handlers'[object] = NoObject
      /\ \A other \in EventHandlers : other # object => handlers'[other] = handlers[other]
  <2>1. disposition' \in [Signals -> Dispositions]
    BY <1>1, <1>2 DEF EventsTyped
  <2> QED BY <1>1, <1>2, <1>3, <1>4, <2>1, OneObject
<1>6. ASSUME h.nested PROVE InOrder' /\ SavedInv' /\ HandlersInPlace'
  <2>1. InOrder /\ SavedInv /\ HandlersInPlace
    BY <1>6 DEF EventInv
  <2>2. /\ \A other \in EventHandlers : other # object => handlers[other].phase \in {"none", "live"}
        /\ \A signal \in Signals :
             (\E other \in EventHandlers : other # object /\ Listed(other, signal)) <=> ~Outermost(object)
    BY <1>2, <2>1, OnlyAround
  <2>3. h.order # <<>> /\ h.order[Len(h.order)] = object
    <3>1. PICK s \in Seq(EventHandlers) : s = h.order
      BY <2>1 DEF InOrder
    <3>2. PICK i \in 1 .. Len(s) : s[i] = object
      BY <1>1, <2>1, <3>1 DEF InOrder
    <3>3. \A j \in 1 .. Len(s) - 1 : handlers[s[j]].phase = "live"
      BY <2>1, <3>1 DEF InOrder
    <3>4. i = Len(s)
      BY <1>1, <3>2, <3>3
    <3> QED BY <3>1, <3>2, <3>4
  <2>4. /\ InOrder'
        /\ Outermost(object) <=> h'.order = <<>>
        /\ \A other \in EventHandlers : other # object /\ handlers[other].phase = "live" =>
              (Outermost(other)' <=> Outermost(other))
    BY <1>1, <1>2, <1>3, <1>4, <1>5, <2>1, <2>2, <2>3, OthersInOrder
  <2>5. \A signal \in Signals : signal \in lost <=> Outermost(object) /\ Listed(object, signal)
    <3> TAKE signal \in Signals
    <3>1. signal \in lost <=> {other \in EventHandlers : Listed(other, signal)} = {object}
      BY <1>a DEF only
    <3>2. (\E other \in EventHandlers : other # object /\ Listed(other, signal)) <=> ~Outermost(object)
      BY <2>2
    <3> QED BY <3>1, <3>2
  <2>6. \A other \in EventHandlers : handlers'[other].list # <<>> =>
          other # object /\ handlers[other].phase = "live" /\ ~Outermost(object)
    <3> SUFFICES ASSUME NEW other \in EventHandlers, handlers'[other].list # <<>>
                 PROVE  other # object /\ handlers[other].phase = "live" /\ ~Outermost(object)
      OBVIOUS
    <3>1. other # object /\ handlers[other].list # <<>>
      BY <1>4, <1>5
    <3>2. IsObject(handlers[other])
      BY <1>2 DEF EventsTyped
    <3>3. handlers[other].phase = "live"
      BY <2>2, <3>1, <3>2, ObjectLists
    <3>4. "SIGINT" \in Signals /\ Listed(other, "SIGINT")
      BY <3>2, <3>3, ObjectLists, TwoSignals DEF Listed
    <3> QED BY <2>2, <3>1, <3>3, <3>4
  <2>7. SavedInv'
    <3> SUFFICES ASSUME NEW y \in EventHandlers, NEW i \in DOMAIN handlers'[y].list
                 PROVE  handlers'[y].list[i][2] =
                          IF handlers'[y].list[i][1] \in h'.leaked \/ ~Outermost(y)'
                          THEN "SignalHandler" ELSE h'.original[handlers'[y].list[i][1]]
      BY DEF SavedInv
    <3>1. handlers'[y].list # <<>>
      OBVIOUS
    <3>2. y # object /\ handlers'[y] = handlers[y] /\ handlers[y].phase = "live" /\ lost = {}
      BY <1>5, <2>5, <2>6, <3>1
    <3>3. Outermost(y)' <=> Outermost(y)
      BY <2>4, <3>2
    <3> QED BY <1>3, <2>1, <3>2, <3>3 DEF SavedInv
  <2>8. HandlersInPlace'
    <3> SUFFICES ASSUME NEW signal \in Signals
                 PROVE  disposition'[signal] =
                          IF signal \in h'.leaked \/ \E y \in EventHandlers : Listed(y, signal)'
                          THEN "SignalHandler" ELSE h'.original[signal]
      BY DEF HandlersInPlace
    <3>1. disposition[signal] =
            IF signal \in h.leaked \/ \E y \in EventHandlers : Listed(y, signal)
            THEN "SignalHandler" ELSE h.original[signal]
      BY <1>6, <2>1 DEF HandlersInPlace
    <3>2. \A y \in EventHandlers : y # object => (Listed(y, signal)' <=> Listed(y, signal))
      BY <1>5 DEF Listed
    <3>3. ~Listed(object, signal)'
      BY <1>4, <1>5 DEF Listed
    <3>4. (signal \in lost \/ \E y \in EventHandlers : Listed(y, signal)')
            <=> \E y \in EventHandlers : Listed(y, signal)
      BY <2>2, <2>5, <3>2, <3>3
    <3>5. signal \in h'.leaked <=> signal \in h.leaked \/ signal \in lost
      BY <1>3
    <3> QED BY <1>1, <1>3, <3>1, <3>4, <3>5
  <2> QED BY <2>4, <2>7, <2>8
<1> QED BY <1>3, <1>5, <1>6 DEF EventInv

LEMMA DestroyStep ==
  ASSUME EventInv, NEW object \in EventHandlers, DestroyEventHandler(object)
  PROVE  EventInv'
<1> DEFINE h == eventHistory
           old == handlers[object]
           new == [old EXCEPT !.phase = "restoring"]
<1>1. /\ old.phase = "live" /\ disposition' = disposition
      /\ handlers' = [handlers EXCEPT ![object].phase = "restoring"]
      /\ h' = [h EXCEPT !.order = Front(@), !.nested = @ /\ Alone(object) /\ Last(h.order) = object]
  BY DEF DestroyEventHandler
<1>2. EventsTyped /\ IsObject(old)
  BY DEF EventInv, EventsTyped
<1>3. /\ h'.original = h.original /\ h'.leaked = h.leaked /\ h'.order = Front(h.order)
      /\ h'.nested => h.nested /\ Alone(object) /\ Last(h.order) = object
      /\ IsHistory(h')
  <2>0. PICK order : \E original \in [Signals -> ProgramHandlers], nested \in BOOLEAN,
                          leaked \in SUBSET Signals :
          h = [original |-> original, order |-> order, nested |-> nested, leaked |-> leaked]
    BY <1>2 DEF EventsTyped, IsHistory
  <2>1. PICK original \in [Signals -> ProgramHandlers], nested \in BOOLEAN,
             leaked \in SUBSET Signals :
          h = [original |-> original, order |-> order, nested |-> nested, leaked |-> leaked]
    BY <2>0
  <2>2. PICK last \in BOOLEAN : last = (Alone(object) /\ Last(h.order) = object)
    BY DEF Alone
  <2>3. h' = [original |-> original, order |-> Front(order),
              nested |-> nested /\ last, leaked |-> leaked]
    <3>1. h' = [h EXCEPT !.order = Front(@), !.nested = @ /\ last]
      BY <1>1, <2>2
    <3> QED BY <2>1, <3>1
  <2>4. (nested /\ last) \in BOOLEAN
    BY <2>1, <2>2
  <2>5. h'.nested => nested /\ last
    BY <2>3
  <2> QED BY <2>1, <2>2, <2>3, <2>4, <2>5 DEF IsHistory
<1>4. IsObject(new) /\ new.phase = "restoring" /\ new.list = old.list
  <2>1. PICK x \in Dispositions, y \in Dispositions : old = Object("live", Two(x, y), <<>>)
    <3>1. \A phase, list, left : Object(phase, list, left).phase = phase
      BY DEF Object
    <3>2. NoObject.phase = "none"
      BY DEF NoObject
    <3> QED BY <1>1, <1>2, <3>1, <3>2 DEF IsObject
  <2>2. new = Object("restoring", Two(x, y), <<>>)
    BY <2>1 DEF Object
  <2> QED BY <2>1, <2>2 DEF IsObject, Object
<1>5. /\ EventsTyped' /\ handlers'[object] = new
      /\ \A other \in EventHandlers : other # object => handlers'[other] = handlers[other]
  <2>1. disposition' \in [Signals -> Dispositions]
    BY <1>1, <1>2 DEF EventsTyped
  <2>2. handlers' = [handlers EXCEPT ![object] = new]
    BY <1>1
  <2> HIDE DEF new
  <2> QED BY <1>1, <1>2, <1>3, <1>4, <2>1, <2>2, OneObject
<1> HIDE DEF new
<1>6. ASSUME h'.nested PROVE InOrder' /\ SavedInv' /\ HandlersInPlace'
  <2>1. InOrder /\ SavedInv /\ HandlersInPlace /\ h.nested
        /\ \A other \in EventHandlers : other # object => handlers[other].phase \in {"none", "live"}
    BY <1>3, <1>6 DEF EventInv, Alone
  <2>2. h.order # <<>> /\ h.order[Len(h.order)] = object
    <3>1. PICK s \in Seq(EventHandlers) : s = h.order
      BY <2>1 DEF InOrder
    <3>2. PICK i \in 1 .. Len(s) : s[i] = object
      BY <1>1, <2>1, <3>1 DEF InOrder
    <3>3. s # <<>>
      BY <3>2
    <3> QED BY <1>3, <1>6, <3>1, <3>3 DEF Last
  <2>3. /\ InOrder'
        /\ Outermost(object) <=> h'.order = <<>>
        /\ \A other \in EventHandlers : other # object /\ handlers[other].phase = "live" =>
              (Outermost(other)' <=> Outermost(other))
    BY <1>1, <1>2, <1>3, <1>4, <1>5, <2>1, <2>2, OthersInOrder
  <2>4. Outermost(object)' <=> Outermost(object)
    BY <1>4, <1>5, <2>3 DEF Outermost
  <2>5. SavedInv'
    <3> SUFFICES ASSUME NEW y \in EventHandlers, NEW i \in DOMAIN handlers'[y].list
                 PROVE  handlers'[y].list[i][2] =
                          IF handlers'[y].list[i][1] \in h'.leaked \/ ~Outermost(y)'
                          THEN "SignalHandler" ELSE h'.original[handlers'[y].list[i][1]]
      BY DEF SavedInv
    <3>1. handlers'[y].list = handlers[y].list
      BY <1>4, <1>5
    <3>2. Outermost(y)' <=> Outermost(y)
      <4>1. CASE y = object
        BY <2>4, <4>1
      <4>2. CASE y # object
        <5>1. IsObject(handlers[y]) /\ handlers[y].list # <<>>
          BY <1>2, <3>1 DEF EventsTyped
        <5>2. handlers[y].phase = "live"
          BY <2>1, <4>2, <5>1, ObjectLists
        <5> QED BY <2>3, <4>2, <5>2
      <4> QED BY <4>1, <4>2
    <3> QED BY <1>3, <2>1, <3>1, <3>2 DEF SavedInv
  <2>6. HandlersInPlace'
    <3>1. \A y \in EventHandlers : handlers'[y].list = handlers[y].list
      BY <1>4, <1>5
    <3>2. \A y \in EventHandlers, signal \in Signals : Listed(y, signal)' <=> Listed(y, signal)
      BY <3>1 DEF Listed
    <3> QED BY <1>1, <1>3, <2>1, <3>2 DEF HandlersInPlace
  <2> QED BY <2>3, <2>5, <2>6
<1> QED BY <1>5, <1>6 DEF EventInv

LEMMA RestoreStep ==
  ASSUME EventInv, NEW object \in EventHandlers, RestoreHandler(object)
  PROVE  EventInv'
<1> DEFINE h == eventHistory
           old == handlers[object]
           new == Restored(old)
           saved == Last(old.list)
<1>1. /\ old.phase = "restoring" /\ handlers' = [handlers EXCEPT ![object] = new]
      /\ disposition' = [disposition EXCEPT ![saved[1]] = saved[2]] /\ h' = h
  BY DEF RestoreHandler, Restored
<1>2. EventsTyped /\ IsObject(old) /\ Busy(object)
  BY <1>1 DEF EventInv, EventsTyped, Busy
<1>3. /\ IsObject(new) /\ new.phase \in {"none", "restoring"}
      /\ \E i \in DOMAIN old.list : saved = old.list[i]
      /\ saved[1] \in Signals /\ saved[2] \in Dispositions
      /\ \A i \in DOMAIN new.list :
           i \in DOMAIN old.list /\ new.list[i] = old.list[i] /\ old.list[i][1] # saved[1]
      /\ \A i \in DOMAIN old.list : old.list[i][1] # saved[1] => i \in DOMAIN new.list
  BY <1>1, <1>2, RestoringTurn
<1> HIDE DEF new, saved
<1>4. /\ EventsTyped' /\ handlers'[object] = new
      /\ \A other \in EventHandlers : other # object => handlers'[other] = handlers[other]
  <2>1. disposition' \in [Signals -> Dispositions]
    BY <1>1, <1>2, <1>3 DEF EventsTyped
  <2>2. IsHistory(h')
    BY <1>1, <1>2 DEF EventsTyped
  <2> QED BY <1>1, <1>2, <1>3, <2>1, <2>2, OneObject
<1>5. ASSUME h.nested PROVE InOrder' /\ SavedInv' /\ HandlersInPlace'
  <2>1. InOrder /\ SavedInv /\ HandlersInPlace
    BY <1>5 DEF EventInv
  <2>2. InOrder'
    BY <1>1, <1>2, <1>3, <1>4, <2>1, SameOrder
  <2>3. /\ \A other \in EventHandlers : other # object => handlers[other].phase \in {"none", "live"}
        /\ \A signal \in Signals :
             (\E other \in EventHandlers : other # object /\ Listed(other, signal)) <=> ~Outermost(object)
    BY <1>2, <2>1, OnlyAround
  <2>4. saved[2] = IF saved[1] \in h.leaked \/ ~Outermost(object)
                   THEN "SignalHandler" ELSE h.original[saved[1]]
    BY <1>3, <2>1 DEF SavedInv
  <2>5. SavedInv'
    <3> SUFFICES ASSUME NEW y \in EventHandlers, NEW i \in DOMAIN handlers'[y].list
                 PROVE  handlers'[y].list[i][2] =
                          IF handlers'[y].list[i][1] \in h'.leaked \/ ~Outermost(y)'
                          THEN "SignalHandler" ELSE h'.original[handlers'[y].list[i][1]]
      BY DEF SavedInv
    <3>1. CASE y # object
      <4>1. Outermost(y)' <=> Outermost(y)
        BY <1>1, <1>4, <3>1 DEF Outermost
      <4> QED BY <1>1, <1>4, <2>1, <3>1, <4>1 DEF SavedInv
    <3>2. CASE y = object
      <4>1. IsObject(new) /\ new.list # <<>>
        BY <1>3, <1>4, <3>2
      <4>2. new.phase = "restoring"
        BY <1>3, <4>1, ObjectLists
      <4>3. Outermost(object)' <=> Outermost(object)
        BY <1>1, <1>4, <4>2 DEF Outermost
      <4>4. i \in DOMAIN old.list /\ new.list[i] = old.list[i]
        BY <1>3, <1>4, <3>2
      <4> QED BY <1>1, <1>4, <2>1, <3>2, <4>3, <4>4 DEF SavedInv
    <3> QED BY <3>1, <3>2
  <2>6. HandlersInPlace'
    <3> SUFFICES ASSUME NEW signal \in Signals
                 PROVE  disposition'[signal] =
                          IF signal \in h.leaked \/ \E y \in EventHandlers : Listed(y, signal)'
                          THEN "SignalHandler" ELSE h.original[signal]
      BY <1>1 DEF HandlersInPlace
    <3>1. \A y \in EventHandlers : y # object => (Listed(y, signal)' <=> Listed(y, signal))
      BY <1>4 DEF Listed
    <3>2. Listed(object, signal)' <=> Listed(object, signal) /\ signal # saved[1]
      BY <1>3, <1>4 DEF Listed
    <3>3. CASE signal = saved[1]
      <4>1. (\E y \in EventHandlers : Listed(y, signal)') <=> ~Outermost(object)
        BY <2>3, <3>1, <3>2, <3>3
      <4>2. disposition'[signal] = saved[2]
        BY <1>1, <1>2, <3>3 DEF EventsTyped
      <4> QED BY <2>4, <3>3, <4>1, <4>2
    <3>4. CASE signal # saved[1]
      <4>1. (\E y \in EventHandlers : Listed(y, signal)') <=> \E y \in EventHandlers : Listed(y, signal)
        BY <3>1, <3>2, <3>4
      <4>2. disposition'[signal] = disposition[signal]
        BY <1>1, <1>2, <3>4 DEF EventsTyped
      <4> QED BY <1>5, <2>1, <4>1, <4>2 DEF HandlersInPlace
    <3> QED BY <3>3, <3>4
  <2> QED BY <2>2, <2>5, <2>6
<1> QED BY <1>1, <1>4, <1>5 DEF EventInv

\* For any number of objects: as long as they are built and destroyed like nested scopes, the
\* class's handler is installed from the first object's constructor to the last one's
\* destructor and the program's own one outside, at every step of InstallHandlers
\* (src/Utility/CriticalEventHandler.cpp:82) and of the destructor's loop (:60), also when
\* signal() fails and a constructor throws half-way.
THEOREM HandlersStayInPlace == EventSpec => []HandlersInPlace
<1>1. EventInit => EventInv
  <2> SUFFICES ASSUME EventInit PROVE EventInv
    OBVIOUS
  <2>1. \A o \in EventHandlers : handlers[o] = NoObject
    BY DEF EventInit
  <2>2. NoObject.phase = "none" /\ NoObject.list = <<>> /\ IsObject(NoObject)
    BY DEF NoObject, IsObject
  <2>3. /\ eventHistory.original = disposition /\ eventHistory.order = <<>>
        /\ eventHistory.leaked = {} /\ IsHistory(eventHistory)
    <3>1. {} \in SUBSET Signals /\ TRUE \in BOOLEAN /\ disposition \in [Signals -> ProgramHandlers]
      BY DEF EventInit
    <3>2. eventHistory = [original |-> disposition, order |-> <<>>, nested |-> TRUE, leaked |-> {}]
      BY DEF EventInit
    <3> QED BY <3>1, <3>2 DEF IsHistory
  <2>4. EventsTyped
    <3>1. disposition \in [Signals -> Dispositions]
      BY DEF EventInit, Dispositions
    <3>2. DOMAIN handlers = EventHandlers /\ handlers = [o \in EventHandlers |-> handlers[o]]
      BY DEF EventInit
    <3> QED BY <2>1, <2>2, <2>3, <3>1, <3>2 DEF EventsTyped
  <2>5. InOrder
    <3>1. <<>> \in Seq(EventHandlers) /\ Len(<<>>) = 0
      OBVIOUS
    <3> QED BY <2>1, <2>2, <2>3, <3>1 DEF InOrder, Busy
  <2>6. SavedInv
    BY <2>1, <2>2 DEF SavedInv
  <2>7. HandlersInPlace
    <3>1. \A o \in EventHandlers, signal \in Signals : ~Listed(o, signal)
      BY <2>1, <2>2 DEF Listed
    <3> QED BY <2>3, <3>1 DEF HandlersInPlace
  <2> QED BY <2>4, <2>5, <2>6, <2>7 DEF EventInv
<1>2. EventInv /\ [EventNext]_eventVars => EventInv'
  <2> SUFFICES ASSUME EventInv, [EventNext]_eventVars PROVE EventInv'
    OBVIOUS
  <2>1. ASSUME UNCHANGED <<disposition, handlers, eventHistory>> PROVE EventInv'
    BY <2>1 DEF EventInv, EventsTyped, InOrder, SavedInv, HandlersInPlace, Busy, Outermost, Listed
  <2>2. CASE SetFlag \/ SignalHandler \/ DefaultAction \/ UNCHANGED eventVars
    BY <2>1, <2>2 DEF SetFlag, SignalHandler, DefaultAction, eventVars
  <2> QED BY <2>2, BuildStep, InstallStep, FailStep, DestroyStep, RestoreStep DEF EventNext
<1>3. EventInv => HandlersInPlace
  BY DEF EventInv, HandlersInPlace
<1> QED BY <1>1, <1>2, <1>3, PTL DEF EventSpec

-----------------------------------------------------------------------------
(* Merging two lists of the environment.                                   *)

EnvElements == EnvStrings \ BadStrings

LEMMA ElementOrder ==
  /\ \A a, b \in EnvElements : ElementLess(a, b) \in BOOLEAN /\ ~(ElementLess(a, b) /\ ElementLess(b, a))
  /\ \A a, b \in EnvElements : a = b \/ ElementLess(a, b) \/ ElementLess(b, a)
  /\ \A a, b, c \in EnvElements : ElementLess(a, b) /\ ElementLess(b, c) => ElementLess(a, c)
<1>1. \A a \in EnvElements : /\ a.name \in Nat /\ a.value \in Nat
                             /\ a = [name |-> a.name, value |-> a.value]
  BY EnvironmentAssumption DEF EnvElements
<1>2. ASSUME NEW a \in EnvElements, NEW b \in EnvElements, a.name = b.name, a.value = b.value
      PROVE  a = b
  BY <1>1, <1>2
<1> QED BY <1>1, <1>2 DEF ElementLess

\* The place of an element of S.
Place(S, e) == Cardinality({x \in S : ~ElementLess(e, x)})

\* Each place of a set of elements is taken by one of them.
LEMMA PlacesTaken ==
  ASSUME NEW S \in SUBSET EnvElements, IsFiniteSet(S)
  PROVE  /\ Cardinality(S) \in Nat
         /\ \A e \in S : Place(S, e) \in 1 .. Cardinality(S)
         /\ \A e, f \in S : ElementLess(e, f) => Place(S, e) < Place(S, f)
         /\ \A i \in 1 .. Cardinality(S) : \E e \in S : Place(S, e) = i
<1>1. Cardinality(S) \in Nat
  BY FS_CardinalityType
<1>2. ASSUME NEW e \in S
      PROVE  Place(S, e) \in 1 .. Cardinality(S)
  <2>1. PICK T : T = {x \in S : ~ElementLess(e, x)}
    OBVIOUS
  <2>2. T \in SUBSET S /\ e \in T
    BY <2>1, ElementOrder
  <2>3. IsFiniteSet(T) /\ Cardinality(T) <= Cardinality(S)
    BY <2>2, FS_Subset
  <2>4. Cardinality(T) \in Nat /\ Cardinality(T) # 0
    BY <2>2, <2>3, FS_CardinalityType, FS_EmptySet
  <2> QED BY <1>1, <2>1, <2>3, <2>4 DEF Place
<1>3. ASSUME NEW e \in S, NEW f \in S, ElementLess(e, f)
      PROVE  Place(S, e) < Place(S, f)
  <2>1. PICK T, U : T = {x \in S : ~ElementLess(e, x)} /\ U = {x \in S : ~ElementLess(f, x)}
    OBVIOUS
  <2>2. U \in SUBSET S /\ T \in SUBSET U /\ f \in U /\ f \notin T
    BY <1>3, <2>1, ElementOrder
  <2>3. IsFiniteSet(U)
    BY <2>2, FS_Subset
  <2>4. Cardinality(T) <= Cardinality(U) /\ Cardinality(T) # Cardinality(U) /\ IsFiniteSet(T)
    BY <2>2, <2>3, FS_Subset
  <2>5. Cardinality(T) \in Nat /\ Cardinality(U) \in Nat
    BY <2>3, <2>4, FS_CardinalityType
  <2> QED BY <2>1, <2>4, <2>5 DEF Place
<1>4. PICK place : place = [e \in S |-> Place(S, e)]
  OBVIOUS
<1>5. place \in [S -> 1 .. Cardinality(S)]
  BY <1>2, <1>4
<1>6. IsInjective(place)
  <2> SUFFICES ASSUME NEW e \in S, NEW f \in S, place[e] = place[f]
               PROVE  e = f
    BY <1>4 DEF IsInjective
  <2>1. Place(S, e) = Place(S, f) /\ Place(S, e) \in Nat
    BY <1>2, <1>4
  <2>2. ~ElementLess(e, f) /\ ~ElementLess(f, e)
    BY <1>3, <2>1
  <2> QED BY <2>2, ElementOrder
<1>7. place \in Injection(S, 1 .. Cardinality(S))
  BY <1>5, <1>6 DEF Injection
<1>8. IsFiniteSet(1 .. Cardinality(S)) /\ Cardinality(1 .. Cardinality(S)) = Cardinality(S)
  <2>1. /\ IsFiniteSet(1 .. Cardinality(S))
        /\ Cardinality(1 .. Cardinality(S)) =
             IF 1 > Cardinality(S) THEN 0 ELSE Cardinality(S) - 1 + 1
    BY <1>1, FS_Interval
  <2> QED BY <1>1, <2>1
<1>9. place \in Surjection(S, 1 .. Cardinality(S))
  BY <1>7, <1>8, FS_Injection
<1>10. \A i \in 1 .. Cardinality(S) : \E e \in S : Place(S, e) = i
  BY <1>4, <1>9 DEF Surjection
<1> QED BY <1>1, <1>2, <1>3, <1>10

\* A set is written in its order, each element once.
LEMMA WrittenInOrder ==
  ASSUME NEW S \in SUBSET EnvElements, IsFiniteSet(S)
  PROVE  /\ EnvElementSetToEnvpList(S) \in Seq(S)
         /\ ToSet(EnvElementSetToEnvpList(S)) = S
         /\ Ascending(EnvElementSetToEnvpList(S))
<1> DEFINE list == EnvElementSetToEnvpList(S)
           n == Cardinality(S)
<1>1. /\ n \in Nat
      /\ \A e \in S : Place(S, e) \in 1 .. n
      /\ \A e, f \in S : ElementLess(e, f) => Place(S, e) < Place(S, f)
      /\ \A i \in 1 .. n : \E e \in S : Place(S, e) = i
  BY PlacesTaken
<1>2. list = [i \in 1 .. n |-> CHOOSE e \in S : Place(S, e) = i]
  BY DEF EnvElementSetToEnvpList, Place
<1> HIDE DEF list, n
<1>3. \A i \in 1 .. n : list[i] \in S /\ Place(S, list[i]) = i
  BY <1>1, <1>2
<1>4. list \in [1 .. n -> S]
  BY <1>2, <1>3
<1>5. list \in Seq(S) /\ Len(list) = n
  BY <1>1, <1>4
<1>6. ToSet(list) = S
  <2>1. \A i \in 1 .. n : list[i] \in S
    BY <1>3
  <2>2. ASSUME NEW e \in S
        PROVE  \E i \in 1 .. n : list[i] = e
    <3>1. PICK i \in 1 .. n : i = Place(S, e)
      BY <1>1
    <3>2. list[i] \in S /\ Place(S, list[i]) = i
      BY <1>3
    <3>3. ~ElementLess(e, list[i]) /\ ~ElementLess(list[i], e)
      BY <1>1, <3>1, <3>2
    <3>4. e = list[i]
      BY <3>2, <3>3, ElementOrder
    <3> QED BY <3>4
  <2> QED BY <1>4, <2>1, <2>2 DEF ToSet
<1>7. Ascending(list)
  <2> SUFFICES ASSUME NEW i \in 2 .. n PROVE ElementLess(list[i - 1], list[i])
    BY <1>5 DEF Ascending
  <2>1. i - 1 \in 1 .. n /\ i \in 1 .. n /\ i - 1 < i /\ i - 1 # i
    BY <1>1
  <2>2. /\ list[i - 1] \in S /\ Place(S, list[i - 1]) = i - 1
        /\ list[i] \in S /\ Place(S, list[i]) = i
    BY <1>3, <2>1
  <2>3. ~ElementLess(list[i], list[i - 1])
    BY <1>1, <2>1, <2>2
  <2>4. list[i - 1] # list[i]
    BY <2>1, <2>2
  <2> QED BY <2>2, <2>3, <2>4, ElementOrder
<1> QED BY <1>5, <1>6, <1>7 DEF list

\* A list of strings and what is in it.
LEMMA ListFacts ==
  ASSUME NEW list \in Seq(EnvStrings)
  PROVE  /\ list # Malformed /\ ToSet(list) # Malformed
         /\ ToSet(list) \in SUBSET EnvStrings /\ IsFiniteSet(ToSet(list))
         /\ CheckEnvironment(list) = {} <=> ToSet(list) \cap BadStrings = {}
         /\ EnvpListToEnvElementSet(list) =
              IF ToSet(list) \cap BadStrings = {} THEN ToSet(list) ELSE Malformed
         /\ EnvpListToEnvElementList(list) =
              IF ToSet(list) \cap BadStrings = {} THEN list ELSE Malformed
<1>1. /\ Len(list) \in Nat /\ DOMAIN list = 1 .. Len(list)
      /\ \A i \in 1 .. Len(list) : list[i] \in EnvStrings
  BY LenProperties
<1>2. ToSet(list) = {list[i] : i \in 1 .. Len(list)}
  BY <1>1 DEF ToSet
<1>3. ToSet(list) \in SUBSET EnvStrings
  BY <1>1, <1>2
<1>4. list # Malformed /\ ToSet(list) # Malformed
  BY <1>3, EnvironmentAssumption
<1>5. IsFiniteSet(ToSet(list))
  <2>1. PICK f : f = [i \in 1 .. Len(list) |-> list[i]]
    OBVIOUS
  <2>2. f \in Surjection(1 .. Len(list), ToSet(list))
    BY <1>2, <2>1 DEF Surjection
  <2>3. IsFiniteSet(1 .. Len(list))
    BY <1>1, FS_Interval
  <2> QED BY <2>2, <2>3, FS_Surjection
<1>6. CheckEnvironment(list) = {} <=> ToSet(list) \cap BadStrings = {}
  <2>1. PICK bad : bad = {i \in DOMAIN list : GetEnvStringSeparatorIndexThrows(list[i])}
    OBVIOUS
  <2>2. CheckEnvironment(list) = {} <=> bad = {}
    BY <2>1 DEF CheckEnvironment
  <2>3. bad = {} <=> ToSet(list) \cap BadStrings = {}
    BY <1>1, <1>2, <2>1 DEF GetEnvStringSeparatorIndexThrows
  <2> QED BY <2>2, <2>3
<1> QED BY <1>3, <1>4, <1>5, <1>6 DEF EnvpListToEnvElementSet, EnvpListToEnvElementList

\* What the merge gives when it does not throw, and when it throws.
LEMMA PlainMeans ==
  ASSUME NEW base \in Seq(EnvStrings), NEW added \in Seq(EnvStrings)
  PROVE  MergePlain(base, added) =
           IF (ToSet(base) \cup ToSet(added)) \cap BadStrings = {}
           THEN EnvElementSetToEnvpList(ToSet(base) \cup ToSet(added)) ELSE Malformed
<1>1. PICK b, a : b = EnvpListToEnvElementSet(base) /\ a = EnvpListToEnvElementSet(added)
  OBVIOUS
<1>2. /\ b = IF ToSet(base) \cap BadStrings = {} THEN ToSet(base) ELSE Malformed
      /\ a = IF ToSet(added) \cap BadStrings = {} THEN ToSet(added) ELSE Malformed
      /\ ToSet(base) # Malformed /\ ToSet(added) # Malformed
  BY <1>1, ListFacts
<1>3. MergePlain(base, added) =
        IF Malformed \in {b, a} THEN Malformed ELSE EnvElementSetToEnvpList(b \cup a)
  BY <1>1 DEF MergePlain
<1>4. CASE (ToSet(base) \cup ToSet(added)) \cap BadStrings = {}
  <2>1. b = ToSet(base) /\ a = ToSet(added)
    BY <1>2, <1>4
  <2> QED BY <1>2, <1>3, <1>4, <2>1
<1>5. CASE (ToSet(base) \cup ToSet(added)) \cap BadStrings # {}
  <2>1. Malformed \in {b, a}
    BY <1>2, <1>5
  <2> QED BY <1>3, <1>5, <2>1
<1> QED BY <1>4, <1>5

Excluded == PathExcluded \cup SmartExcluded

LEMMA MergeMeans ==
  ASSUME NEW base \in Seq(EnvStrings), NEW added \in Seq(EnvStrings),
         NEW smart \in BOOLEAN, NEW path \in BOOLEAN,
         NEW list, list = MergedList(base, added, smart, path)
  PROVE  IF path \/ (ToSet(base) \cup ToSet(added)) \cap BadStrings # {} THEN list = Malformed
         ELSE list = EnvElementSetToEnvpList(ToSet(base) \cup
                       (IF smart THEN ToSet(added) \ Excluded ELSE ToSet(added)))
<1>1. CASE path
  BY <1>1 DEF MergedList
<1>2. CASE ~path /\ ~smart
  BY <1>2, PlainMeans DEF MergedList
<1>3. CASE ~path /\ smart
  <2>1. list = MergeSmart(base, added)
    BY <1>3 DEF MergedList
  <2>2. /\ EnvpListToEnvElementSet(added) =
             IF ToSet(added) \cap BadStrings = {} THEN ToSet(added) ELSE Malformed
        /\ ToSet(added) # Malformed
        /\ ToSet(added) \in SUBSET EnvStrings /\ IsFiniteSet(ToSet(added))
    BY ListFacts
  <2>3. CASE ToSet(added) \cap BadStrings # {}
    <3>1. MergeSmart(base, added) = Malformed
      BY <2>2, <2>3 DEF MergeSmart
    <3> QED BY <1>3, <2>1, <2>3, <3>1
  <2>4. CASE ToSet(added) \cap BadStrings = {}
    <3>1. PICK S : S = ToSet(added) \ Excluded
      OBVIOUS
    <3>2. S \in SUBSET ToSet(added) /\ S \in SUBSET EnvElements
      BY <2>2, <2>4, <3>1 DEF EnvElements
    <3>3. IsFiniteSet(S)
      BY <2>2, <3>2, FS_Subset
    <3>4. PICK rest : rest = EnvElementSetToEnvpList(S)
      OBVIOUS
    <3>5. rest \in Seq(S) /\ ToSet(rest) = S
      BY <3>2, <3>3, <3>4, WrittenInOrder
    <3>6. rest \in Seq(EnvStrings)
      BY <2>2, <3>2, <3>5
    <3>7. list = MergePlain(base, rest)
      BY <2>1, <2>2, <2>4, <3>1, <3>4 DEF MergeSmart, Excluded
    <3>8. MergePlain(base, rest) = IF (ToSet(base) \cup S) \cap BadStrings = {}
                                   THEN EnvElementSetToEnvpList(ToSet(base) \cup S) ELSE Malformed
      BY <3>5, <3>6, PlainMeans
    <3>9. (ToSet(base) \cup S) \cap BadStrings = {}
            <=> (ToSet(base) \cup ToSet(added)) \cap BadStrings = {}
      BY <2>4, <3>2
    <3> QED BY <1>3, <3>1, <3>7, <3>8, <3>9
  <2> QED BY <2>3, <2>4
<1> QED BY <1>1, <1>2, <1>3

EnvInv ==
  /\ environ \in EnvLists \cup {Malformed}
  /\ envList \in [Lists -> Seq(EnvStrings)]
  /\ merged = NotMerged => envList["result"] = <<>>
  /\ EnvironmentMerged

LEMMA MergeStep == EnvInv /\ MergeEnvironment => EnvInv'
<1> SUFFICES ASSUME EnvInv, MergeEnvironment PROVE EnvInv'
  OBVIOUS
<1>1. PICK smart \in BOOLEAN, path \in BOOLEAN, into \in Lists :
        LET made == MergedList(envList["base"], envList["added"], smart, path)
        IN /\ merged' = [smart |-> smart, path |-> path, into |-> into, threw |-> made = Malformed,
                         base |-> envList["base"], added |-> envList["added"]]
           /\ envList' = IF made = Malformed THEN envList ELSE [envList EXCEPT ![into] = made]
  BY Zenon DEF MergeEnvironment
<1>2. PICK list, threw :
        /\ list = MergedList(envList["base"], envList["added"], smart, path)
        /\ threw = (list = Malformed)
        /\ merged' = [smart |-> smart, path |-> path, into |-> into, threw |-> threw,
                      base |-> envList["base"], added |-> envList["added"]]
        /\ envList' = IF list = Malformed THEN envList ELSE [envList EXCEPT ![into] = list]
  BY <1>1, Zenon
<1>3. merged = NotMerged /\ environ' = environ /\ threw \in BOOLEAN
  BY <1>2 DEF MergeEnvironment
<1>4. PICK base, added : base = envList["base"] /\ added = envList["added"]
  OBVIOUS
<1>5. base \in Seq(EnvStrings) /\ added \in Seq(EnvStrings) /\ envList["result"] = <<>>
  BY <1>4, <1>3 DEF EnvInv, Lists
<1>6. PICK B, A : B = ToSet(base) /\ A = ToSet(added)
  OBVIOUS
<1>7. /\ B \in SUBSET EnvStrings /\ A \in SUBSET EnvStrings
      /\ IsFiniteSet(B) /\ IsFiniteSet(A)
  BY <1>5, <1>6, ListFacts
<1>8. IF path \/ (B \cup A) \cap BadStrings # {} THEN list = Malformed
      ELSE list = EnvElementSetToEnvpList(B \cup (IF smart THEN A \ Excluded ELSE A))
  <2>1. list = MergedList(base, added, smart, path)
    BY <1>2, <1>4
  <2>2. IF path \/ (ToSet(base) \cup ToSet(added)) \cap BadStrings # {} THEN list = Malformed
        ELSE list = EnvElementSetToEnvpList(ToSet(base) \cup
                      (IF smart THEN ToSet(added) \ Excluded ELSE ToSet(added)))
    BY <1>5, <2>1, MergeMeans
  <2> QED BY <1>6, <2>2, Zenon
<1>9. envList = [l \in Lists |-> IF l = "base" THEN base ELSE IF l = "added" THEN added ELSE <<>>]
  BY <1>4, <1>5 DEF EnvInv, Lists
<1>10. merged' # NotMerged
  <2>1. merged' \in [smart : BOOLEAN, path : BOOLEAN, into : Lists, threw : BOOLEAN,
                     base : Seq(EnvStrings), added : Seq(EnvStrings)]
    BY <1>2, <1>4, <1>5, <1>3
  <2> QED BY <2>1, EnvironmentAssumption
<1>11. /\ merged'.smart = smart /\ merged'.path = path /\ merged'.into = into
      /\ merged'.threw = threw /\ merged'.base = base /\ merged'.added = added
  BY <1>2, <1>4
<1>12. CASE path \/ (B \cup A) \cap BadStrings # {}
  <2>1. threw = TRUE /\ envList' = envList
    BY <1>2, <1>8, <1>12
  <2>2. EnvironmentMerged'
    BY <1>6, <1>9, <1>11, <1>12, <2>1 DEF EnvironmentMerged
  <2>3. envList \in [Lists -> Seq(EnvStrings)] /\ envList["result"] = <<>>
    BY <1>5 DEF EnvInv
  <2> QED BY <1>3, <2>1, <2>2, <2>3 DEF EnvInv
<1>13. CASE ~path /\ (B \cup A) \cap BadStrings = {}
  <2>1. PICK S : S = B \cup (IF smart THEN A \ Excluded ELSE A)
    OBVIOUS
  <2>2. S \in SUBSET (B \cup A) /\ S \in SUBSET EnvElements /\ S \in SUBSET EnvStrings
    BY <1>7, <1>13, <2>1 DEF EnvElements
  <2>3. IsFiniteSet(S)
    <3>1. IsFiniteSet(B \cup A)
      BY <1>7, FS_Union
    <3> QED BY <2>2, <3>1, FS_Subset
  <2>4. list = EnvElementSetToEnvpList(S)
    BY <1>8, <1>13, <2>1
  <2>5. list \in Seq(S) /\ ToSet(list) = S /\ Ascending(list)
    BY <2>2, <2>3, <2>4, WrittenInOrder
  <2>6. list \in Seq(EnvStrings)
    BY <2>2, <2>5
  <2>7. list # Malformed /\ EnvpListToEnvElementSet(list) = S /\ EnvpListToEnvElementList(list) = list
    <3>1. ToSet(list) \cap BadStrings = {}
      BY <1>13, <2>2, <2>5
    <3> QED BY <2>5, <2>6, <3>1, ListFacts
  <2>8. threw = FALSE /\ envList' = [envList EXCEPT ![into] = list]
    BY <1>2, <2>7
  <2>9. envList' \in [Lists -> Seq(EnvStrings)] /\ envList'[into] = list
    BY <2>6, <2>8 DEF EnvInv
  <2>10. PICK left : left = {e \in A \ BadStrings :
                               smart /\ e.value = 0 /\ e.name \in SmartNames \cup PathNames}
    OBVIOUS
  <2>11. S = B \cup (A \ left)
    <3>1. ASSUME NEW e \in A
          PROVE  e \in Excluded <=> (e.value = 0 /\ e.name \in SmartNames \cup PathNames)
      <4>1. e \in EnvStrings \ BadStrings
        BY <1>7, <1>13
      <4>2. e = [name |-> e.name, value |-> e.value]
        BY <4>1, EnvironmentAssumption
      <4> QED BY <4>2 DEF Excluded, PathExcluded, SmartExcluded, EnvElement
    <3>2. \A e \in A : e \notin BadStrings
      BY <1>13
    <3> QED BY <2>1, <2>10, <3>1, <3>2
  <2>12. EnvElementListToEnvpList(list) = list
    BY DEF EnvElementListToEnvpList
  <2>13. /\ Ascending(list) /\ ToSet(list) = B \cup (A \ left)
         /\ B \cup (A \ {e \in A \ BadStrings : smart /\ e.name \in SmartNames \cup PathNames})
              \subseteq ToSet(list)
         /\ ToSet(list) \subseteq
              B \cup (A \ {e \in {e \in A \ BadStrings : smart /\ e.name \in SmartNames \cup PathNames} :
                            e.value = 0})
         /\ EnvElementListToEnvpList(EnvpListToEnvElementList(list)) = list
         /\ EnvElementSetToEnvpList(EnvpListToEnvElementSet(list)) = list
    BY <2>4, <2>5, <2>7, <2>10, <2>11, <2>12
  <2>14. EnvironmentMerged'
    BY <1>6, <1>11, <2>8, <2>9, <2>13 DEF EnvironmentMerged, Excludable, LeftOut, ExcludedNames
  <2> QED BY <1>3, <1>10, <2>9, <2>14 DEF EnvInv
<1> QED BY <1>12, <1>13
\* Whatever is merged into which of the lists: the result is in order and has
\* everything of the base and everything of the added list whose name is not
\* excluded, it has nothing that neither list has and no excluded name without a
\* value that only the added list has, and a merge that throws changes nothing
\* (GetEnvironment.cpp:414), for every set of names and values and lists of every
\* length.  Of the excluded names with a value it says nothing.
THEOREM ListsMerged == EnvironmentSpec => []EnvironmentMerged
<1>1. EnvironmentInit => EnvInv
  <2> SUFFICES ASSUME EnvironmentInit PROVE EnvInv
    OBVIOUS
  <2>1. PICK added \in EnvLists :
          envList = [list \in Lists |-> IF list = "added" THEN added ELSE <<>>]
    BY DEF EnvironmentInit
  <2>2. added \in Seq(EnvStrings) /\ <<>> \in Seq(EnvStrings)
    BY EnvironmentAssumption
  <2>3. envList \in [Lists -> Seq(EnvStrings)] /\ envList["result"] = <<>>
    BY <2>1, <2>2 DEF Lists
  <2> QED BY <2>3 DEF EnvironmentInit, EnvInv, EnvironmentMerged
<1>2. EnvInv /\ [EnvironmentNext]_envVars => EnvInv'
  <2> SUFFICES ASSUME EnvInv, [EnvironmentNext]_envVars PROVE EnvInv'
    OBVIOUS
  <2>1. CASE MergeEnvironment
    BY <2>1, MergeStep
  <2>2. CASE GetEnvironment
    <3>1. /\ merged = NotMerged /\ merged' = merged /\ environ' = environ
          /\ envList' = IF environ = Malformed THEN envList
                        ELSE [envList EXCEPT !["base"] = environ]
      BY <2>2 DEF GetEnvironment
    <3>2. environ # Malformed => environ \in Seq(EnvStrings)
      BY EnvironmentAssumption DEF EnvInv
    <3>3. envList' \in [Lists -> Seq(EnvStrings)] /\ envList'["result"] = <<>>
      BY <3>1, <3>2 DEF EnvInv, Lists
    <3> QED BY <3>1, <3>3 DEF EnvInv, EnvironmentMerged
  <2>3. CASE UNCHANGED envVars
    BY <2>3 DEF envVars, EnvInv, EnvironmentMerged, Excludable, LeftOut
  <2> QED BY <2>1, <2>2, <2>3 DEF EnvironmentNext
<1>3. EnvInv => EnvironmentMerged
  BY DEF EnvInv
<1> QED BY <1>1, <1>2, <1>3, PTL DEF EnvironmentSpec

-----------------------------------------------------------------------------
(* Calls of the operating system.                                          *)

LEMMA MaxOfTwo ==
  ASSUME NEW a \in Int, NEW b \in Int
  PROVE  Max({a, b}) = IF a >= b THEN a ELSE b
<1>1. PICK m \in {a, b} : m = IF a >= b THEN a ELSE b
  OBVIOUS
<1>2. \A x \in {a, b} : (\A y \in {a, b} : x >= y) <=> x = m
  BY <1>1
<1> QED BY <1>1, <1>2 DEF Max

\* What a call of usleep() is asked for is no more than the argument, and all of
\* it if the argument is an unsigned int.
LEMMA USleepBounds ==
  ASSUME NEW n \in Nat
  PROVE  /\ n % UIntModulus \in Nat /\ n % UIntModulus <= n
         /\ n < UIntModulus => n % UIntModulus = n
  BY ProcessAssumption

LEMMA NatProduct ==
  ASSUME NEW a \in Nat, NEW b \in Nat
  PROVE  a * b \in Nat
  OBVIOUS

LEMMA NatMonotone ==
  ASSUME NEW a \in Nat, NEW b \in Nat, NEW n \in Nat, a <= b
  PROVE  a * n <= b * n
<1>1. PICK d \in Nat : b = a + d
  <2>1. b - a \in Nat /\ b = a + (b - a)
    OBVIOUS
  <2> QED BY <2>1
<1>2. b * n = a * n + d * n
  BY <1>1
<1>3. d * n \in Nat /\ a * n \in Nat
  BY NatProduct
<1> QED BY <1>2, <1>3

\* What the sleeper was asked for and has slept.
SleepInv ==
  /\ sleeper = [call |-> sleeper.call, asked |-> sleeper.asked, requested |-> sleeper.requested,
                slept |-> sleeper.slept, signalled |-> sleeper.signalled,
                outcome |-> sleeper.outcome]
  /\ sleeper.slept \in Nat /\ sleeper.requested \in Nat /\ sleeper.asked \in Int
  /\ sleeper.slept <= sleeper.requested
  /\ sleeper.outcome \in {"asleep", "returned", "threw"}
  /\ sleeper.signalled \in BOOLEAN
  /\ sleeper.requested <= sleeper.asked \/ sleeper.requested = 0
  /\ sleeper.outcome = "threw" => sleeper.call = "NanoSleep"
  /\ sleeper.outcome # "threw" =>
       \/ sleeper.requested = sleeper.asked
       \/ /\ sleeper.call \notin {"SleepNanoSecs", "NanoSleep"}
          /\ UIntModulus * NanoPerMicro <= sleeper.asked
  /\ sleeper.outcome = "returned" /\ ~sleeper.signalled => sleeper.slept = sleeper.requested

\* Microseconds, cut once or twice to an unsigned int.
LEMMA USleepKeeps ==
  ASSUME NEW n \in Nat, NEW m \in Nat, m <= n, n < UIntModulus => m = n
  PROVE  /\ USleep(m) \in Nat /\ USleep(m) <= n * NanoPerMicro /\ n * NanoPerMicro \in Nat
         /\ USleep(m) = n * NanoPerMicro \/ UIntModulus * NanoPerMicro <= n * NanoPerMicro
<1>0. UIntModulus \in Nat /\ NanoPerMicro \in Nat
  BY ProcessAssumption, TicksAssumption
<1>1. PICK r : r = m % UIntModulus
  OBVIOUS
<1>2. r \in Nat /\ r <= n /\ (n < UIntModulus => r = n)
  BY <1>1, USleepBounds
<1>3. USleep(m) = r * NanoPerMicro
  BY <1>1 DEF USleep
<1>4. r * NanoPerMicro <= n * NanoPerMicro
  BY <1>0, <1>2, NatMonotone
<1>5. r * NanoPerMicro \in Nat /\ n * NanoPerMicro \in Nat
  BY <1>0, <1>2, NatProduct
<1>6. CASE n < UIntModulus
  BY <1>2, <1>3, <1>4, <1>5, <1>6
<1>7. CASE UIntModulus <= n
  BY <1>0, <1>3, <1>4, <1>5, <1>7, NatMonotone
<1> QED BY <1>0, <1>6, <1>7

\* A request that is made of one of the arguments of the calls.
LEMMA AsleepInv ==
  ASSUME NEW call, NEW asked \in Int, NEW requested \in Nat,
         requested <= asked \/ requested = 0,
         \/ requested = asked
         \/ /\ call \notin {"SleepNanoSecs", "NanoSleep"}
            /\ UIntModulus * NanoPerMicro <= asked,
         sleeper' = Asleep(call, asked, requested)
  PROVE  SleepInv'
  BY DEF Asleep, SleepInv

LEMMA StartSleepStep == StartSleep => SleepInv'
<1> SUFFICES ASSUME StartSleep PROVE SleepInv'
  OBVIOUS
<1>0. /\ MilliPerSec \in Nat /\ MicroPerMilli \in Nat /\ NanoPerMicro \in Nat
      /\ UIntModulus \in Nat \ {0}
  BY ProcessAssumption, TicksAssumption
<1>1. ASSUME NEW n \in SleepArguments, SleepSecs(n)
      PROVE  SleepInv'
  <2>1. n \in Nat
    BY ProcessAssumption
  <2>2. PICK u : u = n * MilliPerSec * MicroPerMilli
    OBVIOUS
  <2>3. u \in Nat
    BY <1>0, <2>1, <2>2, NatProduct
  <2>4. PICK r : r = USleep(u)
    OBVIOUS
  <2>5. /\ r \in Nat /\ u * NanoPerMicro \in Nat /\ r <= u * NanoPerMicro
        /\ r = u * NanoPerMicro \/ UIntModulus * NanoPerMicro <= u * NanoPerMicro
    BY <2>3, <2>4, USleepKeeps
  <2>6. sleeper' = Asleep("SleepSecs", u * NanoPerMicro, r)
    BY <1>1, <2>2, <2>4 DEF SleepSecs, SecsRequest
  <2> QED BY <2>5, <2>6, AsleepInv
<1>2. ASSUME NEW n \in SleepArguments, SleepMilliSecs(n)
      PROVE  SleepInv'
  <2>1. n \in Nat
    BY ProcessAssumption
  <2>2. PICK u : u = n * MicroPerMilli
    OBVIOUS
  <2>4. PICK k : k = n % UIntModulus
    OBVIOUS
  <2>5. k \in Nat /\ k <= n /\ (n < UIntModulus => k = n)
    BY <2>1, <2>4, USleepBounds
  <2>6. PICK m : m = (k * MicroPerMilli) % UIntModulus
    OBVIOUS
  <2>7. k * MicroPerMilli \in Nat /\ k * MicroPerMilli <= u
    BY <1>0, <2>1, <2>2, <2>5, NatProduct, NatMonotone
  <2>8. u \in Nat
    BY <1>0, <2>1, <2>2, NatProduct
  <2>9. u < UIntModulus => k * MicroPerMilli = u
    <3> SUFFICES ASSUME u < UIntModulus PROVE k * MicroPerMilli = u
      OBVIOUS
    <3>1. MicroPerMilli \in Nat \ {0}
      BY TicksAssumption
    <3>2. 1 * n <= MicroPerMilli * n
      BY <2>1, <3>1, NatMonotone
    <3>3. n <= u
      BY <1>0, <2>1, <2>2, <3>2
    <3>4. k = n
      BY <1>0, <2>1, <2>5, <2>8, <3>3
    <3> QED BY <2>2, <3>4
  <2>10. m \in Nat /\ m <= u /\ (u < UIntModulus => m = u)
    <3>1. /\ m \in Nat /\ m <= k * MicroPerMilli
          /\ k * MicroPerMilli < UIntModulus => m = k * MicroPerMilli
      BY <2>6, <2>7, USleepBounds
    <3> QED BY <2>7, <2>8, <2>9, <3>1
  <2>11. PICK r : r = USleep(m)
    OBVIOUS
  <2>12. /\ r \in Nat /\ u * NanoPerMicro \in Nat /\ r <= u * NanoPerMicro
         /\ r = u * NanoPerMicro \/ UIntModulus * NanoPerMicro <= u * NanoPerMicro
    BY <2>8, <2>10, <2>11, USleepKeeps
  <2>13. sleeper' = Asleep("SleepMilliSecs", u * NanoPerMicro, r)
    BY <1>2, <2>2, <2>4, <2>6, <2>11 DEF SleepMilliSecs, MilliRequest
  <2> QED BY <2>12, <2>13, AsleepInv
<1>3. ASSUME NEW n \in Nat, SleepMicroSecs(n)
      PROVE  SleepInv'
  <2>1. PICK r : r = USleep(n)
    OBVIOUS
  <2>2. /\ r \in Nat /\ n * NanoPerMicro \in Nat /\ r <= n * NanoPerMicro
        /\ r = n * NanoPerMicro \/ UIntModulus * NanoPerMicro <= n * NanoPerMicro
    BY <2>1, USleepKeeps
  <2>3. sleeper' = Asleep("SleepMicroSecs", n * NanoPerMicro, r)
    BY <1>3, <2>1 DEF SleepMicroSecs, MicroRequest
  <2> QED BY <2>2, <2>3, AsleepInv
<1>4. ASSUME NEW n \in Nat, SleepNanoSecs(n)
      PROVE  SleepInv'
  BY <1>4, AsleepInv DEF SleepNanoSecs
<1>5. ASSUME NEW n \in Int, NanoSleep(n)
      PROVE  SleepInv'
  <2>1. CASE n < 0
    <3>1. sleeper' = [call |-> "NanoSleep", asked |-> n, requested |-> 0, slept |-> 0,
                      signalled |-> FALSE, outcome |-> "threw"]
      BY <1>5, <2>1 DEF NanoSleep, Asleep
    <3> QED BY <3>1 DEF SleepInv
  <2>2. CASE n >= 0
    BY <1>5, <2>2, AsleepInv DEF NanoSleep
  <2> QED BY <2>1, <2>2
<1>6. SleepArguments \subseteq Nat
  BY ProcessAssumption
<1>7. CASE \E n \in SleepArguments : SleepSecs(n) \/ SleepMilliSecs(n) \/ SleepMicroSecs(n)
                                     \/ SleepNanoSecs(n) \/ NanoSleep(n)
  BY <1>1, <1>2, <1>3, <1>4, <1>5, <1>6, <1>7
<1>8. CASE NanoSleep(-1)
  BY <1>5, <1>8
<1>9. CASE YieldThreadQuantum
  BY <1>3, <1>9 DEF YieldThreadQuantum
<1> QED BY <1>7, <1>8, <1>9 DEF StartSleep

LEMMA SleepStep == SleepInv /\ SleepGoesOn => SleepInv'
<1> SUFFICES ASSUME SleepInv, SleepGoesOn PROVE SleepInv'
  OBVIOUS
<1>1. CASE /\ sleeper.slept < sleeper.requested
           /\ sleeper' = [sleeper EXCEPT !.slept = @ + 1]
  <2>1. PICK n : n = sleeper.slept + 1
    OBVIOUS
  <2>2. n \in Nat /\ n <= sleeper.requested
    BY <1>1, <2>1 DEF SleepInv
  <2>3. sleeper' = [sleeper EXCEPT !.slept = n]
    BY <1>1, <2>1
  <2>4. /\ sleeper'.call = sleeper.call /\ sleeper'.asked = sleeper.asked
        /\ sleeper'.requested = sleeper.requested /\ sleeper'.slept = n
        /\ sleeper'.signalled = sleeper.signalled /\ sleeper'.outcome = sleeper.outcome
        /\ sleeper' = [call |-> sleeper'.call, asked |-> sleeper'.asked,
                       requested |-> sleeper'.requested, slept |-> sleeper'.slept,
                       signalled |-> sleeper'.signalled, outcome |-> sleeper'.outcome]
    BY <2>3 DEF SleepInv
  <2>5. sleeper.outcome = "asleep"
    BY DEF SleepGoesOn
  <2> QED BY <2>2, <2>4, <2>5 DEF SleepInv
<1>2. CASE /\ sleeper.slept < sleeper.requested
           /\ sleeper' = [sleeper EXCEPT !.signalled = TRUE,
                            !.outcome = IF sleeper.call = "NanoSleep" THEN "threw" ELSE "returned"]
  <2>1. PICK o : o = IF sleeper.call = "NanoSleep" THEN "threw" ELSE "returned"
    OBVIOUS
  <2>2. sleeper' = [sleeper EXCEPT !.signalled = TRUE, !.outcome = o]
    BY <1>2, <2>1
  <2>3. /\ sleeper'.call = sleeper.call /\ sleeper'.asked = sleeper.asked
        /\ sleeper'.requested = sleeper.requested /\ sleeper'.slept = sleeper.slept
        /\ sleeper'.signalled = TRUE /\ sleeper'.outcome = o
        /\ sleeper' = [call |-> sleeper'.call, asked |-> sleeper'.asked,
                       requested |-> sleeper'.requested, slept |-> sleeper'.slept,
                       signalled |-> sleeper'.signalled, outcome |-> sleeper'.outcome]
    BY <2>2 DEF SleepInv
  <2>4. /\ sleeper.outcome = "asleep" /\ o \in {"threw", "returned"}
        /\ o = "threw" => sleeper.call = "NanoSleep"
    BY <2>1 DEF SleepGoesOn
  <2> QED BY <2>3, <2>4 DEF SleepInv
<1>3. CASE /\ sleeper.slept = sleeper.requested
           /\ sleeper' = [sleeper EXCEPT !.outcome = "returned"]
  <2>1. /\ sleeper'.call = sleeper.call /\ sleeper'.asked = sleeper.asked
        /\ sleeper'.requested = sleeper.requested /\ sleeper'.slept = sleeper.slept
        /\ sleeper'.signalled = sleeper.signalled /\ sleeper'.outcome = "returned"
        /\ sleeper' = [call |-> sleeper'.call, asked |-> sleeper'.asked,
                       requested |-> sleeper'.requested, slept |-> sleeper'.slept,
                       signalled |-> sleeper'.signalled, outcome |-> sleeper'.outcome]
    BY <1>3 DEF SleepInv
  <2>2. sleeper.outcome = "asleep"
    BY DEF SleepGoesOn
  <2> QED BY <1>3, <2>1, <2>2 DEF SleepInv
<1> QED BY <1>1, <1>2, <1>3 DEF SleepGoesOn

LEMMA SleptByInv == SleepInv => SleptAsAsked
<1> SUFFICES ASSUME SleepInv PROVE SleptAsAsked
  OBVIOUS
<1>1. sleeper.asked \in Int /\ 0 \in Int
  BY DEF SleepInv
<1>2. Max({sleeper.asked, 0}) = IF sleeper.asked >= 0 THEN sleeper.asked ELSE 0
  BY <1>1, MaxOfTwo
<1>3. PICK m : m = Max({sleeper.asked, 0})
  OBVIOUS
<1>4. sleeper.slept <= m
  BY <1>2, <1>3 DEF SleepInv
<1>5. UIntModulus * NanoPerMicro \in Nat
  BY ProcessAssumption, TicksAssumption, NatProduct
<1>6. sleeper.asked < UIntModulus * NanoPerMicro => ~(UIntModulus * NanoPerMicro <= sleeper.asked)
  BY <1>1, <1>5
<1>7. ASSUME sleeper.outcome = "returned", ~sleeper.signalled,
             sleeper.call \notin {"SleepNanoSecs", "NanoSleep"} =>
               sleeper.asked < UIntModulus * NanoPerMicro
      PROVE  sleeper.slept = sleeper.asked
  BY <1>6, <1>7 DEF SleepInv
<1> QED BY <1>3, <1>4, <1>7 DEF SleptAsAsked, SleepInv

-----------------------------------------------------------------------------
(* The limits.                                                             *)

Limit == [soft : Nat, hard : Nat]

LimitsInv ==
  /\ limits = [now |-> limits.now, was |-> limits.was, turn |-> limits.turn,
               privileged |-> limits.privileged, outcome |-> limits.outcome]
  /\ limits.now \in [DOMAIN Resources -> Limit]
  /\ limits.was \in [DOMAIN Resources -> Limit]
  /\ \A i \in DOMAIN Resources :
       limits.was[i].soft <= limits.was[i].hard /\ limits.was[i].hard <= Unlimited
  /\ limits.turn \in 1 .. Len(Resources) + 1
  /\ limits.outcome = "returned" => limits.turn = Len(Resources) + 1
  /\ \A i \in DOMAIN Resources :
       IF i < limits.turn
       THEN /\ limits.now[i].soft = limits.now[i].hard
            /\ \/ limits.now[i].hard = limits.was[i].hard
               \/ limits.privileged /\ limits.now[i].hard = Unlimited
       ELSE limits.now[i] = limits.was[i]

LEMMA LimitsStart == LimitsInit => LimitsInv
<1> SUFFICES ASSUME LimitsInit PROVE LimitsInv
  OBVIOUS
<1>1. PICK privileged \in BOOLEAN,
           now \in [DOMAIN Resources -> {l \in [soft : LimitValues, hard : LimitValues] :
                                           l.soft <= l.hard}] :
        limits = [now |-> now, was |-> now, turn |-> 1, privileged |-> privileged,
                  outcome |-> "running"]
  BY DEF LimitsInit
<1>2. /\ limits.now = now /\ limits.was = now /\ limits.turn = 1
      /\ limits.privileged = privileged /\ limits.outcome = "running"
      /\ limits = [now |-> limits.now, was |-> limits.was, turn |-> limits.turn,
                   privileged |-> limits.privileged, outcome |-> limits.outcome]
  BY <1>1
<1>3. /\ DOMAIN Resources = 1 .. Len(Resources) /\ Len(Resources) \in Nat
      /\ LimitValues \subseteq Nat /\ Unlimited \in Nat
      /\ \A limit \in LimitValues : limit <= Unlimited
  BY ProcessAssumption
<1>4. \A i \in DOMAIN Resources :
        /\ now[i] \in Limit /\ now[i].soft <= now[i].hard /\ now[i].hard <= Unlimited
  BY <1>3 DEF Limit
<1>5. now \in [DOMAIN Resources -> Limit]
  BY <1>4
<1> QED BY <1>2, <1>3, <1>4, <1>5 DEF LimitsInv

LEMMA LimitsStep == LimitsInv /\ LimitsNext => LimitsInv'
<1> SUFFICES ASSUME LimitsInv, LimitsNext PROVE LimitsInv'
  OBVIOUS
<1>0. DOMAIN Resources = 1 .. Len(Resources) /\ Len(Resources) \in Nat /\ Unlimited \in Nat
  BY ProcessAssumption
<1>1. ASSUME NEW o, limits' = [limits EXCEPT !.outcome = o],
             o = "returned" => limits.turn = Len(Resources) + 1
      PROVE  LimitsInv'
  <2>1. /\ limits'.now = limits.now /\ limits'.was = limits.was
        /\ limits'.turn = limits.turn /\ limits'.privileged = limits.privileged
        /\ limits'.outcome = o
        /\ limits' = [now |-> limits'.now, was |-> limits'.was, turn |-> limits'.turn,
                      privileged |-> limits'.privileged, outcome |-> limits'.outcome]
    BY <1>1 DEF LimitsInv
  <2> QED BY <1>1, <2>1 DEF LimitsInv
<1>2. ASSUME NEW i \in DOMAIN Resources, i = limits.turn, limits.outcome = "running",
             NEW limit \in Nat,
             limits' = [limits EXCEPT !.now[i] = [soft |-> limit, hard |-> limit], !.turn = i + 1],
             \/ limit = limits.now[i].hard
             \/ limits.privileged /\ limit = Unlimited
      PROVE  LimitsInv'
  <2>1. PICK l : l = [soft |-> limit, hard |-> limit]
    OBVIOUS
  <2>2. l \in Limit /\ l.soft = limit /\ l.hard = limit
    BY <2>1 DEF Limit
  <2>3. /\ limits'.now = [limits.now EXCEPT ![i] = l] /\ limits'.was = limits.was
        /\ limits'.turn = i + 1 /\ limits'.privileged = limits.privileged
        /\ limits'.outcome = "running"
        /\ limits' = [now |-> limits'.now, was |-> limits'.was, turn |-> limits'.turn,
                      privileged |-> limits'.privileged, outcome |-> limits'.outcome]
    BY <1>2, <2>1 DEF LimitsInv
  <2>4. /\ limits'.now \in [DOMAIN Resources -> Limit] /\ limits'.now[i] = l
        /\ \A j \in DOMAIN Resources : j # i => limits'.now[j] = limits.now[j]
    BY <2>2, <2>3 DEF LimitsInv
  <2>5. limits.now[i] = limits.was[i]
    BY <1>0, <1>2 DEF LimitsInv
  <2>6. limits'.turn \in 1 .. Len(Resources) + 1
    BY <1>0, <2>3
  <2>7. ASSUME NEW j \in DOMAIN Resources
        PROVE  IF j < limits'.turn
               THEN /\ limits'.now[j].soft = limits'.now[j].hard
                    /\ \/ limits'.now[j].hard = limits'.was[j].hard
                       \/ limits'.privileged /\ limits'.now[j].hard = Unlimited
               ELSE limits'.now[j] = limits'.was[j]
    <3>1. CASE j = i
      <4>1. j < limits'.turn
        BY <1>0, <2>3, <3>1
      <4> QED BY <1>2, <2>2, <2>3, <2>4, <2>5, <3>1, <4>1
    <3>2. CASE j # i
      <4>1. (j < limits'.turn) <=> (j < limits.turn)
        BY <1>0, <1>2, <2>3, <3>2
      <4> QED BY <2>3, <2>4, <3>2, <4>1 DEF LimitsInv
    <3> QED BY <3>1, <3>2
  <2>8. /\ limits'.was \in [DOMAIN Resources -> Limit]
        /\ \A j \in DOMAIN Resources :
             limits'.was[j].soft <= limits'.was[j].hard /\ limits'.was[j].hard <= Unlimited
    BY <2>3 DEF LimitsInv
  <2>9. limits'.outcome # "returned"
    BY <2>3
  <2> QED BY <2>3, <2>4, <2>6, <2>7, <2>8, <2>9 DEF LimitsInv
<1>3. CASE RaiseLimit
  <2>1. PICK i : i = limits.turn
    OBVIOUS
  <2>2. CASE limits' = [limits EXCEPT !.outcome = "threw"]
    BY <1>1, <2>2
  <2>3. i \in DOMAIN Resources /\ limits.outcome = "running"
    BY <1>3, <2>1 DEF RaiseLimit
  <2>4. PICK hard : hard = limits.now[i].hard
    OBVIOUS
  <2>5. hard \in Nat
    BY <2>3, <2>4 DEF LimitsInv, Limit
  <2>6. CASE limits' = [limits EXCEPT !.now[i] = [soft |-> hard, hard |-> hard], !.turn = i + 1]
    BY <1>2, <2>1, <2>3, <2>4, <2>5, <2>6
  <2>7. CASE /\ limits.privileged
             /\ limits' = [limits EXCEPT !.now[i] = [soft |-> Unlimited, hard |-> Unlimited],
                                         !.turn = i + 1]
    BY <1>0, <1>2, <2>1, <2>3, <2>7
  <2> QED BY <1>3, <2>1, <2>2, <2>4, <2>6, <2>7 DEF RaiseLimit
<1>4. CASE LimitsDone
  BY <1>1, <1>4 DEF LimitsDone
<1> QED BY <1>3, <1>4 DEF LimitsNext

LEMMA RaisedByInv == LimitsInv => LimitsRaised
<1> SUFFICES ASSUME LimitsInv PROVE LimitsRaised
  OBVIOUS
<1>0. Unlimited \in Nat
  BY ProcessAssumption
<1>1. ASSUME NEW i \in DOMAIN Resources
      PROVE  /\ limits.now[i].soft >= limits.was[i].soft
             /\ limits.now[i].hard >= limits.was[i].hard
             /\ limits.privileged \/ limits.now[i].hard = limits.was[i].hard
             /\ IF i < limits.turn THEN limits.now[i].soft = limits.now[i].hard
                ELSE limits.now[i] = limits.was[i]
  <2>1. /\ limits.now[i].soft \in Nat /\ limits.now[i].hard \in Nat
        /\ limits.was[i].soft \in Nat /\ limits.was[i].hard \in Nat
    BY DEF LimitsInv, Limit
  <2>2. limits.was[i].soft <= limits.was[i].hard /\ limits.was[i].hard <= Unlimited
    BY DEF LimitsInv
  <2>3. CASE i < limits.turn
    BY <1>0, <2>1, <2>2, <2>3 DEF LimitsInv
  <2>4. CASE ~(i < limits.turn)
    BY <1>0, <2>1, <2>2, <2>4 DEF LimitsInv
  <2> QED BY <2>3, <2>4
<1> QED BY <1>1 DEF LimitsRaised, LimitsInv

-----------------------------------------------------------------------------
(* Exceptions.                                                             *)

\* All that a class is derived from: no class is derived in more than four steps.
DerivedFrom(base) ==
  [c \in DOMAIN BaseClass |->
     \/ c = base
     \/ /\ BaseClass[c] # "none"
        /\ \/ BaseClass[c] = base
           \/ /\ BaseClass[BaseClass[c]] # "none"
              /\ \/ BaseClass[BaseClass[c]] = base
                 \/ /\ BaseClass[BaseClass[BaseClass[c]]] # "none"
                    /\ BaseClass[BaseClass[BaseClass[c]]] = base]

LEMMA BaseClasses ==
  /\ DOMAIN BaseClass =
       {"domain_error", "invalid_argument", "length_error", "out_of_range", "logic_error",
        "overflow_error", "underflow_error", "range_error", "system_error", "ios_failure",
        "runtime_error", "bad_alloc", "bad_exception", "exception"}
  /\ BaseClass["domain_error"] = "logic_error" /\ BaseClass["invalid_argument"] = "logic_error"
  /\ BaseClass["length_error"] = "logic_error" /\ BaseClass["out_of_range"] = "logic_error"
  /\ BaseClass["logic_error"] = "exception" /\ BaseClass["overflow_error"] = "runtime_error"
  /\ BaseClass["underflow_error"] = "runtime_error" /\ BaseClass["range_error"] = "runtime_error"
  /\ BaseClass["system_error"] = "runtime_error" /\ BaseClass["ios_failure"] = "system_error"
  /\ BaseClass["runtime_error"] = "exception" /\ BaseClass["bad_alloc"] = "exception"
  /\ BaseClass["bad_exception"] = "exception" /\ BaseClass["exception"] = "none"
<1>1. DOMAIN BaseClass =
       {"domain_error", "invalid_argument", "length_error", "out_of_range", "logic_error",
        "overflow_error", "underflow_error", "range_error", "system_error", "ios_failure",
        "runtime_error", "bad_alloc", "bad_exception", "exception"}
  BY DEF BaseClass
<1>2. /\ BaseClass["domain_error"] = "logic_error" /\ BaseClass["invalid_argument"] = "logic_error"
      /\ BaseClass["length_error"] = "logic_error" /\ BaseClass["out_of_range"] = "logic_error"
      /\ BaseClass["logic_error"] = "exception"
  BY DEF BaseClass
<1>3. /\ BaseClass["overflow_error"] = "runtime_error" /\ BaseClass["underflow_error"] = "runtime_error"
      /\ BaseClass["range_error"] = "runtime_error" /\ BaseClass["system_error"] = "runtime_error"
      /\ BaseClass["ios_failure"] = "system_error"
  BY DEF BaseClass
<1>4. /\ BaseClass["runtime_error"] = "exception" /\ BaseClass["bad_alloc"] = "exception"
      /\ BaseClass["bad_exception"] = "exception" /\ BaseClass["exception"] = "none"
  BY DEF BaseClass
<1> QED BY <1>1, <1>2, <1>3, <1>4

\* All that a class is derived from.
Ancestors(class) ==
  CASE class = "domain_error"     -> {class, "logic_error", "exception"}
    [] class = "invalid_argument" -> {class, "logic_error", "exception"}
    [] class = "length_error"     -> {class, "logic_error", "exception"}
    [] class = "out_of_range"     -> {class, "logic_error", "exception"}
    [] class = "logic_error"      -> {class, "exception"}
    [] class = "overflow_error"   -> {class, "runtime_error", "exception"}
    [] class = "underflow_error"  -> {class, "runtime_error", "exception"}
    [] class = "range_error"      -> {class, "runtime_error", "exception"}
    [] class = "system_error"     -> {class, "runtime_error", "exception"}
    [] class = "ios_failure"      -> {class, "system_error", "runtime_error", "exception"}
    [] class = "runtime_error"    -> {class, "exception"}
    [] class = "bad_alloc"        -> {class, "exception"}
    [] class = "bad_exception"    -> {class, "exception"}
    [] class = "exception"        -> {class}

\* The ancestors of a class are itself and those of the class it is derived from.
LEMMA AncestorsFollow ==
  ASSUME NEW c \in DOMAIN BaseClass
  PROVE  /\ BaseClass[c] # "none" => /\ BaseClass[c] \in DOMAIN BaseClass
                                     /\ Ancestors(c) = {c} \union Ancestors(BaseClass[c])
         /\ BaseClass[c] = "none" => Ancestors(c) = {c}
<1>1. c \in {"domain_error", "invalid_argument", "length_error", "out_of_range", "logic_error",
        "overflow_error", "underflow_error", "range_error", "system_error", "ios_failure",
        "runtime_error", "bad_alloc", "bad_exception", "exception"}
  BY BaseClasses
<1>2. /\ "logic_error" \in DOMAIN BaseClass /\ "runtime_error" \in DOMAIN BaseClass
      /\ "system_error" \in DOMAIN BaseClass /\ "exception" \in DOMAIN BaseClass
  BY BaseClasses
<1>3. CASE c \in {"domain_error", "invalid_argument", "length_error", "out_of_range"}
  <2>1. BaseClass[c] = "logic_error"
    BY <1>3, BaseClasses
  <2>2. Ancestors(c) = {c, "logic_error", "exception"}
    BY <1>3 DEF Ancestors
  <2>3. Ancestors("logic_error") = {"logic_error", "exception"}
    BY DEF Ancestors
  <2> QED BY <1>2, <2>1, <2>2, <2>3
<1>4. CASE c \in {"overflow_error", "underflow_error", "range_error", "system_error"}
  <2>1. BaseClass[c] = "runtime_error"
    BY <1>4, BaseClasses
  <2>2. Ancestors(c) = {c, "runtime_error", "exception"}
    BY <1>4 DEF Ancestors
  <2>3. Ancestors("runtime_error") = {"runtime_error", "exception"}
    BY DEF Ancestors
  <2> QED BY <1>2, <2>1, <2>2, <2>3
<1>5. CASE c = "ios_failure"
  <2>1. BaseClass[c] = "system_error"
    BY <1>5, BaseClasses
  <2>2. Ancestors(c) = {c, "system_error", "runtime_error", "exception"}
    BY <1>5 DEF Ancestors
  <2>3. Ancestors("system_error") = {"system_error", "runtime_error", "exception"}
    BY DEF Ancestors
  <2> QED BY <1>2, <2>1, <2>2, <2>3
<1>6. CASE c \in {"logic_error", "runtime_error", "bad_alloc", "bad_exception"}
  <2>1. BaseClass[c] = "exception"
    BY <1>6, BaseClasses
  <2>2. Ancestors(c) = {c, "exception"}
    BY <1>6 DEF Ancestors
  <2>3. Ancestors("exception") = {"exception"}
    BY DEF Ancestors
  <2> QED BY <1>2, <2>1, <2>2, <2>3
<1>7. CASE c = "exception"
  BY <1>7, BaseClasses DEF Ancestors
<1> QED BY <1>1, <1>3, <1>4, <1>5, <1>6, <1>7

\* The recursion of IsA ends, so that there is a function that it defines, and
\* it finds the ancestors.
LEMMA IsAMeans ==
  ASSUME NEW class \in DOMAIN BaseClass, NEW base
  PROVE  IsA(class, base) <=> base \in Ancestors(class)
<1> DEFINE Body(f) == [c \in DOMAIN BaseClass |->
                         c = base \/ (BaseClass[c] # "none" /\ f[BaseClass[c]])]
           g == [c \in DOMAIN BaseClass |-> base \in Ancestors(c)]
           derived == CHOOSE f : f = Body(f)
<1>1. g = Body(g)
  <2>1. ASSUME NEW c \in DOMAIN BaseClass
        PROVE  g[c] = (c = base \/ (BaseClass[c] # "none" /\ g[BaseClass[c]]))
    <3>1. CASE BaseClass[c] = "none"
      BY <3>1, AncestorsFollow
    <3>2. CASE BaseClass[c] # "none"
      <4>1. g[BaseClass[c]] = (base \in Ancestors(BaseClass[c]))
        BY <3>2, AncestorsFollow
      <4>2. base \in Ancestors(c) <=> (c = base \/ base \in Ancestors(BaseClass[c]))
        BY <3>2, AncestorsFollow
      <4>3. g[c] = (base \in Ancestors(c))
        OBVIOUS
      <4> HIDE DEF g
      <4>4. (base \in Ancestors(c)) =
              (c = base \/ (BaseClass[c] # "none" /\ base \in Ancestors(BaseClass[c])))
        BY <3>2, <4>2
      <4> QED BY <4>1, <4>3, <4>4
    <3> QED BY <3>1, <3>2
  <2> QED BY <2>1
<1>2. derived = Body(derived)
  BY <1>1
<1> HIDE DEF derived
<1>3. \A c \in DOMAIN BaseClass :
        derived[c] = (c = base \/ (BaseClass[c] # "none" /\ derived[BaseClass[c]]))
  BY <1>2
<1>4. IsA(class, base) = derived[class]
  BY DEF IsA, derived
<1>5. ASSUME NEW c \in DOMAIN BaseClass,
             BaseClass[c] # "none" =>
               (derived[BaseClass[c]] <=> base \in Ancestors(BaseClass[c]))
      PROVE  derived[c] <=> base \in Ancestors(c)
  <2>1. CASE BaseClass[c] = "none"
    BY <1>3, <2>1, AncestorsFollow
  <2>2. CASE BaseClass[c] # "none"
    <3>1. base \in Ancestors(c) <=> (c = base \/ base \in Ancestors(BaseClass[c]))
      BY <2>2, AncestorsFollow
    <3>2. derived[c] <=> (c = base \/ derived[BaseClass[c]])
      BY <1>3, <2>2
    <3> QED BY <1>5, <2>2, <3>1, <3>2
  <2> QED BY <2>1, <2>2
<1>6. \A c \in {"exception"} : derived[c] <=> base \in Ancestors(c)
  BY <1>5, BaseClasses
<1>7. \A c \in {"logic_error", "runtime_error", "bad_alloc", "bad_exception"} :
        derived[c] <=> base \in Ancestors(c)
  BY <1>5, <1>6, BaseClasses
<1>8. \A c \in {"domain_error", "invalid_argument", "length_error", "out_of_range",
                "overflow_error", "underflow_error", "range_error", "system_error"} :
        derived[c] <=> base \in Ancestors(c)
  BY <1>5, <1>7, BaseClasses
<1>9. derived["ios_failure"] <=> base \in Ancestors("ios_failure")
  BY <1>5, <1>8, BaseClasses
<1>10. derived[class] <=> base \in Ancestors(class)
  BY <1>6, <1>7, <1>8, <1>9, BaseClasses
<1> QED BY <1>4, <1>10

\* The handler that an exception meets, and the classes that are caught alike.
LEMMA RethrowKeeps ==
  ASSUME NEW class \in DOMAIN BaseClass
  PROVE  /\ Rethrow(class) \in DOMAIN BaseClass
         /\ \A i \in DOMAIN RethrowHandlers :
              IsA(Rethrow(class), RethrowHandlers[i]) <=> IsA(class, RethrowHandlers[i])
<1>1. /\ DOMAIN RethrowHandlers = 1 .. 12
      /\ RethrowHandlers[1] = "domain_error" /\ RethrowHandlers[2] = "invalid_argument"
      /\ RethrowHandlers[3] = "length_error" /\ RethrowHandlers[4] = "out_of_range"
      /\ RethrowHandlers[5] = "logic_error" /\ RethrowHandlers[6] = "overflow_error"
      /\ RethrowHandlers[7] = "underflow_error" /\ RethrowHandlers[8] = "range_error"
      /\ RethrowHandlers[9] = "runtime_error" /\ RethrowHandlers[10] = "bad_alloc"
      /\ RethrowHandlers[11] = "bad_exception" /\ RethrowHandlers[12] = "exception"
  BY DEF RethrowHandlers
<1>2. PICK H : H = RethrowHandlers
  OBVIOUS
<1>3. ASSUME NEW k \in 1 .. 12, H[k] \in Ancestors(class),
             \A j \in 1 .. k - 1 : H[j] \notin Ancestors(class)
      PROVE  Rethrow(class) = IF k > 9 THEN class ELSE H[k]
  <2>1. \A i \in 1 .. 12 :
          (IsA(class, RethrowHandlers[i]) /\ \A j \in 1 .. i - 1 : ~IsA(class, RethrowHandlers[j]))
            <=> i = k
    <3>1. \A i \in 1 .. 12 : IsA(class, RethrowHandlers[i]) <=> H[i] \in Ancestors(class)
      BY <1>2, IsAMeans
    <3>2. ASSUME NEW i \in 1 .. 12, H[i] \in Ancestors(class),
                 \A j \in 1 .. i - 1 : H[j] \notin Ancestors(class)
          PROVE  i = k
      <4>1. ~(i < k) /\ ~(k < i)
        BY <1>3, <3>2
      <4> QED BY <4>1
    <3> QED BY <1>3, <3>1, <3>2
  <2> DEFINE first == CHOOSE i \in DOMAIN RethrowHandlers :
                        /\ IsA(class, RethrowHandlers[i])
                        /\ \A j \in 1 .. i - 1 : ~IsA(class, RethrowHandlers[j])
  <2>2. Rethrow(class) = IF first > 9 THEN class ELSE RethrowHandlers[first]
    BY DEF Rethrow
  <2>3. first = k
    BY <1>1, <2>1
  <2> HIDE DEF first
  <2> QED BY <1>2, <2>2, <2>3
<1>4. class \in {"domain_error", "invalid_argument", "length_error", "out_of_range", "logic_error",
        "overflow_error", "underflow_error", "range_error", "system_error", "ios_failure",
        "runtime_error", "bad_alloc", "bad_exception", "exception"}
  BY BaseClasses
<1>5. ASSUME NEW k \in 1 .. 12, class = H[k], \A j \in 1 .. k - 1 : H[j] \notin Ancestors(class)
      PROVE  Rethrow(class) = class
  <2>1. class \in Ancestors(class)
    BY AncestorsFollow
  <2> QED BY <1>3, <1>5, <2>1
<1>6. CASE class \in {"domain_error", "invalid_argument", "length_error", "out_of_range"}
  <2>1. Ancestors(class) = {class, "logic_error", "exception"}
    BY <1>6 DEF Ancestors
  <2>2. PICK k \in 1 .. 4 : class = H[k]
    BY <1>1, <1>2, <1>6
  <2>3. \A j \in 1 .. k - 1 : H[j] \notin {class, "logic_error", "exception"}
    BY <1>1, <1>2, <2>2
  <2> QED BY <1>5, <2>1, <2>2, <2>3
<1>7. CASE class \in {"overflow_error", "underflow_error", "range_error"}
  <2>1. Ancestors(class) = {class, "runtime_error", "exception"}
    BY <1>7 DEF Ancestors
  <2>2. PICK k \in 6 .. 8 : class = H[k]
    BY <1>1, <1>2, <1>7
  <2>3. \A j \in 1 .. k - 1 : H[j] \notin {class, "runtime_error", "exception"}
    BY <1>1, <1>2, <2>2
  <2> QED BY <1>5, <2>1, <2>2, <2>3
<1>8. CASE class \in {"logic_error", "runtime_error", "bad_alloc", "bad_exception", "exception"}
  <2>1. Ancestors(class) = {class, "exception"}
    BY <1>8 DEF Ancestors
  <2>2. PICK k \in 5 .. 12 : class = H[k]
    BY <1>1, <1>2, <1>8
  <2>3. \A j \in 1 .. k - 1 : H[j] \notin {class, "exception"}
    BY <1>1, <1>2, <2>2
  <2> QED BY <1>5, <2>1, <2>2, <2>3
<1>9. CASE class \in {"system_error", "ios_failure"}
  <2>1. /\ "runtime_error" \in Ancestors(class)
        /\ Ancestors(class) \subseteq {class, "system_error", "runtime_error", "exception"}
        /\ "exception" \in Ancestors(class)
    BY <1>9 DEF Ancestors
  <2>2. Ancestors("runtime_error") = {"runtime_error", "exception"}
    BY DEF Ancestors
  <2>3. H[9] = "runtime_error" /\ \A j \in 1 .. 8 : H[j] \notin Ancestors(class)
    <3>1. \A j \in 1 .. 8 : H[j] \notin {class, "system_error", "runtime_error", "exception"}
      BY <1>1, <1>2, <1>9
    <3> QED BY <1>1, <1>2, <2>1, <3>1
  <2>4. Rethrow(class) = "runtime_error"
    <3>1. 9 \in 1 .. 12 /\ ~(9 > 9) /\ 9 - 1 = 8
      OBVIOUS
    <3>2. H[9] \in Ancestors(class)
      BY <2>1, <2>3
    <3> QED BY <1>3, <2>3, <3>1, <3>2
  <2>5. \A i \in 1 .. 12 : H[i] \in Ancestors(class) <=> H[i] \in {"runtime_error", "exception"}
    <3>1. \A i \in 1 .. 12 : H[i] \notin {"system_error", "ios_failure"}
      BY <1>1, <1>2
    <3> QED BY <1>9, <2>1, <3>1
  <2>6. "runtime_error" \in DOMAIN BaseClass
    BY BaseClasses
  <2>7. ASSUME NEW i \in DOMAIN RethrowHandlers
        PROVE  IsA(Rethrow(class), RethrowHandlers[i]) <=> IsA(class, RethrowHandlers[i])
    <3>1. IsA("runtime_error", RethrowHandlers[i]) <=> RethrowHandlers[i] \in Ancestors("runtime_error")
      BY <2>6, IsAMeans
    <3>2. IsA(class, RethrowHandlers[i]) <=> RethrowHandlers[i] \in Ancestors(class)
      BY IsAMeans
    <3> QED BY <1>1, <1>2, <2>2, <2>4, <2>5, <3>1, <3>2
  <2> QED BY <2>4, <2>6, <2>7
<1>10. CASE Rethrow(class) = class
  BY <1>10
<1> QED BY <1>4, <1>6, <1>7, <1>8, <1>9, <1>10
ErrorInv == raised # NoError =>
  /\ raised = [thrown |-> raised.thrown, rethrown |-> raised.rethrown, code |-> raised.code,
               said |-> raised.said]
  /\ raised.thrown.class \in DOMAIN BaseClass
  /\ raised.rethrown # NoError => raised.rethrown = Rethrow(raised.thrown.class)
  /\ raised.said # <<>> => raised.said = raised.thrown.what

\* What the exception says is the text that it would be told with.
LEMMA TextsAgree ==
  ASSUME NEW text, NEW condition
  PROVE  ToStreamError(text, condition, TRUE) =
           SystemErrorWhat(ToStreamError(text, condition, FALSE), condition)
<1>1. PICK S : S = {IF text = "" THEN "Error" ELSE text, condition.category, condition.value,
                    condition}
  OBVIOUS
<1>2. PICK s : s = <<IF text = "" THEN "Error" ELSE text, condition.category, condition.value>>
  OBVIOUS
<1>3. s \in Seq(S)
  <2>1. ASSUME NEW x \in S, NEW y \in S, NEW z \in S
        PROVE  <<x, y, z>> \in Seq(S)
    OBVIOUS
  <2>2. /\ (IF text = "" THEN "Error" ELSE text) \in S
        /\ condition.category \in S /\ condition.value \in S
    BY <1>1
  <2> QED BY <1>2, <2>1, <2>2
<1>4. s \o <<>> = s
  BY <1>3, ConcatEmptySeq
<1>5. condition \in S
  BY <1>1
<1>6. s \o <<condition>> = Append(s, condition)
  BY <1>3, <1>5, AppendIsConcat
<1> QED BY <1>2, <1>4, <1>6 DEF ToStreamError, SystemErrorWhat

LEMMA ErrorStep == ErrorInv /\ ErrorNext => ErrorInv'
<1> SUFFICES ASSUME ErrorInv, ErrorNext PROVE ErrorInv'
  OBVIOUS
<1>1. ASSUME NEW thrown, NEW code, NEW said, thrown.class \in DOMAIN BaseClass,
             said # <<>> => said = thrown.what,
             raised' = [thrown |-> thrown, rethrown |-> NoError, code |-> code, said |-> said]
      PROVE  ErrorInv'
  BY <1>1 DEF ErrorInv
<1>2. "system_error" \in DOMAIN BaseClass
  BY BaseClasses
<1>3. ASSUME NEW code, NEW text, NEW say \in BOOLEAN, ErrorIsThrown(code, text, say)
      PROVE  ErrorInv'
  <2>1. ASSUME NEW condition, NEW said, NEW what,
               what = SystemErrorWhat(ToStreamError(text, condition, FALSE), condition),
               said = IF say THEN ToStreamError(text, condition, TRUE) ELSE <<>>,
               raised' = [thrown |-> [class |-> "system_error", what |-> what],
                          rethrown |-> NoError, code |-> code, said |-> said]
        PROVE  ErrorInv'
    <3>1. said # <<>> => said = what
      BY <2>1, TextsAgree
    <3>2. PICK thrown : thrown = [class |-> "system_error", what |-> what]
      OBVIOUS
    <3>3. thrown.class = "system_error" /\ thrown.what = what
      BY <3>2
    <3> QED BY <1>1, <1>2, <2>1, <3>1, <3>2, <3>3
  <2>2. CASE raised' = [thrown |-> ThrowErrno(code, text), rethrown |-> NoError, code |-> code,
                        said |-> IF say THEN ToStringErrno(code, text, TRUE) ELSE <<>>]
    BY <2>1, <2>2 DEF ThrowErrno, ToStringErrno
  <2>3. CASE raised' = [thrown |-> ThrowSystemError(code, text), rethrown |-> NoError,
                        code |-> code,
                        said |-> IF say THEN ToStringSystemError(code, text, TRUE) ELSE <<>>]
    BY <2>1, <2>3 DEF ThrowSystemError, ToStringSystemError
  <2> QED BY <1>3, <2>2, <2>3 DEF ErrorIsThrown
<1>4. ASSUME NEW class \in DOMAIN BaseClass,
             raised' = [thrown |-> [class |-> class, what |-> <<class>>], rethrown |-> NoError,
                        code |-> 0, said |-> <<>>]
      PROVE  ErrorInv'
  <2>1. PICK thrown : thrown = [class |-> class, what |-> <<class>>]
    OBVIOUS
  <2>2. thrown.class = class
    BY <2>1
  <2> QED BY <1>1, <1>4, <2>1, <2>2
<1>5. CASE Raise
  BY <1>3, <1>4, <1>5 DEF Raise
<1>6. CASE RaiseAgain
  <2>1. PICK r : r = Rethrow(raised.thrown.class)
    OBVIOUS
  <2>2. raised # NoError /\ raised' = [raised EXCEPT !.rethrown = r]
    BY <1>6, <2>1 DEF RaiseAgain
  <2>3. /\ raised'.thrown = raised.thrown /\ raised'.rethrown = r /\ raised'.code = raised.code
        /\ raised'.said = raised.said
        /\ raised' = [thrown |-> raised'.thrown, rethrown |-> raised'.rethrown,
                      code |-> raised'.code, said |-> raised'.said]
    BY <2>2 DEF ErrorInv
  <2> QED BY <2>1, <2>2, <2>3 DEF ErrorInv
<1> QED BY <1>5, <1>6 DEF ErrorNext

LEMMA KeptByInv == ErrorInv => ErrorsKept
  BY RethrowKeeps DEF ErrorInv, ErrorsKept

-----------------------------------------------------------------------------
(* The file.                                                               *)

ReaderInv ==
  /\ reader = [data |-> reader.data, state |-> reader.state, size |-> reader.size,
               read |-> reader.read, old |-> reader.old, content |-> reader.content,
               touched |-> reader.touched]
  /\ file = [bytes |-> file.bytes, changes |-> file.changes]
  /\ file.bytes \in Seq(FileBytes) /\ reader.read \in Seq(FileBytes)
  /\ reader.content \in Seq(FileBytes) /\ reader.size = Len(reader.content)
  /\ reader.touched \in BOOLEAN
  /\ reader.state # "returned" => reader.data = reader.old
  /\ reader.state = "reading" =>
       /\ Len(reader.read) < reader.size
       /\ ~reader.touched => /\ reader.content = file.bytes
                             /\ \A i \in 1 .. Len(reader.read) : reader.read[i] = file.bytes[i]
  /\ reader.state = "returned" => /\ reader.data \in Seq(FileBytes)
                                  /\ Len(reader.data) = reader.size
                                  /\ ~reader.touched => reader.data = reader.content

\* A change of the reader's record.
LEMMA ReaderFields ==
  ASSUME ReaderInv, NEW data, NEW state, NEW read, NEW old, NEW touched,
         reader' = [reader EXCEPT !.data = data, !.state = state, !.read = read, !.old = old,
                                  !.touched = touched]
  PROVE  /\ reader'.data = data /\ reader'.state = state /\ reader'.read = read
         /\ reader'.old = old /\ reader'.touched = touched
         /\ reader'.size = reader.size /\ reader'.content = reader.content
         /\ reader' = [data |-> reader'.data, state |-> reader'.state, size |-> reader'.size,
                       read |-> reader'.read, old |-> reader'.old, content |-> reader'.content,
                       touched |-> reader'.touched]
  BY DEF ReaderInv

LEMMA ReadFailsStep ==
  ASSUME ReaderInv, NEW old, old = IF reader.state = "reading" THEN reader.old ELSE reader.data,
         ReadFails(old), UNCHANGED file
  PROVE  ReaderInv'
<1>0. PICK d, t : d = reader.data /\ t = reader.touched
  OBVIOUS
<1>1. reader' = [reader EXCEPT !.data = d, !.state = "threw", !.read = <<>>, !.old = old,
                               !.touched = t]
  BY <1>0 DEF ReadFails, ReaderInv
<1>2. reader.data = old
  BY DEF ReaderInv
<1>3. /\ reader'.data = d /\ reader'.state = "threw" /\ reader'.read = <<>>
      /\ reader'.old = old /\ reader'.touched = t
      /\ reader'.size = reader.size /\ reader'.content = reader.content
      /\ reader' = [data |-> reader'.data, state |-> reader'.state, size |-> reader'.size,
                    read |-> reader'.read, old |-> reader'.old, content |-> reader'.content,
                    touched |-> reader'.touched]
  BY <1>1 DEF ReaderInv
<1>4. file' = file /\ <<>> \in Seq(FileBytes)
  OBVIOUS
<1> QED BY <1>0, <1>2, <1>3, <1>4 DEF ReaderInv

LEMMA ReadFileSizeStep == ReaderInv /\ ReadFileSize => ReaderInv'
<1> SUFFICES ASSUME ReaderInv, ReadFileSize PROVE ReaderInv'
  OBVIOUS
<1>0. reader.state # "reading" /\ file' = file
  BY DEF ReadFileSize
<1>1. CASE ReadFails(reader.data)
  BY <1>0, <1>1, ReadFailsStep
<1>2. CASE /\ file.bytes = <<>>
           /\ reader' = [data |-> <<>>, state |-> "returned", size |-> 0, read |-> <<>>,
                         old |-> reader.data, content |-> <<>>, touched |-> FALSE]
  <2>1. <<>> \in Seq(FileBytes) /\ Len(<<>>) = 0
    OBVIOUS
  <2> QED BY <1>0, <1>2, <2>1 DEF ReaderInv
<1>3. CASE /\ file.bytes # <<>>
           /\ reader' = [data |-> reader.data, state |-> "reading", size |-> Len(file.bytes),
                         read |-> <<>>, old |-> reader.data, content |-> file.bytes,
                         touched |-> FALSE]
  <2>1. PICK b : b = file.bytes
    OBVIOUS
  <2>2. b \in Seq(FileBytes) /\ b # <<>>
    BY <1>3, <2>1 DEF ReaderInv
  <2>3. Len(b) \in Nat /\ 0 < Len(b)
    BY <2>2, EmptySeq, LenProperties
  <2>4. <<>> \in Seq(FileBytes) /\ Len(<<>>) = 0
    OBVIOUS
  <2>5. /\ reader'.data = reader.data /\ reader'.state = "reading" /\ reader'.size = Len(b)
        /\ reader'.read = <<>> /\ reader'.old = reader.data /\ reader'.content = b
        /\ reader'.touched = FALSE
        /\ reader' = [data |-> reader'.data, state |-> reader'.state, size |-> reader'.size,
                      read |-> reader'.read, old |-> reader'.old, content |-> reader'.content,
                      touched |-> reader'.touched]
    BY <1>3, <2>1
  <2>6. /\ Len(reader'.read) < reader'.size
        /\ \A i \in 1 .. Len(reader'.read) : reader'.read[i] = b[i]
    BY <2>3, <2>4, <2>5
  <2>7. file'.bytes = b /\ file' = [bytes |-> file'.bytes, changes |-> file'.changes]
    BY <1>0, <2>1 DEF ReaderInv
  <2>8. reader.data = reader'.old /\ reader'.state # "returned" /\ reader'.touched \in BOOLEAN
    BY <2>5
  <2> QED BY <2>2, <2>4, <2>5, <2>6, <2>7, <2>8 DEF ReaderInv
<1> QED BY <1>1, <1>2, <1>3 DEF ReadFileSize

LEMMA ReadFileByteStep == ReaderInv /\ ReadFileByte => ReaderInv'
<1> SUFFICES ASSUME ReaderInv, ReadFileByte PROVE ReaderInv'
  OBVIOUS
<1>0. reader.state = "reading" /\ file' = file
  BY DEF ReadFileByte
<1>1. CASE ReadFails(reader.old)
  BY <1>0, <1>1, ReadFailsStep
<1>2. CASE ~ReadFails(reader.old)
  <2>1. PICK r, c, b, n : r = reader.read /\ c = reader.content /\ b = file.bytes /\ n = Len(r) + 1
    OBVIOUS
  <2>2. r \in Seq(FileBytes) /\ c \in Seq(FileBytes) /\ b \in Seq(FileBytes)
    BY <2>1 DEF ReaderInv
  <2>3. Len(r) \in Nat /\ Len(c) \in Nat /\ Len(b) \in Nat
    BY <2>2, LenProperties
  <2>4. reader.size = Len(c) /\ n \in 1 .. Len(c)
    BY <1>0, <2>1, <2>3 DEF ReaderInv
  <2>5. n \in DOMAIN b /\ b[n] \in FileBytes
    BY <1>2, <2>1, <2>2 DEF ReadFileByte
  <2>6. PICK a : a = Append(r, b[n])
    OBVIOUS
  <2>7. /\ a \in Seq(FileBytes) /\ Len(a) = n
        /\ \A i \in 1 .. Len(r) : a[i] = r[i]
        /\ a[n] = b[n]
    BY <2>1, <2>2, <2>3, <2>5, <2>6, AppendProperties
  <2>8. ~reader.touched => c = b /\ \A i \in 1 .. n : a[i] = b[i]
    <3>1. ~reader.touched => c = b /\ \A i \in 1 .. Len(r) : r[i] = b[i]
      BY <1>0, <2>1 DEF ReaderInv
    <3>2. \A i \in 1 .. n : i \in 1 .. Len(r) \/ i = n
      BY <2>1, <2>3
    <3> QED BY <2>7, <3>1, <3>2
  <2>9. CASE n < reader.size
    <3>1. reader' = [reader EXCEPT !.read = a]
      BY <1>2, <2>1, <2>6, <2>9 DEF ReadFileByte
    <3>2. reader' = [reader EXCEPT !.data = reader.data, !.state = "reading", !.read = a,
                                   !.old = reader.old, !.touched = reader.touched]
      BY <1>0, <3>1 DEF ReaderInv
    <3>3. /\ reader'.data = reader.data /\ reader'.state = "reading" /\ reader'.read = a
          /\ reader'.old = reader.old /\ reader'.touched = reader.touched
          /\ reader'.size = reader.size /\ reader'.content = reader.content
          /\ reader' = [data |-> reader'.data, state |-> reader'.state, size |-> reader'.size,
                        read |-> reader'.read, old |-> reader'.old, content |-> reader'.content,
                        touched |-> reader'.touched]
      BY <3>2, ReaderFields
    <3>4. reader.data = reader.old
      BY <1>0 DEF ReaderInv
    <3> QED BY <1>0, <2>1, <2>7, <2>8, <2>9, <3>3, <3>4 DEF ReaderInv
  <2>10. CASE ~(n < reader.size)
    <3>1. reader' = [reader EXCEPT !.data = a, !.read = <<>>, !.state = "returned"]
      BY <1>2, <2>1, <2>6, <2>10 DEF ReadFileByte
    <3>2. reader' = [reader EXCEPT !.data = a, !.state = "returned", !.read = <<>>,
                                   !.old = reader.old, !.touched = reader.touched]
      BY <3>1 DEF ReaderInv
    <3>3. /\ reader'.data = a /\ reader'.state = "returned" /\ reader'.read = <<>>
          /\ reader'.old = reader.old /\ reader'.touched = reader.touched
          /\ reader'.size = reader.size /\ reader'.content = reader.content
          /\ reader' = [data |-> reader'.data, state |-> reader'.state, size |-> reader'.size,
                        read |-> reader'.read, old |-> reader'.old, content |-> reader'.content,
                        touched |-> reader'.touched]
      BY <3>2, ReaderFields
    <3>4. n = Len(c)
      BY <2>3, <2>4, <2>10
    <3>5. ~reader.touched => a = c
      <4> SUFFICES ASSUME ~reader.touched PROVE a = c
        OBVIOUS
      <4>1. Len(a) = Len(c) /\ \A i \in 1 .. Len(a) : a[i] = c[i]
        BY <2>7, <2>8, <3>4
      <4> QED BY <2>2, <2>7, <4>1, SeqEqual
    <3>6. <<>> \in Seq(FileBytes)
      OBVIOUS
    <3> QED BY <1>0, <2>1, <2>4, <2>7, <3>3, <3>4, <3>5, <3>6 DEF ReaderInv
  <2> QED BY <2>9, <2>10
<1> QED BY <1>1, <1>2

LEMMA FileWrittenStep == ReaderInv /\ FileWritten => ReaderInv'
<1> SUFFICES ASSUME ReaderInv, FileWritten PROVE ReaderInv'
  OBVIOUS
<1>0. PICK n \in 0 .. FileMax : \E bytes \in [1 .. n -> FileBytes] :
        file' = [bytes |-> bytes, changes |-> file.changes + 1]
  BY DEF FileWritten
<1>1. PICK bytes \in [1 .. n -> FileBytes] :
        file' = [bytes |-> bytes, changes |-> file.changes + 1]
  BY <1>0
<1>2. n \in Nat
  BY ProcessAssumption
<1>3. bytes \in Seq(FileBytes)
  BY <1>2
<1>4. PICK t \in BOOLEAN : t = (reader.touched \/ reader.state = "reading")
  OBVIOUS
<1>5. reader' = [reader EXCEPT !.data = reader.data, !.state = reader.state, !.read = reader.read,
                               !.old = reader.old, !.touched = t]
  BY <1>4 DEF FileWritten, ReaderInv
<1>6. /\ reader'.data = reader.data /\ reader'.state = reader.state /\ reader'.read = reader.read
      /\ reader'.old = reader.old /\ reader'.touched = t
      /\ reader'.size = reader.size /\ reader'.content = reader.content
      /\ reader' = [data |-> reader'.data, state |-> reader'.state, size |-> reader'.size,
                    read |-> reader'.read, old |-> reader'.old, content |-> reader'.content,
                    touched |-> reader'.touched]
  BY <1>5, ReaderFields
<1>7. file'.bytes = bytes /\ file' = [bytes |-> file'.bytes, changes |-> file'.changes]
  BY <1>1
<1> QED BY <1>3, <1>4, <1>6, <1>7 DEF ReaderInv

LEMMA ReadByInv == ReaderInv => FileReadWhole
  BY DEF ReaderInv, FileReadWhole

-----------------------------------------------------------------------------
\* The four calls of Sleep.cpp:53, ResourceLimits.cpp:90, ExceptionRethrow.hpp:55 and
\* ReadFile.cpp:42 do what was asked, or leave what they found, with a signal, a
\* failure or another process between any two steps, for every width of an unsigned
\* int, every list of limits and every file.
THEOREM CallsDone == ProcessSpec => []CallsDoAsAsked
<1> DEFINE IInv == SleepInv /\ LimitsInv /\ ErrorInv /\ ReaderInv
<1>1. ProcessInit => IInv
  <2> SUFFICES ASSUME ProcessInit PROVE IInv
    OBVIOUS
  <2>1. SleepInv
    <3>1. sleeper = [call |-> "SleepNanoSecs", asked |-> 0, requested |-> 0, slept |-> 0,
                     signalled |-> FALSE, outcome |-> "returned"]
      BY DEF ProcessInit, SleepInit, Asleep
    <3> QED BY <3>1 DEF SleepInv
  <2>2. LimitsInv
    BY LimitsStart DEF ProcessInit
  <2>3. ErrorInv
    BY DEF ProcessInit, ErrorInit, ErrorInv
  <2>4. ReaderInv
    <3>1. <<>> \in Seq(FileBytes) /\ Len(<<>>) = 0
      OBVIOUS
    <3> QED BY <3>1 DEF ProcessInit, ReaderInit, ReaderInv
  <2> QED BY <2>1, <2>2, <2>3, <2>4
<1>2. IInv /\ [ProcessNext]_processVars => IInv'
  <2> SUFFICES ASSUME IInv, [ProcessNext]_processVars PROVE IInv'
    OBVIOUS
  <2>0. /\ UNCHANGED sleeper => SleepInv'
        /\ UNCHANGED limits => LimitsInv'
        /\ UNCHANGED raised => ErrorInv'
        /\ UNCHANGED <<reader, file>> => ReaderInv'
    BY DEF SleepInv, LimitsInv, ErrorInv, ReaderInv
  <2>1. CASE SleepNext
    <3>1. UNCHANGED <<limits, raised, reader, file>>
      BY <2>1 DEF SleepNext, StartSleep, SleepGoesOn
    <3> QED BY <2>0, <2>1, <3>1, StartSleepStep, SleepStep DEF SleepNext
  <2>2. CASE LimitsNext
    <3>1. UNCHANGED <<sleeper, raised, reader, file>>
      BY <2>2 DEF LimitsNext, RaiseLimit, LimitsDone
    <3> QED BY <2>0, <2>2, <3>1, LimitsStep
  <2>3. CASE ErrorNext
    <3>1. UNCHANGED <<sleeper, limits, reader, file>>
      BY <2>3 DEF ErrorNext, Raise, RaiseAgain
    <3> QED BY <2>0, <2>3, <3>1, ErrorStep
  <2>4. CASE ReaderNext
    <3>1. UNCHANGED <<sleeper, limits, raised>>
      BY <2>4 DEF ReaderNext, ReadFileSize, ReadFileByte, FileWritten
    <3> QED BY <2>0, <2>4, <3>1, ReadFileSizeStep, ReadFileByteStep, FileWrittenStep DEF ReaderNext
  <2>5. CASE UNCHANGED processVars
    BY <2>0, <2>5 DEF processVars
  <2> QED BY <2>1, <2>2, <2>3, <2>4, <2>5 DEF ProcessNext
<1>3. IInv => CallsDoAsAsked
  BY SleptByInv, RaisedByInv, KeptByInv, ReadByInv DEF CallsDoAsAsked
<1> QED BY <1>1, <1>2, <1>3, PTL DEF ProcessSpec
-----------------------------------------------------------------------------
(* Configuration: what a value means to a member.                          *)

IsValue(value) ==
  \/ value.kind = "word" /\ value = Word(value.text)
  \/ /\ value.kind = "number" /\ value.value \in Int /\ value.clean \in BOOLEAN
     /\ value = Number(value.value, value.clean)

\* What strtoll() and strtoull() make of a number that is not the type's is not
\* the type's either, unless it is the limit or the number that Means says.
LEMMA NumberMeans ==
  ASSUME NEW name \in DOMAIN NumericTypes, NEW n \in Int
  PROVE  LET type == NumericTypes[name]
             wide == StrToType(type, n)
         IN Means(type, n) = IF wide < type.min \/ wide > type.max THEN {} ELSE {wide}
<1> DEFINE type == NumericTypes[name]
           wide == StrToType(type, n)
           widest == type.max = (IF type.is_signed THEN WideMax ELSE UWideMax)
<1>1. WideMax \in Nat /\ UWideMax = 2 * WideMax + 1 /\ UWideMax \in Nat
  BY TypesAssumption DEF UWideMax
<1>2. \/ type.is_signed = TRUE /\ type.max \in 0 .. WideMax /\ type.min = -type.max - 1
      \/ type.is_signed = FALSE /\ type.max \in 0 .. UWideMax /\ type.min = 0
  BY TypesAssumption
<1>3. Means(type, n) =
        IF type.min <= n /\ n <= type.max THEN {n}
        ELSE IF ~type.is_signed /\ n < 0 /\ n >= -UWideMax
        THEN {n + UWideMax + 1} \cap type.min .. type.max
        ELSE IF widest THEN {IF type.is_signed /\ n < type.min THEN type.min ELSE type.max}
        ELSE {}
  BY DEF Means
<1>4. CASE type.is_signed = TRUE
  <2>1. wide = IF n < -WideMax - 1 THEN -WideMax - 1 ELSE IF n > WideMax THEN WideMax ELSE n
    BY <1>4 DEF StrToType, Clamp
  <2>2. Means(type, n) =
          IF type.min <= n /\ n <= type.max THEN {n}
          ELSE IF type.max = WideMax THEN {IF n < type.min THEN type.min ELSE type.max}
          ELSE {}
    BY <1>3, <1>4
  <2>3. PICK max \in 0 .. WideMax, w \in Int :
          max = type.max /\ w = wide /\ type.min = -max - 1
    BY <1>1, <1>2, <1>4, <2>1
  <2>4. w = IF n < -WideMax - 1 THEN -WideMax - 1 ELSE IF n > WideMax THEN WideMax ELSE n
    BY <2>1, <2>3
  <2>5. Means(type, n) =
          IF -max - 1 <= n /\ n <= max THEN {n}
          ELSE IF max = WideMax THEN {IF n < -max - 1 THEN -max - 1 ELSE max}
          ELSE {}
    BY <2>2, <2>3
  <2> HIDE DEF type, wide
  <2>6. CASE -max - 1 <= n /\ n <= max
    <3>1. w = n
      BY <1>1, <2>3, <2>4, <2>6
    <3> QED BY <1>1, <2>3, <2>5, <2>6, <3>1 DEF type, wide
  <2>7. CASE ~(-max - 1 <= n /\ n <= max) /\ max = WideMax
    <3>1. w = (IF n < -max - 1 THEN -max - 1 ELSE max) /\ -max - 1 <= w /\ w <= max
      BY <1>1, <2>3, <2>4, <2>7
    <3>2. Means(type, n) = {w}
      BY <2>5, <2>7, <3>1
    <3> QED BY <1>1, <2>3, <3>1, <3>2 DEF type, wide
  <2>8. CASE ~(-max - 1 <= n /\ n <= max) /\ max # WideMax
    <3>1. w < -max - 1 \/ w > max
      BY <1>1, <2>3, <2>4, <2>8
    <3>2. Means(type, n) = {}
      BY <2>5, <2>8
    <3> QED BY <2>3, <3>1, <3>2 DEF type, wide
  <2> QED BY <2>6, <2>7, <2>8
<1>5. CASE type.is_signed = FALSE
  <2>1. wide = IF n < -UWideMax \/ n > UWideMax THEN UWideMax ELSE n % (UWideMax + 1)
    BY <1>5 DEF StrToType
  <2>2. Means(type, n) =
          IF type.min <= n /\ n <= type.max THEN {n}
          ELSE IF n < 0 /\ n >= -UWideMax THEN {n + UWideMax + 1} \cap type.min .. type.max
          ELSE IF type.max = UWideMax THEN {type.max} ELSE {}
    BY <1>3, <1>5
  <2>3. n % (UWideMax + 1) \in Int
    BY <1>1
  <2>4. PICK max \in 0 .. UWideMax, w \in Int :
          max = type.max /\ w = wide /\ type.min = 0
    BY <1>1, <1>2, <1>5, <2>1, <2>3
  <2>5. w = IF n < -UWideMax \/ n > UWideMax THEN UWideMax
            ELSE IF 0 <= n THEN n ELSE n + UWideMax + 1
    <3>1. CASE n < -UWideMax \/ n > UWideMax
      BY <2>1, <2>4, <3>1
    <3>2. CASE -UWideMax <= n /\ n <= UWideMax /\ 0 <= n
      <4>1. n % (UWideMax + 1) = n
        BY <1>1, <3>2
      <4> QED BY <1>1, <2>1, <2>4, <3>2, <4>1
    <3>3. CASE -UWideMax <= n /\ n <= UWideMax /\ ~(0 <= n)
      <4>1. n % (UWideMax + 1) = n + UWideMax + 1
        BY <1>1, <3>3
      <4> QED BY <1>1, <2>1, <2>4, <3>3, <4>1
    <3> QED BY <1>1, <3>1, <3>2, <3>3
  <2>6. Means(type, n) =
          IF 0 <= n /\ n <= max THEN {n}
          ELSE IF n < 0 /\ n >= -UWideMax THEN {n + UWideMax + 1} \cap 0 .. max
          ELSE IF max = UWideMax THEN {max} ELSE {}
    BY <2>2, <2>4
  <2> HIDE DEF type, wide
  <2>7. CASE 0 <= n /\ n <= max
    <3>1. w = n
      BY <1>1, <2>4, <2>5, <2>7
    <3> QED BY <1>1, <2>4, <2>6, <2>7, <3>1 DEF type, wide
  <2>8. CASE n < 0 /\ n >= -UWideMax
    <3>1. w = n + UWideMax + 1 /\ ~(w < 0)
      BY <1>1, <2>5, <2>8
    <3>2. Means(type, n) = {w} \cap 0 .. max
      BY <2>6, <2>8, <3>1
    <3>3. {w} \cap 0 .. max = IF w > max THEN {} ELSE {w}
      BY <1>1, <2>4, <3>1
    <3> QED BY <2>4, <3>1, <3>2, <3>3 DEF type, wide
  <2>9. CASE (n < -UWideMax \/ n > max) /\ max = UWideMax
    <3>1. w = max /\ 0 <= w
      BY <1>1, <2>4, <2>5, <2>9
    <3>2. Means(type, n) = {w}
      BY <1>1, <2>6, <2>9, <3>1
    <3> QED BY <1>1, <2>4, <3>1, <3>2 DEF type, wide
  <2>10. CASE (n < -UWideMax \/ n > max) /\ max # UWideMax
    <3>1. w > max
      BY <1>1, <2>4, <2>5, <2>10
    <3>2. Means(type, n) = {}
      BY <1>1, <2>6, <2>10
    <3> QED BY <2>4, <3>1, <3>2 DEF type, wide
  <2> QED BY <1>1, <2>7, <2>8, <2>9, <2>10
<1> QED BY <1>2, <1>4, <1>5

\* The three ways in which a value can be no number.
LEMMA ValuesDiffer ==
  ASSUME NEW text, NEW other, NEW value, NEW clean
  PROVE  /\ Word(text).kind = "word" /\ Word(text).text = text
         /\ Number(value, clean).kind = "number" /\ Number(value, clean).value = value
         /\ Number(value, clean).clean = clean
         /\ Word(text) # Number(value, clean)
         /\ (Word(text) = Word(other)) <=> (text = other)
<1>1. Word(text).kind = "word" /\ Word(text).text = text /\ Word(other).text = other
  BY DEF Word
<1>2. /\ Number(value, clean).kind = "number" /\ Number(value, clean).value = value
      /\ Number(value, clean).clean = clean
  BY DEF Number
<1> QED BY <1>1, <1>2

\* A member takes what the value means to it, and refuses a value that means nothing.
LEMMA DatumMeans ==
  ASSUME NEW name \in DOMAIN Members, NEW value, IsValue(value), NEW datum
  PROVE  LET type   == Members[name]
             result == ParseCfgItemDatum(type, value, datum)
         IN /\ result.refused \in BOOLEAN
            /\ result.refused => result.value = datum /\ \A any : ValueMeans(type, value, any) = {}
            /\ ~result.refused => ValueMeans(type, value, datum) = {result.value}
            /\ ~result.refused /\ type \notin {"bool", "string"} /\ value = EmptyValue
                 => result.value = datum
<1> DEFINE type   == Members[name]
           result == ParseCfgItemDatum(type, value, datum)
<1>1. type \in DOMAIN NumericTypes \cup {"bool", "string"}
  BY LinesAssumption
<1>r. ASSUME NEW x
      PROVE  Accepted(x).refused = FALSE /\ Accepted(x).value = x /\ Refused(x).refused = TRUE /\ Refused(x).value = x
  BY DEF Accepted, Refused
<1> HIDE DEF type, result
<1>2. CASE type = "string"
  <2>1. result = Accepted(value)
    BY <1>2 DEF ParseCfgItemDatum, type, result
  <2>2. ValueMeans(type, value, datum) = {value}
    BY <1>2 DEF ValueMeans
  <2> QED BY <1>r, <1>2, <2>1, <2>2 DEF type, result
<1>3. CASE type = "bool"
  <2> DEFINE means == {b \in BOOLEAN : \/ value \in {Word(w) : w \in IF b THEN TrueWords ELSE FalseWords}
                                      \/ value = Number(IF b THEN 1 ELSE 0, TRUE)}
  <2>1. result = ParseCfgItemBool(value, datum)
    BY <1>3 DEF ParseCfgItemDatum, type, result
  <2>2. \A any : ValueMeans(type, value, any) = means
    BY <1>3 DEF ValueMeans
  <2>3. result = CASE value.kind = "number" /\ value.clean /\ value.value \in {0, 1} -> Accepted(value.value = 1)
                   [] value.kind = "word" /\ value.text \in TrueWords  -> Accepted(TRUE)
                   [] value.kind = "word" /\ value.text \in FalseWords -> Accepted(FALSE)
                   [] OTHER -> Refused(datum)
    BY <2>1 DEF ParseCfgItemBool
  <2>4. CASE value.kind = "word"
    <3>1. value = Word(value.text)
      BY <2>4, ValuesDiffer DEF IsValue
    <3>2. ASSUME NEW b \in BOOLEAN
          PROVE  b \in means <=> value.text \in (IF b THEN TrueWords ELSE FalseWords)
      <4>1. \A v : value # Number(v, TRUE)
        <5>1. \A v : Number(v, TRUE).kind = "number"
          BY DEF Number
        <5> QED BY <2>4, <5>1
      <4>2. \A w : value = Word(w) <=> w = value.text
        BY <3>1, ValuesDiffer
      <4> QED BY <4>1, <4>2
    <3>3. TRUE \in means <=> value.text \in TrueWords
      BY <3>2
    <3>4. FALSE \in means <=> value.text \in FalseWords
      BY <3>2
    <3>5. means \subseteq BOOLEAN
      OBVIOUS
    <3> HIDE DEF means
    <3>6. CASE value.text \in TrueWords
      <4>1. value.text \notin FalseWords
        BY <3>6, LinesAssumption
      <4>2. means = {TRUE}
        BY <3>3, <3>4, <3>5, <3>6, <4>1
      <4>3. result = Accepted(TRUE)
        BY <2>3, <2>4, <3>6, <4>1
      <4> QED BY <1>r, <1>3, <2>2, <4>2, <4>3 DEF type, result
    <3>7. CASE value.text \in FalseWords
      <4>1. value.text \notin TrueWords
        BY <3>7, LinesAssumption
      <4>2. means = {FALSE}
        BY <3>3, <3>4, <3>5, <3>7, <4>1
      <4>3. result = Accepted(FALSE)
        BY <2>3, <2>4, <3>7, <4>1
      <4> QED BY <1>r, <1>3, <2>2, <4>2, <4>3 DEF type, result
    <3>8. CASE value.text \notin TrueWords \cup FalseWords
      <4>1. means = {}
        BY <3>3, <3>4, <3>5, <3>8
      <4>2. result = Refused(datum)
        BY <2>3, <2>4, <3>8
      <4> QED BY <1>r, <1>3, <2>2, <4>1, <4>2 DEF type, result
    <3> QED BY <3>6, <3>7, <3>8
  <2>5. CASE value.kind # "word"
    <3>1. /\ value.kind = "number" /\ value.value \in Int /\ value.clean \in BOOLEAN
          /\ value = Number(value.value, value.clean)
      BY <2>5 DEF IsValue
    <3>2. ASSUME NEW b \in BOOLEAN
          PROVE  b \in means <=> value.clean /\ value.value = (IF b THEN 1 ELSE 0)
      <4>1. \A w : value # Word(w)
        BY <3>1, ValuesDiffer
      <4>2. \A v, c : value = Number(v, c) <=> value.value = v /\ value.clean = c
        BY <3>1, ValuesDiffer
      <4> QED BY <4>1, <4>2
    <3>3. TRUE \in means <=> value.clean /\ value.value = 1
      BY <3>2
    <3>4. FALSE \in means <=> value.clean /\ value.value = 0
      BY <3>2
    <3>5. means \subseteq BOOLEAN
      OBVIOUS
    <3> HIDE DEF means
    <3>6. CASE value.clean /\ value.value = 1
      <4>z. ~(value.value = 0 /\ value.value = 1)
        OBVIOUS
      <4>0. TRUE \in means /\ FALSE \notin means
        BY <3>3, <3>4, <3>6, <4>z, Zenon
      <4>1. means = {TRUE}
        BY <3>5, <4>0
      <4>2. result = Accepted(TRUE)
        BY <2>3, <2>5, <3>1, <3>6
      <4> QED BY <1>r, <1>3, <2>2, <4>1, <4>2 DEF type, result
    <3>7. CASE value.clean /\ value.value = 0
      <4>z. ~(value.value = 0 /\ value.value = 1)
        OBVIOUS
      <4>0. FALSE \in means /\ TRUE \notin means
        BY <3>3, <3>4, <3>7, <4>z, Zenon
      <4>1. means = {FALSE}
        BY <3>5, <4>0
      <4>2. (value.value = 1) = FALSE
        BY <3>7
      <4>3. result = Accepted(value.value = 1)
        BY <2>3, <2>5, <3>1, <3>7
      <4>4. result = Accepted(FALSE)
        BY <4>2, <4>3
      <4> QED BY <1>r, <1>3, <2>2, <4>1, <4>4 DEF type, result
    <3>8. CASE ~(value.clean /\ value.value \in {0, 1})
      <4>1. means = {}
        BY <3>3, <3>4, <3>5, <3>8
      <4>2. result = Refused(datum)
        BY <2>3, <2>5, <3>1, <3>8
      <4> QED BY <1>r, <1>3, <2>2, <4>1, <4>2 DEF type, result
    <3> QED BY <3>6, <3>7, <3>8
  <2> QED BY <2>4, <2>5
<1>4. CASE type \notin {"bool", "string"}
  <2>1. type \in DOMAIN NumericTypes
    BY <1>1, <1>4
  <2>2. result = IF value = EmptyValue THEN Accepted(datum)
                 ELSE ParseNumericString(NumericTypes[type], AsNumber(value), datum)
    BY <1>4 DEF ParseCfgItemDatum, type, result
  <2>3. ASSUME NEW any
        PROVE  ValueMeans(type, value, any) =
                 IF value = EmptyValue THEN {any}
                 ELSE IF value.kind = "word" \/ ~value.clean THEN {}
                 ELSE Means(NumericTypes[type], value.value)
    BY <1>4 DEF ValueMeans
  <2>4. CASE value = EmptyValue
    <3>1. result = Accepted(datum) /\ ValueMeans(type, value, datum) = {datum}
      BY <2>2, <2>3, <2>4
    <3> QED BY <1>r, <3>1 DEF type, result
  <2>5. CASE value # EmptyValue /\ value.kind = "word"
    <3>1. AsNumber(value) = Number(0, FALSE)
      BY <2>5 DEF AsNumber
    <3>2. result = ParseNumericString(NumericTypes[type], Number(0, FALSE), datum)
      BY <2>2, <2>5, <3>1
    <3>4. ~Number(0, FALSE).clean
      BY DEF Number
    <3>5. result = Refused(datum)
      BY <3>2, <3>4 DEF ParseNumericString
    <3>3. \A any : ValueMeans(type, value, any) = {}
      BY <2>3, <2>5
    <3> QED BY <1>r, <3>5, <3>3, <2>5 DEF type, result
  <2>6. CASE value # EmptyValue /\ value.kind # "word"
    <3>1. value.kind = "number" /\ value.value \in Int /\ value.clean \in BOOLEAN
      BY <2>6 DEF IsValue
    <3> DEFINE wide == StrToType(NumericTypes[type], value.value)
               beyond == wide < NumericTypes[type].min \/ wide > NumericTypes[type].max
    <3>2. AsNumber(value) = value
      BY <3>1 DEF AsNumber
    <3>3. result = IF ~value.clean \/ beyond THEN Refused(datum) ELSE Accepted(wide)
      BY <2>2, <2>6, <3>2 DEF ParseNumericString
    <3>4. Means(NumericTypes[type], value.value) = IF beyond THEN {} ELSE {wide}
      BY <2>1, <3>1, NumberMeans
    <3>5. \A any : ValueMeans(type, value, any) = IF ~value.clean \/ beyond THEN {} ELSE {wide}
      BY <2>3, <2>6, <3>4
    <3> HIDE DEF beyond, wide
    <3>6. CASE ~value.clean \/ beyond
      BY <1>r, <2>6, <3>3, <3>5, <3>6 DEF type, result
    <3>7. CASE ~(~value.clean \/ beyond)
      <4>1. result = Accepted(wide)
        BY <3>3, <3>7
      <4>2. ValueMeans(type, value, datum) = {wide}
        BY <3>5, <3>7
      <4> QED BY <1>r, <2>6, <4>1, <4>2 DEF type, result
    <3> QED BY <3>6, <3>7
  <2> QED BY <2>4, <2>5, <2>6
<1> QED BY <1>2, <1>3, <1>4

-----------------------------------------------------------------------------
(* The files.                                                              *)

FileLines == Lines \cup {Skipped("blank")}

\* The lines of the file that have been applied.
Applied == IF load.outcome = "threw" /\ load.line_number > 0 THEN load.line_number - 1
           ELSE load.line_number

\* A member has what the last of the first n lines that set it says, or what it had.
MemberApplied(name, n) ==
  /\ (\A i \in 1 .. n : ~Sets(loaded.lines[i], name)) => settings[name] = loaded.before[name]
  /\ \A i \in 1 .. n :
       /\ Sets(loaded.lines[i], name)
       /\ \A j \in 1 .. n : Sets(loaded.lines[j], name) => j <= i
       => ValueMeans(Members[name], loaded.lines[i].value, loaded.before[name]) = {settings[name]}

ConfigRecords ==
  /\ settings = [name \in DOMAIN Members |-> settings[name]]
  /\ loaded.lines \in Seq(FileLines)
  /\ load.lines \in Seq(FileLines)
  /\ load.line_number \in 0 .. Len(loaded.lines)
  /\ load = [lines |-> load.lines, line_number |-> load.line_number, outcome |-> load.outcome]

\* What is left to parse is the end of the file, and stops at the line that failed.
ConfigLines ==
  /\ load.outcome \in {"none", "parsing", "threw", "returned"}
  /\ load.outcome = "none" => load.line_number = 0
  /\ load.outcome = "returned" => load.line_number = Len(loaded.lines)
  /\ load.outcome = "threw" /\ load.line_number > 0 => ~GoodLine(loaded.lines[load.line_number])
  /\ load.outcome = "parsing" =>
       /\ Len(load.lines) = Len(loaded.lines) - load.line_number
       /\ \A i \in 1 .. Len(load.lines) : load.lines[i] = loaded.lines[load.line_number + i]

ConfigDone ==
  /\ \A i \in 1 .. Applied : GoodLine(loaded.lines[i])
  /\ \A name \in DOMAIN Members : MemberApplied(name, Applied)

ConfigInv == ConfigRecords /\ ConfigLines /\ ConfigDone

\* One more line, good and applied: whether it sets the member or not.
LastSets(lines_, n, name, before, value) ==
  /\ (\A i \in 1 .. n : ~Sets(lines_[i], name)) => value = before
  /\ \A i \in 1 .. n :
       /\ Sets(lines_[i], name)
       /\ \A j \in 1 .. n : Sets(lines_[j], name) => j <= i
       => ValueMeans(Members[name], lines_[i].value, before) = {value}

LEMMA OneMoreLine ==
  ASSUME NEW name \in DOMAIN Members, NEW n \in Nat, NEW lines_ , NEW before, NEW old, NEW new,
         LastSets(lines_, n, name, before, old),
         Sets(lines_[n + 1], name) => ValueMeans(Members[name], lines_[n + 1].value, before) = {new},
         ~Sets(lines_[n + 1], name) => new = old
  PROVE  LastSets(lines_, n + 1, name, before, new)
<1>1. 1 .. n + 1 = 1 .. n \cup {n + 1} /\ \A i \in 1 .. n : ~(n + 1 <= i)
  OBVIOUS
<1>2. CASE Sets(lines_[n + 1], name)
  <2>1. ASSUME NEW i \in 1 .. n + 1, \A j \in 1 .. n + 1 : Sets(lines_[j], name) => j <= i
        PROVE  i = n + 1
    BY <1>1, <1>2, <2>1
  <2> QED BY <1>1, <1>2, <2>1 DEF LastSets
<1>3. CASE ~Sets(lines_[n + 1], name)
  BY <1>1, <1>3 DEF LastSets
<1> QED BY <1>2, <1>3

\* A value that a member takes, and sets it to, does not depend on what it had.
LEMMA SetsMeans ==
  ASSUME NEW name \in DOMAIN Members, NEW line, Sets(line, name), NEW a, NEW b
  PROVE  ValueMeans(Members[name], line.value, a) = ValueMeans(Members[name], line.value, b)
<1>1. Members[name] \in {"bool", "string"} \/ line.value # EmptyValue
  BY DEF Sets
<1>2. CASE Members[name] = "string"
  BY <1>2 DEF ValueMeans
<1>3. CASE Members[name] = "bool"
  BY <1>3 DEF ValueMeans
<1>4. CASE Members[name] \notin {"bool", "string"}
  BY <1>1, <1>4 DEF ValueMeans
<1> QED BY <1>2, <1>3, <1>4

LEMMA ConfigStart == ConfigInit => ConfigInv
<1> SUFFICES ASSUME ConfigInit PROVE ConfigInv
  OBVIOUS
<1>1. settings = DefaultSettings /\ loaded.lines = <<>> /\ loaded.before = DefaultSettings
  BY DEF ConfigInit
<1>2. load.lines = <<>> /\ load.line_number = 0 /\ load.outcome = "none"
  BY DEF ConfigInit, Idle
<1>3. load = [lines |-> load.lines, line_number |-> load.line_number, outcome |-> load.outcome]
  BY DEF ConfigInit, Idle
<1>4. <<>> \in Seq(FileLines) /\ Len(<<>>) = 0
  OBVIOUS
<1>5. ConfigRecords
  BY <1>1, <1>2, <1>3, <1>4, LinesAssumption DEF ConfigRecords
<1>6. ConfigLines
  BY <1>2 DEF ConfigLines
<1>7. Applied = 0 /\ 1 .. 0 = {}
  BY <1>2 DEF Applied
<1>8. ConfigDone
  BY <1>1, <1>7 DEF ConfigDone, MemberApplied
<1> QED BY <1>5, <1>6, <1>8 DEF ConfigInv

\* A new file, of which nothing is applied yet.
LEMMA ParseFileStep == ConfigInv /\ ParseCfgFile => ConfigInv'
<1> SUFFICES ASSUME ConfigInv, ParseCfgFile PROVE ConfigInv'
  OBVIOUS
<1>1. settings' = settings /\ settings = [name \in DOMAIN Members |-> settings[name]]
  BY DEF ParseCfgFile, ConfigInv, ConfigRecords
<1>2. ASSUME NEW f \in Files PROVE ReadFileLines(f) \in Seq(FileLines)
  <2>1. PICK n \in 0 .. FileLength : f.lines \in [1 .. n -> Lines]
    BY DEF Files
  <2>2. f.lines \in Seq(FileLines)
    <3>1. n \in Nat
      OBVIOUS
    <3>2. f.lines \in [1 .. n -> FileLines]
      BY <2>1 DEF FileLines
    <3> QED BY <3>1, <3>2
  <2>3. Skipped("blank") \in FileLines
    BY DEF FileLines
  <2>4. Append(f.lines, Skipped("blank")) \in Seq(FileLines)
    BY <2>2, <2>3
  <2> QED BY <2>2, <2>4 DEF ReadFileLines
<1>3. /\ loaded'.before = settings /\ loaded'.lines \in Seq(FileLines)
      /\ load'.lines = loaded'.lines /\ load'.line_number = 0
      /\ load'.outcome \in {"parsing", "threw"}
      /\ load' = [lines |-> load'.lines, line_number |-> load'.line_number, outcome |-> load'.outcome]
  <2>1. CASE \E f \in Files :
               /\ load'   = [lines |-> ReadFileLines(f), line_number |-> 0, outcome |-> "parsing"]
               /\ loaded' = [before |-> settings, lines |-> ReadFileLines(f), count |-> loaded.count + 1]
    <3>1. PICK f \in Files :
               /\ load'   = [lines |-> ReadFileLines(f), line_number |-> 0, outcome |-> "parsing"]
               /\ loaded' = [before |-> settings, lines |-> ReadFileLines(f), count |-> loaded.count + 1]
      BY <2>1
    <3> QED BY <1>2, <3>1
  <2>2. CASE /\ load'   = [Idle EXCEPT !.outcome = "threw"]
             /\ loaded' = [before |-> settings, lines |-> <<>>, count |-> loaded.count + 1]
    <3>1. [Idle EXCEPT !.outcome = "threw"] = [lines |-> <<>>, line_number |-> 0, outcome |-> "threw"]
      BY DEF Idle
    <3>2. <<>> \in Seq(FileLines)
      OBVIOUS
    <3> QED BY <2>2, <3>1, <3>2
  <2> QED BY <2>1, <2>2 DEF ParseCfgFile
<1>4. Len(loaded'.lines) \in Nat
  BY <1>3, LenProperties
<1>5. ConfigRecords'
  BY <1>1, <1>3, <1>4 DEF ConfigRecords
<1>6. ConfigLines'
  BY <1>3, <1>4 DEF ConfigLines
<1>7. Applied' = 0 /\ 1 .. 0 = {}
  BY <1>3 DEF Applied
<1>8. ConfigDone'
  BY <1>1, <1>3, <1>7 DEF ConfigDone, MemberApplied
<1> QED BY <1>5, <1>6, <1>8 DEF ConfigInv

\* A turn of the loop applies the line, or throws and leaves the members alone.
LEMMA ParseLineStep == ConfigInv /\ ParseCfgLine => ConfigInv'
<1> SUFFICES ASSUME ConfigInv, ParseCfgLine PROVE ConfigInv'
  OBVIOUS
<1> DEFINE line      == Head(load.lines)
           component == GetParseCfgLineComponents(line)
           found     == component = "item" /\ line.name \in DOMAIN Members
           result    == ParseCfgItemDatum(Members[line.name], line.value, settings[line.name])
           fails     == component = "throw" \/ (component = "item" /\ (~found \/ result.refused))
<1>1. /\ load.outcome = "parsing" /\ load.lines # <<>>
      /\ settings' = IF found THEN [settings EXCEPT ![line.name] = result.value] ELSE settings
      /\ load' = [lines       |-> IF fails THEN <<>> ELSE Tail(load.lines),
                  line_number |-> load.line_number + 1,
                  outcome     |-> IF fails THEN "threw" ELSE "parsing"]
      /\ loaded' = loaded
  BY DEF ParseCfgLine
<1>k. component \in {"skip", "throw", "item"}
  BY DEF GetParseCfgLineComponents
<1>b. component = "skip" => line.kind \in {"blank", "comment"}
  BY DEF GetParseCfgLineComponents
<1>c. component = "throw" => line.kind \in {"noEquals", "noName"}
  BY DEF GetParseCfgLineComponents
<1>d. component = "item" => line.kind \notin {"blank", "comment", "noEquals", "noName"}
  BY DEF GetParseCfgLineComponents
<1> HIDE DEF component
<1>2. PICK n \in Nat, len \in Nat : n = load.line_number /\ len = Len(loaded.lines)
  BY LenProperties DEF ConfigInv, ConfigRecords
<1>3. /\ loaded.lines \in Seq(FileLines) /\ load.lines \in Seq(FileLines)
      /\ settings = [name \in DOMAIN Members |-> settings[name]]
      /\ Len(load.lines) = len - n
      /\ \A i \in 1 .. Len(load.lines) : load.lines[i] = loaded.lines[n + i]
  BY <1>1, <1>2 DEF ConfigInv, ConfigRecords, ConfigLines
<1>4. Len(load.lines) \in Nat /\ Len(load.lines) > 0
  <2>1. Len(load.lines) \in Nat \ {0}
    BY <1>1, <1>3, EmptySeq
  <2> QED BY <2>1
<1>5. line = loaded.lines[n + 1] /\ line \in FileLines /\ n + 1 <= len
  <2>1. line = load.lines[1]
    OBVIOUS
  <2>2. 1 \in 1 .. Len(load.lines)
    BY <1>4
  <2>3. load.lines[1] = loaded.lines[n + 1]
    BY <1>3, <2>2
  <2>4. load.lines[1] \in FileLines
    BY <1>3, <2>2, ElementOfSeq
  <2> QED BY <1>2, <1>3, <1>4, <2>1, <2>3, <2>4
<1>6. /\ \A i \in 1 .. n : GoodLine(loaded.lines[i])
      /\ \A name \in DOMAIN Members : MemberApplied(name, n)
  BY <1>1, <1>2 DEF ConfigInv, ConfigDone, Applied
<1>7. IsValue(line.value)
  <2>1. CASE line \in Lines
    BY <2>1, LinesAssumption DEF IsValue
  <2>2. CASE line = Skipped("blank")
    <3>0. Skipped("blank").value = Word("")
      BY DEF Skipped, EmptyValue
    <3>1. line.value = Word("")
      BY <2>2, <3>0
    <3>2. Word("").kind = "word" /\ Word("").text = ""
      BY DEF Word
    <3> QED BY <3>1, <3>2 DEF IsValue
  <2> QED BY <1>5, <2>1, <2>2 DEF FileLines
<1>i. line.kind \in {"blank", "comment", "noEquals", "noName", "item"}
  <2>1. Skipped("blank").kind = "blank"
    BY DEF Skipped
  <2> QED BY <1>5, <2>1, LinesAssumption DEF FileLines
<1>8. load'.line_number = n + 1 /\ n + 1 \in 0 .. len /\ Len(loaded'.lines) = len
  BY <1>1, <1>2, <1>5
<1>9. load' = [lines |-> load'.lines, line_number |-> load'.line_number, outcome |-> load'.outcome]
  BY <1>1
<1> HIDE DEF line, found, result, fails
\* The call throws: nothing but the number of the line has changed.
<1>10. ASSUME fails, settings' = settings, ~GoodLine(line) PROVE ConfigInv'
  <2>1. load'.lines = <<>> /\ load'.outcome = "threw"
    BY <1>1, <1>10
  <2>2. <<>> \in Seq(FileLines)
    OBVIOUS
  <2>3. ConfigRecords'
    BY <1>1, <1>3, <1>8, <1>9, <1>10, <2>1, <2>2 DEF ConfigRecords
  <2>4. ConfigLines'
    BY <1>1, <1>2, <1>5, <1>8, <1>10, <2>1 DEF ConfigLines
  <2>5. Applied' = n
    BY <1>2, <1>8, <2>1 DEF Applied
  <2>6. ASSUME NEW name \in DOMAIN Members PROVE MemberApplied(name, n)'
    BY <1>1, <1>6, <1>10 DEF MemberApplied
  <2>7. ConfigDone'
    BY <1>1, <1>6, <2>5, <2>6 DEF ConfigDone, MemberApplied
  <2> QED BY <2>3, <2>4, <2>7 DEF ConfigInv
\* The line is applied, or there is nothing to apply in it.
<1>11. ASSUME ~fails, GoodLine(line),
              settings' = [name \in DOMAIN Members |-> settings'[name]],
              \A name \in DOMAIN Members :
                /\ Sets(line, name)
                     => ValueMeans(Members[name], line.value, loaded.before[name]) = {settings'[name]}
                /\ ~Sets(line, name) => settings'[name] = settings[name]
       PROVE  ConfigInv'
  <2>1. load'.lines = Tail(load.lines) /\ load'.outcome = "parsing"
    BY <1>1, <1>11
  <2>2. /\ Tail(load.lines) \in Seq(FileLines) /\ Len(Tail(load.lines)) = Len(load.lines) - 1
        /\ \A i \in 1 .. Len(Tail(load.lines)) : Tail(load.lines)[i] = load.lines[i + 1]
    BY <1>1, <1>3, HeadTailProperties
  <2>3. ConfigRecords'
    BY <1>1, <1>3, <1>8, <1>9, <1>11, <2>1, <2>2 DEF ConfigRecords
  <2>4. /\ Len(Tail(load.lines)) = len - (n + 1)
        /\ \A i \in 1 .. Len(Tail(load.lines)) : Tail(load.lines)[i] = loaded.lines[(n + 1) + i]
    <3>1. Len(Tail(load.lines)) = len - (n + 1)
      BY <1>2, <1>3, <2>2
    <3>2. ASSUME NEW i \in 1 .. Len(Tail(load.lines)) PROVE Tail(load.lines)[i] = loaded.lines[(n + 1) + i]
      <4>1. i \in Nat /\ i + 1 \in 1 .. Len(load.lines) /\ n + (i + 1) = (n + 1) + i
        BY <1>2, <1>4, <2>2
      <4>2. Tail(load.lines)[i] = load.lines[i + 1] /\ load.lines[i + 1] = loaded.lines[n + (i + 1)]
        BY <1>3, <2>2, <4>1
      <4> QED BY <4>1, <4>2
    <3> QED BY <3>1, <3>2
  <2>5. ConfigLines'
    BY <1>1, <1>8, <2>1, <2>4 DEF ConfigLines
  <2>6. Applied' = n + 1
    BY <1>8, <2>1 DEF Applied
  <2>7. ASSUME NEW i \in 1 .. n + 1 PROVE GoodLine(loaded.lines[i])
    <3>1. i \in 1 .. n \/ i = n + 1
      BY <1>2
    <3> QED BY <1>5, <1>6, <1>11, <3>1
  <2>8. ASSUME NEW name \in DOMAIN Members PROVE MemberApplied(name, n + 1)'
    <3>1. MemberApplied(name, n)
      BY <1>6
    <3>2. PICK before, old, new :
            before = loaded.before[name] /\ old = settings[name] /\ new = settings'[name]
      OBVIOUS
    <3>3. LastSets(loaded.lines, n, name, before, old)
      BY <3>1, <3>2 DEF MemberApplied, LastSets
    <3>4. /\ Sets(loaded.lines[n + 1], name)
               => ValueMeans(Members[name], loaded.lines[n + 1].value, before) = {new}
          /\ ~Sets(loaded.lines[n + 1], name) => new = old
      BY <1>5, <1>11, <3>2
    <3>5. LastSets(loaded.lines, n + 1, name, before, new)
      BY <3>3, <3>4, OneMoreLine
    <3> QED BY <1>1, <3>2, <3>5 DEF MemberApplied, LastSets
  <2>9. ConfigDone'
    BY <1>1, <2>6, <2>7, <2>8 DEF ConfigDone, MemberApplied
  <2> QED BY <2>3, <2>5, <2>9 DEF ConfigInv
<1>12. CASE component = "skip"
  <2>1. ~fails /\ ~found
    BY <1>12 DEF fails, found
  <2>2. settings' = settings
    BY <1>1, <2>1
  <2>3. GoodLine(line) /\ \A name : ~Sets(line, name)
    BY <1>b, <1>12 DEF GoodLine, Sets
  <2> QED BY <1>3, <1>11, <2>1, <2>2, <2>3
<1>13. CASE component = "throw" \/ (component = "item" /\ ~found)
  <2>1. fails /\ ~found
    BY <1>13 DEF fails, found
  <2>2. settings' = settings
    BY <1>1, <2>1
  <2>3. ~GoodLine(line)
    BY <1>c, <1>d, <1>13 DEF GoodLine, found
  <2> QED BY <1>10, <2>1, <2>2, <2>3
<1>14. CASE found
  <2>1. component = "item" /\ line.kind = "item" /\ line.name \in DOMAIN Members
    BY <1>d, <1>i, <1>14 DEF found
  <2>2. PICK type, datum : type = Members[line.name] /\ datum = settings[line.name]
    OBVIOUS
  <2>3. result = ParseCfgItemDatum(type, line.value, datum)
    BY <2>2 DEF result
  <2>4. /\ result.refused \in BOOLEAN
        /\ result.refused => result.value = datum /\ \A any : ValueMeans(type, line.value, any) = {}
        /\ ~result.refused => ValueMeans(type, line.value, datum) = {result.value}
        /\ ~result.refused /\ type \notin {"bool", "string"} /\ line.value = EmptyValue
             => result.value = datum
    BY <1>7, <2>1, <2>2, <2>3, DatumMeans
  <2>5. settings' = [settings EXCEPT ![line.name] = result.value]
    BY <1>1, <1>14
  <2>6. settings' = [name \in DOMAIN Members |-> IF name = line.name THEN result.value ELSE settings[name]]
    BY <1>3, <2>5
  <2>7. fails <=> result.refused
    BY <1>14, <2>1, <2>4 DEF fails
  <2>8. CASE result.refused
    <3>1. settings' = settings
      <4>1. \A name \in DOMAIN Members :
              settings[name] = IF name = line.name THEN result.value ELSE settings[name]
        BY <2>2, <2>4, <2>8
      <4> QED BY <1>3, <2>6, <4>1
    <3>2. ~GoodLine(line)
      BY <2>1, <2>2, <2>4, <2>8 DEF GoodLine
    <3> QED BY <1>10, <2>7, <2>8, <3>1, <3>2
  <2>9. CASE ~result.refused
    <3>1. \A name \in DOMAIN Members :
            settings'[name] = IF name = line.name THEN result.value ELSE settings[name]
      BY <2>6
    <3>2. settings' = [name \in DOMAIN Members |-> settings'[name]]
      BY <2>6
    <3>3. Sets(line, line.name)
            => \A any : ValueMeans(type, line.value, any) = {result.value}
      BY <2>1, <2>2, <2>4, <2>9, SetsMeans
    <3>4. ~Sets(line, line.name)
            => type \notin {"bool", "string"} /\ line.value = EmptyValue
      BY <2>1, <2>2 DEF Sets
    <3>5. GoodLine(line)
      <4>1. CASE Sets(line, line.name)
        <5>1. ValueMeans(Members[line.name], line.value, DefaultSettings[line.name]) = {result.value}
          BY <2>2, <3>3, <4>1
        <5> QED BY <2>1, <5>1 DEF GoodLine
      <4>2. CASE ~Sets(line, line.name)
        <5>1. ValueMeans(type, line.value, DefaultSettings[line.name]) = {DefaultSettings[line.name]}
          BY <3>4, <4>2 DEF ValueMeans
        <5> QED BY <2>1, <2>2, <5>1 DEF GoodLine
      <4> QED BY <4>1, <4>2
    <3>6. ASSUME NEW name \in DOMAIN Members
          PROVE  /\ Sets(line, name)
                      => ValueMeans(Members[name], line.value, loaded.before[name]) = {settings'[name]}
                 /\ ~Sets(line, name) => settings'[name] = settings[name]
      <4>1. CASE name = line.name
        BY <2>2, <2>4, <2>9, <3>1, <3>3, <3>4, <4>1
      <4>2. CASE name # line.name
        <5>1. ~Sets(line, name)
          BY <4>2 DEF Sets
        <5> QED BY <3>1, <4>2, <5>1
      <4> QED BY <4>1, <4>2
    <3> QED BY <1>11, <2>7, <2>9, <3>2, <3>5, <3>6
  <2> QED BY <2>4, <2>8, <2>9
<1> QED BY <1>k, <1>12, <1>13, <1>14

LEMMA ParseReturnsStep == ConfigInv /\ ParseCfgReturns => ConfigInv'
<1> SUFFICES ASSUME ConfigInv, ParseCfgReturns PROVE ConfigInv'
  OBVIOUS
<1>1. /\ load.outcome = "parsing" /\ load.lines = <<>>
      /\ load' = [load EXCEPT !.outcome = "returned"]
      /\ settings' = settings /\ loaded' = loaded
  BY DEF ParseCfgReturns
<1>2. /\ load'.lines = load.lines /\ load'.line_number = load.line_number
      /\ load'.outcome = "returned"
      /\ load' = [lines |-> load'.lines, line_number |-> load'.line_number, outcome |-> load'.outcome]
  BY <1>1 DEF ConfigInv, ConfigRecords
<1>3. load.line_number = Len(loaded.lines)
  <2>1. Len(load.lines) = 0 /\ Len(load.lines) = Len(loaded.lines) - load.line_number
    BY <1>1 DEF ConfigInv, ConfigLines
  <2>2. Len(loaded.lines) \in Nat /\ load.line_number \in Int
    BY LenProperties DEF ConfigInv, ConfigRecords
  <2> QED BY <2>1, <2>2
<1>4. ConfigRecords'
  BY <1>1, <1>2 DEF ConfigInv, ConfigRecords
<1>5. ConfigLines'
  BY <1>1, <1>2, <1>3 DEF ConfigLines
<1>6. Applied' = load.line_number /\ Applied = load.line_number
  BY <1>1, <1>2 DEF Applied
<1>7. ConfigDone'
  BY <1>1, <1>6 DEF ConfigInv, ConfigDone, MemberApplied
<1> QED BY <1>4, <1>5, <1>7 DEF ConfigInv

\* However many files were loaded, and wherever a load is: members have what the last
\* line that set them says, up to the line that an exception names.
THEOREM FilesApplied == ConfigSpec => []ConfigApplied
<1>1. ConfigInv => ConfigApplied
  <2> SUFFICES ASSUME ConfigInv PROVE ConfigApplied
    OBVIOUS
  <2>1. /\ loaded.lines \in Seq(FileLines) /\ load.line_number \in 0 .. Len(loaded.lines)
        /\ Len(loaded.lines) \in Nat
    BY LenProperties DEF ConfigInv, ConfigRecords
  <2>2. Applied \in 0 .. Len(loaded.lines)
    BY <2>1 DEF Applied
  <2> DEFINE good == SubSeq(loaded.lines, 1, Applied)
  <2>3. DOMAIN good = 1 .. Applied /\ \A i \in 1 .. Applied : good[i] = loaded.lines[i]
    <3>1. \A i \in 1 .. Applied : loaded.lines[i] \in FileLines
      BY <2>1, <2>2, ElementOfSeq
    <3>2. 1 \in Int /\ Applied \in Int
      BY <2>2
    <3>3. /\ SubSeq(loaded.lines, 1, Applied) \in Seq(FileLines)
          /\ Len(SubSeq(loaded.lines, 1, Applied)) = IF 1 <= Applied THEN Applied - 1 + 1 ELSE 0
          /\ \A i \in 1 .. Applied - 1 + 1 : SubSeq(loaded.lines, 1, Applied)[i] = loaded.lines[1 + i - 1]
      BY <3>1, <3>2, SubSeqProperties
    <3>4. Len(good) = Applied
      BY <2>2, <3>3
    <3>5. DOMAIN good = 1 .. Applied
      BY <3>3, <3>4, LenProperties
    <3>6. ASSUME NEW i \in 1 .. Applied PROVE good[i] = loaded.lines[i]
      <4>1. i \in 1 .. Applied - 1 + 1 /\ 1 + i - 1 = i
        BY <2>2
      <4> QED BY <3>3, <4>1
    <3> QED BY <3>5, <3>6
  <2> HIDE DEF good
  <2>4. load.outcome = "returned" => Applied = Len(loaded.lines)
    BY DEF ConfigInv, ConfigLines, Applied
  <2>5. load.outcome = "threw" /\ load.line_number > 0 => ~GoodLine(loaded.lines[load.line_number])
    BY DEF ConfigInv, ConfigLines
  <2>6. \A i \in DOMAIN good : GoodLine(good[i])
    BY <2>3 DEF ConfigInv, ConfigDone
  <2>7. ASSUME NEW name \in DOMAIN Members
        PROVE  LET last == {i \in DOMAIN good : Sets(good[i], name)
                                               /\ \A j \in DOMAIN good : Sets(good[j], name) => j <= i}
               IN IF last = {} THEN settings[name] = loaded.before[name]
                  ELSE \A i \in last :
                         ValueMeans(Members[name], good[i].value, loaded.before[name]) = {settings[name]}
    <3>1. MemberApplied(name, Applied)
      BY DEF ConfigInv, ConfigDone
    <3> DEFINE last == {i \in DOMAIN good : Sets(good[i], name)
                                            /\ \A j \in DOMAIN good : Sets(good[j], name) => j <= i}
               setting == {i \in DOMAIN good : Sets(good[i], name)}
    <3>2. CASE setting = {}
      <4>1. last = {}
        BY <3>2
      <4>2. \A i \in 1 .. Applied : ~Sets(loaded.lines[i], name)
        BY <2>3, <3>2
      <4> QED BY <3>1, <4>1, <4>2 DEF MemberApplied
    <3>3. CASE setting # {}
      <4>1. setting \subseteq 1 .. Applied
        BY <2>3
      <4>2. PICK i \in setting : \A j \in setting : j <= i
        <5> DEFINE mirrored == {Applied - i : i \in setting}
        <5>1. mirrored \subseteq Nat /\ mirrored # {}
          BY <2>2, <3>3, <4>1
        <5>2. PICK m \in mirrored : \A k \in mirrored : m <= k
          BY <5>1, LeastNumber
        <5>3. PICK i \in setting : m = Applied - i
          BY <5>2
        <5>4. ASSUME NEW j \in setting PROVE j <= i
          <6>1. m <= Applied - j
            BY <5>2
          <6>2. i \in Int /\ j \in Int /\ Applied \in Int
            BY <2>2, <4>1
          <6> QED BY <5>3, <6>1, <6>2
        <5> QED BY <5>4
      <4>3. i \in last
        BY <4>2
      <4>4. ASSUME NEW k \in last
            PROVE  ValueMeans(Members[name], good[k].value, loaded.before[name]) = {settings[name]}
        <5>1. k \in 1 .. Applied /\ good[k] = loaded.lines[k] /\ Sets(loaded.lines[k], name)
          BY <2>3
        <5>2. \A j \in 1 .. Applied : Sets(loaded.lines[j], name) => j <= k
          BY <2>3
        <5> QED BY <3>1, <5>1, <5>2 DEF MemberApplied
      <4> QED BY <4>3, <4>4
    <3> QED BY <3>2, <3>3
  <2> QED BY <2>4, <2>5, <2>6, <2>7, Zenon DEF ConfigApplied, Applied, good
<1>2. ConfigInv /\ [ConfigNext]_configVars => ConfigInv'
  <2>1. ASSUME ConfigInv, UNCHANGED configVars PROVE ConfigInv'
    BY <2>1 DEF configVars, ConfigInv, ConfigRecords, ConfigLines, ConfigDone, MemberApplied, Applied
  <2> QED BY <2>1, ParseFileStep, ParseLineStep, ParseReturnsStep DEF ConfigNext
<1> QED BY <1>1, <1>2, ConfigStart, PTL DEF ConfigSpec
-----------------------------------------------------------------------------
(* Versions: what a text is accepted for is what its elements say.         *)

Versions == [1 .. 4 -> UInt32]

\* An element that is read has a number of halves that is twice a number.
LEMMA ElementRead ==
  ASSUME NEW element \in Elements, ElementAccepted(element)
  PROVE  /\ ElementHalves(element) \div 2 \in UInt32
         /\ element # <<>> => element = <<2 * (ElementHalves(element) \div 2)>>
<1>1. CASE element = <<>>
  BY <1>1, IdentifiersAssumption DEF ElementHalves, UInt32
<1>2. CASE element # <<>>
  <2>1. PICK n \in Halves : element = <<n>>
    BY <1>2 DEF Elements, ElementAccepted
  <2>2. n \in Int /\ ElementHalves(element) = n
    BY <2>1, IdentifiersAssumption DEF ElementHalves
  <2>3. 0 <= n /\ n <= 2 * VersionMax /\ n % 2 = 0
    BY <2>2 DEF ElementAccepted
  <2>4. n = 2 * (n \div 2) /\ n \div 2 \in UInt32
    BY <2>2, <2>3, IdentifiersAssumption DEF UInt32
  <2> QED BY <2>1, <2>2, <2>4
<1> QED BY <1>1, <1>2

LEMMA ElementsOfText ==
  ASSUME NEW text \in VersionTexts
  PROVE  /\ Len(text) \in 1 .. 5 /\ DOMAIN text = 1 .. Len(text)
         /\ \A i \in 1 .. Len(text) : text[i] \in Elements
<1>1. PICK n \in 1 .. 5, e \in Elements, f \in Elements :
        text = [i \in 1 .. n |-> IF i = n THEN f ELSE e]
  BY DEF VersionTexts
<1>2. text \in Seq(Elements) /\ Len(text) = n
  BY <1>1
<1> QED BY <1>1, <1>2

LEMMA TextRead ==
  ASSUME NEW text \in VersionTexts, NEW require_all_segments \in BOOLEAN,
         ~FromStringThrows(text, require_all_segments)
  PROVE  /\ FromString(text) \in Versions
         /\ \A i \in 1 .. 4 : i \in DOMAIN text /\ text[i] # <<>>
              => text[i] = <<2 * FromString(text)[i]>>
<1>1. /\ Len(text) \in 1 .. 5 /\ DOMAIN text = 1 .. Len(text)
      /\ \A i \in 1 .. Len(text) : text[i] \in Elements
  BY ElementsOfText
<1>2. \A i \in 1 .. Len(text) : ElementAccepted(text[i])
  BY <1>1 DEF FromStringThrows
<1>3. ASSUME NEW i \in 1 .. 4
      PROVE  /\ FromString(text)[i] \in UInt32
             /\ i \in DOMAIN text /\ text[i] # <<>> => text[i] = <<2 * FromString(text)[i]>>
  <2>1. CASE i <= Len(text)
    <3>1. text[i] \in Elements /\ ElementAccepted(text[i])
      BY <1>1, <1>2, <2>1
    <3>2. FromString(text)[i] = ElementHalves(text[i]) \div 2
      BY <2>1 DEF FromString
    <3> QED BY <3>1, <3>2, ElementRead
  <2>2. CASE ~(i <= Len(text))
    BY <1>1, <2>2, IdentifiersAssumption DEF FromString, UInt32
  <2> QED BY <2>1, <2>2
<1>4. FromString(text) \in Versions
  BY <1>3 DEF FromString, Versions
<1> QED BY <1>3, <1>4

\* A version that is written is read back.
LEMMA VersionReadBack ==
  ASSUME NEW v \in Versions
  PROVE  ~FromStringThrows(VersionToString(v), TRUE) /\ FromString(VersionToString(v)) = v
<1> DEFINE text == VersionToString(v)
<1>1. /\ Len(text) = 4 /\ DOMAIN text = 1 .. 4
      /\ \A i \in 1 .. 4 : text[i] = <<2 * v[i]>>
  BY DEF VersionToString
<1>2. ASSUME NEW i \in 1 .. 4
      PROVE  ElementHalves(text[i]) = 2 * v[i] /\ ElementAccepted(text[i]) /\ v[i] \in Int
  <2>1. v[i] \in 0 .. VersionMax /\ VersionMax \in Nat
    BY IdentifiersAssumption DEF Versions, UInt32
  <2>2. ElementHalves(text[i]) = 2 * v[i]
    BY <1>1, <2>1 DEF ElementHalves
  <2>3. 2 * v[i] # NotANumber /\ 2 * v[i] # BadElement
    BY <2>1, IdentifiersAssumption
  <2>4. text[i] # <<NotANumber>> /\ text[i] # <<BadElement>>
    BY <1>1, <2>3
  <2>5. 0 <= 2 * v[i] /\ 2 * v[i] <= 2 * VersionMax /\ (2 * v[i]) % 2 = 0
    BY <2>1
  <2> QED BY <2>1, <2>2, <2>4, <2>5 DEF ElementAccepted
<1>3. text # << <<>> >>
  BY <1>1
<1>4. ~FromStringThrows(text, TRUE)
  BY <1>1, <1>2, <1>3 DEF FromStringThrows
<1>5. \A i \in 1 .. 4 : FromString(text)[i] = (2 * v[i]) \div 2
  BY <1>1, <1>2 DEF FromString
<1>6. \A i \in 1 .. 4 : (2 * v[i]) \div 2 = v[i]
  BY <1>2
<1> HIDE DEF text
<1>7. FromString(text) = [i \in 1 .. 4 |-> v[i]]
  BY <1>5, <1>6 DEF FromString
<1> QED BY <1>4, <1>7 DEF text, Versions

\* Compare is an order of the values.
LEMMA VersionsCompared ==
  ASSUME NEW lhs \in Versions, NEW rhs \in Versions
  PROVE  /\ VersionCompare(lhs, rhs) = -VersionCompare(rhs, lhs)
         /\ VersionCompare(lhs, rhs) = 0 <=> lhs = rhs
<1> DEFINE differing == {i \in 1 .. 4 : lhs[i] # rhs[i]}
           first     == CHOOSE i \in differing : \A j \in differing : i <= j
<1>1. differing = {i \in 1 .. 4 : rhs[i] # lhs[i]}
  OBVIOUS
<1>2. /\ VersionCompare(lhs, rhs) = IF differing = {} THEN 0 ELSE IF lhs[first] < rhs[first] THEN -1 ELSE 1
      /\ VersionCompare(rhs, lhs) = IF differing = {} THEN 0 ELSE IF rhs[first] < lhs[first] THEN -1 ELSE 1
  BY <1>1 DEF VersionCompare
<1>3. CASE differing = {}
  <2>1. lhs = rhs
    BY <1>3 DEF Versions
  <2>2. VersionCompare(lhs, rhs) = 0 /\ VersionCompare(rhs, lhs) = 0
    BY <1>2, <1>3
  <2>3. PICK m \in Int, n \in Int : VersionCompare(lhs, rhs) = m /\ VersionCompare(rhs, lhs) = n
    BY <2>2
  <2>4. m = 0 /\ n = 0
    BY <2>2, <2>3
  <2>5. m + n = 0
    BY <2>4
  <2>6. m = -n
    BY <2>5
  <2>7. VersionCompare(lhs, rhs) = -VersionCompare(rhs, lhs)
    BY <2>3, <2>6, Zenon
  <2> QED BY <2>1, <2>2, <2>7
<1>4. CASE differing # {}
  <2>1. \E i \in differing : \A j \in differing : i <= j
    BY <1>4, LeastNumber
  <2>2. first \in 1 .. 4 /\ lhs[first] # rhs[first]
    BY <2>1
  <2>3. lhs[first] \in Int /\ rhs[first] \in Int
    BY <2>2, IdentifiersAssumption DEF Versions, UInt32
  <2> HIDE DEF first
  <2>4. lhs # rhs
    BY <2>2
  <2> HIDE DEF differing
  <2> QED BY <1>2, <1>4, <2>2, <2>3, <2>4
<1> QED BY <1>3, <1>4

VersionsTyped == version \in [Objects -> Versions]

LEMMA TypedVersionsRead == ASSUME VersionsTyped PROVE VersionsRead
<1>1. \A object \in Objects : version[object] \in Versions
  BY DEF VersionsTyped
<1>2. \A object \in Objects :
        /\ ~FromStringThrows(VersionToString(version[object]), TRUE)
        /\ FromString(VersionToString(version[object])) = version[object]
  BY <1>1, VersionReadBack
<1>3. VersionTextsRead
  <2>1. ASSUME NEW text \in VersionTexts, ~FromStringThrows(text, FALSE), NEW i \in 1 .. 4
        PROVE  /\ FromString(text)[i] \in UInt32
               /\ i \in DOMAIN text /\ text[i] # <<>> => text[i] = <<2 * FromString(text)[i]>>
    <3>1. FALSE \in BOOLEAN
      OBVIOUS
    <3> QED BY <2>1, <3>1, TextRead DEF Versions
  <2> QED BY <2>1 DEF VersionTextsRead
<1>4. version[1] \in Versions /\ version[2] \in Versions
  BY <1>1 DEF Objects
<1> QED BY <1>2, <1>3, <1>4, VersionsCompared DEF VersionsRead

LEMMA VersionStep == ASSUME VersionsTyped, VersionNext PROVE VersionsTyped'
<1>1. ASSUME NEW object \in Objects, NEW v \in Versions, SetVersion(object, v)
      PROVE  VersionsTyped'
  BY <1>1 DEF VersionsTyped, SetVersion
<1>2. ASSUME NEW object \in Objects, SetNumber(object) PROVE VersionsTyped'
  <2>1. PICK i \in 1 .. 4, n \in UInt32 : SetVersion(object, [version[object] EXCEPT ![i] = n])
    BY <1>2 DEF SetNumber
  <2>2. [version[object] EXCEPT ![i] = n] \in Versions
    BY DEF VersionsTyped, Versions
  <2> QED BY <1>1, <2>1, <2>2
<1>3. GetMinimumValue \in Versions /\ GetMaximumValue \in Versions
  BY IdentifiersAssumption DEF GetMinimumValue, GetMaximumValue, Versions, UInt32
<1>4. ASSUME NEW object \in Objects, VersionFromString(object) PROVE VersionsTyped'
  <2>1. PICK text \in VersionTexts, require_all_segments \in BOOLEAN :
          IF FromStringThrows(text, require_all_segments) THEN UNCHANGED version
          ELSE SetVersion(object, FromString(text))
    BY <1>4 DEF VersionFromString
  <2>2. CASE FromStringThrows(text, require_all_segments)
    BY <2>1, <2>2 DEF VersionsTyped
  <2>3. CASE ~FromStringThrows(text, require_all_segments)
    BY <1>1, <2>1, <2>3, TextRead
  <2> QED BY <2>2, <2>3
<1>5. CASE VersionSwap
  BY <1>5 DEF VersionSwap, VersionsTyped, Objects
<1> QED
  BY <1>1, <1>2, <1>3, <1>4, <1>5 DEF VersionNext, SetToMinimumValue, SetToMaximumValue

-----------------------------------------------------------------------------
(* Ids: the text that both writers make, place by place.                   *)

UniqueIds == [1 .. 16 -> HexDigits \X HexDigits]

\* The dashes in front of a place, and the digits in front of a dash.
DashesBefore == [place \in 0 .. 36 |->
  IF place <= 8 THEN 0 ELSE IF place <= 13 THEN 1 ELSE IF place <= 18 THEN 2
  ELSE IF place <= 23 THEN 3 ELSE 4]

\* The k-th digit of an id, from zero, is in the byte k \div 2.
DigitOf == [id \in UniqueIds |-> [k \in 0 .. 31 |-> id[(k \div 2) + 1][(k % 2) + 1]]]

\* The characters of the text of an id.
TextOf == [id \in UniqueIds |-> [i \in 1 .. 36 |->
  IF i - 1 \in Dashes THEN Dash ELSE DigitOf[id][i - 1 - DashesBefore[i - 1]]]]

LEMMA FourCounted ==
  ASSUME NEW a \in Int, NEW b \in Int, NEW c \in Int, NEW d \in Int, a < b, b < c, c < d,
         NEW n \in Int
  PROVE  Cardinality({e \in {a, b, c, d} : e < n}) =
           IF n <= a THEN 0 ELSE IF n <= b THEN 1 ELSE IF n <= c THEN 2 ELSE IF n <= d THEN 3 ELSE 4
<1> DEFINE before == {e \in {a, b, c, d} : e < n}
<1>1. IsFiniteSet({}) /\ Cardinality({}) = 0
  BY FS_EmptySet
<1>2. IsFiniteSet({a}) /\ Cardinality({a}) = 1
  BY FS_Singleton
<1>3. IsFiniteSet({a, b}) /\ Cardinality({a, b}) = 2
  <2>1. {a, b} = {a} \cup {b} /\ b \notin {a}
    OBVIOUS
  <2>2. IsFiniteSet({a} \cup {b}) /\ Cardinality({a} \cup {b}) = Cardinality({a}) + 1
    BY <1>2, <2>1, FS_AddElement
  <2> QED BY <1>2, <2>1, <2>2
<1>4. IsFiniteSet({a, b, c}) /\ Cardinality({a, b, c}) = 3
  <2>1. {a, b, c} = {a, b} \cup {c} /\ c \notin {a, b}
    OBVIOUS
  <2>2. IsFiniteSet({a, b} \cup {c}) /\ Cardinality({a, b} \cup {c}) = Cardinality({a, b}) + 1
    BY <1>3, <2>1, FS_AddElement
  <2> QED BY <1>3, <2>1, <2>2
<1>5. IsFiniteSet({a, b, c, d}) /\ Cardinality({a, b, c, d}) = 4
  <2>1. {a, b, c, d} = {a, b, c} \cup {d} /\ d \notin {a, b, c}
    OBVIOUS
  <2>2. IsFiniteSet({a, b, c} \cup {d}) /\ Cardinality({a, b, c} \cup {d}) = Cardinality({a, b, c}) + 1
    BY <1>4, <2>1, FS_AddElement
  <2> QED BY <1>4, <2>1, <2>2
<1>6. CASE n <= a
  <2>1. before = {}
    BY <1>6
  <2> QED BY <1>1, <1>6, <2>1
<1>7. CASE ~(n <= a) /\ n <= b
  <2>1. before = {a}
    BY <1>7
  <2> QED BY <1>2, <1>7, <2>1
<1>8. CASE ~(n <= b) /\ n <= c
  <2>1. before = {a, b}
    BY <1>8
  <2> QED BY <1>3, <1>8, <2>1
<1>9. CASE ~(n <= c) /\ n <= d
  <2>1. before = {a, b, c}
    BY <1>9
  <2> QED BY <1>4, <1>9, <2>1
<1>10. CASE ~(n <= d)
  <2>1. before = {a, b, c, d}
    BY <1>10
  <2> QED BY <1>5, <1>10, <2>1
<1> QED BY <1>6, <1>7, <1>8, <1>9, <1>10

LEMMA DashesCounted ==
  ASSUME NEW place \in 0 .. 36
  PROVE  /\ Cardinality({d \in Dashes : d < place}) = DashesBefore[place]
         /\ DashesBefore[place] \in 0 .. 4
<1>1. Dashes = {8, 13, 18, 23}
  BY DEF Dashes
<1>2. Cardinality({d \in {8, 13, 18, 23} : d < place}) =
        IF place <= 8 THEN 0 ELSE IF place <= 13 THEN 1 ELSE IF place <= 18 THEN 2
        ELSE IF place <= 23 THEN 3 ELSE 4
  <2>1. PICK a \in Int, b \in Int, c \in Int, d \in Int : a = 8 /\ b = 13 /\ c = 18 /\ d = 23
    OBVIOUS
  <2>2. a < b /\ b < c /\ c < d /\ place \in Int
    BY <2>1
  <2>3. Cardinality({e \in {a, b, c, d} : e < place}) =
          IF place <= a THEN 0 ELSE IF place <= b THEN 1 ELSE IF place <= c THEN 2
          ELSE IF place <= d THEN 3 ELSE 4
    BY <2>2, FourCounted
  <2> QED BY <2>1, <2>3
<1> QED BY <1>1, <1>2 DEF DashesBefore

\* The k-th digit that is read is behind the dashes.
LEMMA DigitPlaces ==
  ASSUME NEW k \in 1 .. 32
  PROVE  DigitPlace(k) = IF k <= 8 THEN k ELSE IF k <= 12 THEN k + 1 ELSE IF k <= 16 THEN k + 2
                         ELSE IF k <= 20 THEN k + 3 ELSE k + 4
<1>1. Cardinality({digits \in {8, 12, 16, 20} : digits < k}) =
        IF k <= 8 THEN 0 ELSE IF k <= 12 THEN 1 ELSE IF k <= 16 THEN 2
        ELSE IF k <= 20 THEN 3 ELSE 4
  <2>1. PICK a \in Int, b \in Int, c \in Int, d \in Int : a = 8 /\ b = 12 /\ c = 16 /\ d = 20
    OBVIOUS
  <2>2. a < b /\ b < c /\ c < d /\ k \in Int
    BY <2>1
  <2>3. Cardinality({e \in {a, b, c, d} : e < k}) =
          IF k <= a THEN 0 ELSE IF k <= b THEN 1 ELSE IF k <= c THEN 2
          ELSE IF k <= d THEN 3 ELSE 4
    BY <2>2, FourCounted
  <2> QED BY <2>1, <2>3
<1> QED BY <1>1 DEF DigitPlace

\* The places of the digits are those that are no dashes.
LEMMA DigitPlaceNoDash ==
  ASSUME NEW k \in 1 .. 32
  PROVE  /\ DigitPlace(k) \in 1 .. 36 /\ DigitPlace(k) - 1 \notin Dashes
         /\ DigitPlace(k) - 1 - DashesBefore[DigitPlace(k) - 1] = k - 1
<1> DEFINE place == DigitPlace(k) - 1
<1>1. CASE k <= 8
  <2>1. DigitPlace(k) = k
    BY <1>1, DigitPlaces
  <2>2. DashesBefore[k - 1] = 0
    BY <1>1 DEF DashesBefore
  <2> QED BY <1>1, <2>1, <2>2 DEF Dashes
<1>2. CASE 8 < k /\ k <= 12
  <2>1. DigitPlace(k) = k + 1
    BY <1>2, DigitPlaces
  <2>2. DashesBefore[k] = 1
    BY <1>2 DEF DashesBefore
  <2> QED BY <1>2, <2>1, <2>2 DEF Dashes
<1>3. CASE 12 < k /\ k <= 16
  <2>1. DigitPlace(k) = k + 2
    BY <1>3, DigitPlaces
  <2>2. DashesBefore[k + 1] = 2
    BY <1>3 DEF DashesBefore
  <2> QED BY <1>3, <2>1, <2>2 DEF Dashes
<1>4. CASE 16 < k /\ k <= 20
  <2>1. DigitPlace(k) = k + 3
    BY <1>4, DigitPlaces
  <2>2. DashesBefore[k + 2] = 3
    BY <1>4 DEF DashesBefore
  <2> QED BY <1>4, <2>1, <2>2 DEF Dashes
<1>5. CASE 20 < k
  <2>1. DigitPlace(k) = k + 4
    BY <1>5, DigitPlaces
  <2>2. DashesBefore[k + 3] = 4
    BY <1>5 DEF DashesBefore
  <2> QED BY <1>5, <2>1, <2>2 DEF Dashes
<1> QED BY <1>1, <1>2, <1>3, <1>4, <1>5

LEMMA DigitIsHex ==
  ASSUME NEW id \in UniqueIds, NEW k \in 0 .. 31
  PROVE  /\ DigitOf[id][k] = id[(k \div 2) + 1][(k % 2) + 1]
         /\ DigitOf[id][k] \in HexDigits
<1>1. (k \div 2) + 1 \in 1 .. 16 /\ (k % 2 = 0 \/ k % 2 = 1)
  OBVIOUS
<1>2. id[(k \div 2) + 1] \in HexDigits \X HexDigits
  BY <1>1 DEF UniqueIds
<1>3. id[(k \div 2) + 1][1] \in HexDigits /\ id[(k \div 2) + 1][2] \in HexDigits
  BY <1>2
<1>4. DigitOf[id][k] = id[(k \div 2) + 1][(k % 2) + 1]
  BY DEF DigitOf
<1>5. CASE k % 2 = 0
  BY <1>3, <1>4, <1>5
<1>6. CASE k % 2 = 1
  BY <1>3, <1>4, <1>6
<1> QED BY <1>1, <1>4, <1>5, <1>6

\* The two digits of a byte are one behind the other.
LEMMA ByteDigits ==
  ASSUME NEW id \in UniqueIds, NEW n \in 1 .. 16
  PROVE  DigitOf[id][2 * n - 2] = id[n][1] /\ DigitOf[id][2 * n - 1] = id[n][2]
<1>1. (2 * n - 2) \div 2 = n - 1 /\ (2 * n - 2) % 2 = 0
  OBVIOUS
<1>2. (2 * n - 1) \div 2 = n - 1 /\ (2 * n - 1) % 2 = 1
  OBVIOUS
<1>3. 2 * n - 2 \in 0 .. 31 /\ 2 * n - 1 \in 0 .. 31
  OBVIOUS
<1>4. DigitOf[id][2 * n - 2] = id[((2 * n - 2) \div 2) + 1][((2 * n - 2) % 2) + 1]
  BY <1>3, DigitIsHex
<1>5. DigitOf[id][2 * n - 1] = id[((2 * n - 1) \div 2) + 1][((2 * n - 1) % 2) + 1]
  BY <1>3, DigitIsHex
<1>6. n - 1 + 1 = n /\ 0 + 1 = 1 /\ 1 + 1 = 2
  OBVIOUS
<1> QED BY <1>1, <1>2, <1>4, <1>5, <1>6

LEMMA FunctionIsText ==
  ASSUME NEW S, NEW n \in Nat, NEW f \in [1 .. n -> S]
  PROVE  f \in Seq(S) /\ Len(f) = n
<1>1. f \in Seq(S)
  BY SeqDef
<1>2. PICK m \in Nat : Len(f) = m /\ DOMAIN f = 1 .. m
  BY <1>1, LenProperties
<1>3. 1 .. m = 1 .. n
  BY <1>2
<1>4. m = n
  <2>1. n \in 1 .. n => n \in 1 .. m
    BY <1>3
  <2>2. m \in 1 .. m => m \in 1 .. n
    BY <1>3
  <2> QED BY <2>1, <2>2
<1> QED BY <1>1, <1>2, <1>4

LEMMA TextPlaces ==
  ASSUME NEW id \in UniqueIds
  PROVE  /\ TextOf[id] \in Seq(HexDigits \cup {Dash}) /\ Len(TextOf[id]) = 36
         /\ DOMAIN TextOf[id] = 1 .. 36
         /\ \A i \in 1 .. 36 : i - 1 \in Dashes => TextOf[id][i] = Dash
         /\ \A k \in 1 .. 32 : TextOf[id][DigitPlace(k)] = DigitOf[id][k - 1]
<1>1. TextOf[id] = [i \in 1 .. 36 |->
        IF i - 1 \in Dashes THEN Dash ELSE DigitOf[id][i - 1 - DashesBefore[i - 1]]]
  BY DEF TextOf
<1>2. ASSUME NEW i \in 1 .. 36 PROVE TextOf[id][i] \in HexDigits \cup {Dash}
  <2>1. CASE i - 1 \in Dashes
    BY <1>1, <2>1
  <2>2. CASE i - 1 \notin Dashes
    <3>1. i - 1 - DashesBefore[i - 1] \in 0 .. 31
      BY <2>2 DEF DashesBefore, Dashes
    <3> QED BY <1>1, <2>2, <3>1, DigitIsHex
  <2> QED BY <2>1, <2>2
<1>3. TextOf[id] \in [1 .. 36 -> HexDigits \cup {Dash}]
  BY <1>1, <1>2
<1>4. TextOf[id] \in Seq(HexDigits \cup {Dash}) /\ Len(TextOf[id]) = 36
  <2>1. PICK n \in Nat : n = 36
    OBVIOUS
  <2>2. TextOf[id] \in [1 .. n -> HexDigits \cup {Dash}]
    BY <1>3, <2>1
  <2> DEFINE f == TextOf[id]
             S == HexDigits \cup {Dash}
  <2>3. f \in [1 .. n -> S]
    BY <2>2
  <2> HIDE DEF f, S
  <2>4. f \in Seq(S) /\ Len(f) = n
    BY <2>3, FunctionIsText
  <2> QED BY <2>1, <2>4 DEF f, S
<1>5. \A k \in 1 .. 32 : TextOf[id][DigitPlace(k)] = DigitOf[id][k - 1]
  BY <1>1, DigitPlaceNoDash
<1> QED BY <1>1, <1>3, <1>4, <1>5

\* The part of a text up to its end.
LEMMA SubText ==
  ASSUME NEW S, NEW text \in Seq(S), NEW from \in 1 .. Len(text) + 1
  PROVE  /\ SubSeq(text, from, Len(text)) \in Seq(S)
         /\ Len(SubSeq(text, from, Len(text))) = Len(text) - from + 1
         /\ \A i \in 1 .. Len(text) - from + 1 : SubSeq(text, from, Len(text))[i] = text[from + i - 1]
<1>1. Len(text) \in Nat /\ from \in Int /\ Len(text) \in Int
  OBVIOUS
<1>2. \A i \in from .. Len(text) : text[i] \in S
  BY ElementOfSeq
<1>3. /\ SubSeq(text, from, Len(text)) \in Seq(S)
      /\ Len(SubSeq(text, from, Len(text))) = IF from <= Len(text) THEN Len(text) - from + 1 ELSE 0
      /\ \A i \in 1 .. Len(text) - from + 1 : SubSeq(text, from, Len(text))[i] = text[from + i - 1]
  BY <1>1, <1>2, SubSeqProperties
<1> QED BY <1>1, <1>3

\* A text is its own longest part.
LEMMA WholeText ==
  ASSUME NEW S, NEW text \in Seq(S)
  PROVE  SubSeq(text, 1, Len(text)) = text
<1>1. Len(text) \in Nat
  OBVIOUS
<1>2. PICK from \in 1 .. Len(text) + 1 : from = 1
  BY <1>1
<1>3. /\ SubSeq(text, from, Len(text)) \in Seq(S)
      /\ Len(SubSeq(text, from, Len(text))) = Len(text) - from + 1
      /\ \A i \in 1 .. Len(text) - from + 1 : SubSeq(text, from, Len(text))[i] = text[from + i - 1]
  BY SubText
<1> DEFINE whole == SubSeq(text, 1, Len(text))
<1>4. /\ whole \in Seq(S) /\ Len(whole) = Len(text)
      /\ \A i \in 1 .. Len(text) : whole[i] = text[1 + i - 1]
  BY <1>1, <1>2, <1>3
<1> HIDE DEF whole
<1>5. ASSUME NEW i \in 1 .. Len(whole) PROVE whole[i] = text[i]
  <2>1. i \in 1 .. Len(text) /\ 1 + i - 1 = i
    BY <1>1, <1>4
  <2>2. whole[i] = text[1 + i - 1]
    BY <1>4, <2>1
  <2> QED BY <2>1, <2>2
<1>6. whole = text
  BY <1>4, <1>5, SeqEqual
<1> QED BY <1>6 DEF whole

\* What is put in front of a part of a text is the part with it.
LEMMA InFront ==
  ASSUME NEW S, NEW text \in Seq(S), NEW from \in 1 .. Len(text)
  PROVE  <<text[from]>> \o SubSeq(text, from + 1, Len(text)) = SubSeq(text, from, Len(text))
<1> DEFINE n     == Len(text)
           short == SubSeq(text, from + 1, Len(text))
           long  == SubSeq(text, from, Len(text))
           one   == <<text[from]>>
<1>1. n \in Nat /\ from \in 1 .. n /\ from + 1 \in 1 .. n + 1 /\ from \in 1 .. n + 1
  OBVIOUS
<1>2. /\ short \in Seq(S) /\ Len(short) = n - (from + 1) + 1
      /\ \A i \in 1 .. n - (from + 1) + 1 : short[i] = text[from + 1 + i - 1]
  BY <1>1, SubText
<1>3. /\ long \in Seq(S) /\ Len(long) = n - from + 1
      /\ \A i \in 1 .. n - from + 1 : long[i] = text[from + i - 1]
  BY <1>1, SubText
<1>4. one \in Seq(S) /\ Len(one) = 1 /\ one[1] = text[from]
  <2>1. text[from] \in S
    BY ElementOfSeq
  <2> QED BY <2>1
<1>5. /\ one \o short \in Seq(S) /\ Len(one \o short) = Len(one) + Len(short)
      /\ \A i \in 1 .. Len(one) + Len(short) : (one \o short)[i] =
           IF i <= Len(one) THEN one[i] ELSE short[i - Len(one)]
  BY <1>2, <1>4, ConcatProperties
<1> DEFINE both == one \o short
<1> HIDE DEF n, short, long, one
<1>6. Len(both) = Len(long)
  BY <1>1, <1>2, <1>3, <1>4, <1>5
<1>7. ASSUME NEW i \in 1 .. Len(both) PROVE both[i] = long[i]
  <2>1. i \in 1 .. n - from + 1 /\ i \in 1 .. Len(one) + Len(short)
    BY <1>1, <1>2, <1>3, <1>4, <1>5, <1>6
  <2>2. CASE i = 1
    <3>1. from + 1 - 1 = from
      BY <1>1
    <3>2. both[i] = one[1]
      BY <1>4, <1>5, <2>1, <2>2
    <3>3. long[i] = text[from + 1 - 1]
      BY <1>3, <2>1, <2>2
    <3> QED BY <1>4, <3>1, <3>2, <3>3
  <2>3. CASE i # 1
    <3>1. ~(i <= 1) /\ i - 1 \in 1 .. n - (from + 1) + 1 /\ from + 1 + (i - 1) - 1 = from + i - 1
      BY <1>1, <2>1, <2>3
    <3>2. both[i] = short[i - 1]
      BY <1>4, <1>5, <2>1, <3>1
    <3>3. short[i - 1] = text[from + 1 + (i - 1) - 1]
      BY <1>2, <3>1
    <3>4. long[i] = text[from + i - 1]
      BY <1>3, <2>1
    <3> QED BY <3>1, <3>2, <3>3, <3>4
  <2> QED BY <2>2, <2>3
<1>8. both \in Seq(S)
  BY <1>5
<1> HIDE DEF both
<1>9. both = long
  BY <1>3, <1>6, <1>7, <1>8, SeqEqual
<1> QED BY <1>9 DEF both, n, short, long, one

LEMMA TwoInFront ==
  ASSUME NEW S, NEW text \in Seq(S), NEW from \in 1 .. Len(text) - 1
  PROVE  <<text[from], text[from + 1]>> \o SubSeq(text, from + 2, Len(text)) = SubSeq(text, from, Len(text))
<1> DEFINE rest == SubSeq(text, from + 2, Len(text))
<1>1. Len(text) \in Nat /\ from \in 1 .. Len(text) /\ from + 1 \in 1 .. Len(text) /\ from + 1 + 1 = from + 2
      /\ from + 2 \in 1 .. Len(text) + 1
  OBVIOUS
<1>2. text[from] \in S /\ text[from + 1] \in S
  BY <1>1, ElementOfSeq
<1>3. rest \in Seq(S)
  BY <1>1, SubText
<1>4. <<text[from]>> \in Seq(S) /\ <<text[from + 1]>> \in Seq(S)
  BY <1>2
<1>5. <<text[from], text[from + 1]>> = <<text[from]>> \o <<text[from + 1]>>
  BY <1>2
<1>6. (<<text[from]>> \o <<text[from + 1]>>) \o rest = <<text[from]>> \o (<<text[from + 1]>> \o rest)
  BY <1>3, <1>4, ConcatAssociative
<1>7. <<text[from + 1]>> \o SubSeq(text, from + 1 + 1, Len(text)) = SubSeq(text, from + 1, Len(text))
  BY <1>1, InFront
<1>8. <<text[from]>> \o SubSeq(text, from + 1, Len(text)) = SubSeq(text, from, Len(text))
  BY <1>1, InFront
<1> QED BY <1>1, <1>5, <1>6, <1>7, <1>8

\* A turn of the loop of ToStringByteOrder, given what later turns make, and
\* what the turns from a count on make.
LoopTurn(id, count, rest) ==
  IF count >= UniqueIdStringLength THEN <<>>
  ELSE IF count \in Dashes THEN <<Dash>> \o rest[count + 1]
  ELSE LET dashes == Cardinality({d \in Dashes : d < count})
           byte   == id[((count - dashes) \div 2) + 1]
       IN <<byte[1], byte[2]>> \o rest[count + 2]

IsLoop(id, from, f) == f = [count \in from .. UniqueIdStringLength + 1 |-> LoopTurn(id, count, f)]
HasLoop(id, from)   == \E f : IsLoop(id, from, f)

LEMMA TurnLooksAhead ==
  ASSUME NEW id, NEW count \in Int, NEW f, NEW g,
         count < 36 => f[count + 1] = g[count + 1] /\ f[count + 2] = g[count + 2]
  PROVE  LoopTurn(id, count, f) = LoopTurn(id, count, g)
BY DEF LoopTurn, UniqueIdStringLength

LEMMA LoopValues ==
  ASSUME NEW id, NEW from \in Int, NEW f, IsLoop(id, from, f)
  PROVE  \A count \in from .. 37 : f[count] = LoopTurn(id, count, f)
<1> DEFINE turns == [count \in from .. 37 |-> LoopTurn(id, count, f)]
<1>1. UniqueIdStringLength + 1 = 37
  BY DEF UniqueIdStringLength
<1>2. f = turns
  BY <1>1 DEF IsLoop
<1>3. \A count \in from .. 37 : turns[count] = LoopTurn(id, count, f)
  OBVIOUS
<1> HIDE DEF turns
<1> QED BY <1>2, <1>3

LEMMA LoopLonger ==
  ASSUME NEW id, NEW from \in 0 .. 37, HasLoop(id, from + 1)
  PROVE  HasLoop(id, from)
<1>1. PICK f : IsLoop(id, from + 1, f)
  BY DEF HasLoop
<1>2. \A count \in from + 1 .. 37 : f[count] = LoopTurn(id, count, f)
  BY <1>1, LoopValues
<1> DEFINE g == [count \in from .. 37 |-> IF count = from THEN LoopTurn(id, from, f) ELSE f[count]]
<1>3. ASSUME NEW count \in from .. 37 PROVE g[count] = LoopTurn(id, count, g)
  <2>1. count < 36 => g[count + 1] = f[count + 1] /\ g[count + 2] = f[count + 2]
    OBVIOUS
  <2>2. g[count] = IF count = from THEN LoopTurn(id, from, f) ELSE f[count]
    OBVIOUS
  <2> HIDE DEF g
  <2>3. count \in Int
    OBVIOUS
  <2>4. LoopTurn(id, count, g) = LoopTurn(id, count, f)
    BY <2>1, <2>3, TurnLooksAhead
  <2>5. CASE count = from
    BY <2>2, <2>4, <2>5
  <2>6. CASE count # from
    <3>1. count \in from + 1 .. 37
      BY <2>6
    <3> QED BY <1>2, <2>2, <2>4, <2>6, <3>1
  <2> QED BY <2>5, <2>6
<1>4. g = [count \in from .. 37 |-> g[count]]
  OBVIOUS
<1> HIDE DEF g
<1>5. g = [count \in from .. 37 |-> LoopTurn(id, count, g)]
  BY <1>3, <1>4
<1>6. UniqueIdStringLength + 1 = 37
  BY DEF UniqueIdStringLength
<1> QED BY <1>5, <1>6 DEF HasLoop, IsLoop

LEMMA LoopExists == ASSUME NEW id PROVE HasLoop(id, 0)
<1> DEFINE S == {k \in Nat : k <= 38 => HasLoop(id, 38 - k)}
<1>1. 0 \in S
  <2> DEFINE none == [count \in 38 .. 37 |-> LoopTurn(id, count, <<>>)]
  <2>1. none = [count \in 38 .. 37 |-> LoopTurn(id, count, none)]
    <3>1. 38 .. 37 = {}
      OBVIOUS
    <3> QED BY <3>1
  <2> HIDE DEF none
  <2>2. UniqueIdStringLength + 1 = 37
    BY DEF UniqueIdStringLength
  <2>3. HasLoop(id, 38)
    BY <2>1, <2>2 DEF HasLoop, IsLoop
  <2>4. 38 - 0 = 38
    OBVIOUS
  <2>5. HasLoop(id, 38 - 0)
    BY <2>3, <2>4
  <2> QED BY <2>5
<1>2. ASSUME NEW k \in S PROVE k + 1 \in S
  <2>1. CASE k < 38
    <3>1. HasLoop(id, 38 - k) /\ k \in Nat
      BY <2>1
    <3>2. PICK from \in 0 .. 37 : from = 38 - (k + 1)
      BY <2>1, <3>1
    <3>3. from + 1 = 38 - k
      BY <3>1, <3>2
    <3>4. HasLoop(id, from)
      BY <3>1, <3>3, LoopLonger
    <3>5. HasLoop(id, 38 - (k + 1))
      BY <3>2, <3>4
    <3> QED BY <3>1, <3>5
  <2>2. CASE ~(k < 38)
    BY <2>2
  <2> QED BY <2>1, <2>2
<1>3. Nat \subseteq S
  <2> HIDE DEF S
  <2> QED BY <1>1, <1>2, NumberInduction
<1>4. 38 \in S
  BY <1>3
<1>5. HasLoop(id, 38 - 38) /\ 38 - 38 = 0
  BY <1>4
<1> QED BY <1>5

LEMMA LoopTurns ==
  ASSUME NEW id
  PROVE  \E f : IsLoop(id, 0, f) /\ ToStringByteOrder(id) = f[0]
<1>1. \E f : IsLoop(id, 0, f)
  BY LoopExists DEF HasLoop
<1>2. ToStringByteOrder(id) = (CHOOSE f : IsLoop(id, 0, f))[0]
  BY DEF ToStringByteOrder, IsLoop, LoopTurn
<1> QED BY <1>1, <1>2

\* Where the counter of the loop can be: at a dash, at the first digit of a byte
\* or at the end.
Reaches(count) == (count - DashesBefore[count]) % 2 = 0

LEMMA NextReached ==
  ASSUME NEW count \in 0 .. 35, Reaches(count)
  PROVE  /\ count \in Dashes => Reaches(count + 1)
         /\ count \notin Dashes => /\ count \in 0 .. 34 /\ count + 1 \notin Dashes
                                   /\ Reaches(count + 2)
                                   /\ DashesBefore[count + 1] = DashesBefore[count]
                                   /\ count - DashesBefore[count] \in 0 .. 30
<1>1. CASE count \in Dashes
  BY <1>1 DEF Dashes, Reaches, DashesBefore
<1>2. CASE count \notin Dashes
  BY <1>2 DEF Dashes, Reaches, DashesBefore
<1> QED BY <1>1, <1>2

\* What the loop makes from a count on is what is behind that place of the text.
Behind(id, count) == SubSeq(TextOf[id], count + 1, 36)

LEMMA DashTurn ==
  ASSUME NEW id \in UniqueIds, NEW count \in 0 .. 35, count \in Dashes, NEW f,
         f[count + 1] = Behind(id, count + 1)
  PROVE  LoopTurn(id, count, f) = Behind(id, count)
<1> DEFINE text == TextOf[id]
<1>1. /\ text \in Seq(HexDigits \cup {Dash}) /\ Len(text) = 36
      /\ \A i \in 1 .. 36 : i - 1 \in Dashes => text[i] = Dash
  BY TextPlaces
<1>2. LoopTurn(id, count, f) = <<Dash>> \o f[count + 1]
  BY DEF LoopTurn, UniqueIdStringLength
<1>3. PICK from \in 1 .. 36 : from = count + 1
  OBVIOUS
<1>4. count + 1 + 1 = from + 1 /\ from - 1 = count
  BY <1>3
<1>5. text[from] = Dash
  BY <1>1, <1>4
<1> HIDE DEF text
<1>6. <<text[from]>> \o SubSeq(text, from + 1, 36) = SubSeq(text, from, 36)
  BY <1>1, InFront
<1>7. f[count + 1] = SubSeq(text, from + 1, 36)
  BY <1>4 DEF Behind, text
<1>8. Behind(id, count) = SubSeq(text, from, 36)
  BY <1>3 DEF Behind, text
<1> QED BY <1>2, <1>5, <1>6, <1>7, <1>8

LEMMA ByteTurn ==
  ASSUME NEW id \in UniqueIds, NEW count \in 0 .. 35, count \notin Dashes, Reaches(count), NEW f,
         f[count + 2] = Behind(id, count + 2)
  PROVE  LoopTurn(id, count, f) = Behind(id, count)
<1> DEFINE text == TextOf[id]
<1>1. text \in Seq(HexDigits \cup {Dash}) /\ Len(text) = 36
  BY TextPlaces
<1>2. \A i \in 1 .. 36 : text[i] =
        IF i - 1 \in Dashes THEN Dash ELSE DigitOf[id][i - 1 - DashesBefore[i - 1]]
  BY DEF TextOf
<1> HIDE DEF text
<1>3. /\ count \in 0 .. 34 /\ count + 1 \notin Dashes
      /\ DashesBefore[count + 1] = DashesBefore[count]
      /\ count - DashesBefore[count] \in 0 .. 30
  BY NextReached
<1>4. PICK dashes \in 0 .. 4 :
        DashesBefore[count] = dashes /\ Cardinality({d \in Dashes : d < count}) = dashes
  <2>1. count \in 0 .. 36
    OBVIOUS
  <2> QED BY <2>1, DashesCounted
<1>5. PICK m \in 0 .. 15 : count - dashes = 2 * m
  <2>1. (count - dashes) % 2 = 0 /\ count - dashes \in 0 .. 30
    BY <1>3, <1>4 DEF Reaches
  <2>2. count - dashes = 2 * ((count - dashes) \div 2) /\ (count - dashes) \div 2 \in 0 .. 15
    BY <2>1
  <2> QED BY <2>2
<1>6. (count - dashes) \div 2 = m /\ count + 1 - dashes = 2 * m + 1
  BY <1>5
<1>7. LoopTurn(id, count, f) = <<id[m + 1][1], id[m + 1][2]>> \o f[count + 2]
  <2>1. ~(count >= UniqueIdStringLength)
    BY DEF UniqueIdStringLength
  <2>2. LoopTurn(id, count, f) =
          LET d == Cardinality({d \in Dashes : d < count})
              byte == id[((count - d) \div 2) + 1]
          IN <<byte[1], byte[2]>> \o f[count + 2]
    BY <2>1 DEF LoopTurn
  <2> QED BY <1>4, <1>6, <2>2
<1>8. DigitOf[id][2 * m] = id[m + 1][1] /\ DigitOf[id][2 * m + 1] = id[m + 1][2]
  <2>1. PICK n \in 1 .. 16 : n = m + 1
    OBVIOUS
  <2>2. 2 * n - 2 = 2 * m /\ 2 * n - 1 = 2 * m + 1
    BY <2>1
  <2>3. DigitOf[id][2 * n - 2] = id[n][1] /\ DigitOf[id][2 * n - 1] = id[n][2]
    BY ByteDigits
  <2> QED BY <2>1, <2>2, <2>3
<1>9. PICK from \in 1 .. 35 : from = count + 1
  BY <1>3
<1>10. /\ from - 1 = count /\ from + 1 - 1 = count + 1 /\ from \in 1 .. 36 /\ from + 1 \in 1 .. 36
       /\ count + 2 + 1 = from + 2
  BY <1>9
<1>11. text[from] = id[m + 1][1]
  <2>1. text[from] = DigitOf[id][count - DashesBefore[count]]
    BY <1>2, <1>10
  <2> QED BY <1>4, <1>5, <1>8, <2>1
<1>12. text[from + 1] = id[m + 1][2]
  <2>1. PICK place \in 1 .. 36 : place = from + 1 /\ place - 1 = count + 1
    BY <1>10
  <2>2. place - 1 \notin Dashes
    BY <1>3, <2>1
  <2>3. text[place] = DigitOf[id][place - 1 - DashesBefore[place - 1]]
    BY <1>2, <2>2
  <2>4. place - 1 - DashesBefore[place - 1] = 2 * m + 1
    BY <1>3, <1>4, <1>6, <2>1
  <2> QED BY <1>8, <2>1, <2>3, <2>4
<1>13. <<text[from], text[from + 1]>> \o SubSeq(text, from + 2, 36) = SubSeq(text, from, 36)
  <2>1. from \in 1 .. Len(text) - 1
    BY <1>1
  <2> QED BY <1>1, <2>1, TwoInFront
<1>14. f[count + 2] = SubSeq(text, from + 2, 36)
  BY <1>10 DEF Behind, text
<1>15. Behind(id, count) = SubSeq(text, from, 36)
  BY <1>9 DEF Behind, text
<1> QED BY <1>7, <1>11, <1>12, <1>13, <1>14, <1>15

\* The loop of ToStringByteOrder writes the text.
LEMMA ByteOrderText ==
  ASSUME NEW id \in UniqueIds
  PROVE  ToStringByteOrder(id) = TextOf[id]
<1>1. PICK f : IsLoop(id, 0, f) /\ ToStringByteOrder(id) = f[0]
  BY LoopTurns
<1>2. \A count \in 0 .. 37 : f[count] = LoopTurn(id, count, f)
  BY <1>1, LoopValues
<1>3. TextOf[id] \in Seq(HexDigits \cup {Dash}) /\ Len(TextOf[id]) = 36
  BY TextPlaces
<1> DEFINE bad == {n \in 0 .. 36 : Reaches(36 - n) /\ f[36 - n] # Behind(id, 36 - n)}
<1>4. f[36] = Behind(id, 36)
  <2>1. LoopTurn(id, 36, f) = <<>>
    BY DEF LoopTurn, UniqueIdStringLength
  <2>2. 36 \in Int /\ 36 + 1 \in Int /\ 36 < 36 + 1
    OBVIOUS
  <2>3. SubSeq(TextOf[id], 36 + 1, 36) = <<>>
    BY <2>2, SubSeqEmpty
  <2>4. f[36] = LoopTurn(id, 36, f)
    BY <1>2
  <2> QED BY <2>1, <2>3, <2>4 DEF Behind
<1>5. bad = {}
  <2> SUFFICES ASSUME bad # {} PROVE FALSE
    OBVIOUS
  <2>1. PICK n \in bad : \A k \in bad : n <= k
    <3>1. bad \subseteq Nat
      OBVIOUS
    <3> HIDE DEF bad
    <3> QED BY <3>1, LeastNumber
  <2>2. PICK count \in 0 .. 36 : count = 36 - n
    OBVIOUS
  <2>3. Reaches(count) /\ f[count] # Behind(id, count) /\ n \in 0 .. 36
    BY <2>2
  <2>4. count \in 0 .. 35
    BY <1>4, <2>3
  <2>5. ASSUME NEW later \in count + 1 .. 36, Reaches(later) PROVE f[later] = Behind(id, later)
    <3>1. PICK k \in 0 .. 36 : k = 36 - later
      BY <2>4
    <3>2. k < n /\ 36 - k = later
      BY <2>2, <2>3, <2>4, <3>1
    <3>3. k \notin bad
      <4> HIDE DEF bad
      <4>1. k \in bad => n <= k
        BY <2>1
      <4> QED BY <2>3, <3>2, <4>1
    <3> QED BY <2>5, <3>2, <3>3
  <2>6. f[count] = LoopTurn(id, count, f)
    BY <1>2, <2>4
  <2> HIDE DEF bad
  <2>7. CASE count \in Dashes
    <3>1. Reaches(count + 1) /\ count + 1 \in count + 1 .. 36
      BY <2>3, <2>4, <2>7, NextReached
    <3>2. f[count + 1] = Behind(id, count + 1)
      BY <2>5, <3>1
    <3> QED BY <2>3, <2>4, <2>6, <2>7, <3>2, DashTurn
  <2>8. CASE count \notin Dashes
    <3>1. Reaches(count + 2) /\ count + 2 \in count + 1 .. 36
      BY <2>3, <2>4, <2>8, NextReached
    <3>2. f[count + 2] = Behind(id, count + 2)
      BY <2>5, <3>1
    <3> QED BY <2>3, <2>4, <2>6, <2>8, <3>2, ByteTurn
  <2> QED BY <2>7, <2>8
<1>6. f[0] = Behind(id, 0)
  <2>1. Reaches(0)
    BY DEF Reaches, DashesBefore
  <2>2. PICK n \in 0 .. 36 : 36 - n = 0
    OBVIOUS
  <2>3. n \notin bad
    <3> HIDE DEF bad
    <3> QED BY <1>5
  <2> QED BY <2>1, <2>2, <2>3
<1>7. Behind(id, 0) = TextOf[id]
  <2>1. SubSeq(TextOf[id], 1, 36) = TextOf[id]
    BY <1>3, WholeText
  <2>2. 0 + 1 = 1
    OBVIOUS
  <2> QED BY <2>1, <2>2 DEF Behind
<1> QED BY <1>1, <1>6, <1>7

\* The first characters of a text.
LEMMA FirstPart ==
  ASSUME NEW S, NEW text \in Seq(S), NEW n \in 0 .. Len(text)
  PROVE  /\ SubSeq(text, 1, n) \in Seq(S) /\ Len(SubSeq(text, 1, n)) = n
         /\ \A i \in 1 .. n : SubSeq(text, 1, n)[i] = text[i]
<1>1. PICK first \in Int : first = 1
  OBVIOUS
<1>2. \A i \in first .. n : text[i] \in S
  BY <1>1, ElementOfSeq
<1>3. /\ SubSeq(text, first, n) \in Seq(S)
      /\ Len(SubSeq(text, first, n)) = IF first <= n THEN n - first + 1 ELSE 0
      /\ \A i \in 1 .. n - first + 1 : SubSeq(text, first, n)[i] = text[first + i - 1]
  BY <1>2, SubSeqProperties
<1> DEFINE part == SubSeq(text, first, n)
<1>4. part \in Seq(S) /\ Len(part) = n
  BY <1>1, <1>3
<1> HIDE DEF part
<1>5. ASSUME NEW i \in 1 .. n PROVE part[i] = text[i]
  <2>1. i \in 1 .. n - first + 1 /\ first + i - 1 = i
    BY <1>1
  <2> QED BY <1>3, <2>1 DEF part
<1> QED BY <1>1, <1>4, <1>5 DEF part

\* A part that goes on as the text does makes a longer part of it.
LEMMA Joined ==
  ASSUME NEW S, NEW text \in Seq(S), NEW m \in 0 .. Len(text), NEW n \in 0 .. Len(text),
         NEW part \in Seq(S), m + Len(part) = n,
         \A i \in 1 .. Len(part) : part[i] = text[m + i]
  PROVE  SubSeq(text, 1, m) \o part = SubSeq(text, 1, n)
<1> DEFINE short == SubSeq(text, 1, m)
           long  == SubSeq(text, 1, n)
           both  == short \o part
<1>1. short \in Seq(S) /\ Len(short) = m /\ \A i \in 1 .. m : short[i] = text[i]
  BY FirstPart
<1>2. long \in Seq(S) /\ Len(long) = n /\ \A i \in 1 .. n : long[i] = text[i]
  BY FirstPart
<1>3. /\ both \in Seq(S) /\ Len(both) = Len(short) + Len(part)
      /\ \A i \in 1 .. Len(short) + Len(part) : both[i] =
           IF i <= Len(short) THEN short[i] ELSE part[i - Len(short)]
  BY <1>1, ConcatProperties
<1>4. Len(part) \in Nat /\ m \in Nat /\ n \in Nat
  OBVIOUS
<1> HIDE DEF short, long, both
<1>5. ASSUME NEW i \in 1 .. Len(both) PROVE both[i] = long[i]
  <2>1. i \in 1 .. n /\ i \in 1 .. Len(short) + Len(part)
    BY <1>1, <1>3, <1>4
  <2>2. CASE i <= m
    <3>1. i \in 1 .. m
      BY <1>4, <2>1, <2>2
    <3>2. both[i] = short[i]
      BY <1>1, <1>3, <2>1, <2>2
    <3> QED BY <1>1, <1>2, <2>1, <3>1, <3>2
  <2>3. CASE ~(i <= m)
    <3>1. i - m \in 1 .. Len(part) /\ m + (i - m) = i
      BY <1>4, <2>1, <2>3
    <3>2. both[i] = part[i - m]
      BY <1>1, <1>3, <2>1, <2>3
    <3>3. part[i - m] = text[m + (i - m)]
      BY <3>1
    <3> QED BY <1>2, <2>1, <3>1, <3>2, <3>3
  <2> QED BY <2>2, <2>3
<1>6. Len(both) = Len(long)
  BY <1>1, <1>2, <1>3
<1>7. both = long
  BY <1>2, <1>3, <1>5, <1>6, SeqEqual
<1> QED BY <1>7 DEF short, long, both

\* The digits of an id without the dashes.
DigitsOf(id) == [i \in 1 .. 32 |-> DigitOf[id][i - 1]]

LEMMA DigitsTyped ==
  ASSUME NEW id \in UniqueIds
  PROVE  /\ DigitsOf(id) \in Seq(HexDigits \cup {Dash}) /\ Len(DigitsOf(id)) = 32
         /\ \A k \in 1 .. 32 : /\ DigitsOf(id)[k] = TextOf[id][DigitPlace(k)]
                              /\ DigitsOf(id)[k] \in HexDigits \cup {Dash}
<1> DEFINE S == HexDigits \cup {Dash}
           digits == DigitsOf(id)
<1>1. ASSUME NEW k \in 1 .. 32
      PROVE  digits[k] \in S /\ digits[k] = TextOf[id][DigitPlace(k)]
  <2>1. k - 1 \in 0 .. 31
    OBVIOUS
  <2>2. digits[k] = DigitOf[id][k - 1]
    BY DEF DigitsOf
  <2> HIDE DEF digits
  <2> QED BY <2>1, <2>2, DigitIsHex, TextPlaces
<1>2. DOMAIN digits = 1 .. 32 /\ digits = [i \in 1 .. 32 |-> digits[i]]
  BY DEF DigitsOf
<1> HIDE DEF digits
<1>3. PICK n \in Nat : n = 32
  OBVIOUS
<1>4. digits \in [1 .. n -> S]
  BY <1>1, <1>2, <1>3
<1>5. digits \in Seq(S) /\ Len(digits) = n
  BY <1>4, FunctionIsText
<1> QED BY <1>1, <1>3, <1>5 DEF digits

RunsFrom(a, b, m)       == \A k \in a .. b : DigitPlace(k) = m + (k - a + 1)
JoinsTo(id, m, a, b, n) ==
  SubSeq(TextOf[id], 1, m) \o SubSeq(DigitsOf(id), a, b) = SubSeq(TextOf[id], 1, n)

LEMMA JoinedDigits ==
  ASSUME NEW id \in UniqueIds, NEW a \in 1 .. 32, NEW b \in a .. 32, NEW m \in 0 .. 36, NEW n \in 0 .. 36,
         m + (b - a + 1) = n, RunsFrom(a, b, m)
  PROVE  JoinsTo(id, m, a, b, n)
<1> DEFINE S      == HexDigits \cup {Dash}
           text   == TextOf[id]
           digits == DigitsOf(id)
           part   == SubSeq(digits, a, b)
<1>1. text \in Seq(S) /\ Len(text) = 36
  BY TextPlaces
<1>2. digits \in Seq(S) /\ Len(digits) = 32 /\ \A k \in 1 .. 32 : digits[k] = text[DigitPlace(k)]
  BY DigitsTyped
<1> HIDE DEF text, digits, S
<1>3. a \in Int /\ b \in Int /\ \A k \in a .. b : k \in 1 .. 32
  OBVIOUS
<1>4. \A k \in a .. b : digits[k] \in S
  BY <1>2, <1>3, ElementOfSeq
<1>5. /\ part \in Seq(S) /\ Len(part) = IF a <= b THEN b - a + 1 ELSE 0
      /\ \A i \in 1 .. b - a + 1 : part[i] = digits[a + i - 1]
  BY <1>3, <1>4, SubSeqProperties
<1> HIDE DEF part
<1>6. Len(part) = b - a + 1
  BY <1>3, <1>5
<1>7. ASSUME NEW i \in 1 .. Len(part) PROVE part[i] = text[m + i]
  <2>1. i \in 1 .. b - a + 1 /\ a + i - 1 \in a .. b /\ m + (a + i - 1 - a + 1) = m + i
    BY <1>3, <1>6
  <2>2. PICK k \in a .. b : k = a + i - 1
    BY <2>1
  <2>3. part[i] = digits[k]
    BY <1>5, <2>1, <2>2
  <2>4. digits[k] = text[DigitPlace(k)]
    BY <1>2, <1>3
  <2>5. DigitPlace(k) = m + i
    BY <2>1, <2>2 DEF RunsFrom
  <2> QED BY <2>3, <2>4, <2>5
<1>8. m \in 0 .. Len(text) /\ n \in 0 .. Len(text) /\ m + Len(part) = n
  BY <1>1, <1>6
<1>9. SubSeq(text, 1, m) \o part = SubSeq(text, 1, n)
  BY <1>1, <1>5, <1>7, <1>8, Joined
<1> QED BY <1>9 DEF JoinsTo, text, digits, part

LEMMA JoinedDash ==
  ASSUME NEW id \in UniqueIds, NEW m \in Dashes, NEW n \in 0 .. 36, n = m + 1
  PROVE  SubSeq(TextOf[id], 1, m) \o <<Dash>> = SubSeq(TextOf[id], 1, n)
<1> DEFINE S    == HexDigits \cup {Dash}
           text == TextOf[id]
<1>1. text \in Seq(S) /\ Len(text) = 36 /\ \A i \in 1 .. 36 : i - 1 \in Dashes => text[i] = Dash
  BY TextPlaces
<1>2. m \in 0 .. 35
  BY DEF Dashes
<1>3. n \in 1 .. 36 /\ n - 1 = m
  BY <1>2
<1>4. text[n] = Dash
  BY <1>1, <1>3
<1> DEFINE part == <<Dash>>
<1>5. part \in Seq(S) /\ Len(part) = 1 /\ part[1] = Dash
  BY DEF Dash
<1> HIDE DEF part, text, S
<1>6. m \in 0 .. Len(text) /\ n \in 0 .. Len(text) /\ m + Len(part) = n
  BY <1>1, <1>2, <1>3, <1>5
<1>7. \A i \in 1 .. Len(part) : part[i] = text[m + i]
  BY <1>2, <1>4, <1>5
<1>8. SubSeq(text, 1, m) \o part = SubSeq(text, 1, n)
  BY <1>1, <1>5, <1>6, <1>7, Joined
<1> QED BY <1>8 DEF part, text

\* The writer of the library puts dashes between groups of digits, and the text
\* grows from one group to the next.
LEMMA LibraryText ==
  ASSUME NEW id \in UniqueIds
  PROVE  UniqueIdToString(id) = TextOf[id]
<1> DEFINE text      == TextOf[id]
           digits    == DigitsOf(id)
           Upto(n)   == SubSeq(text, 1, n)
           Group(a, b) == SubSeq(digits, a, b)
<1>1. UniqueIdToString(id) =
        Group(1, 8) \o <<Dash>> \o Group(9, 12) \o <<Dash>> \o Group(13, 16) \o <<Dash>>
          \o Group(17, 20) \o <<Dash>> \o Group(21, 32)
  <2> DEFINE bytes == [i \in 1 .. 2 * 16 |-> id[((i - 1) \div 2) + 1][((i - 1) % 2) + 1]]
  <2>1. digits = [i \in 1 .. 32 |-> digits[i]]
    BY DEF DigitsOf
  <2>2. ASSUME NEW i \in 1 .. 32
        PROVE  digits[i] = id[((i - 1) \div 2) + 1][((i - 1) % 2) + 1]
    <3>1. i - 1 \in 0 .. 31 /\ digits[i] = DigitOf[id][i - 1]
      BY DEF DigitsOf
    <3> QED BY <3>1, DigitIsHex
  <2>3. 2 * 16 = 32
    OBVIOUS
  <2> HIDE DEF digits
  <2>4. digits = bytes
    BY <2>1, <2>2, <2>3
  <2> HIDE DEF bytes
  <2> QED BY <2>4 DEF UniqueIdToString, bytes
<1>2. Group(1, 8) = Upto(8)
  <2>1. RunsFrom(1, 8, 0)
    BY DigitPlaces DEF RunsFrom
  <2>2. 1 \in 1 .. 32 /\ 8 \in 1 .. 32 /\ 0 \in 0 .. 36 /\ 8 \in 0 .. 36 /\ 0 + (8 - 1 + 1) = 8
    OBVIOUS
  <2>3. JoinsTo(id, 0, 1, 8, 8)
    BY <2>1, <2>2, JoinedDigits
  <2>4. SubSeq(TextOf[id], 1, 0) = <<>>
    BY SubSeqEmpty
  <2>5. SubSeq(DigitsOf(id), 1, 8) \in Seq(HexDigits \cup {Dash})
    <3>1. ASSUME NEW i \in 1 .. 8 PROVE DigitsOf(id)[i] \in HexDigits \cup {Dash}
      <4>1. i \in 1 .. 32
        OBVIOUS
      <4> QED BY <4>1, DigitsTyped
    <3> QED BY <3>1, SubSeqProperties
  <2> QED BY <2>3, <2>4, <2>5, ConcatEmptySeq DEF JoinsTo
<1>3. Upto(8) \o <<Dash>> = Upto(9)
  BY JoinedDash DEF Dashes
<1>4. Upto(9) \o Group(9, 12) = Upto(13)
  <2>1. RunsFrom(9, 12, 9)
    BY DigitPlaces DEF RunsFrom
  <2>2. 9 \in 1 .. 32 /\ 12 \in 9 .. 32 /\ 9 \in 0 .. 36 /\ 13 \in 0 .. 36 /\ 9 + (12 - 9 + 1) = 13
    OBVIOUS
  <2> HIDE DEF Upto, Group, text, digits
  <2>3. JoinsTo(id, 9, 9, 12, 13)
    BY <2>1, <2>2, JoinedDigits
  <2> QED BY <2>3 DEF JoinsTo, Upto, Group, text, digits
<1>5. Upto(13) \o <<Dash>> = Upto(14)
  BY JoinedDash DEF Dashes
<1>6. Upto(14) \o Group(13, 16) = Upto(18)
  <2>1. RunsFrom(13, 16, 14)
    BY DigitPlaces DEF RunsFrom
  <2>2. 13 \in 1 .. 32 /\ 16 \in 13 .. 32 /\ 14 \in 0 .. 36 /\ 18 \in 0 .. 36 /\ 14 + (16 - 13 + 1) = 18
    OBVIOUS
  <2> HIDE DEF Upto, Group, text, digits
  <2>3. JoinsTo(id, 14, 13, 16, 18)
    BY <2>1, <2>2, JoinedDigits
  <2> QED BY <2>3 DEF JoinsTo, Upto, Group, text, digits
<1>7. Upto(18) \o <<Dash>> = Upto(19)
  BY JoinedDash DEF Dashes
<1>8. Upto(19) \o Group(17, 20) = Upto(23)
  <2>1. RunsFrom(17, 20, 19)
    BY DigitPlaces DEF RunsFrom
  <2>2. 17 \in 1 .. 32 /\ 20 \in 17 .. 32 /\ 19 \in 0 .. 36 /\ 23 \in 0 .. 36 /\ 19 + (20 - 17 + 1) = 23
    OBVIOUS
  <2> HIDE DEF Upto, Group, text, digits
  <2>3. JoinsTo(id, 19, 17, 20, 23)
    BY <2>1, <2>2, JoinedDigits
  <2> QED BY <2>3 DEF JoinsTo, Upto, Group, text, digits
<1>9. Upto(23) \o <<Dash>> = Upto(24)
  BY JoinedDash DEF Dashes
<1>10. Upto(24) \o Group(21, 32) = Upto(36)
  <2>1. RunsFrom(21, 32, 24)
    BY DigitPlaces DEF RunsFrom
  <2>2. 21 \in 1 .. 32 /\ 32 \in 21 .. 32 /\ 24 \in 0 .. 36 /\ 36 \in 0 .. 36 /\ 24 + (32 - 21 + 1) = 36
    OBVIOUS
  <2> HIDE DEF Upto, Group, text, digits
  <2>3. JoinsTo(id, 24, 21, 32, 36)
    BY <2>1, <2>2, JoinedDigits
  <2> QED BY <2>3 DEF JoinsTo, Upto, Group, text, digits
<1>11. Upto(36) = text
  BY TextPlaces, WholeText
<1> HIDE DEF Upto, Group, text, digits
<1> QED BY <1>1, <1>2, <1>3, <1>4, <1>5, <1>6, <1>7, <1>8, <1>9, <1>10, <1>11 DEF text

\* What a text is read as, digit by digit.
LEMMA DigitsRead ==
  ASSUME NEW text, \A k \in 1 .. 32 : text[DigitPlace(k)] \in HexDigits
  PROVE  /\ UniqueIdFromString(text) \in UniqueIds
         /\ \A n \in 1 .. 16 : UniqueIdFromString(text)[n] =
              <<text[DigitPlace(2 * n - 1)], text[DigitPlace(2 * n)]>>
<1>1. UniqueIdFromString(text) =
        [n \in 1 .. 16 |-> <<text[DigitPlace(2 * n - 1)], text[DigitPlace(2 * n)]>>]
  BY DEF UniqueIdFromString
<1>2. \A n \in 1 .. 16 : text[DigitPlace(2 * n - 1)] \in HexDigits /\ text[DigitPlace(2 * n)] \in HexDigits
  <2>1. \A n \in 1 .. 16 : 2 * n - 1 \in 1 .. 32 /\ 2 * n \in 1 .. 32
    OBVIOUS
  <2> QED BY <2>1
<1> QED BY <1>1, <1>2 DEF UniqueIds

\* An id that is written is accepted and read back.
LEMMA IdReadBack ==
  ASSUME NEW id \in UniqueIds
  PROVE  /\ ~UniqueIdFromStringThrows(TextOf[id])
         /\ UniqueIdFromString(TextOf[id]) = id
<1> DEFINE text == TextOf[id]
<1>1. /\ Len(text) = 36 /\ \A i \in 1 .. 36 : i - 1 \in Dashes => text[i] = Dash
      /\ \A k \in 1 .. 32 : text[DigitPlace(k)] = DigitOf[id][k - 1]
  BY TextPlaces
<1> HIDE DEF text
<1>2. ASSUME NEW k \in 1 .. 32 PROVE text[DigitPlace(k)] \in HexDigits
  <2>1. k - 1 \in 0 .. 31
    OBVIOUS
  <2> QED BY <1>1, <2>1, DigitIsHex
<1>3. ~UniqueIdFromStringThrows(text)
  <2>1. Len(text) = UniqueIdStringLength
    BY <1>1 DEF UniqueIdStringLength
  <2>2. \A d \in Dashes : text[d + 1] = Dash
    <3>1. ASSUME NEW d \in Dashes PROVE text[d + 1] = Dash
      <4>1. PICK i \in 1 .. 36 : i = d + 1 /\ i - 1 = d
        BY DEF Dashes
      <4> QED BY <1>1, <4>1
    <3> QED BY <3>1
  <2>3. text[1] \in HexDigits
    <3>1. PICK k \in 1 .. 32 : k = 1
      OBVIOUS
    <3>2. DigitPlace(k) = 1
      BY <3>1, DigitPlaces
    <3> QED BY <1>2, <3>2
  <2> QED BY <2>1, <2>2, <2>3 DEF UniqueIdFromStringThrows
<1>4. /\ UniqueIdFromString(text) \in UniqueIds
      /\ \A n \in 1 .. 16 : UniqueIdFromString(text)[n] =
           <<text[DigitPlace(2 * n - 1)], text[DigitPlace(2 * n)]>>
  BY <1>2, DigitsRead
<1>5. ASSUME NEW n \in 1 .. 16 PROVE UniqueIdFromString(text)[n] = id[n]
  <2>1. 2 * n - 1 \in 1 .. 32 /\ 2 * n \in 1 .. 32 /\ 2 * n - 1 - 1 = 2 * n - 2
    OBVIOUS
  <2>2. text[DigitPlace(2 * n - 1)] = DigitOf[id][2 * n - 1 - 1]
    BY <1>1, <2>1
  <2>3. text[DigitPlace(2 * n)] = DigitOf[id][2 * n - 1]
    BY <1>1, <2>1
  <2>4. DigitOf[id][2 * n - 2] = id[n][1] /\ DigitOf[id][2 * n - 1] = id[n][2]
    BY ByteDigits
  <2>5. id[n] \in HexDigits \X HexDigits
    BY DEF UniqueIds
  <2>6. id[n] = <<id[n][1], id[n][2]>>
    BY <2>5
  <2> QED BY <1>4, <2>1, <2>2, <2>3, <2>4, <2>6
<1>6. UniqueIdFromString(text) = id
  BY <1>4, <1>5 DEF UniqueIds
<1> QED BY <1>3, <1>6 DEF text

\* Every place of a text is that of a dash or of a digit.
LEMMA PlaceOfDigit ==
  ASSUME NEW i \in 1 .. 36, i - 1 \notin Dashes
  PROVE  \E k \in 1 .. 32 : DigitPlace(k) = i
<1>1. CASE i <= 8
  <2>1. i \in 1 .. 32 /\ DigitPlace(i) = i
    BY <1>1, DigitPlaces
  <2> QED BY <2>1
<1>2. CASE 9 < i /\ i <= 13
  <2>1. PICK k \in 1 .. 32 : k = i - 1 /\ 8 < k /\ k <= 12
    BY <1>2
  <2>2. DigitPlace(k) = k + 1
    BY <2>1, DigitPlaces
  <2> QED BY <2>1, <2>2
<1>3. CASE 14 < i /\ i <= 18
  <2>1. PICK k \in 1 .. 32 : k = i - 2 /\ 12 < k /\ k <= 16
    BY <1>3
  <2>2. DigitPlace(k) = k + 2
    BY <2>1, DigitPlaces
  <2> QED BY <2>1, <2>2
<1>4. CASE 19 < i /\ i <= 23
  <2>1. PICK k \in 1 .. 32 : k = i - 3 /\ 16 < k /\ k <= 20
    BY <1>4
  <2>2. DigitPlace(k) = k + 3
    BY <2>1, DigitPlaces
  <2> QED BY <2>1, <2>2
<1>5. CASE 24 < i
  <2>1. PICK k \in 1 .. 32 : k = i - 4 /\ 20 < k
    BY <1>5
  <2>2. DigitPlace(k) = k + 4
    BY <2>1, DigitPlaces
  <2> QED BY <2>1, <2>2
<1>6. i # 9 /\ i # 14 /\ i # 19 /\ i # 24
  BY DEF Dashes
<1> QED BY <1>1, <1>2, <1>3, <1>4, <1>5, <1>6

\* A text that is accepted is the text of the id that is read, or is read as the
\* nil id and has a character at a digit's place that is none.
LEMMA AcceptedTextRead ==
  ASSUME NEW S, NEW text \in Seq(S), ~UniqueIdFromStringThrows(text)
  PROVE  LET read == UniqueIdFromString(text)
         IN /\ read \in UniqueIds
            /\ \/ TextOf[read] = text
               \/ /\ read = NilId
                  /\ \E i \in 1 .. 36 : i - 1 \notin Dashes /\ text[i] \notin HexDigits
<1>1. Len(text) = 36 /\ DOMAIN text = 1 .. 36 /\ \A d \in Dashes : text[d + 1] = Dash
  BY DEF UniqueIdFromStringThrows, UniqueIdStringLength
<1> DEFINE read == UniqueIdFromString(text)
<1>2. CASE \E k \in 1 .. 32 : text[DigitPlace(k)] \notin HexDigits
  <2>1. read = NilId
    BY <1>2 DEF UniqueIdFromString
  <2>2. \E i \in 1 .. 36 : i - 1 \notin Dashes /\ text[i] \notin HexDigits
    BY <1>2, DigitPlaceNoDash
  <2>3. NilId \in UniqueIds
    BY IdentifiersAssumption DEF UniqueIds
  <2> QED BY <2>1, <2>2, <2>3
<1>3. CASE \A k \in 1 .. 32 : text[DigitPlace(k)] \in HexDigits
  <2>1. /\ read \in UniqueIds
        /\ \A n \in 1 .. 16 : read[n] = <<text[DigitPlace(2 * n - 1)], text[DigitPlace(2 * n)]>>
    BY <1>3, DigitsRead
  <2> HIDE DEF read
  <2>2. ASSUME NEW i \in 1 .. 36 PROVE TextOf[read][i] = text[i]
    <3>1. CASE i - 1 \in Dashes
      <4>1. TextOf[read][i] = Dash
        BY <2>1, <3>1, TextPlaces
      <4>2. PICK d \in Dashes : d = i - 1 /\ d + 1 = i
        BY <3>1
      <4> QED BY <1>1, <4>1, <4>2
    <3>2. CASE i - 1 \notin Dashes
      <4>1. PICK k \in 1 .. 32 : DigitPlace(k) = i
        BY <3>2, PlaceOfDigit
      <4>2. TextOf[read][i] = DigitOf[read][k - 1]
        BY <2>1, <4>1, TextPlaces
      <4>3. PICK n \in 1 .. 16 : k = 2 * n - 1 \/ k = 2 * n
        <5>1. (k + 1) \div 2 \in 1 .. 16 /\ (k = 2 * ((k + 1) \div 2) - 1 \/ k = 2 * ((k + 1) \div 2))
          OBVIOUS
        <5> QED BY <5>1
      <4>4. DigitOf[read][2 * n - 2] = read[n][1] /\ DigitOf[read][2 * n - 1] = read[n][2]
        BY <2>1, ByteDigits
      <4>5. read[n] = <<text[DigitPlace(2 * n - 1)], text[DigitPlace(2 * n)]>>
        BY <2>1
      <4>6. CASE k = 2 * n - 1
        <5>1. k - 1 = 2 * n - 2
          BY <4>6
        <5> QED BY <4>1, <4>2, <4>4, <4>5, <4>6, <5>1
      <4>7. CASE k = 2 * n
        BY <4>1, <4>2, <4>4, <4>5, <4>7
      <4> QED BY <4>3, <4>6, <4>7
    <3> QED BY <3>1, <3>2
  <2>3. TextOf[read] \in Seq(HexDigits \cup {Dash}) /\ Len(TextOf[read]) = 36
    BY <2>1, TextPlaces
  <2> DEFINE written == TextOf[read]
             Chars   == S \cup (HexDigits \cup {Dash})
  <2>4. written \in Seq(Chars) /\ text \in Seq(Chars) /\ Len(written) = Len(text)
    <3>1. S \subseteq Chars /\ HexDigits \cup {Dash} \subseteq Chars
      OBVIOUS
    <3> HIDE DEF Chars
    <3> QED BY <1>1, <2>3, <3>1, SeqMonotonic
  <2>5. \A i \in 1 .. Len(written) : written[i] = text[i]
    BY <2>2, <2>3
  <2> HIDE DEF written, Chars
  <2>6. written = text
    BY <2>4, <2>5, SeqEqual
  <2> QED BY <2>1, <2>6 DEF written, read
<1> QED BY <1>2, <1>3

IdsTyped == uuid \in [Objects -> UniqueIds]

LEMMA TypedIdsRead == ASSUME IdsTyped PROVE UniqueIdsRead
<1>1. ASSUME NEW object \in Objects
      PROVE  LET text == UniqueIdToString(uuid[object])
             IN /\ ToStringByteOrder(uuid[object]) = text
                /\ ~UniqueIdFromStringThrows(text)
                /\ UniqueIdFromString(text) = uuid[object]
  <2>1. uuid[object] \in UniqueIds
    BY DEF IdsTyped
  <2> QED BY <2>1, LibraryText, ByteOrderText, IdReadBack
<1>2. ASSUME NEW text \in IdTexts, ~UniqueIdFromStringThrows(text)
      PROVE  LET read == UniqueIdFromString(text)
             IN \/ UniqueIdToString(read) = text
                \/ /\ IsZero(read)
                   /\ \E i \in 1 .. UniqueIdStringLength : i - 1 \notin Dashes /\ text[i] \notin HexDigits
  <2> DEFINE read == UniqueIdFromString(text)
  <2>1. text \in Seq(HexDigits \cup OtherChars \cup {Dash})
    BY IdentifiersAssumption
  <2>2. /\ read \in UniqueIds
        /\ \/ TextOf[read] = text
           \/ /\ read = NilId
              /\ \E i \in 1 .. 36 : i - 1 \notin Dashes /\ text[i] \notin HexDigits
    BY <1>2, <2>1, AcceptedTextRead
  <2> HIDE DEF read
  <2>3. UniqueIdToString(read) = TextOf[read]
    BY <2>2, LibraryText
  <2>4. read = NilId => IsZero(read)
    BY DEF IsZero
  <2> QED BY <2>2, <2>3, <2>4 DEF read, UniqueIdStringLength
<1> QED BY <1>1, <1>2 DEF UniqueIdsRead, IdTextsRead

LEMMA UniqueIdStep == ASSUME IdsTyped, UniqueIdNext PROVE IdsTyped'
<1>1. ASSUME NEW object \in Objects, UniqueIdAssignText(object) PROVE IdsTyped'
  <2>1. PICK text \in IdTexts \cup {UniqueIdToString(uuid[other]) : other \in Objects} :
          IF UniqueIdFromStringThrows(text) THEN UNCHANGED uuid
          ELSE uuid' = [uuid EXCEPT ![object] = UniqueIdFromString(text)]
    BY <1>1 DEF UniqueIdAssignText
  <2>2. CASE UniqueIdFromStringThrows(text)
    BY <2>1, <2>2 DEF IdsTyped
  <2>3. CASE ~UniqueIdFromStringThrows(text)
    <3>1. UniqueIdFromString(text) \in UniqueIds
      <4>1. CASE text \in IdTexts
        <5>1. text \in Seq(HexDigits \cup OtherChars \cup {Dash})
          BY <4>1, IdentifiersAssumption
        <5> QED BY <2>3, <5>1, AcceptedTextRead
      <4>2. CASE text \in {UniqueIdToString(uuid[other]) : other \in Objects}
        <5>1. PICK other \in Objects : text = UniqueIdToString(uuid[other])
          BY <4>2
        <5>2. uuid[other] \in UniqueIds
          BY DEF IdsTyped
        <5> QED BY <5>1, <5>2, LibraryText, IdReadBack
      <4> QED BY <2>1, <4>1, <4>2
    <3> QED BY <2>1, <2>3, <3>1 DEF IdsTyped
  <2> QED BY <2>2, <2>3
<1>2. ASSUME NEW object \in Objects, UniqueIdAssignNew(object) PROVE IdsTyped'
  <2>1. Ids \cup {NilId} \subseteq UniqueIds
    BY IdentifiersAssumption DEF UniqueIds
  <2> QED BY <1>2, <2>1 DEF UniqueIdAssignNew, IdsTyped
<1>3. CASE UniqueIdSwap
  BY <1>3 DEF UniqueIdSwap, IdsTyped, Objects
<1> QED BY <1>1, <1>2, <1>3 DEF UniqueIdNext

-----------------------------------------------------------------------------
(* Command lines: options take arguments one behind the other.             *)

Takes == [option : Arguments, first : Nat, count : Nat \ {0}, min : Int, max : Int]

LEMMA TakesNumbers ==
  ASSUME NEW taken \in Seq(Takes), NEW i \in 1 .. Len(taken)
  PROVE  /\ taken[i].first \in Nat /\ taken[i].count \in Nat
         /\ taken[i].min \in Int /\ taken[i].max \in Int
<1>1. taken[i] \in Takes
  BY ElementOfSeq
<1> QED BY <1>1 DEF Takes

\* What an option that was resolved has taken.
TakenInOrder(t, argv) ==
  /\ t.first + t.count <= Len(argv)
  /\ argv[t.first + 1] = t.option
  /\ t.min <= t.count - 1 /\ t.count - 1 <= t.max
  /\ t.first + t.count = Len(argv) \/ t.count - 1 = t.max

\* The records are typed, and what was taken last ends before the index, so that
\* the next option takes what is behind it.
CommandLineInv ==
  /\ commandLine = [argv   |-> commandLine.argv, index |-> commandLine.index,
                    failed |-> commandLine.failed, taken |-> commandLine.taken]
  /\ commandLine.argv \in Seq(Arguments)
  /\ commandLine.index \in Int
  /\ ~commandLine.failed => commandLine.index \in Nat
  /\ commandLine.taken \in Seq(Takes)
  /\ \A i \in 1 .. Len(commandLine.taken) : TakenInOrder(commandLine.taken[i], commandLine.argv)
  /\ \A i \in 2 .. Len(commandLine.taken) :
       commandLine.taken[i - 1].first + commandLine.taken[i - 1].count <= commandLine.taken[i].first
  /\ ~commandLine.failed => \A i \in 1 .. Len(commandLine.taken) :
       commandLine.taken[i].first + commandLine.taken[i].count <= commandLine.index

\* An option is found from the place where one looks for it, or not at all.
LEMMA FoundBehind ==
  ASSUME NEW args \in Seq(Arguments), NEW option \in Arguments, NEW first \in Nat
  PROVE  /\ GetCmdLineArgIdx(args, option, first) \in Int
         /\ \/ GetCmdLineArgIdx(args, option, first) = -1
            \/ first <= GetCmdLineArgIdx(args, option, first)
<1> DEFINE found == {i \in first .. Len(args) - 1 : args[i + 1] = option}
<1>1. CASE found = {}
  <2>1. GetCmdLineArgIdx(args, option, first) = -1
    BY <1>1 DEF GetCmdLineArgIdx
  <2> QED BY <2>1
<1>2. CASE found # {}
  <2>1. found \subseteq Nat
    OBVIOUS
  <2>2. \E i \in found : \A j \in found : i <= j
    BY <1>2, <2>1, LeastNumber
  <2>3. GetCmdLineArgIdx(args, option, first) \in found
    BY <1>2, <2>2 DEF GetCmdLineArgIdx
  <2> QED BY <2>3
<1> QED BY <1>1, <1>2

\* The arguments that an option takes are there, and are as many as asked for.
LEMMA ResolvedTakes ==
  ASSUME NEW option \in Arguments, NEW args \in Seq(Arguments), NEW index \in Nat,
         NEW min_added \in Int, NEW max_added \in Int
  PROVE  LET result == ResolveCmdLineArg(option, args, index, min_added, max_added)
         IN /\ result.thrown \in BOOLEAN /\ result.count \in Nat
            /\ result.thrown => result.count = 0
            /\ result.count > 0 =>
                 /\ index + result.count <= Len(args) /\ args[index + 1] = option
                 /\ min_added <= result.count - 1 /\ result.count - 1 <= max_added
                 /\ index + result.count = Len(args) \/ result.count - 1 = max_added
<1> DEFINE remaining == Len(args) - index - 1
           result    == ResolveCmdLineArg(option, args, index, min_added, max_added)
<1>1. CASE CheckCmdLineSourceThrows(args, index) \/ min_added < 0 \/ max_added < min_added
  <2>1. result = ResolveThrows
    BY <1>1 DEF ResolveCmdLineArg
  <2>2. result.thrown = TRUE /\ result.count = 0
    BY <2>1 DEF ResolveThrows
  <2> HIDE DEF result
  <2>3. result.thrown \in BOOLEAN
    BY <2>2, Zenon
  <2>4. result.count \in Nat /\ ~(result.count > 0)
    BY <2>2
  <2> QED BY <2>2, <2>3, <2>4 DEF result
<1>2. CASE ~(CheckCmdLineSourceThrows(args, index) \/ min_added < 0 \/ max_added < min_added)
  <2>1. remaining \in Nat /\ index + 1 + remaining = Len(args)
    BY <1>2 DEF CheckCmdLineSourceThrows
  <2>2. CASE args[index + 1] # option
    <3>1. result = Resolved(0)
      BY <1>2, <2>2 DEF ResolveCmdLineArg
    <3>2. result.thrown = FALSE /\ result.count = 0
      BY <3>1 DEF Resolved
    <3> HIDE DEF result
    <3>3. result.thrown \in BOOLEAN
      BY <3>2, Zenon
    <3>4. result.count \in Nat /\ ~(result.count > 0)
      BY <3>2
    <3> QED BY <3>2, <3>3, <3>4 DEF result
  <2>3. CASE args[index + 1] = option /\ min_added > remaining
    <3>1. result = ResolveThrows
      BY <1>2, <2>3 DEF ResolveCmdLineArg
    <3>2. result.thrown = TRUE /\ result.count = 0
      BY <3>1 DEF ResolveThrows
    <3> HIDE DEF result
    <3>3. result.thrown \in BOOLEAN
      BY <3>2, Zenon
    <3>4. result.count \in Nat /\ ~(result.count > 0)
      BY <3>2
    <3> QED BY <3>2, <3>3, <3>4 DEF result
  <2>4. CASE args[index + 1] = option /\ ~(min_added > remaining)
    <3> DEFINE added == IF max_added > min_added THEN Smaller(max_added, remaining) ELSE min_added
    <3>1. result = Resolved(1 + added)
      BY <1>2, <2>4 DEF ResolveCmdLineArg
    <3>2. /\ added \in Nat /\ min_added <= added /\ added <= max_added /\ added <= remaining
          /\ added = remaining \/ added = max_added
      BY <1>2, <2>1, <2>4 DEF Smaller
    <3>3. result.thrown = FALSE /\ result.count = 1 + added
      BY <3>1 DEF Resolved
    <3> HIDE DEF added, remaining, result
    <3>4. /\ result.count \in Nat /\ index + result.count <= Len(args)
          /\ min_added <= result.count - 1 /\ result.count - 1 <= max_added
          /\ index + result.count = Len(args) \/ result.count - 1 = max_added
      BY <2>1, <3>2, <3>3
    <3> QED BY <2>4, <3>3, <3>4 DEF result
  <2> QED BY <2>2, <2>3, <2>4
<1> QED BY <1>1, <1>2

LEMMA CommandLineStart == ASSUME CommandLineInit PROVE CommandLineInv
<1>1. PICK n \in 1 .. ArgumentsMax : \E argv \in [1 .. n -> Arguments] :
        commandLine = [argv |-> argv, index |-> 0, failed |-> FALSE, taken |-> <<>>]
  BY DEF CommandLineInit
<1>2. PICK argv \in [1 .. n -> Arguments] :
        commandLine = [argv |-> argv, index |-> 0, failed |-> FALSE, taken |-> <<>>]
  BY <1>1
<1>3. argv \in Seq(Arguments)
  BY IdentifiersAssumption
<1>4. /\ commandLine.argv = argv /\ commandLine.index = 0 /\ commandLine.failed = FALSE
      /\ commandLine.taken = <<>>
  BY <1>2
<1>5. <<>> \in Seq(Takes) /\ Len(<<>>) = 0
  OBVIOUS
<1> QED BY <1>2, <1>3, <1>4, <1>5 DEF CommandLineInv

LEMMA ResolveStep == ASSUME CommandLineInv, ResolveNext PROVE CommandLineInv'
<1> DEFINE argv  == commandLine.argv
           index == commandLine.index
           taken == commandLine.taken
<1>1. ~commandLine.failed /\ argv \in Seq(Arguments) /\ index \in Nat /\ taken \in Seq(Takes)
  BY DEF CommandLineInv, ResolveNext
<1>2. PICK option \in Arguments, min_added \in -1 .. ArgumentsMax, max_added \in -1 .. ArgumentsMax :
        LET result == ResolveCmdLineArg(option, argv, index, min_added, max_added)
        IN commandLine' =
            [commandLine EXCEPT
               !.index  = IF result.count > 0 THEN index + result.count
                          ELSE GetCmdLineArgIdx(argv, option, index),
               !.failed = result.thrown \/ (result.count = 0
                            /\ GetCmdLineArgIdx(argv, option, index) = -1),
               !.taken  = IF result.count = 0 THEN @
                          ELSE Append(@, [option |-> option, first |-> index, count |-> result.count,
                                          min |-> min_added, max |-> max_added])]
  BY DEF ResolveNext
<1>3. min_added \in Int /\ max_added \in Int
  BY IdentifiersAssumption
<1> DEFINE result == ResolveCmdLineArg(option, argv, index, min_added, max_added)
           behind == GetCmdLineArgIdx(argv, option, index)
           took   == [option |-> option, first |-> index, count |-> result.count,
                      min |-> min_added, max |-> max_added]
<1>4. /\ result.thrown \in BOOLEAN /\ result.count \in Nat
      /\ result.thrown => result.count = 0
      /\ result.count > 0 =>
           /\ index + result.count <= Len(argv) /\ argv[index + 1] = option
           /\ min_added <= result.count - 1 /\ result.count - 1 <= max_added
           /\ index + result.count = Len(argv) \/ result.count - 1 = max_added
  BY <1>1, <1>3, ResolvedTakes
<1>5. behind \in Int /\ (behind = -1 \/ index <= behind)
  BY <1>1, FoundBehind
<1>6. /\ commandLine'.argv = argv
      /\ commandLine'.index = IF result.count > 0 THEN index + result.count ELSE behind
      /\ commandLine'.failed <=> (result.thrown \/ (result.count = 0 /\ behind = -1))
      /\ commandLine'.taken = IF result.count = 0 THEN taken ELSE Append(taken, took)
      /\ commandLine' = [argv   |-> commandLine'.argv, index |-> commandLine'.index,
                         failed |-> commandLine'.failed, taken |-> commandLine'.taken]
  <2>1. commandLine = [argv |-> argv, index |-> index, failed |-> commandLine.failed, taken |-> taken]
    BY DEF CommandLineInv
  <2> HIDE DEF result, behind, took
  <2> DEFINE newIndex  == IF result.count > 0 THEN index + result.count ELSE behind
             newFailed == result.thrown \/ (result.count = 0 /\ behind = -1)
             newTaken  == IF result.count = 0 THEN taken ELSE Append(taken, took)
  <2>2. commandLine' = [commandLine EXCEPT !.index = newIndex, !.failed = newFailed, !.taken = newTaken]
    BY <1>2 DEF result, behind, took
  <2> HIDE DEF newIndex, newFailed, newTaken
  <2>3. commandLine' = [argv |-> argv, index |-> newIndex, failed |-> newFailed, taken |-> newTaken]
    BY <2>1, <2>2
  <2> QED BY <2>3 DEF newIndex, newFailed, newTaken
<1>7. \A i \in 1 .. Len(taken) : TakenInOrder(taken[i], argv)
  BY DEF CommandLineInv
<1>8. \A i \in 2 .. Len(taken) : taken[i - 1].first + taken[i - 1].count <= taken[i].first
  BY DEF CommandLineInv
<1>9. \A i \in 1 .. Len(taken) : taken[i].first + taken[i].count <= index
  BY <1>1 DEF CommandLineInv
<1>10. CASE result.count = 0
  <2>1. commandLine'.taken = taken /\ commandLine'.index = behind
    BY <1>4, <1>6, <1>10
  <2>2. ~commandLine'.failed => index <= behind /\ behind \in Nat
    BY <1>1, <1>5, <1>6, <1>10
  <2>3. ~commandLine'.failed => \A i \in 1 .. Len(taken) : taken[i].first + taken[i].count <= behind
    <3>1. ASSUME NEW i \in 1 .. Len(taken)
          PROVE  taken[i].first \in Nat /\ taken[i].count \in Nat
      BY <1>1, TakesNumbers
    <3> HIDE DEF taken, behind, index
    <3> QED BY <1>1, <1>5, <1>9, <2>2, <3>1
  <2> QED BY <1>1, <1>5, <1>6, <1>7, <1>8, <2>1, <2>2, <2>3 DEF CommandLineInv
<1>11. CASE result.count > 0
  <2>1. /\ commandLine'.taken = Append(taken, took) /\ commandLine'.index = index + result.count
        /\ commandLine'.index \in Nat
    BY <1>1, <1>4, <1>6, <1>11
  <2>2. took \in Takes /\ took.first = index /\ took.count = result.count
    BY <1>1, <1>3, <1>4, <1>11 DEF Takes
  <2>3. TakenInOrder(took, argv)
    BY <1>4, <1>11 DEF TakenInOrder
  <2> HIDE DEF took, result
  <2> DEFINE newTaken == Append(taken, took)
  <2>4. /\ newTaken \in Seq(Takes) /\ Len(newTaken) = Len(taken) + 1 /\ Len(taken) \in Nat
        /\ \A i \in 1 .. Len(taken) : newTaken[i] = taken[i]
        /\ newTaken[Len(taken) + 1] = took
    BY <1>1, <2>2
  <2> HIDE DEF newTaken
  <2>5. \A i \in 1 .. Len(newTaken) : TakenInOrder(newTaken[i], argv)
    <3>1. ASSUME NEW i \in 1 .. Len(newTaken) PROVE TakenInOrder(newTaken[i], argv)
      <4>1. CASE i \in 1 .. Len(taken)
        BY <1>7, <2>4, <4>1
      <4>2. CASE i = Len(taken) + 1
        BY <2>3, <2>4, <4>2
      <4> QED BY <2>4, <4>1, <4>2
    <3> QED BY <3>1
  <2>6. \A i \in 2 .. Len(newTaken) :
          newTaken[i - 1].first + newTaken[i - 1].count <= newTaken[i].first
    <3>1. ASSUME NEW i \in 2 .. Len(newTaken)
          PROVE  newTaken[i - 1].first + newTaken[i - 1].count <= newTaken[i].first
      <4>1. CASE i \in 2 .. Len(taken)
        BY <1>8, <2>4, <4>1
      <4>2. CASE i = Len(taken) + 1
        <5>1. i - 1 = Len(taken) /\ Len(taken) \in 1 .. Len(taken)
          BY <2>4, <4>2
        <5> QED BY <1>9, <2>2, <2>4, <4>2, <5>1
      <4> QED BY <2>4, <4>1, <4>2
    <3> QED BY <3>1
  <2>7. \A i \in 1 .. Len(newTaken) :
          newTaken[i].first + newTaken[i].count <= index + result.count
    <3>1. ASSUME NEW i \in 1 .. Len(newTaken)
          PROVE  newTaken[i].first + newTaken[i].count <= index + result.count
      <4>1. CASE i \in 1 .. Len(taken)
        <5>1. taken[i].first \in Nat /\ taken[i].count \in Nat
          BY <1>1, <4>1, TakesNumbers
        <5>2. taken[i].first + taken[i].count <= index /\ newTaken[i] = taken[i]
          BY <1>9, <2>4, <4>1
        <5>3. /\ newTaken[i].first \in Nat /\ newTaken[i].count \in Nat
              /\ newTaken[i].first + newTaken[i].count <= index
          BY <5>1, <5>2
        <5> HIDE DEF taken, index
        <5> QED BY <1>1, <1>4, <5>3
      <4>2. CASE i = Len(taken) + 1
        BY <1>1, <1>4, <2>2, <2>4, <4>2
      <4> QED BY <2>4, <4>1, <4>2
    <3> QED BY <3>1
  <2>8. newTaken = commandLine'.taken
    BY <2>1 DEF newTaken
  <2> QED BY <1>1, <1>6, <2>1, <2>4, <2>5, <2>6, <2>7, <2>8 DEF CommandLineInv
<1> QED BY <1>4, <1>10, <1>11

LEMMA ArgumentsInOrder == ASSUME CommandLineInv PROVE ArgumentsTaken
<1> DEFINE taken == commandLine.taken
           argv  == commandLine.argv
<1>1. taken \in Seq(Takes) /\ DOMAIN taken = 1 .. Len(taken) /\ Len(taken) \in Nat /\ Len(argv) \in Nat
  BY DEF CommandLineInv
<1>2. ASSUME NEW i \in DOMAIN taken
      PROVE  LET t == taken[i]
                 last == t.first + t.count - 1
             IN /\ argv[t.first + 1] = t.option
                /\ last < Len(argv) /\ t.min <= t.count - 1 /\ t.count - 1 <= t.max
                /\ last = Len(argv) - 1 \/ t.count - 1 = t.max
                /\ i > 1 => taken[i - 1].first + taken[i - 1].count <= t.first
  <2>1. TakenInOrder(taken[i], argv)
    BY <1>1 DEF CommandLineInv
  <2>2. i > 1 => taken[i - 1].first + taken[i - 1].count <= taken[i].first
    BY <1>1 DEF CommandLineInv
  <2>3. /\ taken[i].first \in Nat /\ taken[i].count \in Nat
        /\ taken[i].min \in Int /\ taken[i].max \in Int
    BY <1>1, TakesNumbers
  <2> HIDE DEF taken, argv
  <2> DEFINE last == taken[i].first + taken[i].count - 1
  <2>4. last = Len(argv) - 1 \/ taken[i].count - 1 = taken[i].max
    <3>1. \/ taken[i].first + taken[i].count = Len(argv)
          \/ taken[i].count - 1 = taken[i].max
      BY <2>1 DEF TakenInOrder
    <3> QED BY <1>1, <2>3, <3>1
  <2>5. last < Len(argv)
    <3>1. taken[i].first + taken[i].count <= Len(argv)
      BY <2>1 DEF TakenInOrder
    <3> QED BY <1>1, <2>3, <3>1
  <2>6. /\ argv[taken[i].first + 1] = taken[i].option
        /\ taken[i].min <= taken[i].count - 1 /\ taken[i].count - 1 <= taken[i].max
    BY <2>1 DEF TakenInOrder
  <2> QED BY <2>2, <2>4, <2>5, <2>6
<1> QED BY <1>2 DEF ArgumentsTaken

-----------------------------------------------------------------------------
(* What is read of a short text is what it says.                           *)

IdentifiersInv == VersionsTyped /\ IdsTyped /\ CommandLineInv

LEMMA IdentifiersStart == ASSUME IdentifiersInit PROVE IdentifiersInv
<1>1. VersionsTyped
  BY IdentifiersAssumption
     DEF IdentifiersInit, VersionInit, VersionsTyped, Versions, GetMinimumValue, UInt32
<1>2. IdsTyped
  BY IdentifiersAssumption DEF IdentifiersInit, UniqueIdInit, IdsTyped, UniqueIds
<1>3. CommandLineInv
  BY CommandLineStart DEF IdentifiersInit
<1> QED BY <1>1, <1>2, <1>3 DEF IdentifiersInv

\* Texts of versions, ids and options are accepted for what they say, whatever is
\* assigned to the objects and however often options are resolved: of VersionNumber
\* and UniqueId (FromString and what writes the text that it reads) and of
\* ResolveCmdLineArg.
THEOREM IdentifiersReadBack == IdentifiersSpec => []IdentifiersRead
<1>1. IdentifiersInv => IdentifiersRead
  BY TypedVersionsRead, TypedIdsRead, ArgumentsInOrder DEF IdentifiersInv, IdentifiersRead
<1>2. IdentifiersInv /\ [IdentifiersNext]_identifierVars => IdentifiersInv'
  <2> SUFFICES ASSUME IdentifiersInv, [IdentifiersNext]_identifierVars PROVE IdentifiersInv'
    OBVIOUS
  <2>1. CASE VersionNext /\ UNCHANGED <<uuid, commandLine>>
    BY <2>1, VersionStep DEF IdentifiersInv, IdsTyped, CommandLineInv
  <2>2. CASE UniqueIdNext /\ UNCHANGED <<version, commandLine>>
    BY <2>2, UniqueIdStep DEF IdentifiersInv, VersionsTyped, CommandLineInv
  <2>3. CASE ResolveNext /\ UNCHANGED <<version, uuid>>
    BY <2>3, ResolveStep DEF IdentifiersInv, VersionsTyped, IdsTyped
  <2>4. CASE UNCHANGED identifierVars
    BY <2>4 DEF identifierVars, IdentifiersInv, VersionsTyped, IdsTyped, CommandLineInv
  <2> QED BY <2>1, <2>2, <2>3, <2>4 DEF IdentifiersNext
<1>3. IdentifiersInit => IdentifiersInv
  BY IdentifiersStart
<1> QED BY <1>1, <1>2, <1>3, PTL DEF IdentifiersSpec

-----------------------------------------------------------------------------
(* What the members of a RsrcUsage are.                                    *)

UsageRecords == [UsageMembers -> Nat]
Counts       == [Counted -> Nat]
Intervals    == Selectors \X Counts \X Counts

\* What a member has grown by in an interval, and members that are what they stand for.
GrowthIn(means, member) ==
  IF member \notin Counted THEN 0 ELSE Difference(means[2][member], means[3][member])

Measured(members, means) ==
  means # NoInterval => \A member \in UsageMembers : members[member] = GrowthIn(means, member)

UsageInv ==
  /\ counters \in [Selectors -> Counts]
  /\ usage \in [UsageObjects -> UsageRecords]
  /\ interval \in [UsageObjects -> Intervals \cup {NoInterval}]
  /\ \A object \in UsageObjects : Measured(usage[object], interval[object])

\* No two members are taken from the same counter of getrusage().
LEMMA SourcesDiffer ==
  ASSUME NEW m \in DOMAIN FromSystem, NEW n \in DOMAIN FromSystem, FromSystem[m] = FromSystem[n]
  PROVE  m = n
BY DEF FromSystem

\* The members that are made of another one are not counted, nor is that one.
LEMMA SourceCounted ==
  ASSUME NEW member \in UsageMembers
  PROVE  /\ DeltaSource(member) \in UsageMembers
         /\ DeltaSource(member) \in Counted => DeltaSource(member) = member
         /\ member \in Counted => DeltaSource(member) = member
<1> DEFINE made == {"working_set_size_peak", "pagefile_usage", "pagefile_usage_peak"}
<1>1. \A m \in made \cup {"working_set_size"} : m \notin DOMAIN FromSystem
  BY DEF FromSystem
<1>2. \A m \in made \cup {"working_set_size"} : m \notin Counted
  BY <1>1, UsageAssumption
<1>3. "working_set_size" \in UsageMembers
  <2>1. PICK m \in Nat, n \in Nat, k \in Nat : m = 10 /\ n = 20 /\ k = 17
    OBVIOUS
  <2> DEFINE names == {TimeMembers[i] : i \in 1 .. m} \cup {ValueMembers[i] : i \in 1 .. n}
  <2>2. TimeMembers \in Seq(names)
    <3>1. TimeMembers = [i \in 1 .. m |-> TimeMembers[i]]
      BY <2>1 DEF TimeMembers
    <3>2. TimeMembers \in [1 .. m -> names]
      BY <3>1
    <3> QED BY <3>2, SeqDef
  <2>3. ValueMembers \in Seq(names)
    <3>1. ValueMembers = [i \in 1 .. n |-> ValueMembers[i]]
      BY <2>1 DEF ValueMembers
    <3>2. ValueMembers \in [1 .. n -> names]
      BY <3>1
    <3> QED BY <3>2, SeqDef
  <2>4. Len(TimeMembers) = m
    BY <2>1 DEF TimeMembers
  <2>5. Len(ValueMembers) = n
    BY <2>1 DEF ValueMembers
  <2>6. ValueMembers[k] = "working_set_size"
    BY <2>1 DEF ValueMembers
  <2> DEFINE all == TimeMembers \o ValueMembers
  <2> HIDE DEF names
  <2>7. /\ all \in Seq(names) /\ Len(all) = m + n
        /\ \A i \in 1 .. m + n : all[i] = IF i <= m THEN TimeMembers[i] ELSE ValueMembers[i - m]
    BY <2>2, <2>3, <2>4, <2>5, ConcatProperties
  <2> HIDE DEF all
  <2>8. m + k \in 1 .. m + n /\ ~(m + k <= m) /\ (m + k) - m = k
    BY <2>1
  <2>9. all[m + k] = "working_set_size" /\ m + k \in DOMAIN all
    BY <2>6, <2>7, <2>8, LenProperties
  <2> QED BY <2>9 DEF all, UsageMembers, ToSet
<1>4. CASE member \in made
  <2>1. DeltaSource(member) = "working_set_size"
    BY <1>4 DEF DeltaSource
  <2> QED BY <1>2, <1>3, <1>4, <2>1
<1>5. CASE member \notin made
  BY <1>5 DEF DeltaSource
<1> QED BY <1>4, <1>5

\* GetRsrcUsage takes the counter of every member that has one.
LEMMA TakenIsCounter ==
  ASSUME UsageInv, NEW selector \in Selectors
  PROVE  /\ UsageOf(selector) \in UsageRecords
         /\ \A member \in UsageMembers :
              UsageOf(selector)[member]
                = IF member \in Counted THEN counters[selector][member] ELSE 0
<1> DEFINE rusage == SystemUsage(selector)
<1>1. counters[selector] \in Counts
  BY DEF UsageInv
<1>2. ASSUME NEW member \in DOMAIN FromSystem
      PROVE  rusage[FromSystem[member]]
               = IF member \in Counted THEN counters[selector][member] ELSE 0
  <2> DEFINE name == FromSystem[member]
             m    == CHOOSE m \in DOMAIN FromSystem : FromSystem[m] = name
  <2>1. m \in DOMAIN FromSystem /\ FromSystem[m] = name
    OBVIOUS
  <2>2. m = member
    BY <2>1, SourcesDiffer
  <2>3. name \in {FromSystem[n] : n \in DOMAIN FromSystem}
    OBVIOUS
  <2>4. rusage[name] = IF m \in Counted THEN counters[selector][m] ELSE 0
    BY <2>3 DEF SystemUsage
  <2> HIDE DEF m, name, rusage
  <2> QED BY <2>2, <2>4 DEF name
<1> HIDE DEF rusage
<1>3. ASSUME NEW member \in UsageMembers
      PROVE  UsageOf(selector)[member]
               = IF member \in Counted THEN counters[selector][member] ELSE 0
  <2>1. UsageOf(selector)[member]
          = IF member \in DOMAIN FromSystem THEN rusage[FromSystem[member]] ELSE 0
    BY DEF UsageOf, rusage
  <2>2. CASE member \in DOMAIN FromSystem
    BY <1>2, <2>1, <2>2
  <2>3. CASE member \notin DOMAIN FromSystem
    <3>1. member \notin Counted
      BY <2>3, UsageAssumption
    <3> QED BY <2>1, <2>3, <3>1
  <2> QED BY <2>2, <2>3
<1>4. \A member \in UsageMembers : UsageOf(selector)[member] \in Nat
  BY <1>1, <1>3 DEF Counts
<1>5. UsageOf(selector) = [member \in UsageMembers |-> UsageOf(selector)[member]]
  BY DEF UsageOf
<1>6. UsageOf(selector) \in UsageRecords
  BY <1>4, <1>5 DEF UsageRecords
<1> QED BY <1>3, <1>6

LEMMA TakenMeasured ==
  ASSUME UsageInv, NEW selector \in Selectors
  PROVE  LET means == <<selector, NoCounts, counters[selector]>>
         IN means \in Intervals /\ Measured(UsageOf(selector), means)
<1> DEFINE means == <<selector, NoCounts, counters[selector]>>
<1>1. counters[selector] \in Counts /\ NoCounts \in Counts
  BY DEF UsageInv, NoCounts, Counts
<1>2. means \in Intervals
  BY <1>1 DEF Intervals
<1>3. ASSUME NEW member \in UsageMembers
      PROVE  UsageOf(selector)[member] = GrowthIn(means, member)
  <2>1. UsageOf(selector)[member] = IF member \in Counted THEN counters[selector][member] ELSE 0
    BY TakenIsCounter
  <2>2. CASE member \in Counted
    <3>1. NoCounts[member] = 0 /\ counters[selector][member] \in Nat
      BY <1>1, <2>2 DEF NoCounts, Counts
    <3>2. GrowthIn(means, member) = Difference(NoCounts[member], counters[selector][member])
      BY <2>2 DEF GrowthIn
    <3> QED BY <2>1, <2>2, <3>1, <3>2 DEF Difference
  <2>3. CASE member \notin Counted
    BY <2>1, <2>3 DEF GrowthIn
  <2> QED BY <2>2, <2>3
<1> QED BY <1>2, <1>3 DEF Measured

\* The difference of what two objects stand for is what the time between them stands for.
LEMMA DeltaMeasured ==
  ASSUME NEW start \in UsageRecords, NEW end \in UsageRecords,
         NEW from \in Intervals \cup {NoInterval}, NEW to \in Intervals \cup {NoInterval},
         Measured(start, from), Measured(end, to)
  PROVE  /\ DeltaOf(start, end) \in UsageRecords
         /\ IntervalBetween(from, to) \in Intervals \cup {NoInterval}
         /\ Measured(DeltaOf(start, end), IntervalBetween(from, to))
<1> DEFINE means == IntervalBetween(from, to)
           delta == DeltaOf(start, end)
<1>1. \A member \in UsageMembers :
        delta[member] = Difference(start[DeltaSource(member)], end[DeltaSource(member)])
  BY DEF DeltaOf
<1>2. delta \in UsageRecords
  <2>1. ASSUME NEW member \in UsageMembers PROVE delta[member] \in Nat
    <3>1. start[DeltaSource(member)] \in Nat /\ end[DeltaSource(member)] \in Nat
      BY SourceCounted DEF UsageRecords
    <3> QED BY <1>1, <3>1 DEF Difference
  <2>2. delta = [member \in UsageMembers |-> delta[member]]
    BY DEF DeltaOf
  <2> HIDE DEF delta
  <2> QED BY <2>1, <2>2 DEF UsageRecords
<1>3. CASE means = NoInterval
  BY <1>2, <1>3 DEF Measured
<1>4. CASE means # NoInterval
  <2>1. /\ from \in Intervals /\ to \in Intervals /\ from # NoInterval /\ to # NoInterval
        /\ \A m \in Counted : from[2][m] = 0 /\ to[2][m] = 0
        /\ means = <<from[1], from[3], to[3]>>
    BY <1>4 DEF IntervalBetween
  <2>2. /\ from[1] \in Selectors /\ from[2] \in Counts /\ from[3] \in Counts
        /\ to[2] \in Counts /\ to[3] \in Counts
    BY <2>1 DEF Intervals
  <2>3. means \in Intervals
    BY <2>1, <2>2 DEF Intervals
  <2> HIDE DEF means, delta
  <2>4. means[2] = from[3] /\ means[3] = to[3]
    BY <2>1
  <2>5. ASSUME NEW m \in UsageMembers
        PROVE  /\ start[m] = IF m \in Counted THEN from[3][m] ELSE 0
               /\ end[m] = IF m \in Counted THEN to[3][m] ELSE 0
    <3>1. start[m] = GrowthIn(from, m) /\ end[m] = GrowthIn(to, m)
      BY <2>1 DEF Measured
    <3>2. CASE m \in Counted
      <4>1. /\ from[2][m] = 0 /\ to[2][m] = 0 /\ from[3][m] \in Nat /\ to[3][m] \in Nat
        BY <2>1, <2>2, <3>2 DEF Counts
      <4>2. /\ start[m] = Difference(from[2][m], from[3][m])
            /\ end[m] = Difference(to[2][m], to[3][m])
        BY <3>1, <3>2 DEF GrowthIn
      <4> QED BY <3>2, <4>1, <4>2 DEF Difference
    <3>3. CASE m \notin Counted
      BY <3>1, <3>3 DEF GrowthIn
    <3> QED BY <3>2, <3>3
  <2>6. ASSUME NEW m \in UsageMembers PROVE delta[m] = GrowthIn(means, m)
    <3>1. delta[m] = Difference(start[DeltaSource(m)], end[DeltaSource(m)])
      BY <1>1
    <3>2. CASE m \in Counted
      <4>1. DeltaSource(m) = m
        BY <3>2, SourceCounted
      <4>2. start[m] = from[3][m] /\ end[m] = to[3][m]
        BY <2>5, <3>2
      <4> QED BY <2>4, <3>1, <3>2, <4>1, <4>2 DEF GrowthIn
    <3>3. CASE m \notin Counted
      <4>1. DeltaSource(m) \in UsageMembers /\ DeltaSource(m) \notin Counted
        BY <3>3, SourceCounted
      <4>2. start[DeltaSource(m)] = 0 /\ end[DeltaSource(m)] = 0
        BY <2>5, <4>1
      <4> QED BY <3>1, <3>3, <4>2 DEF GrowthIn, Difference
    <3> QED BY <3>2, <3>3
  <2>7. Measured(delta, means)
    BY <2>6 DEF Measured
  <2> QED BY <1>2, <2>3, <2>7 DEF means, delta
<1> QED BY <1>3, <1>4

\* What an object becomes does not disturb the others.
LEMMA BecomeStep ==
  ASSUME UsageInv, NEW object \in UsageObjects, NEW members \in UsageRecords,
         NEW means \in Intervals \cup {NoInterval}, Measured(members, means),
         Become(object, members, means)
  PROVE  UsageInv'
<1>1. /\ counters \in [Selectors -> Counts] /\ usage \in [UsageObjects -> UsageRecords]
      /\ interval \in [UsageObjects -> Intervals \cup {NoInterval}]
      /\ \A o \in UsageObjects : Measured(usage[o], interval[o])
  BY DEF UsageInv
<1>2. /\ usage' = [usage EXCEPT ![object] = members]
      /\ interval' = [interval EXCEPT ![object] = means] /\ counters' = counters
  BY DEF Become
<1>3. \A o \in UsageObjects : Measured(usage'[o], interval'[o])
  <2>1. ASSUME NEW o \in UsageObjects, o # object
        PROVE  Measured(usage'[o], interval'[o])
    <3>1. usage'[o] = usage[o] /\ interval'[o] = interval[o]
      BY <1>1, <1>2, <2>1
    <3> QED BY <1>1, <3>1
  <2>2. usage'[object] = members /\ interval'[object] = means
    BY <1>1, <1>2
  <2> QED BY <2>1, <2>2
<1>4. /\ counters' \in [Selectors -> Counts] /\ usage' \in [UsageObjects -> UsageRecords]
      /\ interval' \in [UsageObjects -> Intervals \cup {NoInterval}]
  BY <1>1, <1>2
<1>5. \A o \in UsageObjects : Measured(usage[o], interval[o])'
  BY <1>3 DEF Measured, GrowthIn
<1> QED BY <1>4, <1>5 DEF UsageInv, Counts, Intervals, UsageRecords

LEMMA ResetStep ==
  ASSUME UsageInv, NEW object \in UsageObjects, RsrcUsageReset(object)
  PROVE  UsageInv'
<1>1. NoUsage \in UsageRecords /\ Measured(NoUsage, NoInterval)
  BY DEF NoUsage, UsageRecords, Measured
<1> QED BY <1>1, BecomeStep DEF RsrcUsageReset

LEMMA TakeStep ==
  ASSUME UsageInv, NEW object \in UsageObjects, GetRsrcUsage(object)
  PROVE  UsageInv'
<1>1. PICK selector \in Selectors :
        Become(object, UsageOf(selector), <<selector, NoCounts, counters[selector]>>)
  BY DEF GetRsrcUsage
<1>2. UsageOf(selector) \in UsageRecords
  BY TakenIsCounter
<1>3. /\ <<selector, NoCounts, counters[selector]>> \in Intervals
      /\ Measured(UsageOf(selector), <<selector, NoCounts, counters[selector]>>)
  BY TakenMeasured
<1> QED BY <1>1, <1>2, <1>3, BecomeStep

LEMMA ObjectKept ==
  ASSUME UsageInv, NEW object \in UsageObjects
  PROVE  /\ usage[object] \in UsageRecords /\ interval[object] \in Intervals \cup {NoInterval}
         /\ Measured(usage[object], interval[object])
BY DEF UsageInv

LEMMA AssignStep ==
  ASSUME UsageInv, NEW object \in UsageObjects, NEW other \in UsageObjects,
         RsrcUsageAssign(object, other)
  PROVE  UsageInv'
BY ObjectKept, BecomeStep DEF RsrcUsageAssign

LEMMA DeltaStep ==
  ASSUME UsageInv, NEW start \in UsageObjects, NEW end \in UsageObjects,
         NEW delta \in UsageObjects, GetRsrcUsageDelta(start, end, delta)
  PROVE  UsageInv'
<1> DEFINE members == DeltaOf(usage[start], usage[end])
           means   == IntervalBetween(interval[start], interval[end])
<1>1. members \in UsageRecords /\ means \in Intervals \cup {NoInterval} /\ Measured(members, means)
  BY ObjectKept, DeltaMeasured
<1>2. Become(delta, members, means)
  BY DEF GetRsrcUsageDelta
<1> HIDE DEF members, means
<1> QED BY <1>1, <1>2, BecomeStep

LEMMA DeltaNowStep ==
  ASSUME UsageInv, NEW start \in UsageObjects, NEW delta \in UsageObjects,
         GetRsrcUsageDeltaNow(start, delta)
  PROVE  UsageInv'
<1> DEFINE now     == UsageOf("RUSAGE_SELF")
           until   == <<"RUSAGE_SELF", NoCounts, counters["RUSAGE_SELF"]>>
           members == DeltaOf(usage[start], now)
           means   == IntervalBetween(interval[start], until)
<1>1. PICK selector \in Selectors : selector = "RUSAGE_SELF"
  BY DEF Selectors
<1>2. now \in UsageRecords
  BY <1>1, TakenIsCounter
<1>3. until \in Intervals /\ Measured(now, until)
  BY <1>1, TakenMeasured
<1>4. Become(delta, members, means)
  BY DEF GetRsrcUsageDeltaNow
<1> HIDE DEF now, until
<1>5. members \in UsageRecords /\ means \in Intervals \cup {NoInterval} /\ Measured(members, means)
  BY <1>2, <1>3, ObjectKept, DeltaMeasured
<1> HIDE DEF members, means
<1> QED BY <1>4, <1>5, BecomeStep

LEMMA SwapStep ==
  ASSUME UsageInv, NEW object \in UsageObjects, NEW other \in UsageObjects,
         RsrcUsageSwap(object, other)
  PROVE  UsageInv'
<1>1. /\ counters \in [Selectors -> Counts] /\ usage \in [UsageObjects -> UsageRecords]
      /\ interval \in [UsageObjects -> Intervals \cup {NoInterval}]
      /\ \A o \in UsageObjects : Measured(usage[o], interval[o])
  BY DEF UsageInv
<1>2. /\ usage' = [usage EXCEPT ![object] = usage[other], ![other] = usage[object]]
      /\ interval' = [interval EXCEPT ![object] = interval[other], ![other] = interval[object]]
      /\ counters' = counters
  BY DEF RsrcUsageSwap
<1>3. ASSUME NEW o \in UsageObjects
      PROVE  \E was \in UsageObjects : usage'[o] = usage[was] /\ interval'[o] = interval[was]
  <2>1. CASE o = other
    BY <1>1, <1>2, <2>1
  <2>2. CASE o # other /\ o = object
    BY <1>1, <1>2, <2>2
  <2>3. CASE o # other /\ o # object
    BY <1>1, <1>2, <2>3
  <2> QED BY <2>1, <2>2, <2>3
<1>4. \A o \in UsageObjects : Measured(usage'[o], interval'[o])
  BY <1>1, <1>3
<1>5. /\ counters' \in [Selectors -> Counts] /\ usage' \in [UsageObjects -> UsageRecords]
      /\ interval' \in [UsageObjects -> Intervals \cup {NoInterval}]
  BY <1>1, <1>2
<1>6. \A o \in UsageObjects : Measured(usage[o], interval[o])'
  BY <1>4 DEF Measured, GrowthIn
<1> QED BY <1>5, <1>6 DEF UsageInv, Counts, Intervals, UsageRecords

LEMMA CountStep ==
  ASSUME UsageInv, SystemCounts
  PROVE  UsageInv'
<1>1. PICK selector \in Selectors, member \in Counted :
        /\ counters' = [counters EXCEPT ![selector][member] = @ + 1]
        /\ usage' = usage /\ interval' = interval
  BY DEF SystemCounts
<1>2. counters \in [Selectors -> Counts] /\ counters[selector] \in Counts
  BY DEF UsageInv
<1> DEFINE counts == [counters[selector] EXCEPT ![member] = @ + 1]
<1>3. counts \in Counts
  BY <1>2 DEF Counts
<1>4. counters' = [counters EXCEPT ![selector] = counts]
  BY <1>1
<1> HIDE DEF counts
<1>5. counters' \in [Selectors -> Counts]
  BY <1>2, <1>3, <1>4
<1>6. \A o \in UsageObjects : Measured(usage[o], interval[o])'
  BY <1>1 DEF UsageInv, Measured, GrowthIn
<1> QED BY <1>1, <1>5, <1>6 DEF UsageInv, Counts, Intervals, UsageRecords

LEMMA UsageStarts == UsageInit => UsageInv
<1> SUFFICES ASSUME UsageInit PROVE UsageInv
  OBVIOUS
<1>1. NoUsage \in UsageRecords /\ Measured(NoUsage, NoInterval) /\ NoCounts \in Counts
  BY DEF NoUsage, UsageRecords, Measured, NoCounts, Counts
<1> QED BY <1>1 DEF UsageInit, UsageInv

LEMMA UsageStep ==
  ASSUME UsageInv, UsageNext
  PROVE  UsageInv'
<1>1. CASE SystemCounts
  BY <1>1, CountStep
<1>2. ASSUME NEW object \in UsageObjects, GetRsrcUsage(object) \/ RsrcUsageReset(object)
      PROVE  UsageInv'
  BY <1>2, TakeStep, ResetStep
<1>3. ASSUME NEW object \in UsageObjects, NEW other \in UsageObjects,
             \/ RsrcUsageAssign(object, other) \/ RsrcUsageSwap(object, other)
             \/ GetRsrcUsageDeltaNow(object, other)
      PROVE  UsageInv'
  BY <1>3, AssignStep, SwapStep, DeltaNowStep
<1>4. ASSUME NEW start \in UsageObjects, NEW end \in UsageObjects, NEW delta \in UsageObjects,
             GetRsrcUsageDelta(start, end, delta)
      PROVE  UsageInv'
  BY <1>4, DeltaStep
<1> QED BY <1>1, <1>2, <1>3, <1>4 DEF UsageNext

LEMMA InvMeasures == ASSUME UsageInv PROVE UsageMeasured
<1> SUFFICES ASSUME NEW object \in UsageObjects, NEW member \in UsageMembers,
                    interval[object] # NoInterval
             PROVE  usage[object][member] = Growth(object, member)
  BY DEF UsageMeasured
<1>1. /\ interval[object] \in Intervals
      /\ usage[object][member] = GrowthIn(interval[object], member)
  BY ObjectKept DEF Measured
<1>2. CASE member \in Counted
  <2>1. interval[object][2][member] \in Nat /\ interval[object][3][member] \in Nat
    BY <1>1, <1>2 DEF Intervals, Counts
  <2>2. usage[object][member] = Difference(interval[object][2][member], interval[object][3][member])
    BY <1>1, <1>2 DEF GrowthIn
  <2> QED BY <1>2, <2>1, <2>2 DEF Difference, Growth
<1>3. CASE member \notin Counted
  BY <1>1, <1>3 DEF GrowthIn, Growth
<1> QED BY <1>2, <1>3

\* Whichever objects were taken, copied, swapped and subtracted, and also when the
\* difference of two is put into one of them (RsrcUsage.cpp:1069), every member of an
\* object that stands for an interval is what its counter has grown by.
THEOREM UsageIsMeasured == UsageSpec => []UsageMeasured
<1>1. UsageInit => UsageInv
  BY UsageStarts
<1>2. UsageInv /\ [UsageNext]_usageVars => UsageInv'
  <2> SUFFICES ASSUME UsageInv, [UsageNext]_usageVars PROVE UsageInv'
    OBVIOUS
  <2>1. CASE UsageNext
    BY <2>1, UsageStep
  <2>2. CASE UNCHANGED usageVars
    BY <2>2 DEF usageVars, UsageInv, Measured, GrowthIn
  <2> QED BY <2>1, <2>2
<1>3. UsageInv => UsageMeasured
  BY InvMeasures
<1> QED BY <1>1, <1>2, <1>3, PTL DEF UsageSpec

=============================================================================
