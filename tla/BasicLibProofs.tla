--------------------------- MODULE BasicLibProofs ---------------------------
(***************************************************************************)
(* The two computations of basic-lib on numbers of any size.  That a date  *)
(* is the instant it was asked for, whatever the instant, and a day of its *)
(* month when it is answered; and that a number of any length is judged as *)
(* the number it writes, whatever the cap and the word, as long as ten     *)
(* times the cap fits the word.                                            *)
(***************************************************************************)
EXTENDS Calendar, Decimals, TLAPS

-----------------------------------------------------------------------------
(* Dates.                                                                  *)

LEMMA Division ==
    ASSUME NEW n \in Nat, NEW k \in Nat \ {0}
    PROVE  /\ n \div k \in Nat
           /\ n % k \in 0..(k - 1)
           /\ ((n \div k) * k) + (n % k) = n
  OBVIOUS

(* The closed form's leap years are the code's.                            *)
LEMMA LeapYears ==
    ASSUME NEW y \in Nat \ (0..1969)
    PROVE  LeapsThrough(y) - LeapsThrough(y - 1) = IF IsLeapYear(y) THEN 1 ELSE 0
  BY DEF LeapsThrough, IsLeapYear

LEMMA LeapsInt ==
    ASSUME NEW y \in Int
    PROVE  LeapsThrough(y) \in Int
  BY DEF LeapsThrough

LEMMA MonthLength ==
    ASSUME NEW y \in Nat, NEW m \in 1..12
    PROVE  DaysInMonth(y, m) \in 28..31
  BY DEF DaysInMonth

(* A month's first day plus its days is the next month's first day.        *)
LEMMA DaysAdd ==
    ASSUME NEW y \in Nat \ (0..1969), NEW m \in 1..12
    PROVE  /\ DaysToMonth(y, m) \in Int
           /\ DaysToMonth(IF m = 12 THEN y + 1 ELSE y, NextMonth(m)) =
              DaysToMonth(y, m) + DaysInMonth(y, m)
  <1> DEFINE leaps == LeapsThrough(y)
             before == LeapsThrough(y - 1)
             zero == LeapsThrough(1969)
  <1>1. leaps \in Int /\ before \in Int /\ zero \in Int
    BY LeapsInt
  <1>2. leaps - before = IF IsLeapYear(y) THEN 1 ELSE 0
    BY LeapYears
  <1>3. DaysToYear(y) = 365 * (y - 1970) + before - zero
    BY DEF DaysToYear
  <1>4. DaysToYear(y + 1) = 365 * (y + 1 - 1970) + leaps - zero
    <2>1. (y + 1) - 1 = y
      OBVIOUS
    <2> QED  BY <2>1 DEF DaysToYear
  <1>5. DaysToYear(y) \in Int /\ DaysToYear(y + 1) \in Int
    BY <1>1, <1>3, <1>4
  <1>6. DaysToYear(y + 1) = DaysToYear(y) + 365 + (leaps - before)
    BY <1>1, <1>3, <1>4
  <1>7. LeapDay(y, m) = IF m > 2 /\ IsLeapYear(y) THEN 1 ELSE 0
    BY <1>1, <1>2 DEF LeapDay
  <1>8. DaysToMonth(y, m) \in Int
    BY <1>5, <1>7 DEF DaysToMonth
  <1>9. CASE m = 12
    <2>1. NextMonth(m) = 1
      BY <1>9 DEF NextMonth
    <2>2. DaysToMonth(y + 1, 1) = DaysToYear(y + 1)
      BY <1>5 DEF DaysToMonth, LeapDay
    <2>3. DaysInMonth(y, m) = 31
      BY <1>9 DEF DaysInMonth
    <2>4. DaysToMonth(y, m) = DaysToYear(y) + (leaps - before) + 334
      BY <1>1, <1>2, <1>5, <1>7, <1>9 DEF DaysToMonth
    <2> HIDE DEF leaps, before
    <2> QED  BY <1>1, <1>5, <1>6, <1>8, <1>9, <2>1, <2>2, <2>3, <2>4
  <1>10. CASE m # 12
    <2>1. NextMonth(m) = m + 1
      BY <1>10 DEF NextMonth
    <2>2. LeapDay(y, m + 1) = IF m + 1 > 2 /\ IsLeapYear(y) THEN 1 ELSE 0
      BY <1>1, <1>2 DEF LeapDay
    <2>3. DaysToMonth(y, m + 1) = DaysToMonth(y, m) + DaysInMonth(y, m)
      BY <1>5, <1>7, <1>10, <2>2 DEF DaysToMonth, DaysInMonth
    <2> QED  BY <1>8, <1>10, <2>1, <2>3
  <1> QED  BY <1>9, <1>10

-----------------------------------------------------------------------------
(* The conversion.                                                         *)

LEMMA DateFields ==
    ASSUME NEW d \in Dates
    PROVE  /\ d = [year |-> d.year, month |-> d.month, day |-> d.day, hours |-> d.hours,
                   minutes |-> d.minutes, seconds |-> d.seconds]
           /\ d.year \in Nat \ (0..1969) /\ d.month \in 1..12 /\ d.day \in Nat \ {0}
           /\ d.hours \in 0..(PerDay - 1) /\ d.minutes \in 0..(PerHour - 1)
           /\ d.seconds \in 0..(PerMinute - 1)
  BY DEF Dates

Inv == DateTypeOK /\ SameInstant /\ Valid

(* The first date names the instant: the divisions lose nothing but what   *)
(* is below a second.                                                      *)
LEMMA StartNames ==
    ASSUME EpochInit
    PROVE  Inv
  <1>1. PICK t \in Instants : millis = t /\ date = EpochDate(t) /\ done = FALSE
    BY DEF EpochInit
  <1> DEFINE seconds == t \div PerSecond
             minutes == seconds \div PerMinute
             hours   == minutes \div PerHour
             days    == hours \div PerDay
  <1>2. /\ t \in Nat /\ PerSecond \in Nat \ {0} /\ PerMinute \in Nat \ {0}
        /\ PerHour \in Nat \ {0} /\ PerDay \in Nat \ {0}
    BY InstantsAssumption, RatesAssumption
  <1>3. seconds \in Nat
    BY <1>2, Division
  <1>4. /\ minutes \in Nat /\ seconds % PerMinute \in 0..(PerMinute - 1)
        /\ (minutes * PerMinute) + (seconds % PerMinute) = seconds
    BY <1>2, <1>3, Division
  <1>5. /\ hours \in Nat /\ minutes % PerHour \in 0..(PerHour - 1)
        /\ (hours * PerHour) + (minutes % PerHour) = minutes
    BY <1>2, <1>4, Division
  <1>6. /\ days \in Nat /\ hours % PerDay \in 0..(PerDay - 1)
        /\ (days * PerDay) + (hours % PerDay) = hours
    BY <1>2, <1>5, Division
  <1>7. date = [year |-> 1970, month |-> 1, day |-> 1 + days, hours |-> hours % PerDay,
                minutes |-> minutes % PerHour, seconds |-> seconds % PerMinute]
    BY <1>1 DEF EpochDate
  <1>8. DaysTo(date) = days
    <2>1. DaysToMonth(1970, 1) = 0
      BY DEF DaysToMonth, DaysToYear, LeapDay, LeapsThrough
    <2> HIDE DEF days
    <2> QED  BY <1>6, <1>7, <2>1 DEF DaysTo
  <1>9. SecondsTo(date) = seconds
    <2> HIDE DEF days, hours, minutes, seconds
    <2> QED  BY <1>4, <1>5, <1>6, <1>7, <1>8 DEF SecondsTo
  <1>10. DateTypeOK
    <2> DEFINE first == 1 + days
               h == hours % PerDay
               mi == minutes % PerHour
               sec == seconds % PerMinute
    <2>1. 1970 \in Nat \ (0..1969) /\ 1 \in 1..12 /\ first \in Nat \ {0}
      BY <1>6
    <2>2. date \in Dates
      <3>1. h \in 0..(PerDay - 1) /\ mi \in 0..(PerHour - 1) /\ sec \in 0..(PerMinute - 1)
        BY <1>4, <1>5, <1>6
      <3>2. date = [year |-> 1970, month |-> 1, day |-> first, hours |-> h, minutes |-> mi,
                    seconds |-> sec]
        BY <1>7
      <3> HIDE DEF first, h, mi, sec, seconds, minutes, hours, days
      <3> QED  BY <2>1, <3>1, <3>2 DEF Dates
    <2> QED  BY <1>1, <2>2 DEF DateTypeOK
  <1> QED  BY <1>1, <1>9, <1>10 DEF Inv, SameInstant, Valid

(* Carrying a month moves its days from the day to the month.              *)
LEMMA CarryKeeps ==
    ASSUME Inv, Carry
    PROVE  Inv' /\ date'.day < date.day
  <1> DEFINE y == date.year
             m == date.month
             length == DaysInMonth(y, m)
  <1>1. /\ y \in Nat \ (0..1969) /\ m \in 1..12 /\ date.day \in Nat \ {0}
        /\ date.hours \in 0..(PerDay - 1) /\ date.minutes \in 0..(PerHour - 1)
        /\ date.seconds \in 0..(PerMinute - 1)
    <2>1. date \in Dates
      BY DEF Inv, DateTypeOK
    <2> QED  BY <2>1, DateFields
  <1>2. length \in 28..31 /\ date.day > length
    <2>1. date.day > length
      BY DEF Carry, Overfull
    <2>2. length \in 28..31
      BY <1>1, MonthLength
    <2> QED  BY <2>1, <2>2
  <1>3. /\ date'.year = (IF m = 12 THEN y + 1 ELSE y)
        /\ date'.month = NextMonth(m)
        /\ date'.day = date.day - length
        /\ date'.hours = date.hours /\ date'.minutes = date.minutes /\ date'.seconds = date.seconds
    BY DEF Carry, Inv, DateTypeOK, Dates
  <1>4. NextMonth(m) \in 1..12
    BY <1>1 DEF NextMonth
  <1>5. DateTypeOK'
    <2>1. /\ (IF m = 12 THEN y + 1 ELSE y) \in Nat \ (0..1969)
          /\ date.day - length \in Nat \ {0}
      <3> HIDE DEF y, m, length
      <3> QED  BY <1>1, <1>2
    <2>2. date' = [year |-> IF m = 12 THEN y + 1 ELSE y, month |-> NextMonth(m),
                   day |-> date.day - length, hours |-> date.hours, minutes |-> date.minutes,
                   seconds |-> date.seconds]
      <3>1. date = [year |-> date.year, month |-> date.month, day |-> date.day, hours |-> date.hours,
                    minutes |-> date.minutes, seconds |-> date.seconds]
        BY DateFields DEF Inv, DateTypeOK
      <3>2. date' = [date EXCEPT !.year = IF m = 12 THEN y + 1 ELSE y, !.month = NextMonth(m),
                                 !.day = date.day - length]
        BY DEF Carry
      <3> HIDE DEF y, m, length
      <3> QED  BY <3>1, <3>2
    <2> HIDE DEF y, m, length
    <2>3. date' \in Dates
      <3> DEFINE ny == IF m = 12 THEN y + 1 ELSE y
                 nm == NextMonth(m)
                 nd == date.day - length
      <3>1. ny \in Nat \ (0..1969) /\ nm \in 1..12 /\ nd \in Nat \ {0}
        BY <1>4, <2>1
      <3>2. date' = [year |-> ny, month |-> nm, day |-> nd, hours |-> date.hours,
                     minutes |-> date.minutes, seconds |-> date.seconds]
        BY <2>2
      <3> HIDE DEF ny, nm, nd
      <3> QED  BY <1>1, <3>1, <3>2 DEF Dates
    <2> QED  BY <2>3 DEF Inv, DateTypeOK, Carry
  <1>6. DaysTo(date)' = DaysTo(date)
    <2>1. /\ DaysToMonth(y, m) \in Int
          /\ DaysToMonth(IF m = 12 THEN y + 1 ELSE y, NextMonth(m)) = DaysToMonth(y, m) + length
      <3> HIDE DEF y, m
      <3> QED  BY <1>1, DaysAdd
    <2>2. DaysTo(date)' = DaysToMonth(y, m) + length + (date.day - length) - 1
      BY <1>3, <2>1 DEF DaysTo
    <2>3. DaysTo(date) = DaysToMonth(y, m) + date.day - 1
      BY DEF DaysTo
    <2> HIDE DEF y, m, length
    <2> QED  BY <1>1, <1>2, <2>1, <2>2, <2>3
  <1>7. SameInstant'
    BY <1>3, <1>6 DEF SecondsTo, SameInstant, Inv, Carry
  <1>8. Valid'
    BY DEF Valid, Carry
  <1>9. date'.day < date.day
    BY <1>1, <1>2, <1>3
  <1> QED  BY <1>5, <1>7, <1>8, <1>9 DEF Inv

LEMMA AnswerKeeps ==
    ASSUME Inv, Answer
    PROVE  Inv'
  <1>1. DateTypeOK'
    BY DEF Inv, DateTypeOK, Answer
  <1>2. SameInstant'
    BY DEF Inv, SameInstant, SecondsTo, DaysTo, Answer
  <1>3. Valid'
    <2>1. date.year \in Nat /\ date.month \in 1..12 /\ date.day \in Nat \ {0}
      BY DateFields DEF Inv, DateTypeOK
    <2>2. DaysInMonth(date.year, date.month) \in 28..31
      BY <2>1, MonthLength
    <2> QED  BY <2>1, <2>2 DEF Answer, Overfull, Valid
  <1> QED  BY <1>1, <1>2, <1>3 DEF Inv

(* The invariant holds in every state of every conversion.                 *)
THEOREM Conversion == EpochSpec => []Inv
  <1>1. Inv /\ [EpochNext]_epoch => Inv'
    <2> SUFFICES ASSUME Inv, [EpochNext]_epoch PROVE Inv'
      OBVIOUS
    <2>1. CASE Carry
      BY <2>1, CarryKeeps
    <2>2. CASE Answer
      BY <2>2, AnswerKeeps
    <2>3. CASE UNCHANGED epoch
      BY <2>3 DEF epoch, Inv, DateTypeOK, SameInstant, SecondsTo, DaysTo, Valid
    <2> QED  BY <2>1, <2>2, <2>3 DEF EpochNext
  <1> QED  BY <1>1, StartNames, PTL DEF EpochSpec

(* For every instant, the date names it to the second, at every step       *)
(* (InternalDateTime.roc:24-38).                                           *)
THEOREM InstantKept == EpochSpec => []SameInstant
  BY Conversion, PTL DEF Inv

(* For every instant, the answer is a day of its month                     *)
(* (InternalDateTime.roc:69,83).                                           *)
THEOREM AnswersValid == EpochSpec => []Valid
  BY Conversion, PTL DEF Inv

(* For every instant, each call of normalize_date has fewer days left than *)
(* the one before, so it cannot call itself for ever                       *)
(* (InternalDateTime.roc:71-81).                                           *)
THEOREM CallsShrink == EpochSpec => Shrinks
  <1>1. Inv /\ [EpochNext]_epoch => [~done' => date'.day < date.day]_epoch
    <2> SUFFICES ASSUME Inv, EpochNext, ~done' PROVE date'.day < date.day
      OBVIOUS
    <2>1. CASE Carry
      BY <2>1, CarryKeeps
    <2>2. CASE Answer
      BY <2>2 DEF Answer
    <2> QED  BY <2>1, <2>2 DEF EpochNext
  <1> QED  BY <1>1, Conversion, PTL DEF EpochSpec, Shrinks

-----------------------------------------------------------------------------
(* Numbers.                                                                *)

NumberInv == NumberTypeOK /\ Exact

(* What is read short of the cap fits the word: nothing wraps.             *)
LEMMA ShortOfCapFits ==
    ASSUME NEW a \in Nat, a < DecimalCap, NEW d \in 0..9
    PROVE  (a * 10 + d) % (WordMax + 1) = a * 10 + d
  <1>1. a * 10 + d \in Nat /\ a * 10 + d <= WordMax
    BY HostAssumption
  <1>2. \A n, m \in Nat : n <= m => n % (m + 1) = n
    OBVIOUS
  <1> QED  BY <1>1, <1>2, HostAssumption

(* One digit keeps the argument.                                           *)
LEMMA DigitKeeps ==
    ASSUME NumberInv, NEW d \in Digits, ReadDigit(d)
    PROVE  NumberInv'
  <1> USE HostAssumption, DigitsAssumption
  <1>1. d \in 0..9 /\ acc \in Nat /\ value \in Nat
    BY DEF NumberInv, NumberTypeOK
  <1>2. CASE acc < DecimalCap
    <2>1. acc' = acc * 10 + d /\ acc = value
      BY <1>1, <1>2, ShortOfCapFits DEF NumberInv, Exact, ReadDigit, Saturated
    <2>2. acc' \in 0..WordMax
      BY <1>1, <1>2, <2>1
    <2> QED  BY <1>1, <2>1, <2>2 DEF NumberInv, NumberTypeOK, Exact, ReadDigit
  <1>3. CASE acc >= DecimalCap
    <2>1. acc' = DecimalCap /\ value >= DecimalCap
      BY <1>1, <1>3 DEF NumberInv, Exact, ReadDigit, Saturated
    <2>2. value' \in Nat /\ value' >= DecimalCap
      BY <1>1, <2>1 DEF ReadDigit
    <2> QED  BY <1>1, <2>1, <2>2 DEF NumberInv, NumberTypeOK, Exact, ReadDigit
  <1> QED  BY <1>1, <1>2, <1>3

(* Every number read is held exactly or held as out of range.              *)
THEOREM ExactAlways == NumberSpec => []NumberInv
  <1>1. NumberInit => NumberInv
    BY HostAssumption, DigitsAssumption DEF NumberInit, NumberInv, NumberTypeOK, Exact
  <1>2. NumberInv /\ [NumberNext]_number => NumberInv'
    <2> SUFFICES ASSUME NumberInv, [NumberNext]_number PROVE NumberInv'
      OBVIOUS
    <2>1. CASE NumberNext
      BY <2>1, DigitKeeps DEF NumberNext
    <2>2. CASE UNCHANGED number
      BY <2>2 DEF number, NumberInv, NumberTypeOK, Exact
    <2> QED  BY <2>1, <2>2
  <1> QED  BY <1>1, <1>2, PTL DEF NumberSpec

(* A port, or an octet, is refused exactly when the number it writes is too*)
(* large, for every run of digits (Url.roc:547-556).                       *)
THEOREM VerdictsAgree == NumberSpec => []SameVerdict
  <1>1. NumberInv => SameVerdict
    BY HostAssumption DEF NumberInv, NumberTypeOK, Exact, SameVerdict, Largest
  <1> QED  BY <1>1, ExactAlways, PTL
=============================================================================
