------------------------------- MODULE Calendar -------------------------------
(***************************************************************************)
(* epoch_millis_to_datetime and normalize_date (components/basic-lib/      *)
(* InternalDateTime.roc): the days since 1970 are carried into months, one *)
(* call of normalize_date a step.                                          *)
(***************************************************************************)
EXTENDS Integers

CONSTANTS Instants,                            \* the times since 1970 that are converted
          PerSecond, PerMinute, PerHour, PerDay    \* 1000, 60, 60 and 24

ASSUME InstantsAssumption == Instants \subseteq Nat
ASSUME RatesAssumption == {PerSecond, PerMinute, PerHour, PerDay} \subseteq Nat \ {0}

VARIABLES millis, date, done

epoch == <<millis, date, done>>

JulianLeap(y) == y % 4 = 0                     \* variant: every fourth year
IsLeapYear(y) == y % 4 = 0 /\ (y % 100 = 0 => y % 400 = 0)

DaysInMonth(y, m) ==
    CASE m = 2 -> IF IsLeapYear(y) THEN 29 ELSE 28
      [] m \in {4, 6, 9, 11} -> 30
      [] m \in {1, 3, 5, 7, 8, 10, 12} -> 31
      [] OTHER -> 0

EpochDate(t) ==
    LET seconds == t \div PerSecond
        minutes == seconds \div PerMinute
        hours   == minutes \div PerHour
    IN  [year |-> 1970, month |-> 1, day |-> 1 + hours \div PerDay,
         hours |-> hours % PerDay, minutes |-> minutes % PerHour, seconds |-> seconds % PerMinute]

EpochInit == \E t \in Instants : millis = t /\ date = EpochDate(t) /\ done = FALSE

AtEnd == date.day >= DaysInMonth(date.year, date.month)    \* variant: carries a full month
Overfull == date.day > DaysInMonth(date.year, date.month)

NextMonth(m) == IF m = 12 THEN 1 ELSE m + 1

Carry ==
    /\ ~done /\ Overfull
    /\ date' = [date EXCEPT !.year = IF date.month = 12 THEN @ + 1 ELSE @,
                            !.month = NextMonth(@),
                            !.day = @ - DaysInMonth(date.year, date.month)]
    /\ UNCHANGED <<millis, done>>

Answer ==
    /\ ~done /\ ~Overfull
    /\ done' = TRUE
    /\ UNCHANGED <<millis, date>>

EpochNext == Carry \/ Answer
EpochSpec == EpochInit /\ [][EpochNext]_epoch

-----------------------------------------------------------------------------
(* The days from the first of January 1970 to the first of a month, by the *)
(* closed form of the Gregorian calendar.                                  *)

LeapsThrough(y) == y \div 4 - y \div 100 + y \div 400
DaysToYear(y)   == 365 * (y - 1970) + LeapsThrough(y - 1) - LeapsThrough(1969)
LeapDay(y, m)   == IF m > 2 /\ LeapsThrough(y) > LeapsThrough(y - 1) THEN 1 ELSE 0
DaysToMonth(y, m) ==
    DaysToYear(y) + LeapDay(y, m)
    + CASE m = 1 -> 0 [] m = 2 -> 31 [] m = 3 -> 59 [] m = 4 -> 90 [] m = 5 -> 120 [] m = 6 -> 151
        [] m = 7 -> 181 [] m = 8 -> 212 [] m = 9 -> 243 [] m = 10 -> 273 [] m = 11 -> 304
        [] m = 12 -> 334

DaysTo(d)    == DaysToMonth(d.year, d.month) + d.day - 1
SecondsTo(d) == ((DaysTo(d) * PerDay + d.hours) * PerHour + d.minutes) * PerMinute + d.seconds

Dates == [year : Nat \ (0..1969), month : 1..12, day : Nat \ {0}, hours : 0..(PerDay - 1),
          minutes : 0..(PerHour - 1), seconds : 0..(PerMinute - 1)]

DateTypeOK == millis \in Instants /\ date \in Dates /\ done \in BOOLEAN

(* However many months are carried, the date still names the instant that  *)
(* was asked for, to the second (InternalDateTime.roc:24-38).              *)
SameInstant == SecondsTo(date) = millis \div PerSecond

(* The answer is a day of its month (InternalDateTime.roc:69,83).          *)
Valid == done => date.day \in 1..DaysInMonth(date.year, date.month)

(* Every further call has fewer days left to carry, so there is a last one *)
(* (InternalDateTime.roc:71-81).                                           *)
Shrinks == [][~done' => date'.day < date.day]_epoch
===============================================================================
