------------------------------- MODULE Decimals -------------------------------
(***************************************************************************)
(* parse_decimal (components/basic-lib/Url.roc) reading its digits one by  *)
(* one, beside the number they write.                                      *)
(***************************************************************************)
EXTENDS UrlHosts

CONSTANTS Digits,       \* the digits that are read
          MaxDigits     \* bound on how many

ASSUME DigitsAssumption == Digits \subseteq 0..9 /\ MaxDigits \in Nat

VARIABLES acc,          \* what the code holds
          value,        \* what the digits write
          read

number == <<acc, value, read>>

NumberInit == acc = 0 /\ value = 0 /\ read = 0

ReadDigit(d) ==
    /\ read < MaxDigits
    /\ acc' = Saturated(acc, d)
    /\ value' = value * 10 + d
    /\ read' = read + 1

NumberNext == \E d \in Digits : ReadDigit(d)
NumberSpec == NumberInit /\ [][NumberNext]_number

NumberTypeOK == acc \in 0..WordMax /\ value \in Nat /\ read \in 0..MaxDigits

(* A number is out of range of a port exactly when what was read is,       *)
(* however many digits there are, and within it it is read exactly         *)
(* (Url.roc:547-556).                                                      *)
Largest == 65535
SameVerdict ==
    /\ (acc > Largest) <=> (value > Largest)
    /\ value <= Largest => acc = value

(* What the inductive argument needs: short of the cap nothing was lost,   *)
(* and past it the number stays past it.                                   *)
Exact == IF acc < DecimalCap THEN acc = value ELSE value >= DecimalCap
===============================================================================
