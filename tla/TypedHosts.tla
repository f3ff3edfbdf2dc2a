------------------------------ MODULE TypedHosts ------------------------------
(***************************************************************************)
(* Every host over a few small alphabets, typed one character at a time,   *)
(* as Url.roc reads it and as other parsers do; a host of digits, which a  *)
(* port or an octet may be as well, is read as a number beside it.         *)
(***************************************************************************)
EXTENDS Decimals

CONSTANTS Alphabets     \* [chars, length]: characters, and how many are typed

VARIABLE host

HostInit == NumberInit /\ host = <<>>
Type ==
    \E al \in Alphabets : \E c \in al.chars :
       /\ ToSet(host) \subseteq al.chars /\ Len(host) < al.length
       /\ host' = Append(host, c)
       /\ IF c \in Digit /\ DigitValue[c] \in Digits /\ read = Len(host) /\ read < MaxDigits
          THEN ReadDigit(DigitValue[c]) ELSE UNCHANGED number
typed == <<host, number>>

W == INSTANCE Whatwg

(* A host that is accepted names one address: a parser that reads its last *)
(* label as a number finds in it the bytes the URL now writes in decimal   *)
(* (Url.roc:425-429,497-500).                                              *)
NamesOneAddress ==
    LET ours == ValidateHost(host)
    IN  ours.err = "ok" /\ W!NamesNumber(host) =>
           /\ W!Address(host) # None
           /\ ours.val = JoinWith([i \in 1..4 |-> DecimalText(W!Address(host)[1][i])], <<".">>)

(* An IPv6 address is accepted exactly when one way of filling its `::'    *)
(* makes it GroupCount groups, and the URL then writes those               *)
(* (Url.roc:590-593).                                                      *)
FillsOneWay ==
    LET ours   == ValidateIpv6(host)
        groups == W!GroupsOf(host, GroupCount)
    IN  IF ours.err = "ok" THEN groups = {W!GroupNumbers(ours.val)} ELSE groups = {}
===============================================================================
