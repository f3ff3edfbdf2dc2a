------------------------------- MODULE UrlHosts -------------------------------
(***************************************************************************)
(* The host and port of a URL (components/basic-lib/Url.roc): DNS names,   *)
(* IPv4 and IPv6 addresses, and decimal numbers.                           *)
(***************************************************************************)
EXTENDS UrlText

CONSTANTS DecimalCap,   \* decimal_cap, above which a number saturates
          WordMax,      \* the largest U64
          LabelMax,     \* 63, the longest label
          HostMax,      \* 253, the longest name
          GroupCount    \* 8, the groups of an IPv6 address

ASSUME HostAssumption ==
    /\ {DecimalCap, WordMax, LabelMax, HostMax, GroupCount} \subseteq Nat
    /\ DecimalCap > 65535
    /\ DecimalCap * 10 + 9 <= WordMax

DigitValue == [d \in Digit |-> CHOOSE n \in 0..9 : d = ToString(n)]

IsDecimal(s) == s # <<>> /\ All(s, Digit)
Wrapped(acc, d) == (acc * 10 + d) % (WordMax + 1)            \* variant: no saturation
Saturated(acc, d) == IF acc >= DecimalCap THEN DecimalCap ELSE (acc * 10 + d) % (WordMax + 1)

ParseDecimal(s) == FoldLeft(LAMBDA acc, d : Saturated(acc, DigitValue[d]), 0, s)

(* U64.to_str and U16.to_str.                                              *)
DecimalText(n) ==
    LET text[m \in 0..n] == IF m < 10 THEN <<ToString(m)>>
                            ELSE Append(text[m \div 10], ToString(m % 10))
    IN  text[n]

-----------------------------------------------------------------------------
DefaultPort == [Http |-> 80, Https |-> 443]

ParsePort(s, scheme) ==
    IF ~IsDecimal(s) THEN Err("InvalidPort")
    ELSE IF ParseDecimal(s) > 65535 THEN Err("PortOutOfRange")
    ELSE Ok(IF ParseDecimal(s) = DefaultPort[scheme] THEN None ELSE <<ParseDecimal(s)>>)

EndsInDigits(s) ==                     \* variant: only decimal is a number
    LET label == Last(SplitOn(s, <<".">>)) IN label # <<>> /\ All(label, Digit)

(* The last label is a number to WHATWG's parser.                          *)
EndsInNumber(s) ==
    LET label == Last(SplitOn(s, <<".">>))
    IN  CASE label = <<>> -> FALSE
          [] Len(label) >= 2 /\ label[1] = "0" /\ label[2] \in {"x", "X"} -> All(Drop(label, 2), Hex)
          [] OTHER -> All(label, Digit)

OctetAnyZero(s) == IsDecimal(s) /\ ParseDecimal(s) <= 255     \* variant

(* An octet has no leading zero.                                           *)
Octet(s)     == /\ Len(s) > 1 => s[1] # "0"
                /\ IsDecimal(s) /\ ParseDecimal(s) <= 255

ValidateIpv4(s) ==
    LET parts == SplitOn(s, <<".">>)
    IN  IF Len(parts) = 4 /\ \A i \in 1..Len(parts) : Octet(parts[i])
        THEN Ok(JoinWith([i \in 1..4 |-> DecimalText(ParseDecimal(parts[i]))], <<".">>))
        ELSE Err("InvalidIpv4")

Label(s) ==
    /\ Len(s) \in 1..LabelMax
    /\ s[1] \in Alnum /\ Last(s) \in Alnum
    /\ All(s, Alnum \cup {"-"})

ValidateDnsName(s) ==
    LET labels == SplitOn(LowerCase(s), <<".">>)
    IN  IF Len(s) <= HostMax /\ \A i \in 1..Len(labels) : Label(labels[i])
        THEN Ok(LowerCase(s)) ELSE Err("InvalidHost")

ValidateHost(s) ==
    CASE s = <<>> -> Err("EmptyHost")
      [] s # <<>> /\ High \in ToSet(s) -> Err("InternationalHostUnsupported")
      [] s # <<>> /\ All(s, Digit \cup {"."}) -> ValidateIpv4(s)
      [] OTHER -> IF EndsInNumber(s) THEN Err("InvalidIpv4") ELSE ValidateDnsName(s)

-----------------------------------------------------------------------------
(* IPv6: hexadecimal groups, `::' for the zero groups it leaves out; the   *)
(* result writes out every group, without leading zeroes.                  *)

Group(s) == Len(s) \in 1..4 /\ All(s, Hex)
GroupText(s) ==
    LET digits == {i \in 1..Len(s) : s[i] # "0"}
    IN  IF digits = {} THEN <<"0">> ELSE LowerCase(Drop(s, Min(digits) - 1))
Side(s) == IF s = <<>> THEN <<>> ELSE SplitOn(s, <<":">>)

ElisionOfNone(count) == count <= GroupCount    \* variant: `::' for no group
ElisionFits(count) == count < GroupCount

ValidateIpv6(s) ==
    LET pieces == SplitOn(s, <<":", ":">>)
        sides  == [i \in 1..Len(pieces) |-> Side(pieces[i])]
        groups == FlattenSeq(sides)
        zeroes == [i \in 1..(GroupCount - Len(groups)) |-> <<"0">>]
        Text(g) == Ok(JoinWith([i \in 1..Len(g) |-> GroupText(g[i])], <<":">>))
    IN  CASE Len(pieces) > 2 \/ \E i \in 1..Len(groups) : ~Group(groups[i]) -> Err("InvalidIpv6")
          [] Len(pieces) = 1 /\ Len(groups) = GroupCount -> Text(groups)
          [] Len(pieces) = 2 /\ ElisionFits(Len(groups)) ->
                Text(sides[1] \o zeroes \o sides[2])
          [] OTHER -> Err("InvalidIpv6")

-----------------------------------------------------------------------------
Authority(host, port) ==
    [err |-> FirstErr(<<host.err, port.err>>), host |-> host.val, port |-> port.val]

ParseBracketed(a, scheme) ==
    LET host  == ValidateIpv6(Tail(Before(a, {"]"})))
        after == Drop(a, Cut(a, {"]"}))
    IN  Authority([host EXCEPT !.val = <<"[">> \o @ \o <<"]">>],
                  CASE after = <<>> -> Ok(None)
                    [] Starts(after, <<":">>) -> ParsePort(Tail(after), scheme)
                    [] OTHER -> Err("InvalidIpv6"))

ParseNamed(a, scheme) ==
    LET parts == SplitOn(a, <<":">>)
    IN  IF Len(parts) = 1 THEN Authority(ValidateHost(a), Ok(None))
        ELSE Authority(ValidateHost(JoinWith(Front(parts), <<":">>)), ParsePort(Last(parts), scheme))

ParseAuthority(a, scheme) ==
    CASE a[1] # "[" -> ParseNamed(a, scheme)
      [] a[1] = "[" /\ "]" \in ToSet(a) -> ParseBracketed(a, scheme)
      [] OTHER -> Authority(Err("InvalidIpv6"), Ok(None))
=============================================================================
