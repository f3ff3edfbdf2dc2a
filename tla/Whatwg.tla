-------------------------------- MODULE Whatwg --------------------------------
(***************************************************************************)
(* What other parsers read in a host, over the tokens of UrlText: WHATWG's *)
(* IPv4 parser, whose numbers are inet_aton's (`010' is 8, `0x10' is 16,   *)
(* the last number fills the bytes that are left), and RFC 4291's `::'.    *)
(***************************************************************************)
EXTENDS UrlText

DigitOf == [c \in Hex |-> CASE c \in {"a", "A"} -> 10
                            [] OTHER -> CHOOSE n \in 0..9 : c = ToString(n)]
InBase(base, digits) == FoldLeft(LAMBDA acc, d : acc * base + DigitOf[d], 0, digits)

IsHexText(s) == Len(s) > 1 /\ s[1] = "0" /\ s[2] \in {"x", "X"} /\ All(Drop(s, 2), Hex)
IsOctal(s)   == Len(s) > 1 /\ s[1] = "0" /\ All(s, Digit \ {"8", "9"})
IsDecimalText(s) == s # <<>> /\ All(s, Digit) /\ (Len(s) > 1 => s[1] # "0")

NumberOf(s) == CASE IsHexText(s) -> InBase(16, Drop(s, 2))
                 [] IsOctal(s)   -> InBase(8, Tail(s))
                 [] OTHER        -> InBase(10, s)

(* A last label that is empty is the trailing dot of a rooted name.        *)
Labels(s) == LET labels == SplitOn(s, <<".">>)
             IN  IF Len(labels) > 1 /\ Last(labels) = <<>> THEN Front(labels) ELSE labels
IsNumber(s) == s # <<>> /\ (IsHexText(s) \/ All(s, Digit))
NamesNumber(s) == IsNumber(Last(Labels(s)))

(* The four bytes of an address, or none when it is not one.               *)
BytesOf(n, count) == [i \in 1..count |-> (n \div 256 ^ (count - i)) % 256]
Address(s) ==
    LET labels == Labels(s)
        n      == Len(labels)
    IN  IF /\ n <= 4
           /\ \A i \in 1..n : IsHexText(labels[i]) \/ IsOctal(labels[i]) \/ IsDecimalText(labels[i])
           /\ \A i \in 1..(n - 1) : NumberOf(labels[i]) < 256
           /\ n > 1 => NumberOf(labels[n]) < 256 ^ (5 - n)
        THEN <<[i \in 1..(n - 1) |-> NumberOf(labels[i])] \o BytesOf(NumberOf(labels[n]), 5 - n)>>
        ELSE None

-----------------------------------------------------------------------------
(* The texts without `::' that a text stands for, when `::' is up to COUNT *)
(* zero groups, and the numbers of a text that writes all its groups.      *)

Zeroes(n) == [i \in 1..(2 * n - 1) |-> IF i % 2 = 1 THEN "0" ELSE ":"]
Glued(left, right) == IF left = <<>> \/ right = <<>> THEN left \o right
                      ELSE left \o <<":">> \o right
Elisions(s) == {i \in 1..(Len(s) - 1) : s[i] = ":" /\ s[i + 1] = ":"}
WrittenOut(s, count) ==
    IF Elisions(s) = {} THEN {s}
    ELSE {Glued(Glued(SubSeq(s, 1, i - 1), Zeroes(n)), Drop(s, i + 1)) :
             i \in Elisions(s), n \in 1..count}

GroupNumbers(s) ==
    LET groups == SplitOn(s, <<":">>)
    IN  IF \A i \in 1..Len(groups) : Len(groups[i]) \in 1..4 /\ All(groups[i], Hex)
        THEN [i \in 1..Len(groups) |-> InBase(16, groups[i])] ELSE <<>>
GroupsOf(s, count) == {g \in {GroupNumbers(t) : t \in WrittenOut(s, count)} : Len(g) = count}
=============================================================================
