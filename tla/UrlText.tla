------------------------------- MODULE UrlText -------------------------------
(***************************************************************************)
(* The text of a URL (components/basic-lib/Url.roc) as a sequence of       *)
(* tokens.  A character stands for all that the code treats alike, and a   *)
(* percent escape is one token.                                            *)
(***************************************************************************)
EXTENDS Naturals, SequencesExt

Digit   == {"0", "1", "2", "3", "4", "5", "6", "7", "8", "9"}
LowerOf == [A |-> "a", X |-> "x", HTTP |-> "http"]
Alpha   == {"a", "x", "g", "http", "https", "ftp"} \cup DOMAIN LowerOf
Alnum   == Alpha \cup Digit
Hex     == Digit \cup {"a", "A"}

Refused == {" "}     \* every byte is_forbidden refuses in any component
High    == "u8"      \* a character that is not ASCII
Stray   == "%z"      \* a `%' that starts no escape
Char    == Alnum \cup Refused \cup {High, Stray} \cup
           {"-", ".", "~", "/", "?", "#", ":", "@", "[", "]", "&", "=", "+"}

(* The escape of a character as the code writes it, and as a user may, with*)
(* small hex digits.  An app's text may hold escapes, and escape them again*)
Escape(c)  == "%" \o c
Sloppy(c)  == "%'" \o c
Escaped    == [t \in {Sloppy(c) : c \in Char} |-> Escape(CHOOSE c \in Char : t = Sloppy(c))]
Typed      == Char \cup {Escape(c) : c \in Char} \cup DOMAIN Escaped
Unescaped  == [t \in {Escape(c) : c \in Typed} |-> CHOOSE c \in Typed : t = Escape(c)]

Mapped(f, s)  == [i \in 1..Len(s) |-> IF s[i] \in DOMAIN f THEN f[s[i]] ELSE s[i]]
LowerCase(s)  == Mapped(LowerOf, s)
All(s, S)     == ToSet(s) \subseteq S
Starts(s, p)  == IsPrefix(p, s)
Drop(s, n)    == SubSeq(s, n + 1, Len(s))

(* An option is a sequence of at most one item.  A result is a value or the*)
(* kind of an error.                                                       *)
None   == <<>>
Ok(v)  == [err |-> "ok", val |-> v]
Err(e) == [err |-> e, val |-> <<>>]
FirstErr(es) == IF All(es, {"ok"}) THEN "ok" ELSE SelectSeq(es, LAMBDA e : e # "ok")[1]

-----------------------------------------------------------------------------
(* Str.split_on and Str.join_with.                                         *)

SplitOn(s, sep) ==
    LET n == Len(sep)
        At(i) == {j \in i..(Len(s) - n + 1) : SubSeq(s, j, j + n - 1) = sep}
        from[i \in 1..(Len(s) + 1)] ==
            IF At(i) = {} THEN <<SubSeq(s, i, Len(s))>>
            ELSE <<SubSeq(s, i, Min(At(i)) - 1)>> \o from[Min(At(i)) + n]
    IN  from[1]

JoinWith(parts, sep) ==
    IF parts = <<>> THEN <<>>
    ELSE FoldLeft(LAMBDA s, p : s \o sep \o p, Head(parts), Tail(parts))

(* What is before the first token of S, from it on, and what follows it, if*)
(* there is one.                                                           *)
Cut(s, S)    == Min({i \in 1..Len(s) : s[i] \in S} \cup {Len(s) + 1})
Before(s, S) == SubSeq(s, 1, Cut(s, S) - 1)
Onwards(s, S) == SubSeq(s, Cut(s, S), Len(s))
After(s, S)  == IF Cut(s, S) > Len(s) THEN None ELSE <<Drop(s, Cut(s, S))>>

-----------------------------------------------------------------------------
(* A component: escapes in capitals, what is not ASCII escaped.            *)

RefusedOnly(kind) == Refused           \* variant: `#' is data in a query
Forbidden(kind) ==
    Refused \cup CASE kind = "Path" -> {"#", "?"} [] kind = "Query" -> {"#"} [] OTHER -> {}

Canonical(s)  == Mapped(Escaped, Mapped([u8 |-> Escape(High)], s))

ValidateComponent(s, kind) ==
    LET bad == {i \in 1..Len(s) : s[i] \in Forbidden(kind) \cup {Stray}}
    IN  IF bad = {} THEN Ok(Canonical(s))
        ELSE Err(IF s[Min(bad)] = Stray THEN "InvalidPercentEncoding" ELSE "InvalidCharacter")

ValidateOptional(o, kind) ==
    IF o = None THEN Ok(None)
    ELSE [ValidateComponent(o[1], kind) EXCEPT !.val = <<@>>]

(* RFC 3986's dot segments, removed the way normalize_segments does.       *)
NormalizeSegments(segments) ==
    LET Step(out, i) ==
            CASE segments[i] = <<".">> -> out
              [] segments[i] = <<".", ".">> -> IF out = <<>> THEN out ELSE Front(out)
              [] OTHER -> Append(out, segments[i])
        kept == FoldLeft(Step, <<>>, [i \in 1..Len(segments) |-> i])
    IN  IF segments # <<>> /\ Last(segments) \in {<<".">>, <<".", ".">>}
        THEN Append(kept, <<>>) ELSE kept

Segments(path) == Tail(SplitOn(path, <<"/">>))

NormalizePath(path) ==
    LET rooted == IF Starts(path, <<"/">>) THEN path ELSE <<"/">> \o path
    IN  <<"/">> \o JoinWith(NormalizeSegments(Segments(rooted)), <<"/">>)

PathDirectory(path) ==
    LET parts == SplitOn(path, <<"/">>)
    IN  IF Len(parts) <= 2 THEN <<"/">> ELSE JoinWith(Front(parts), <<"/">>) \o <<"/">>

-----------------------------------------------------------------------------
(* Percent encoding, and application/x-www-form-urlencoded.                *)

PercentEncode(s) ==
    [i \in 1..Len(s) |-> IF s[i] \in Alnum \cup {"-", ".", "~"} THEN s[i] ELSE Escape(s[i])]

PercentPlus(s) ==                      \* variant: a plus is left as it is
    [i \in 1..Len(s) |-> CASE s[i] = " " -> "+"
                           [] s[i] \in Alnum \cup {"-", ".", "+"} -> s[i]
                           [] OTHER -> Escape(s[i])]
FormEncode(s) ==
    [i \in 1..Len(s) |-> CASE s[i] = " " -> "+"
                           [] s[i] \in Alnum \cup {"-", "."} -> s[i]
                           [] OTHER -> Escape(s[i])]

(* An escape that an app's text spelled out was escaped once more.         *)
FormDecode(s) ==
    [i \in 1..Len(s) |-> CASE s[i] = "+" -> " "
                           [] s[i] \in DOMAIN Unescaped -> Unescaped[s[i]]
                           [] OTHER -> s[i]]
=============================================================================
