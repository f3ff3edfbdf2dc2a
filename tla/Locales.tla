------------------------------- MODULE Locales -------------------------------
(***************************************************************************)
(* The locales an app is told (basic-lib Locale.roc over Host.roc): what   *)
(* LANGUAGE, LC_ALL, LC_MESSAGES and LANG name, as language tags.  The     *)
(* symbols of their values are letters, runs of letters and punctuation.   *)
(***************************************************************************)
EXTENDS Environment

CONSTANTS Letters,     \* symbols of one letter
          Words,       \* symbols that are several letters, eight at most
          Digits,      \* symbols of one digit
          Long,        \* one of more than eight letters
          Capitals     \* the symbols with capitals, and each in lower case

-----------------------------------------------------------------------------
(* Host.roc.                                                               *)
Before(s, c) == LET i == Least({j \in DOMAIN s : s[j] = c})
                IN  IF i = 0 THEN s ELSE SubSeq(s, 1, i - 1)

SplitOn(s, c) ==
    LET cuts == SetToSortSeq({0, Len(s) + 1} \cup {i \in DOMAIN s : s[i] = c}, <)
    IN  [i \in 1..(Len(cuts) - 1) |-> SubSeq(s, cuts[i] + 1, cuts[i + 1] - 1)]

EnvOrEmpty(name) == LET got == Var(Utf8(<<name>>))
                    IN  IF got.err = "ok" THEN Lossy(got.val.units, Raw) ELSE <<>>

IsC(s) == s \in {<<"C">>, <<"POSIX">>}
Base(raw) == Before(Before(raw, "."), "@")
Tag(raw)  == [i \in DOMAIN Base(raw) |-> IF Base(raw)[i] = "_" THEN "-" ELSE Base(raw)[i]]
IsLocale(raw) == Base(raw) # <<>> /\ ~IsC(Base(raw))

AsSpelled(s)  == s                                     \* variant: en and EN are two
AsciiLower(s) == [i \in DOMAIN s |-> IF s[i] \in DOMAIN Capitals THEN Capitals[s[i]] ELSE s[i]]

Effective(settings) == LET given == SelectSeq(settings, LAMBDA v : v # <<>>)
                       IN  IF given = <<>> THEN <<>> ELSE Head(given)

Candidates ==
    LET effective == Effective(<<EnvOrEmpty("LC_ALL"), EnvOrEmpty("LC_MESSAGES"), EnvOrEmpty("LANG")>>)
    IN  IF IsC(Before(effective, ".")) THEN <<>>
        ELSE Append(SplitOn(EnvOrEmpty("LANGUAGE"), ":"), effective)

LocaleTags(raws) ==
    LET found == SelectSeq(raws, IsLocale)
        tags  == [i \in DOMAIN found |-> Tag(found[i])]
        Seen(i) == \E j \in 1..(i - 1) : AsciiLower(tags[j]) = AsciiLower(tags[i])
        kept  == SetToSortSeq({i \in DOMAIN tags : ~Seen(i)}, <)
    IN  [i \in DOMAIN kept |-> tags[kept[i]]]

-----------------------------------------------------------------------------
(* Locale.parse.                                                           *)
Alnum == Letters \cup Words \cup Digits \cup {Long}
Single(subtag) == Len(subtag) = 1 /\ subtag[1] \in Letters \cup Digits
IsX(subtag)    == AsciiLower(subtag) = <<"x">>

(* Every marker is followed by a subtag; after an x, all are private.      *)
ExtensionsEnd(subtags) ==
    subtags = <<>> \/ ~Single(Last(subtags)) \/ \E i \in 1..(Len(subtags) - 1) : IsX(subtags[i])

LanguageIsValid(subtags) ==
    LET language == Head(subtags)
    IN  CASE IsX(language) -> Len(subtags) > 1
          [] AsciiLower(language) = <<"i">> -> Len(subtags) > 1 /\ ExtensionsEnd(Tail(subtags))
          [] OTHER -> ~Single(language) /\ ToSet(language) \cap Digits = {} /\ ExtensionsEnd(Tail(subtags))

Parses(tag) ==
    LET subtags == SplitOn(tag, "-")
    IN  /\ \A i \in DOMAIN subtags : /\ subtags[i] # <<>>
                                     /\ ToSet(subtags[i]) \subseteq Alnum \ {Long}
        /\ LanguageIsValid(subtags)

LocaleAll == SelectSeq(LocaleTags(Candidates), Parses)

AskLocales == answer' = [op |-> "locales", list |-> LocaleAll] /\ UNCHANGED <<environ, argv, dict>>

LocalesNext == Next \/ AskLocales
LocalesSpec == Init /\ [][LocalesNext]_vars

-----------------------------------------------------------------------------
(* The locales are those LANGUAGE names and then the one in effect, each   *)
(* once whatever its case, and none when that is C (Locale.roc:97-107).    *)
Value(name) == LET named == {i \in DOMAIN environ : IsPrefix(<<name, "=">>, environ[i])}
               IN  IF named = {} THEN <<>>
                   ELSE LET e == environ[CHOOSE i \in named : \A j \in named : i <= j]
                        IN  Lossy(SubSeq(e, 3, Len(e)), Raw)
InEffect == LET set == {n \in {"LC_ALL", "LC_MESSAGES", "LANG"} : Value(n) # <<>>}
            IN  CASE "LC_ALL" \in set -> Value("LC_ALL")
                  [] set \cap {"LC_ALL", "LC_MESSAGES"} = {"LC_MESSAGES"} -> Value("LC_MESSAGES")
                  [] OTHER -> Value("LANG")

LocalesAreNamed ==
    answer.op = "locales" =>
       LET asked    == Append(SplitOn(Value("LANGUAGE"), ":"), InEffect)
           named    == {i \in DOMAIN asked : IsLocale(asked[i]) /\ Parses(Tag(asked[i]))}
           Folded(t) == [i \in DOMAIN t |-> IF t[i] \in DOMAIN Capitals THEN Capitals[t[i]] ELSE t[i]]
           list     == answer.list
           First(t) == CHOOSE i \in named : /\ Folded(Tag(asked[i])) = Folded(t)
                                            /\ \A j \in named : Folded(Tag(asked[j])) = Folded(t) => i <= j
       IN  IF IsC(Before(InEffect, ".")) THEN list = <<>>
           ELSE /\ {Folded(list[i]) : i \in DOMAIN list} = {Folded(Tag(asked[i])) : i \in named}
                /\ \A i, j \in DOMAIN list : i < j => First(list[i]) < First(list[j])
=============================================================================
