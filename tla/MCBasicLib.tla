------------------------------ MODULE MCBasicLib ------------------------------
(***************************************************************************)
(* The texts an app gives Url.roc: absolute URLs, references, path         *)
(* segments, names and values of parameters, queries and fragments; hosts  *)
(* that one app types, with no URL about them; and the instants it         *)
(* converts to dates.                                                      *)
(***************************************************************************)
EXTENDS Urls, TypedHosts, Calendar

Http  == <<"http", ":", "/", "/">>
Https == <<"https", ":", "/", "/">>

(* Ports and hosts at their edges, then paths with what parse rewrites.    *)
SomeTexts == {
    Http  \o <<"A", ".", "g", ":", "8", "0">>,
    Https \o <<"a", ":", "0", "0", "8", "0", "?", "#">>,
    Https \o <<"a", ":", "6", "5", "5", "3", "6">>,
    Http  \o <<"1", ".", "0", ".", "1", ".", "2", ":", "6", "5", "5", "3", "5", "/", "a", "/", "/", ".", ".">>,
    <<"HTTP">> \o Tail(Http) \o <<"[", ":", ":", "A", ":", "0", "0", "]", ":", "8", "0", "/", Sloppy("."), "/", ".", "?", "x", "=", "u8">>,
    Http  \o <<"a", "/", Sloppy("."), Escape("."), "/", "/", "g", "#", "?", "#">>,
    Http  \o <<"a", "@", "g">>, Http \o <<":", "8", "0">>, Http \o <<"?", "a">>, Http \o <<"u8">>,
    Http  \o <<"[", ":", ":", "1">>, Http \o <<"[", "1", "]", "x">>, Http \o <<"a", "/", Stray>>,
    Http  \o <<"a", "?", " ">>, Http \o <<"a", ":", "x">>, Http \o <<"1", ".", "1">>,
    <<"ftp", ":", "a", ":", "/", "/", "g">>, <<"http", ":", "g">>, <<"a", "/", "g">>}
OneText == {Http \o <<"a", "/", "x", "/", "/", "g", "?", "a">>, Http \o <<"a", "/">>}

(* Every short reference over what resolving looks at, and some that it    *)
(* must read as data or refuse.                                            *)
AllRefs  == BoundedSeq({"/", ".", "a", "?", "#"}, 5) \cup
            {<<"?", "a", "=", "https", ":", "/", "/", "x", ".", "g">>, <<".", "/", "a", ":", "g">>, <<"#", ":">>}
SomeRefs == {
    <<>>, <<"?", "+", "=", Sloppy("&"), "&", "&">>, <<"#", "u8">>, <<"/", ".", ".", "/", "/">>, <<".", ".", "/", ".">>,
    <<"g", "/", Escape("a")>>, <<"a", "/", "?">>, <<"a", " ">>, <<"a", ":", "g">>, <<"https", ":", "g">>,
    <<"/", "/", "g">>, <<"?", Stray>>, Https \o <<"g", ":", "4", "4", "3">>}

SomeItems == {
    <<>>, << <<>> >>, << <<>>, <<"a">> >>, << <<".">> >>, << <<"a">>, <<".", ".">> >>, << <<".", ".", ".">> >>,
    << <<"/", "u8">>, <<"?", "#", " ">> >>, << <<Sloppy(".")>>, <<Stray, Escape("/")>> >>, << <<".", Escape(".")>> >>}
SomeWords == {<<>>, <<"=", "&">>, <<"+", " ">>, <<Sloppy("a"), Stray>>, <<"u8", "#">>}
SomeParts == {None, << <<>> >>, << <<"u8", Sloppy("#")>> >>, << <<"#">> >>, << <<"a", "&", "=", "+">> >>, << <<Stray>> >>}

NoApp == [texts |-> {}, refs |-> {}, items |-> {}, words |-> {}, parts |-> {}, calls |-> 0]

MCApps == {NoApp,
           [texts |-> SomeTexts, refs |-> SomeRefs, items |-> SomeItems, words |-> SomeWords,
            parts |-> SomeParts, calls |-> 3],
           [texts |-> OneText, refs |-> AllRefs, items |-> {}, words |-> {}, parts |-> {},
            calls |-> 2]}

MCAlphabets == {[chars |-> {"0", "1", "x", "."}, length |-> 9],
                [chars |-> {"0", "1", "A", ":"}, length |-> 8],
                [chars |-> {"0", "3", "5", "6", "9"}, length |-> 7]}

(* The first and the last instant of days around the ends of months and    *)
(* years that the leap rule tells apart: in 1970, 1972, 2000 and 2100.     *)
(* TLC's integers end at 2^31, so a day is scaled to 24 units.             *)
Days == {0, 30, 31, 58, 59, 364, 365, 789, 790, 11015, 11016, 11017, 47540, 47541, 47846, 47847}
SomeInstants == {24 * d : d \in Days} \cup {24 * d + 23 : d \in Days}

(* An application calls Url.roc, types hosts or converts an instant.       *)
CallUrl  == Next /\ UNCHANGED <<typed, epoch>>
TypeHost == app = NoApp /\ millis = 0 /\ ~done /\ Type /\ UNCHANGED <<vars, epoch>>
Convert  == app = NoApp /\ host = <<>> /\ EpochNext /\ UNCHANGED <<vars, typed>>

MCInit == Init /\ HostInit /\ EpochInit /\ (app # NoApp => millis = 0)
MCNext == CallUrl \/ TypeHost \/ Convert
MCSpec == MCInit /\ [][MCNext]_<<vars, typed, epoch>>
===============================================================================
