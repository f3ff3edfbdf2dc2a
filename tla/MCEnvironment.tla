---------------------------- MODULE MCEnvironment ----------------------------
(***************************************************************************)
(* Environments of two entries over a few symbols, many of them no pair or *)
(* the same name twice; arguments of any bytes; and environments that name *)
(* locales.                                                                *)
(***************************************************************************)
EXTENDS Locales

Entries  == BoundedSeq({"A", "=", Raw}, 3)
Blocks   == {<<a, b>> : a, b \in Entries}
Argvs    == {<< <<"A", Raw>>, <<>>, <<Mark>>, <<Raw>> >>}

Values   == { <<>>, <<"C">>, <<"POSIX", ".", "utf">>, <<"en", "_", "US">>, <<"EN", "_", "US", ".", "utf">>,
              <<"fr", "@", "en">>, <<".", "utf">>, <<"x">>, <<Raw>> }
Lists    == { <<>>, <<"en", ":", "EN">>, <<"fr", ":", ":", "en", "_", "US">>, <<"x", "-", "a", ":", "fr">>,
              <<"i", "-", "fr", "-", "a", ":", "en", "-", Long>>, <<"1", ":", "a", "-", "US", ":", "fr", "_", "1", ":", "fr", "_">>,
              <<"en", "-", "a", "-", "x", "-", "x">> }
Localized == {<< <<"LANGUAGE", "=">> \o l, <<"LC_ALL", "=">> \o a, <<"LC_MESSAGES", "=">> \o m, <<"LANG", "=">> \o g>> :
                  l \in Lists, a, m \in {<<>>, <<"C">>, <<"en", "_", "US">>}, g \in Values}

MCStarts == {[environ |-> b, argv |-> a] : b \in Blocks \cup Localized \cup {<<>>}, a \in Argvs}
MCNames  == {Utf8(<<"A">>), UnixBytes(<<"A">>), UnixBytes(<<Raw>>), Utf8(<<>>), Utf8(<<"A", "=">>),
             Utf8(<<"=">>), Utf8(<<"A", Nul>>), WindowsU16s(<<Half>>), WindowsU16s(<<"A">>)}
MCPaths  == {<<"A">>, <<"A", Raw>>, <<Mark>>}
MCCapitals == [EN |-> "en", US |-> "us", C |-> "c"]
===============================================================================
