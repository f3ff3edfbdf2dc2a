--------------------------------- MODULE Urls ---------------------------------
(***************************************************************************)
(* The URLs of an app (components/basic-lib/Url.roc): the app parses one,  *)
(* and replaces it by what it resolves, appends and sets on it, in any     *)
(* order.  The answer tells the last call and what it was given.           *)
(***************************************************************************)
EXTENDS UrlHosts

CONSTANTS NoUrl,      \* before the app has a URL
          Apps        \* the apps: the texts they parse, the refs they resolve, the
                      \* lists of items they append to the path, the words that are
                      \* names and values of parameters, the parts they set as query
                      \* or fragment, and how many calls they make, a bound

VARIABLES app, url, answer, calls

vars == <<app, url, answer, calls>>

-----------------------------------------------------------------------------
(* Reading a URL.  A scheme is read by RFC 3986 3.1, wherever it is read.  *)

SchemeLength(s) == Cut(s, (ToSet(s) \ Alnum) \ {"+", "-", "."}) - 1
HasScheme(s) ==
    LET n == SchemeLength(s)
    IN  n \in 1..(Len(s) - 1) /\ s[1] \in Alpha /\ s[n + 1] = ":"

Failure(e) == [err |-> e, url |-> NoUrl]

(* parse_suffix takes an empty path for "/"; parse_relative does not.  A   *)
(* suffix starts with a delimiter, so its path, if any, with a slash.      *)
PathText(s) == Before(Before(s, {"#"}), {"?"})
ParseParts(s, text) ==
    LET path     == ValidateComponent(text, "Path")
        query    == ValidateOptional(After(Before(s, {"#"}), {"?"}), "Query")
        fragment == ValidateOptional(After(s, {"#"}), "Fragment")
    IN  [err |-> FirstErr(<<path.err, query.err, fragment.err>>),
         path |-> path.val, query |-> query.val, fragment |-> fragment.val]

ParseSuffix(s)   == ParseParts(s, IF PathText(s) = <<>> THEN <<"/">> ELSE PathText(s))
ParseRelative(s) == ParseParts(s, PathText(s))

Build(scheme, a, c) ==
    IF FirstErr(<<a.err, c.err>>) # "ok" THEN Failure(FirstErr(<<a.err, c.err>>))
    ELSE [err |-> "ok",
          url |-> [scheme |-> scheme, host |-> a.host, port |-> a.port,
                   path |-> NormalizePath(c.path), query |-> c.query, fragment |-> c.fragment]]

ParseAfterScheme(scheme, s) ==
    LET authority == Before(s, {"/", "?", "#"})
    IN  CASE authority = <<>> -> Failure("EmptyHost")
          [] "@" \in ToSet(authority) -> Failure("CredentialsNotAllowed")
          [] OTHER -> Build(scheme, ParseAuthority(authority, scheme),
                            ParseSuffix(Onwards(s, {"/", "?", "#"})))

ParseAbsolute(s) ==
    LET name == LowerCase(SubSeq(s, 1, SchemeLength(s)))
        rest == Drop(s, SchemeLength(s) + 1)
    IN  CASE ~HasScheme(s) -> Failure("MissingScheme")
          [] HasScheme(s) /\ name \notin {<<"http">>, <<"https">>} -> Failure("UnsupportedScheme")
          [] OTHER -> IF Starts(rest, <<"/", "/">>)
                      THEN ParseAfterScheme(IF name = <<"http">> THEN "Http" ELSE "Https", Drop(rest, 2))
                      ELSE Failure("MissingAuthority")

-----------------------------------------------------------------------------
(* Writing one.                                                            *)

Prefixed(mark, o) == IF o = None THEN <<>> ELSE mark \o o[1]
PortText(o) == IF o = None THEN None ELSE <<DecimalText(o[1])>>

ToStr(u) ==
    (IF u.scheme = "Http" THEN <<"http">> ELSE <<"https">>)
    \o <<":", "/", "/">> \o u.host \o Prefixed(<<":">>, PortText(u.port))
    \o u.path \o Prefixed(<<"?">>, u.query) \o Prefixed(<<"#">>, u.fragment)

-----------------------------------------------------------------------------
(* Resolving a reference on it.                                            *)

ResolvedQueryKept(u, c) == IF c.query = None THEN u.query ELSE c.query     \* variant
ResolvedQuery(u, c) == IF c.query = None /\ c.path = <<>> THEN u.query ELSE c.query

ResolvedPath(u, c) ==
    CASE c.path = <<>> -> u.path
      [] c.path # <<>> /\ Starts(c.path, <<"/">>) -> NormalizePath(c.path)
      [] OTHER -> NormalizePath(PathDirectory(u.path) \o c.path)
ResolveRelative(u, ref) ==
    LET c == ParseRelative(ref)
    IN  CASE Starts(ref, <<"/", "/">>) -> Failure("MissingScheme")
          [] ~Starts(ref, <<"/", "/">>) /\ c.err # "ok" -> Failure(c.err)
          [] OTHER ->
                [err |-> "ok",
                 url |-> [u EXCEPT !.path = ResolvedPath(u, c), !.query = ResolvedQuery(u, c),
                                   !.fragment = c.fragment]]

Resolve(u, ref) == IF HasScheme(ref) THEN ParseAbsolute(ref) ELSE ResolveRelative(u, ref)

-----------------------------------------------------------------------------
(* Appending to it.                                                        *)

IsNoSegment(s)  == FALSE               \* variant: dots are appended bare
IsDotSegment(s) == s \in {<<".">>, <<".", ".">>}

WithSegments(u, items) ==
    LET suffix == JoinWith([i \in 1..Len(items) |-> PercentEncode(items[i])], <<"/">>)
        path   == CASE items = <<>> -> u.path
                    [] items # <<>> /\ Last(u.path) = "/" -> u.path \o suffix
                    [] OTHER -> u.path \o <<"/">> \o suffix
    IN  [u EXCEPT !.path = NormalizePath(path)]

AppendPathSegments(u, items) ==
    IF \E i \in 1..Len(items) : IsDotSegment(items[i]) THEN Failure("DotSegment")
    ELSE [err |-> "ok", url |-> WithSegments(u, items)]

JoinedBare(query, pair) == IF query = None THEN <<pair>> ELSE <<query[1] \o pair>>   \* variant
Joined(query, pair) == IF query \in {None, << <<>> >>} THEN <<pair>>
                       ELSE <<query[1] \o <<"&">> \o pair>>

AppendQueryParam(u, key, value) ==
    [u EXCEPT !.query = Joined(@, FormEncode(key) \o <<"=">> \o FormEncode(value))]

QueryPairs(u) ==
    IF u.query \in {None, << <<>> >>} THEN <<>>
    ELSE LET pairs == SplitOn(u.query[1], <<"&">>)
             Pair(p) == <<FormDecode(Before(p, {"="})), FormDecode(FlattenSeq(After(p, {"="})))>>
         IN  [i \in 1..Len(pairs) |-> Pair(pairs[i])]

WithQuery(u, o) ==
    LET query == ValidateOptional(o, "Query")
    IN  IF query.err # "ok" THEN Failure(query.err)
        ELSE [err |-> "ok", url |-> [u EXCEPT !.query = query.val]]

WithFragment(u, o) ==
    LET fragment == ValidateOptional(o, "Fragment")
    IN  IF fragment.err # "ok" THEN Failure(fragment.err)
        ELSE [err |-> "ok", url |-> [u EXCEPT !.fragment = fragment.val]]

-----------------------------------------------------------------------------
(* A call that succeeds gives the app's next URL.                          *)
Replace(op, arg, result) ==
    /\ calls < app.calls
    /\ calls' = calls + 1
    /\ url' = IF result.err = "ok" THEN result.url ELSE url
    /\ answer' = [op |-> op, arg |-> arg, err |-> result.err]
    /\ UNCHANGED app

Has == url # NoUrl
Made(u) == [err |-> "ok", url |-> u]

Parse        == ~Has /\ \E s \in app.texts : Replace("parse", s, ParseAbsolute(s))
ResolveOn    == Has /\ \E r \in app.refs : Replace("resolve", r, Resolve(url, r))
AppendPath   == Has /\ \E i \in app.items : Replace("segments", i, AppendPathSegments(url, i))
AppendParam  == Has /\ \E k, v \in app.words :
                           Replace("param", <<k, v>>, Made(AppendQueryParam(url, k, v)))
SetQuery     == Has /\ \E o \in app.parts : Replace("query", o, WithQuery(url, o))
SetFragment  == Has /\ \E o \in app.parts : Replace("fragment", o, WithFragment(url, o))
DropFragment == Has /\ Replace("bare", <<>>, Made([url EXCEPT !.fragment = None]))

Init == app \in Apps /\ url = NoUrl /\ answer = [op |-> "none", arg |-> <<>>, err |-> "ok"] /\ calls = 0
Next == Parse \/ ResolveOn \/ AppendPath \/ AppendParam \/ SetQuery \/ SetFragment \/ DropFragment
Spec == Init /\ [][Next]_vars

-----------------------------------------------------------------------------
(* A URL that calls have made is the URL its text parses to, so two URLs   *)
(* are equal only when each of their parts is (Url.roc:105-122).           *)
RoundTrips == Has => ParseAbsolute(ToStr(url)) = Made(url)

(* A reference without scheme and authority resolves as RFC 3986 5.2 says, *)
(* empty segments kept (Url.roc:19-25,173-186,837-841).                    *)
Rfc == INSTANCE Rfc3986
ResolvesAsRfc ==
    [][LET c == ParseRelative(answer'.arg)
       IN  answer'.op = "resolve" /\ c.err = "ok" /\ ~Starts(answer'.arg, <<"/", "/">>)
           /\ ":" \notin ToSet(Before(answer'.arg, {"/", "?", "#"}))
           => url' = [url EXCEPT !.path = Rfc!Target(url, c).path, !.query = Rfc!Target(url, c).query,
                                 !.fragment = c.fragment]]_vars

(* Appended segments are the path's last ones and decode to what the app   *)
(* gave; those before them stay (Url.roc:188-200).                         *)
Root(p) == IF p # <<>> /\ Last(p) = <<>> THEN Front(p) ELSE p
Literal(s) == Mapped(Unescaped, s)
SegmentsAreKept ==
    [][answer'.op = "segments" /\ answer'.err = "ok" /\ answer'.arg # <<>> =>
         LET old == Root(Segments(url.path))
             new == Segments(url'.path)
         IN  /\ SubSeq(new, 1, Len(old)) = old
             /\ [i \in 1..(Len(new) - Len(old)) |-> Literal(new[Len(old) + i])] = answer'.arg]_vars

(* A parameter is read back as it was given, after the ones there were     *)
(* (Url.roc:208-235).                                                      *)
ParametersAreKept ==
    [][answer'.op = "param" => QueryPairs(url') = Append(QueryPairs(url), answer'.arg)]_vars
=============================================================================
