------------------------------- MODULE Rfc3986 -------------------------------
(***************************************************************************)
(* The parts of RFC 3986 that Url.roc names as its reference: removing dot *)
(* segments (5.2.4) and resolving a reference without scheme and authority *)
(* (5.2.2, 5.2.3), over the tokens of UrlText.                             *)
(***************************************************************************)
EXTENDS Naturals, SequencesExt

LastSlash(s) == SelectLastInSeq(s, LAMBDA t : t = "/")
UpToSlash(s) == SubSeq(s, 1, LastSlash(s))
Begins(s, p) == IsPrefix(p, s)
From(s, i)   == SubSeq(s, i, Len(s))

(* 5.2.4: the input moves to the output, rule by rule.                     *)
RECURSIVE Moved(_, _)
Moved(in, out) ==
    CASE in = <<>> -> out
      [] Begins(in, <<".", ".", "/">>) -> Moved(From(in, 4), out)
      [] Begins(in, <<".", "/">>) -> Moved(From(in, 3), out)
      [] Begins(in, <<"/", ".", "/">>) -> Moved(From(in, 3), out)
      [] in = <<"/", ".">> -> Moved(<<"/">>, out)
      [] Begins(in, <<"/", ".", ".", "/">>) ->
            Moved(From(in, 4), SubSeq(out, 1, LastSlash(out) - 1))
      [] in = <<"/", ".", ".">> -> Moved(<<"/">>, SubSeq(out, 1, LastSlash(out) - 1))
      [] in \in {<<".">>, <<".", ".">>} -> out
      [] OTHER ->
            LET next == SelectInSubSeq(in, 2, Len(in), LAMBDA t : t = "/")
                end  == IF next = 0 THEN Len(in) ELSE next - 1
            IN  Moved(From(in, end + 1), out \o SubSeq(in, 1, end))

RemoveDotSegments(path) == Moved(path, <<>>)

(* 5.2.2: base and ref are [path, query, fragment], an option being a      *)
(* sequence of at most one item.                                           *)
Target(base, ref) ==
    [path     |-> CASE ref.path = <<>> -> base.path
                    [] ref.path # <<>> /\ Begins(ref.path, <<"/">>) -> RemoveDotSegments(ref.path)
                    [] OTHER -> RemoveDotSegments(UpToSlash(base.path) \o ref.path),
     query    |-> IF ref.path = <<>> /\ ref.query = <<>> THEN base.query ELSE ref.query,
     fragment |-> ref.fragment]
=============================================================================
