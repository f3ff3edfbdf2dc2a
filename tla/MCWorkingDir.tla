---------------------------- MODULE MCWorkingDir ----------------------------
(***************************************************************************)
(* The process runs in /p, which has a directory s; so has "/", and a      *)
(* sibling q stands by to take p's place.  The name q is not UTF-8, and    *)
(* decodes to s; or it is q itself that the process runs in, beside s.     *)
(***************************************************************************)
EXTENDS WorkingDir, TLC

Dirs   == 0..6
Names  == {"p", "q", "s"}
MCLossy == [n \in Names |-> IF n = "q" THEN "s" ELSE n]
Kids(i) ==
    CASE i = 0 -> [p |-> 1, q |-> 2, s |-> 3]
      [] i = 1 -> [s |-> 4]
      [] i = 4 -> [s |-> 5]
      [] OTHER -> <<>>
Strange(i) == IF i = 0 THEN [q |-> 1, s |-> 2] ELSE IF i <= 2 THEN [s |-> i + 3] ELSE <<>>
MCStarts == {[i \in Dirs |-> Kids(i)], [i \in Dirs |-> Strange(i)]}
MCPaths == {PathOf(FALSE, <<"s">>), PathOf(TRUE, <<"p">>), PathOf(TRUE, <<"p", "s">>), PathOf(TRUE, <<"q">>), Empty}
=============================================================================
