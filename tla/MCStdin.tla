------------------------------- MODULE MCStdin -------------------------------
(***************************************************************************)
(* Two streams and the direct calls over seven bytes: lines that end in    *)
(* "\r\n" and "\n", one that spans two fills, one that is not UTF-8.       *)
(***************************************************************************)
EXTENDS SharedStdin

MCInput == <<"x", "cr", "nl", "y", "bad", "nl", "x">>
MCRequests ==
    {[op |-> "read", max |-> 0], [op |-> "read", max |-> 1], [op |-> "read", max |-> 5],
     [op |-> "bytes", max |-> 2],
     [op |-> "until", max |-> 0], [op |-> "until", max |-> 2], [op |-> "until", max |-> 9],
     [op |-> "line", max |-> 0], [op |-> "to_end", max |-> 0]}
=============================================================================
