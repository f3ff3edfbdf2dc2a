----------------------------- MODULE MCOpenFiles -----------------------------
(***************************************************************************)
(* Two ways to start.  In one, an app started with stdin closed runs short of  *)
(* descriptors while it opens, writes and hands out a FIFO.  In the other, *)
(* it shares a file's cursor among streams and children.                   *)
(***************************************************************************)
EXTENDS OpenFiles

Flags(r, wr, a, tr, d) ==
    [read |-> r, write |-> wr, append |-> a, truncate |-> tr, directory |-> d]
Opening(kind, f) ==
    [op |-> "open", on |-> 0, kind |-> kind, flags |-> f, off |-> 0, n |-> 0]
On(op, i, kind, off, n) ==
    [op |-> op, on |-> i, kind |-> kind, flags |-> <<>>, off |-> off, n |-> n]

Handles == 1..3
OpenWriter == Opening("offset", Flags(FALSE, TRUE, FALSE, TRUE, FALSE))
OpenAppend == Opening("append", Flags(FALSE, FALSE, TRUE, FALSE, FALSE))
OpenRead   == Opening("read", Flags(TRUE, FALSE, FALSE, FALSE, FALSE))
OpenBoth   == Opening("none", Flags(TRUE, TRUE, FALSE, FALSE, FALSE))
OpenDir    == Opening("none", Flags(TRUE, FALSE, FALSE, FALSE, TRUE))
OpenBad    == Opening("none", Flags(FALSE, TRUE, TRUE, TRUE, FALSE))

Streams(kinds) == {On("stream", i, k, 0, 0) : i \in Handles, k \in kinds}
Uses(op, ns)   == {On(op, i, "none", 0, n) : i \in Handles, n \in ns}

ShortOfFds ==
    {OpenWriter, OpenRead, OpenBoth, OpenDir, OpenBad} \cup Streams({"read", "offset", "append"})
    \cup Uses("write", {1}) \cup Uses("hand", {0})
    \cup {On("descriptor_fd", i, "hand", 0, 0) : i \in Handles}

SharedCursor ==
    {OpenWriter, OpenAppend, OpenBoth} \cup Streams({"read", "offset", "append"})
    \cup Uses("write", {2}) \cup Uses("read", {1, 2}) \cup Uses("hand", {0})

Old == [by |-> "old", run |-> 0]
ShortOfFdsStart ==
    [inherited |-> {1, 2, 5, 6}, data |-> <<>>, seekable |-> FALSE, calls |-> ShortOfFds,
     others |-> 1]
SharedCursorStart ==
    [inherited |-> {2}, data |-> <<Old, Old>>, seekable |-> TRUE, calls |-> SharedCursor,
     others |-> 2]
MCStarts == {ShortOfFdsStart, SharedCursorStart}
=============================================================================
