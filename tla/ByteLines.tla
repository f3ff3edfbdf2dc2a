------------------------------ MODULE ByteLines ------------------------------
(***************************************************************************)
(* Sequences of bytes and the lines in them, as the readers of standard    *)
(* input see them.                                                         *)
(***************************************************************************)
EXTENDS Naturals, Sequences

NL   == "nl"         \* the line delimiter
CR   == "cr"
Bad  == "bad"        \* a byte that is not UTF-8
Byte == {"x", "y", NL, CR, Bad}

First(s, n) == SubSeq(s, 1, n)
Rest(s, n)  == SubSeq(s, n + 1, Len(s))

EndsIn(s, x) == s # <<>> /\ s[Len(s)] = x
Chop(s)      == First(s, Len(s) - 1)

(* read_line!'s answer: the line without its "\n" and the "\r" before it.  *)
Unstripped(s) == s                     \* variant: as it was read
Stripped(s) ==
    IF EndsIn(s, NL) THEN IF EndsIn(Chop(s), CR) THEN Chop(Chop(s)) ELSE Chop(s) ELSE s

OneLine(s) == \A i \in 1..Len(s) : s[i] = NL => i = Len(s)
Valid(s)   == \A i \in 1..Len(s) : s[i] # Bad
=============================================================================
