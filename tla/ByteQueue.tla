------------------------------ MODULE ByteQueue ------------------------------
(***************************************************************************)
(* What standard input promises its readers, however many streams on it an *)
(* app holds and whichever calls it mixes: one queue of bytes, from the    *)
(* front of which every call takes what it answers.                        *)
(***************************************************************************)
EXTENDS ByteLines

CONSTANTS Input,     \* the bytes that arrive on fd 0
          Requests   \* the calls: [op, max], max being the most bytes it may answer

VARIABLES queue,     \* the bytes no call has taken
          told       \* the last answer: [req, err, bytes]

(* The bytes a call may take for its answer.  An empty answer of until or  *)
(* read is their end of stream; line and bytes call it EndOfFile.          *)
Takes(s, r) ==
    /\ r.op \in {"read", "bytes", "until"} => Len(s) <= r.max
    /\ r.op \in {"until", "line"} => OneLine(s)
    /\ r.op = "line" => Valid(s)
    /\ r.op \in {"bytes", "line"} => s # <<>>

Gives(s, r) == [req |-> r, err |-> "ok", bytes |-> IF r.op = "line" THEN Stripped(s) ELSE s]
Fails(e, r) == [req |-> r, err |-> e, bytes |-> <<>>]

(* A call that fails may lose what it had read, but one that reads only    *)
(* once loses nothing.                                                     *)
Answer(r, n) ==
    LET s == First(queue, n)
    IN  /\ queue' = Rest(queue, n)
        /\ \/ Takes(s, r) /\ told' = Gives(s, r)
           \/ r.op \in {"bytes", "line"} /\ s = <<>> /\ told' = Fails("EndOfFile", r)
           \/ /\ r.op \in {"read", "bytes"} => s = <<>>
              /\ \E e \in {"Interrupted", "Other"} : told' = Fails(e, r)

Init == queue = Input /\ told = Gives(<<>>, [op |-> "none", max |-> 0])
Next == \E r \in Requests : \E n \in 0..Len(queue) : Answer(r, n)
Spec == Init /\ [][Next]_<<queue, told>>
=============================================================================
