----------------------------- MODULE SharedStdin -----------------------------
(***************************************************************************)
(* Standard input: the streams Cli.get_stdin! mints (components/cli-host), *)
(* the reads of roc:sync-io/streams on them, and the direct calls          *)
(* read_line! and read_to_end!, over the one process-wide buffer and the   *)
(* one non-reentrant lock of std::io::Stdin.                               *)
(*                                                                         *)
(* A hosted call blocks, so one call runs at a time; each of its uses of   *)
(* the lock, the buffer and fd 0 is a step.                                *)
(***************************************************************************)
EXTENDS ByteLines

CONSTANTS Handles,    \* stream handles an app may hold
          NoHandle,   \* nobody
          Direct,     \* a direct call, as the reader
          Input,      \* the bytes that arrive on fd 0
          Requests,   \* the calls: [op, max]
          Cap,        \* the capacity of std's buffer
          ChunkMax,   \* READ_CHUNK_MAX
          MaxFaults,  \* failed reads, and ends of input before the last byte
          MaxCalls

Ops == {"read", "bytes", "until", "line", "to_end"}

ASSUME StdinAssumption ==
    /\ NoHandle \notin Handles \cup {Direct}
    /\ Direct \notin Handles
    /\ Input \in Seq(Byte)
    /\ Requests \subseteq [op : Ops, max : Nat]
    /\ {Cap, ChunkMax} \subseteq Nat \ {0}
    /\ {MaxFaults, MaxCalls} \subseteq Nat

VARIABLES src,      \* bytes not read from fd 0 yet
          buf,      \* bytes in std's buffer
          lock,     \* who holds std's lock
          held,     \* the handles the app holds
          pc,       \* "idle", or the step the running call is at
          req, by,  \* its request, and who reads
          left,     \* how many bytes it may still answer
          got,      \* the bytes it has so far
          result,   \* the last answer: [req, err, bytes]
          ends,     \* how often the running call was told of the end of input
          faults, calls

vars == <<src, buf, lock, held, pc, req, by, left, got, result, ends, faults, calls>>

Least(m, n) == IF m <= n THEN m ELSE n

-----------------------------------------------------------------------------
(* fd 0, asked for k bytes: some of them, the end of input (at a terminal  *)
(* before the last byte, too) or an error.                                 *)

Reads(k) ==
    [is : {"bytes"}, n : 1..Least(k, Len(src))]
    \cup [is : (IF src = <<>> THEN {"end"} ELSE {})
               \cup (IF faults < MaxFaults THEN {"end", "Interrupted", "Other"} ELSE {}),
          n : {0}]

Kernel(r) ==
    /\ src' = Rest(src, r.n)
    /\ ends' = IF r.is = "end" THEN ends + 1 ELSE ends
    /\ faults' = IF r.is \in {"Interrupted", "Other"} \/ (r.is = "end" /\ src # <<>>)
                 THEN faults + 1 ELSE faults

(* Taking std's lock: nobody else has it.                                  *)
CanLock == lock \in {NoHandle, by}

(* What a call holds from one of its steps to the next: a direct call the  *)
(* lock, a stream nothing.                                                 *)
Between == IF by = Direct THEN Direct ELSE NoHandle

-----------------------------------------------------------------------------
(* The app takes and drops streams, and makes calls.                       *)

GetStdin ==
    /\ pc = "idle"
    /\ \E h \in Handles \ held : held' = held \cup {h}
    /\ UNCHANGED <<src, buf, lock, pc, req, by, left, got, result, ends, faults, calls>>

DropLosing(h) ==                       \* variant: the stream had the buffer
    /\ pc = "idle"
    /\ held' = held \ {h}
    /\ buf' = <<>>
    /\ UNCHANGED <<src, lock, pc, req, by, left, got, result, ends, faults, calls>>

(* Dropping a stream drops the lock it may hold.                           *)
Drop(h) ==
    /\ pc = "idle"
    /\ held' = held \ {h}
    /\ lock' = IF lock = h THEN NoHandle ELSE lock
    /\ UNCHANGED <<src, buf, pc, req, by, left, got, result, ends, faults, calls>>

(* Stdin.bytes! mints a stream for its one read.                           *)
Readers(r) ==
    CASE r.op \in {"line", "to_end"} -> {Direct}
      [] r.op = "bytes" -> Handles \ held
      [] OTHER -> held

Start(r) ==
    /\ pc = "idle"
    /\ calls < MaxCalls
    /\ calls' = calls + 1
    /\ req' = r
    /\ by' \in Readers(r)
    /\ left' = IF r.op \in {"read", "bytes"} THEN Least(r.max, ChunkMax) ELSE r.max
    /\ pc' = IF r.op \in {"read", "bytes"} THEN "read" ELSE "fill"
    /\ got' = <<>>
    /\ ends' = 0
    /\ UNCHANGED <<src, buf, lock, held, result, faults>>

Reply(e) ==
    /\ pc' = "idle"
    /\ got' = <<>>
    /\ result' = [req |-> req, err |-> e,
                  bytes |-> IF e # "ok" THEN <<>>
                            ELSE IF req.op = "line" THEN Stripped(got) ELSE got]

(* The call is done with `got': read_line! makes it a string, and an empty *)
(* answer is EndOfFile to read_line! and Stdin.bytes!.                     *)
Finish ==
    /\ pc = "done"
    /\ lock' = IF lock = Direct THEN NoHandle ELSE lock
    /\ Reply(CASE req.op \in {"line", "bytes"} /\ got = <<>> -> "EndOfFile"
               [] req.op = "line" /\ ~Valid(got) -> "Other"
               [] OTHER -> "ok")
    /\ UNCHANGED <<src, buf, held, req, by, left, ends, faults, calls>>

-----------------------------------------------------------------------------
(* Streams.read!: one read, of the buffer if it holds anything.  A request *)
(* as large as the buffer goes past it.                                    *)

ReadBuffer ==
    LET n == Least(left, Len(buf))
    IN  /\ pc = "read"
        /\ CanLock
        /\ buf # <<>>
        /\ got' = First(buf, n)
        /\ buf' = Rest(buf, n)
        /\ lock' = NoHandle
        /\ pc' = "done"
        /\ UNCHANGED <<src, held, req, by, left, result, ends, faults, calls>>

ReadFd ==
    /\ pc = "read"
    /\ CanLock
    /\ buf = <<>>
    /\ \E r \in Reads(IF left >= Cap THEN left ELSE Cap) :
          LET chunk == First(src, r.n)
              n     == Least(left, r.n)
          IN  /\ Kernel(r)
              /\ IF r.is \in {"Interrupted", "Other"}
                 THEN Reply(r.is) /\ UNCHANGED buf
                 ELSE /\ got' = First(chunk, n)
                      /\ buf' = Rest(chunk, n)
                      /\ pc' = "done"
                      /\ UNCHANGED result
    /\ lock' = NoHandle
    /\ UNCHANGED <<held, req, by, left, calls>>

-----------------------------------------------------------------------------
(* Reading up to a delimiter, or to the end: fill the buffer, take from    *)
(* it, and again.  On a stream, SharedStdin takes the lock to fill and     *)
(* gives it back when it has consumed, when the fill failed, and when it   *)
(* found the end; a direct call has the lock throughout.                   *)

Full == req.op = "until" /\ left = 0

FillLimit ==
    /\ pc = "fill"
    /\ Full
    /\ pc' = "done"
    /\ UNCHANGED <<src, buf, lock, held, req, by, left, got, result, ends, faults, calls>>

FillHeld ==
    /\ pc = "fill" /\ ~Full
    /\ CanLock
    /\ buf # <<>>
    /\ lock' = by
    /\ pc' = "consume"
    /\ UNCHANGED <<src, buf, held, req, by, left, got, result, ends, faults, calls>>

(* Variants: the lock stays when the fill failed; the end is read again.   *)
FillKeepsLock(r) == IF r.is = "Interrupted" THEN Between ELSE by
FillLock(r) == CASE r.is = "bytes" -> by
                 [] r.is = "Other" -> NoHandle
                 [] OTHER -> Between
FillEndTwice(r) == IF r.is = "end" /\ ends = 0 THEN "fill" ELSE "done"
FillNext(r) == CASE r.is = "bytes" -> "consume"
                 [] r.is = "end" -> "done"
                 [] OTHER -> "fill"

FillFd ==
    /\ pc = "fill" /\ ~Full
    /\ CanLock
    /\ buf = <<>>
    /\ \E r \in Reads(Cap) :
          /\ Kernel(r)
          /\ buf' = First(src, r.n)
          /\ lock' = FillLock(r)
          /\ IF r.is = "Other" THEN Reply("Other")
             ELSE pc' = FillNext(r) /\ UNCHANGED <<got, result>>
    /\ UNCHANGED <<held, req, by, left, calls>>

(* What a fill offers: read_until! reads through take(max).                *)
Offered == IF req.op = "until" THEN First(buf, Least(left, Len(buf))) ELSE buf

(* The call takes n of the bytes it is offered: up to the first delimiter, *)
(* or all of them.                                                         *)
Delimited(s, n) == req.op # "to_end" /\ n > 0 /\ s[n] = NL
UpTo(s, n) ==
    /\ \A m \in 1..(n - 1) : ~Delimited(s, m)
    /\ Delimited(s, n) \/ n = Len(s)

ConsumeKeeps == by                     \* variant: the stream keeps the lock
ConsumeLock  == Between

Consume ==
    /\ pc = "consume"
    /\ \E n \in 0..Len(Offered) :
          /\ UpTo(Offered, n)
          /\ got' = got \o First(buf, n)
          /\ buf' = Rest(buf, n)
          /\ left' = IF req.op = "until" THEN left - n ELSE left
          /\ pc' = IF Delimited(Offered, n) THEN "done" ELSE "fill"
    /\ lock' = ConsumeLock
    /\ UNCHANGED <<src, held, req, by, result, ends, faults, calls>>

-----------------------------------------------------------------------------
Init ==
    /\ src = Input /\ buf = <<>>
    /\ lock = NoHandle /\ held = {}
    /\ pc = "idle" /\ by = NoHandle /\ left = 0 /\ got = <<>>
    /\ req = [op |-> "none", max |-> 0]
    /\ result = [req |-> req, err |-> "ok", bytes |-> <<>>]
    /\ ends = 0 /\ faults = 0 /\ calls = 0

Step == \/ ReadBuffer \/ ReadFd \/ FillLimit \/ FillHeld \/ FillFd \/ Consume \/ Finish
Next == \/ GetStdin
        \/ \E h \in held : Drop(h)
        \/ \E r \in Requests : Start(r)
        \/ Step

(* A running call goes on as soon as it can: it is the only code running,  *)
(* and whoever is at the other end of fd 0 writes or closes it.            *)
Spec == Init /\ [][Next]_vars /\ WF_vars(Step)

-----------------------------------------------------------------------------
TypeOK ==
    /\ src \in Seq(Byte) /\ buf \in Seq(Byte) /\ got \in Seq(Byte)
    /\ held \subseteq Handles
    /\ lock \in Handles \cup {NoHandle, Direct}
    /\ pc \in {"idle", "read", "fill", "consume", "done"}
    /\ by \in Handles \cup {NoHandle, Direct}
    /\ req \in [op : Ops \cup {"none"}, max : Nat]
    /\ {left, ends, faults, calls} \subseteq Nat
    /\ pc # "idle" => req \in Requests

(* No stream keeps std's lock from one call to the next, so a second       *)
(* stream, or a direct call, never waits for it (cli-host lib.rs:32-37).   *)
LockFreeBetweenCalls == pc = "idle" => lock = NoHandle

(* A call is told of the end of input once: at a terminal one Ctrl-D ends  *)
(* it (cli-host lib.rs:54-57).                                             *)
OneEndPerCall == ends <= 1

(* Every call that starts answers: nobody waits for a lock its own process *)
(* holds.                                                                  *)
CallsAnswer == pc # "idle" ~> pc = "idle"

(* An app holding any streams and mixing any calls reads one queue of      *)
(* bytes, in order, none twice and none lost but by a call that failed.    *)
Q == INSTANCE ByteQueue WITH queue <- got \o buf \o src, told <- result
IsOneQueue == Q!Spec

-----------------------------------------------------------------------------
(* What makes these inductive: who has the lock at each step, what the     *)
(* running call has got, and how often it was told of the end.             *)

LockInv ==
    /\ pc = "idle" => lock = NoHandle
    /\ pc = "consume" => lock = by
    /\ pc \in {"read", "fill", "done"} => lock \in {NoHandle, Between}

EndInv ==
    /\ ends <= 1
    /\ pc \in {"read", "fill", "consume"} => ends = 0

NoLine(s) == \A i \in 1..Len(s) : s[i] # NL

GotInv ==
    /\ pc \in {"idle", "read"} => got = <<>>
    /\ pc = "read" => req.op \in {"read", "bytes"} /\ left <= req.max
    /\ pc \in {"fill", "consume"} =>
          /\ req.op \in {"until", "line", "to_end"}
          /\ req.op = "until" => Len(got) + left = req.max
          /\ req.op # "to_end" => NoLine(got)
    /\ pc = "done" =>
          /\ req.op \in {"read", "bytes", "until"} => Len(got) <= req.max
          /\ req.op \in {"until", "line"} => OneLine(got)

IInv == TypeOK /\ LockInv /\ EndInv /\ GotInv
=============================================================================
