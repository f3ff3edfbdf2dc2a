---------------------------- MODULE StandardOutput ----------------------------
(***************************************************************************)
(* What an app writes to standard output and standard error, on one        *)
(* terminal: write! (sync-io) over the process's stdout, which std buffers *)
(* by lines in one place however many streams are minted on it, and over   *)
(* its stderr, which has no buffer; children that write there too; and the *)
(* ways a run ends (cli-host's exit!, main-driver's main_for_host!).       *)
(*                                                                         *)
(* A byte is the call that gave it, where it was in the text, and whether  *)
(* it is a newline.                                                        *)
(***************************************************************************)
EXTENDS Naturals, Sequences, FiniteSets

CONSTANTS Texts,       \* what is written: for each byte, whether it is a newline
          Message,     \* the text of main's error
          Capacity,    \* of stdout's buffer
          ShutSets,    \* the standard streams that are closed, for each start
          MaxCalls, MaxFaults, MaxChildBytes

Streams == {"stdout", "stderr"}

ASSUME OutputAssumption ==
    /\ Texts \subseteq Seq(BOOLEAN) /\ Message \in Seq(BOOLEAN)
    /\ ShutSets \subseteq SUBSET Streams
    /\ {Capacity, MaxCalls, MaxFaults, MaxChildBytes} \subseteq Nat /\ Capacity > 0

VARIABLES shut,        \* the closed streams
          held,        \* stdout's buffer
          call, todo,  \* the running call, and what is left of it
          ended,       \* how the run ended
          out,         \* what the terminal shows
          given,       \* history: each call's bytes and its answer
          faults, child

vars == <<shut, held, call, todo, ended, out, given, faults, child>>

Idle == [op |-> "idle", to |-> "stdout"]

-----------------------------------------------------------------------------
(* std's writers.  What is left of a call is a sequence of commands: bytes *)
(* for the kernel, bytes for the buffer, or the buffer for the kernel.     *)
Direct(b) == [do |-> "direct", bytes |-> b]
Put(b)    == [do |-> "put", bytes |-> b]
Drain     == [do |-> "drain", bytes |-> <<>>]

CompleteLine(b) == b # <<>> /\ b[Len(b)].nl

(* LineWriter: lines pass, through the buffer when there is something in   *)
(* it; the rest stays.                                                     *)
LineCommands(b) ==
    LET ends  == {i \in DOMAIN b : b[i].nl}
        n     == CHOOSE i \in ends : \A j \in ends : j <= i
        lines == SubSeq(b, 1, n)
        rest  == SubSeq(b, n + 1, Len(b))
    IN  CASE ends = {} -> (IF CompleteLine(held) THEN <<Drain>> ELSE <<>>) \o <<Put(b)>>
          [] ends # {} /\ held = <<>> -> <<Direct(lines), Put(rest)>>
          [] OTHER -> <<Put(lines), Drain, Put(rest)>>

WriteAll(to, b) == IF to = "stdout" THEN LineCommands(b) ELSE <<Direct(b)>>
Flush(to)       == IF to = "stdout" THEN <<Drain>> ELSE <<>>

WriteUnflushed(to, b) == WriteAll(to, b)               \* variant
Write(to, b) == WriteAll(to, b) \o Flush(to)

-----------------------------------------------------------------------------
(* A call.                                                                 *)
Bytes(n, text) == [i \in DOMAIN text |-> [call |-> n, at |-> i, nl |-> text[i]]]

Begin(op, to, text) ==
    LET b == Bytes(Len(given) + 1, text)
    IN  /\ call = Idle /\ ended = "no"
        /\ call' = [op |-> op, to |-> to]
        /\ given' = Append(given, [to |-> to, bytes |-> b, err |-> "running"])
        /\ todo' = IF op = "exit" THEN Flush("stdout") ELSE Write(to, b)
        /\ UNCHANGED <<shut, held, ended, out, faults, child>>

WriteCall == Len(given) < MaxCalls /\ \E to \in Streams : \E t \in Texts : Begin("write", to, t)

(* exit! runs std's cleanup, which drains stdout and ignores a failure;    *)
(* main's error is written to stderr, and a failure of that is ignored.    *)
Exit       == Begin("exit", "stdout", <<>>)
MainFails  == Begin("main", "stderr", Message)
MainReturns ==
    /\ call = Idle /\ ended = "no"
    /\ ended' = "status 0"
    /\ UNCHANGED <<shut, held, call, todo, out, given, faults, child>>

EndOf(op) == CASE op = "write" -> "no" [] op = "exit" -> "exit" [] op = "main" -> "status 1"

Answer(e) ==
    /\ given' = [given EXCEPT ![Len(given)].err = e]
    /\ call' = Idle /\ todo' = <<>>
    /\ ended' = EndOf(call.op)

Done == call # Idle /\ todo = <<>> /\ Answer("ok") /\ UNCHANGED <<shut, held, out, faults, child>>

(* The variant writes the whole text again after a failure.                *)
FailsRetry(e) == /\ todo' = Write(call.to, given[Len(given)].bytes)
                 /\ UNCHANGED <<given, call, ended>>
Fails(e) == Answer(e)

-----------------------------------------------------------------------------
(* Its steps.                                                              *)
Doing(what) == todo # <<>> /\ Head(todo).do = what
Then(b)     == todo' = <<[Head(todo) EXCEPT !.bytes = b]>> \o Tail(todo)

(* write(2): some of the bytes, an error, or for a pipe whose reader has   *)
(* gone the end of the process; all of them, to std, if the stream is shut.*)
Taken(b) == IF call.to \in shut THEN {Len(b)} ELSE 1..Len(b)
Emit(b, n) == out' = IF call.to \in shut THEN out ELSE out \o SubSeq(b, 1, n)
After(b, n) == SubSeq(b, n + 1, Len(b))

Fault == call.to \notin shut /\ faults < MaxFaults /\ faults' = faults + 1
Failed == Fault /\ Fails("Other") /\ UNCHANGED <<shut, held, out, child>>
Killed ==
    /\ Fault
    /\ ended' = "killed" /\ call' = Idle /\ todo' = <<>>
    /\ UNCHANGED <<shut, held, out, given, child>>

WriteOut ==
    /\ Doing("direct")
    /\ \E n \in Taken(Head(todo).bytes) :
          Emit(Head(todo).bytes, n) /\ Then(After(Head(todo).bytes, n))
    /\ UNCHANGED <<shut, held, call, ended, given, faults, child>>

(* What could not be written of the buffer stays in it.                    *)
DrainOut ==
    /\ Doing("drain")
    /\ \E n \in Taken(held) : Emit(held, n) /\ held' = After(held, n)
    /\ UNCHANGED <<shut, call, todo, ended, given, faults, child>>

Kernel(b) == b # <<>> /\ (Failed \/ Killed)
WriteFails == Doing("direct") /\ Kernel(Head(todo).bytes)
DrainFails == Doing("drain") /\ Kernel(held)

Next1 == todo' = Tail(todo)
Written ==
    /\ \/ Doing("direct") /\ Head(todo).bytes = <<>>
       \/ Doing("drain") /\ held = <<>>
    /\ Next1
    /\ UNCHANGED <<shut, held, call, ended, out, given, faults, child>>

(* BufWriter: what does not fit waits for the buffer to drain; what would  *)
(* fill it passes it by.                                                   *)
Buffer ==
    /\ Doing("put")
    /\ LET b == Head(todo).bytes
       IN  \/ Len(held) + Len(b) > Capacity /\ held # <<>> /\ todo' = <<Drain>> \o todo /\ UNCHANGED held
           \/ Len(b) >= Capacity /\ held = <<>> /\ todo' = <<Direct(b)>> \o Tail(todo) /\ UNCHANGED held
           \/ Len(held) + Len(b) <= Capacity /\ Len(b) < Capacity /\ held' = held \o b /\ Next1
    /\ UNCHANGED <<shut, call, ended, out, given, faults, child>>

-----------------------------------------------------------------------------
(* A child that was handed a standard stream writes when it likes.         *)
Spawn ==
    /\ call = Idle /\ ended = "no" /\ child = 0
    /\ child' = Len(given) + 1
    /\ UNCHANGED <<shut, held, call, todo, ended, out, given, faults>>

ChildWrites ==
    /\ child # 0
    /\ Cardinality({i \in DOMAIN out : out[i].at = 0}) < MaxChildBytes
    /\ out' = Append(out, [call |-> child, at |-> 0, nl |-> FALSE])
    /\ UNCHANGED <<shut, held, call, todo, ended, given, faults, child>>

Init ==
    /\ shut \in ShutSets
    /\ held = <<>> /\ out = <<>> /\ given = <<>>
    /\ call = Idle /\ todo = <<>> /\ ended = "no"
    /\ faults = 0 /\ child = 0

Step == Done \/ WriteOut \/ WriteFails \/ DrainOut \/ DrainFails \/ Written \/ Buffer
Next == WriteCall \/ Exit \/ MainFails \/ MainReturns \/ Step \/ Spawn \/ ChildWrites
Spec == Init /\ [][Next]_vars

-----------------------------------------------------------------------------
(* Every byte of a call that was answered Ok is on the terminal, unless    *)
(* its stream is closed; nothing waits for a newline (sync-io lib.rs:86-88).*)
OkIsOut ==
    \A n \in DOMAIN given :
       given[n].err = "ok" /\ given[n].to \notin shut =>
          \A i \in DOMAIN given[n].bytes : given[n].bytes[i] \in {out[j] : j \in DOMAIN out}

(* The terminal shows a call's bytes once and in their order, and whatever *)
(* comes later (another call's, on either stream, a child's, the message of*)
(* main's error) after those of every call that was answered Ok.           *)
OnceInOrder ==
    \A i, j \in DOMAIN out :
       i < j /\ out[j].at # 0 =>
          /\ out[j].call = out[i].call => out[i].at < out[j].at
          /\ out[j].call < out[i].call => given[out[j].call].err # "ok"
=============================================================================
