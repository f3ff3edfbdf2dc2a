------------------------------ MODULE OpenFiles ------------------------------
(***************************************************************************)
(* Open files: the descriptors and streams of components/fs-core over one  *)
(* file, the numbers FdHandoff (components/sync-io) gives out for them, a  *)
(* child process handed such a number, and another program appending.      *)
(*                                                                         *)
(* A descriptor and every stream made from it, and a child handed either,  *)
(* share one open file of the kernel and its one cursor.  A hosted call    *)
(* blocks, so one runs at a time, each of its system calls a step; the     *)
(* child and the other program act between any two of them.                *)
(*                                                                         *)
(* The file's bytes are the writes that made them: [by, run], a run of an  *)
(* open file being what happens between two jumps of its cursor.           *)
(***************************************************************************)
EXTENDS Naturals, Sequences

CONSTANTS Limit,     \* how many descriptors the process may have
          Starts,    \* how it may be started: [inherited, data, seekable, calls,
                     \* others], the last a bound on what other processes do
          MaxFiles,  \* how many open files the kernel has, at most
          Id,        \* handles of resources
          Cap,       \* the capacity of a read stream's buffer
          MayFail,   \* whether a write or a seek may fail (ENOSPC, EINVAL)
          MaxCalls

Fd     == 0..(Limit - 1)
Files  == 1..MaxFiles
NoFile == 0
Std    == MaxFiles + 1          \* the terminal or pipe under 0, 1 and 2

ASSUME OpenFilesAssumption ==
    /\ {Limit, MaxFiles, MaxCalls} \subseteq Nat
    /\ Cap \in Nat \ {0}
    /\ \A s \in Starts : /\ s.inherited \subseteq Fd /\ s.seekable \in BOOLEAN /\ s.others \in Nat
                         /\ s.data \in Seq([by : {"old"}, run : {0}])
    /\ Id \subseteq Nat
    /\ MayFail \in BOOLEAN

(* A call: what it acts on, the stream it makes (read, offset, append, one *)
(* for a hand-off, or none), how it opens, the offset, how many bytes.     *)
Kinds == [open |-> {"none", "read", "offset", "append"}, stream |-> {"read", "offset", "append"},
          write |-> {"none"}, read |-> {"none"}, hand |-> {"none"}, descriptor_fd |-> {"hand"}]
ASSUME CallsAssumption ==
    \A s \in Starts : \A c \in s.calls :
       /\ c = [op |-> c.op, on |-> c.on, kind |-> c.kind, flags |-> c.flags, off |-> c.off, n |-> c.n]
       /\ c.op \in DOMAIN Kinds /\ c.kind \in Kinds[c.op]
       /\ c.op # "open" => c.on \in Id
       /\ {c.off, c.n} \subseteq Nat

VARIABLES start,    \* how the app was started, and the calls it makes
          data,     \* the file: what wrote each of its bytes
          file,     \* the open files: cursor and mode
          fd,       \* the process's descriptors: which open file each is
          res,      \* the resources the app holds: descriptors and streams
          handed,   \* the numbers FdHandoff gave the app, not yet handed on
          child,    \* the open files child processes have
          pc, cur,  \* the step of the running call, and the call
          told,     \* the answers of reads: [run, ix] of each byte, in order
          moved,    \* another process wrote since the last seek to the end
          runs,     \* how many runs there have been
          calls, others

vars == <<start, data, file, fd, res, handed, child, pc, cur, told, moved, runs, calls, others>>

Inherited == start.inherited    \* the descriptors it was started with
Seekable  == start.seekable     \* whether the file has a position (a FIFO has none)

Closed == [pos |-> 0, append |-> FALSE, read |-> FALSE, write |-> FALSE,
           opened |-> FALSE, run |-> 0]
Nobody == [is |-> "none", fd |-> 0, end |-> FALSE, buf |-> <<>>]

Lowest(S)   == CHOOSE n \in S : \A m \in S : n <= m
FreeFd(min) == {n \in Fd : n >= min /\ fd[n] = NoFile}
FreeFile    == Files \ ({fd[n] : n \in Fd} \cup child)
FreeId      == {i \in Id : res[i].is = "none"}
FileOf(i)   == fd[res[i].fd]
Least(m, n) == IF m <= n THEN m ELSE n

(* The kernel closes a number; its open file goes with the last of them.   *)
Without(f, n)   == [f EXCEPT ![n] = NoFile]
Collected(f, g) == [i \in Files |-> IF i \in {g[n] : n \in Fd} \cup child THEN f[i] ELSE Closed]

-----------------------------------------------------------------------------
(* A call begins.                                                          *)

First(c) == CASE c.op = "open" -> "open"
              [] c.op \in {"stream", "descriptor_fd"} -> "clone"
              [] c.op = "write" -> IF res[c.on].end THEN "end" ELSE "write"
              [] c.op = "read"  -> "read"
              [] c.op = "hand"  -> "dup"

Acts(c) == CASE c.op \in {"stream", "descriptor_fd"} -> {"desc", "dir"}
             [] c.op = "write" -> {"out"}
             [] c.op = "read" -> {"in"}
             [] c.op = "hand" -> {"in", "out", "std"}

(* The handles a call makes must be left, a bound of the model's.          *)
MakesStream(c) == c.kind \in {"read", "offset", "append"}
Room(c) ==
    /\ c.op = "open" \/ MakesStream(c) => FreeId # {}
    /\ c.op = "open" /\ MakesStream(c) => \E i, j \in FreeId : i # j

Start(c) ==
    /\ pc = "idle"
    /\ calls < MaxCalls
    /\ calls' = calls + 1
    /\ c.op # "open" => res[c.on].is \in Acts(c)
    /\ Room(c)
    /\ cur' = c
    /\ pc' = First(c)
    /\ moved' = FALSE
    /\ UNCHANGED <<start, data, file, fd, res, handed, child, told, runs, others>>

Answer == pc' = "idle"

-----------------------------------------------------------------------------
(* Fs.open_at!: the flags' defaults and validation, then open(2).  The file *)
(* is there, so create changes nothing, and exclusive is left out.          *)

OpenFlags(o) ==
    LET f == [o EXCEPT !.write = o.append \/ o.write]
    IN  IF \/ f.truncate /\ ~f.write
           \/ ~f.directory /\ ~f.read /\ ~f.write
           \/ f.directory /\ (f.write \/ f.truncate)
           \/ f.append /\ (f.truncate \/ f.directory)
        THEN {} ELSE {f}

AppendDropped(f) == FALSE              \* variant: the mode is left out
AppendAsked(f)   == f.append

OpenFile(f, n, i, id) ==
    /\ fd' = [fd EXCEPT ![n] = i]
    /\ runs' = runs + 1
    /\ file' = [file EXCEPT ![i] = [pos |-> 0, append |-> AppendAsked(f), read |-> f.read,
                                    write |-> f.write, opened |-> f.append, run |-> runs + 1]]
    /\ data' = IF f.truncate /\ Seekable THEN <<>> ELSE data
    /\ res' = [res EXCEPT ![id] = [Nobody EXCEPT !.is = "desc", !.fd = n]]
    /\ IF cur.kind = "none" THEN pc' = "idle" /\ UNCHANGED cur
       ELSE pc' = "clone" /\ cur' = [cur EXCEPT !.on = id]

(* A directory descriptor names its directory by path and keeps nothing    *)
(* open: the open only shows that it can be opened.                        *)
OpenDirectory(id) ==
    /\ res' = [res EXCEPT ![id] = [Nobody EXCEPT !.is = "dir"]]
    /\ Answer
    /\ UNCHANGED <<data, file, fd, cur, runs>>

Open ==
    /\ pc = "open"
    /\ \/ /\ OpenFlags(cur.flags) = {} \/ FreeFd(0) = {}
          /\ Answer
          /\ UNCHANGED <<data, file, fd, res, cur, runs>>
       \/ \E f \in OpenFlags(cur.flags) :
             /\ FreeFd(0) # {}
             /\ IF f.directory THEN OpenDirectory(Lowest(FreeId))
                ELSE /\ FreeFile # {}
                     /\ OpenFile(f, Lowest(FreeFd(0)), Lowest(FreeFile), Lowest(FreeId))
    /\ UNCHANGED <<start, handed, child, told, moved, calls, others>>

-----------------------------------------------------------------------------
(* read_via_stream!, write_via_stream!, append_via_stream!: the stream has *)
(* a duplicate of the descriptor, or the call fails.  FsOps' open_writer!, *)
(* open_append! and open_read! open and make the stream in one call, and   *)
(* drop the descriptor when there can be no stream.                        *)

FirstNonStdio == 3

CloneLeaves(id) ==                     \* variant: it stays open
    IF cur.op = "open" THEN res' = [res EXCEPT ![id] = Nobody] /\ UNCHANGED <<fd, file>>
    ELSE UNCHANGED <<fd, res, file>>
CloneFails(id) ==
    IF cur.op = "open"
    THEN /\ fd'   = Without(fd, res[id].fd)
         /\ res'  = [res EXCEPT ![id] = Nobody]
         /\ file' = Collected(file, fd')
    ELSE UNCHANGED <<fd, res, file>>

(* append_via_stream! leaves the open file's mode alone; the variant sets  *)
(* O_APPEND on the clone, which shares it.                                 *)
AppendSets(i) == [file EXCEPT ![i].append = TRUE]
AppendMode(i) == file

NewStream(id, n) ==
    LET i == FileOf(cur.on)
    IN  CASE cur.kind = "read" ->
               /\ res' = [res EXCEPT ![id] = [Nobody EXCEPT !.is = "in", !.fd = n]]
               /\ Answer /\ UNCHANGED <<cur, file>>
          [] cur.kind = "append" ->
               /\ res' = [res EXCEPT ![id] = [Nobody EXCEPT !.is = "out", !.fd = n,
                                                            !.end = ~file[i].append]]
               /\ file' = AppendMode(i)
               /\ Answer /\ UNCHANGED cur
          [] cur.kind = "offset" ->
               /\ pc' = "seek" /\ cur' = [cur EXCEPT !.n = n] /\ UNCHANGED <<res, file>>
          [] cur.kind = "hand" ->
               /\ pc' = "dup" /\ cur' = [cur EXCEPT !.n = n] /\ UNCHANGED <<res, file>>

Clone ==
    /\ pc = "clone"
    /\ IF res[cur.on].is = "dir" \/ FreeFd(FirstNonStdio) = {}
       THEN CloneFails(cur.on) /\ Answer /\ UNCHANGED cur
       ELSE LET n == Lowest(FreeFd(FirstNonStdio))
            IN  /\ fd' = [fd EXCEPT ![n] = FileOf(cur.on)]
                /\ NewStream(Lowest(FreeId), n)
    /\ UNCHANGED <<start, data, handed, child, told, moved, runs, calls, others>>

(* write_via_stream! sets the cursor once; what has no position ignores it.*)
Seek ==
    LET i == fd[cur.n]
    IN  /\ pc = "seek"
        /\ IF Seekable
           THEN file' = [file EXCEPT ![i].pos = cur.off, ![i].run = runs + 1] /\ runs' = runs + 1
           ELSE UNCHANGED <<file, runs>>
        /\ res' = [res EXCEPT ![Lowest(FreeId)] = [Nobody EXCEPT !.is = "out", !.fd = cur.n]]
        /\ Answer
        /\ UNCHANGED <<start, data, fd, handed, child, cur, told, moved, calls, others>>

(* A seek that fails for any other reason drops the duplicate, and what an *)
(* open_writer! opened.                                                    *)
SeekFails ==
    LET spent == Without(fd, cur.n)
    IN  /\ pc = "seek" /\ MayFail /\ Seekable
        /\ IF cur.op = "open"
           THEN fd' = Without(spent, res[cur.on].fd) /\ res' = [res EXCEPT ![cur.on] = Nobody]
           ELSE fd' = spent /\ UNCHANGED res
        /\ file' = Collected(file, fd')
        /\ Answer
        /\ UNCHANGED <<start, data, handed, child, cur, told, moved, runs, calls, others>>

-----------------------------------------------------------------------------
(* Writing: write_all, a write(2) at a time, each of some of the bytes.    *)

Hole == [by |-> "none", run |-> 0]
Put(at, k, cell) ==
    [j \in 1..(IF at + k > Len(data) THEN at + k ELSE Len(data)) |->
        IF j \in (at + 1)..(at + k) THEN cell ELSE IF j <= Len(data) THEN data[j] ELSE Hole]

Jumps(i) == ~Seekable \/ file[i].append
At(i)    == IF Jumps(i) THEN Len(data) ELSE file[i].pos
Run(i)   == IF At(i) = file[i].pos THEN file[i].run ELSE runs + 1

(* k bytes by someone through open file i.  The variant is a pwrite at a   *)
(* position of the stream's own.                                           *)
AdvancePrivate(i, k) == file[i].pos
Advance(i, k)        == At(i) + k

Lands(i, k, by, pos) ==
    /\ data' = Put(At(i), k, [by |-> by, run |-> Run(i)])
    /\ file' = [file EXCEPT ![i].pos = pos, ![i].run = Run(i)]
    /\ runs' = IF Run(i) = file[i].run THEN runs ELSE runs + 1

(* EndWriter: each write moves the shared cursor to the end, then writes.  *)

SeekEnd ==
    LET i == FileOf(cur.on)
    IN  /\ pc = "end"
        /\ IF Seekable
           THEN file' = [file EXCEPT ![i].pos = Len(data), ![i].run = runs + 1] /\ runs' = runs + 1
           ELSE UNCHANGED <<file, runs>>
        /\ pc' = "write"
        /\ moved' = FALSE
        /\ UNCHANGED <<start, data, fd, res, handed, child, cur, told, calls, others>>

SeekEndFails ==
    /\ pc = "end" /\ MayFail /\ Seekable
    /\ Answer
    /\ UNCHANGED <<start, data, file, fd, res, handed, child, cur, told, moved, runs, calls, others>>

Write ==
    LET i == FileOf(cur.on)
    IN  /\ pc = "write"
        /\ \/ /\ file[i].write
              /\ \E k \in 1..cur.n :
                    /\ Lands(i, k, "app", Advance(i, k))
                    /\ cur' = [cur EXCEPT !.n = @ - k]
                    /\ pc' = IF k = cur.n THEN "idle" ELSE First(cur)
           \/ /\ MayFail \/ ~file[i].write \/ cur.n = 0
              /\ Answer
              /\ UNCHANGED <<data, file, cur, runs>>
        /\ UNCHANGED <<start, fd, res, handed, child, told, moved, calls, others>>

-----------------------------------------------------------------------------
(* Reading through a stream's buffer, which a request as large as it       *)
(* passes by.                                                              *)

Bytes(i, k)   == [j \in 1..k |-> [run |-> file[i].run, ix |-> file[i].pos + j]]
Available(i)  == IF Seekable /\ Len(data) > file[i].pos THEN Len(data) - file[i].pos ELSE 0

(* Variant: the stream reads at a position of its own.                     *)
PassedPrivate(i, k) == file
Passed(i, k)        == [file EXCEPT ![i].pos = @ + k]

Read ==
    LET i   == FileOf(cur.on)
        buf == res[cur.on].buf
        k   == Least(IF cur.n >= Cap THEN cur.n ELSE Cap, Available(i))
        got == IF buf = <<>> THEN Bytes(i, k) ELSE buf
        n   == Least(cur.n, Len(got))
    IN  /\ pc = "read"
        /\ Answer
        /\ IF buf = <<>> /\ ~file[i].read THEN UNCHANGED <<file, told, res>>
           ELSE /\ told' = told \o SubSeq(got, 1, n)
                /\ res' = [res EXCEPT ![cur.on].buf = SubSeq(got, n + 1, Len(got))]
                /\ file' = IF buf = <<>> THEN Passed(i, k) ELSE file
        /\ UNCHANGED <<start, data, fd, handed, child, cur, moved, runs, calls, others>>

-----------------------------------------------------------------------------
(* FdHandoff: a duplicate of the descriptor under a stream, for the caller *)
(* to own; above 2, so that setting up a child's stdio cannot close it.    *)
(* The variant gives the lowest number.                                    *)

DupLowest  == FreeFd(0)
DupNumbers == FreeFd(FirstNonStdio)
HandDup(n)   == handed \cup {n}

(* descriptor_fd! makes a read stream for the one call, n its number, and  *)
(* drops it when it has been duplicated, or could not be.                  *)
Source == IF cur.op = "descriptor_fd" THEN cur.n ELSE res[cur.on].fd
Spent(f) == IF cur.op = "descriptor_fd" THEN Without(f, cur.n) ELSE f

Dup ==
    /\ pc = "dup"
    /\ IF DupNumbers = {} \/ (cur.op = "hand" /\ res[cur.on].end)
       THEN /\ fd' = Spent(fd)
            /\ UNCHANGED handed
       ELSE LET n == Lowest(DupNumbers)
            IN  /\ fd' = Spent([fd EXCEPT ![n] = fd[Source]])
                /\ handed' = HandDup(n)
    /\ file' = Collected(file, fd')
    /\ Answer
    /\ UNCHANGED <<start, data, res, child, cur, told, moved, runs, calls, others>>

CloseFd(n) ==
    /\ pc = "idle"
    /\ handed' = handed \ {n}
    /\ fd' = Without(fd, n)
    /\ file' = Collected(file, fd')
    /\ UNCHANGED <<start, data, res, child, pc, cur, told, moved, runs, calls, others>>

(* Another package spawns a child with a handed number as its stdio, which *)
(* it takes over.                                                          *)
Spawn(n) ==
    /\ pc = "idle"
    /\ handed' = handed \ {n}
    /\ child' = child \cup ({fd[n]} \cap Files)
    /\ fd' = Without(fd, n)
    /\ UNCHANGED <<start, data, file, res, pc, cur, told, moved, runs, calls, others>>

(* Cli.get_stdout! borrows 1; every other resource owns its number.        *)
GetStdout ==
    /\ pc = "idle"
    /\ 1 \in Inherited
    /\ FreeId # {}
    /\ \A i \in Id : res[i].is # "std"
    /\ res' = [res EXCEPT ![Lowest(FreeId)] = [Nobody EXCEPT !.is = "std", !.fd = 1]]
    /\ UNCHANGED <<start, data, file, fd, handed, child, pc, cur, told, moved, runs, calls, others>>

Drop(i) ==
    /\ pc = "idle"
    /\ res[i].is # "none"
    /\ fd' = IF res[i].is \in {"std", "dir"} THEN fd ELSE Without(fd, res[i].fd)
    /\ file' = Collected(file, fd')
    /\ res' = [res EXCEPT ![i] = Nobody]
    /\ UNCHANGED <<start, data, handed, child, pc, cur, told, moved, runs, calls, others>>

-----------------------------------------------------------------------------
(* The child writes and reads at the shared cursor; the other program      *)
(* opened the file itself, to append.                                      *)

Others == others < start.others /\ others' = others + 1

ChildWrites(i) ==
    /\ Others
    /\ file[i].write
    /\ Lands(i, 1, "child", At(i) + 1)
    /\ moved' = TRUE
    /\ UNCHANGED <<start, fd, res, handed, child, pc, cur, told, calls>>

ChildReads(i) ==
    /\ Others
    /\ file[i].read /\ Available(i) > 0
    /\ told' = told \o Bytes(i, 1)
    /\ file' = [file EXCEPT ![i].pos = @ + 1]
    /\ moved' = TRUE
    /\ UNCHANGED <<start, data, fd, res, handed, child, pc, cur, runs, calls>>

OtherAppends ==
    /\ Others
    /\ data' = Append(data, [by |-> "other", run |-> 0])
    /\ moved' = TRUE
    /\ UNCHANGED <<start, file, fd, res, handed, child, pc, cur, told, runs, calls>>

-----------------------------------------------------------------------------
Init ==
    /\ start \in Starts
    /\ data = start.data
    /\ file = [i \in Files |-> Closed]
    /\ fd = [n \in Fd |-> IF n \in Inherited THEN Std ELSE NoFile]
    /\ res = [i \in Id |-> Nobody]
    /\ handed = {} /\ child = {}
    /\ pc = "idle" /\ cur = [op |-> "none"]
    /\ told = <<>> /\ moved = FALSE /\ runs = 0
    /\ calls = 0 /\ others = 0

Next ==
    \/ \E c \in start.calls : Start(c)
    \/ Open \/ Clone \/ Seek \/ SeekFails \/ SeekEnd \/ SeekEndFails \/ Write \/ Read \/ Dup
    \/ \E n \in handed : CloseFd(n) \/ Spawn(n)
    \/ GetStdout
    \/ \E i \in Id : Drop(i)
    \/ \E i \in child : ChildWrites(i) \/ ChildReads(i)
    \/ OtherAppends

Spec == Init /\ [][Next]_vars

-----------------------------------------------------------------------------
TypeOK ==
    /\ file \in [Files -> [pos : Nat, append : BOOLEAN, read : BOOLEAN, write : BOOLEAN,
                           opened : BOOLEAN, run : Nat]]
    /\ fd \in [Fd -> Files \cup {NoFile, Std}]
    /\ handed \subseteq Fd /\ child \subseteq Files
    /\ pc \in {"idle", "open", "clone", "seek", "end", "write", "read", "dup"}
    /\ \A i \in Id : res[i].is \in {"none", "desc", "dir", "in", "out", "std"}
    /\ runs \in Nat /\ calls \in 0..MaxCalls /\ others \in 0..start.others

(* A number handed out is never 0, 1 or 2, not even in an app started with *)
(* one of them closed: a spawn setting up the child's stdio would close it *)
(* (sync-io lib.rs:102-105).                                               *)
HandedAboveStdio == \A n \in handed : n >= FirstNonStdio

(* Between calls every descriptor of the process has one owner: it was     *)
(* there at the start, or is under one resource, or was handed out.  None  *)
(* leaks when a stream cannot be made, and none is closed under another    *)
(* owner (FdHandoff.roc:14-18, lib.rs:432-434).                            *)
Owned(i) == res[i].is \in {"desc", "in", "out"}
FdsHaveOneOwner ==
    pc = "idle" =>
        LET owned == {res[i].fd : i \in {j \in Id : Owned(j)}}
        IN  /\ {n \in Fd : fd[n] # NoFile} = Inherited \cup owned \cup handed
            /\ Inherited \cap owned = {} /\ Inherited \cap handed = {} /\ owned \cap handed = {}
            /\ \A i, j \in Id : Owned(i) /\ Owned(j) /\ i # j => res[i].fd # res[j].fd

(* The cursor of an open file is past all that was written since it last   *)
(* jumped, by whichever stream or child: they continue each other and      *)
(* never write over one another (lib.rs:471-474).                          *)
CursorPastRun ==
    \A i \in Files : \A k \in 1..Len(data) :
        (file[i] # Closed /\ data[k].run = file[i].run) => k <= file[i].pos

(* Reads through one open file, by streams that buffer and by a child,     *)
(* share its bytes out: none is told twice (lib.rs:471-472).               *)
Buffered(i) == {res[i].buf[k] : k \in 1..Len(res[i].buf)}
NoByteTwice ==
    /\ \A j, k \in 1..Len(told) : j # k => told[j] # told[k]
    /\ \A i \in Id : \A k \in 1..Len(told) : told[k] \notin Buffered(i)

(* A write of an append stream keeps all that is in the file: always on a  *)
(* descriptor opened to append, and on another one unless some other       *)
(* process wrote between its seek and its write (Fs.roc:81-86).            *)
AppendsKeepAll ==
    [][(pc = "write" /\ calls' = calls /\ others' = others
           /\ (file[FileOf(cur.on)].opened \/ (res[cur.on].end /\ ~moved)))
       => Len(data') >= Len(data) /\ \A k \in 1..Len(data) : data'[k] = data[k]]_vars

(* A write of an offset stream lands at the cursor: no append stream made  *)
(* on the same descriptor has turned it append-only (lib.rs:505-509).      *)
OffsetsAreKept ==
    [][(pc = "write" /\ others' = others /\ data' # data /\ Seekable
           /\ ~res[cur.on].end /\ ~file[FileOf(cur.on)].opened)
       => data'[file[FileOf(cur.on)].pos + 1].run = file[FileOf(cur.on)].run]_vars
=============================================================================
