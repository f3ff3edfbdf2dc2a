-------------------------- MODULE SharedStdinProofs --------------------------
(***************************************************************************)
(* SharedStdin for any handles, input, requests and bounds: its types, that*)
(* no stream keeps std's lock between calls, and that an app reads one     *)
(* queue of bytes whichever streams and calls it mixes.                    *)
(***************************************************************************)
EXTENDS SharedStdin, SequenceTheorems, TLAPS

(* Cutting a sequence in two.                                              *)
LEMMA CutSeq ==
    ASSUME NEW S, NEW s \in Seq(S), NEW n \in 0..Len(s)
    PROVE  /\ First(s, n) \in Seq(S)
           /\ Rest(s, n) \in Seq(S)
           /\ Len(First(s, n)) = n
           /\ \A i \in 1..n : First(s, n)[i] = s[i]
           /\ First(s, n) \o Rest(s, n) = s
<1>1. /\ n \in Int /\ Len(s) \in Nat /\ \A i \in 1..Len(s) : s[i] \in S
  BY ElementOfSeq, LenProperties
<1>2. /\ SubSeq(s, 1, n) \in Seq(S)
      /\ Len(SubSeq(s, 1, n)) = n
      /\ \A i \in 1..n : SubSeq(s, 1, n)[i] = s[i]
  <2>1. \A i \in 1..n : s[i] \in S
    BY <1>1
  <2>2. /\ SubSeq(s, 1, n) \in Seq(S)
        /\ Len(SubSeq(s, 1, n)) = IF 1 <= n THEN n - 1 + 1 ELSE 0
        /\ \A i \in 1..(n - 1 + 1) : SubSeq(s, 1, n)[i] = s[1 + i - 1]
    BY <1>1, <2>1, SubSeqProperties
  <2> QED BY <1>1, <2>2
<1>3. SubSeq(s, n + 1, Len(s)) \in Seq(S)
  <2>1. \A i \in (n + 1)..Len(s) : s[i] \in S
    BY <1>1
  <2> QED BY <1>1, <2>1, SubSeqProperties
<1>4. SubSeq(s, 1, n) \o SubSeq(s, n + 1, Len(s)) = s
  <2>1. 1 \in 1..(Len(s) + 1) /\ n \in (1 - 1)..Len(s) /\ Len(s) \in n..Len(s)
    BY <1>1
  <2>2. SubSeq(s, 1, n) \o SubSeq(s, n + 1, Len(s)) = SubSeq(s, 1, Len(s))
    BY <2>1, ConcatAdjacentSubSeq
  <2> QED BY <2>2, SubSeqFull
<1> QED BY <1>2, <1>3, <1>4 DEF First, Rest

(* The front of a concatenation.                                           *)
LEMMA CutConcat ==
    ASSUME NEW S, NEW s \in Seq(S), NEW x \in Seq(S)
    PROVE  /\ Len(s) \in 0..Len(s \o x)
           /\ First(s \o x, Len(s)) = s
           /\ Rest(s \o x, Len(s)) = x
<1>1. /\ s \o x \in Seq(S)
      /\ Len(s \o x) = Len(s) + Len(x)
      /\ \A i \in 1..(Len(s) + Len(x)) : (s \o x)[i] = IF i <= Len(s) THEN s[i] ELSE x[i - Len(s)]
  BY ConcatProperties
<1>2. Len(s) \in Nat /\ Len(x) \in Nat
  BY LenProperties
<1>3. Len(s) \in 0..Len(s \o x)
  BY <1>1, <1>2
<1>4. /\ First(s \o x, Len(s)) \in Seq(S)
      /\ Len(First(s \o x, Len(s))) = Len(s)
      /\ \A i \in 1..Len(s) : First(s \o x, Len(s))[i] = (s \o x)[i]
      /\ Rest(s \o x, Len(s)) \in Seq(S)
      /\ First(s \o x, Len(s)) \o Rest(s \o x, Len(s)) = s \o x
  BY <1>1, <1>3, CutSeq
<1>5. First(s \o x, Len(s)) = s
  <2>1. \A i \in 1..Len(s) : First(s \o x, Len(s))[i] = s[i]
    BY <1>1, <1>2, <1>4
  <2> QED BY <1>4, <2>1, SeqEqual
<1>6. Rest(s \o x, Len(s)) = x
  BY <1>4, <1>5, ConcatSimplifications
<1> QED BY <1>3, <1>5, <1>6

(* What fd 0 may answer, and what is left of the input then.               *)
LEMMA KernelAnswers ==
    ASSUME TypeOK, NEW k \in Nat, NEW r \in Reads(k)
    PROVE  /\ r.is \in {"bytes", "end", "Interrupted", "Other"}
           /\ r.n \in 0..Len(src)
           /\ r.n <= k
           /\ r.is # "bytes" => r.n = 0
           /\ First(src, r.n) \in Seq(Byte)
           /\ Rest(src, r.n) \in Seq(Byte)
           /\ Len(First(src, r.n)) = r.n
           /\ First(src, r.n) \o Rest(src, r.n) = src
<1>1. Len(src) \in Nat
  BY LenProperties DEF TypeOK
<1>2. /\ r.is \in {"bytes", "end", "Interrupted", "Other"}
      /\ r.n \in 0..Len(src)
      /\ r.n <= k
      /\ r.is # "bytes" => r.n = 0
  BY <1>1 DEF Reads, Least
<1>3. src \in Seq(Byte)
  BY DEF TypeOK
<1> QED BY <1>2, <1>3, CutSeq

LEMMA KernelTypes ==
    ASSUME TypeOK, NEW k \in Nat, NEW r \in Reads(k), Kernel(r)
    PROVE  src' \in Seq(Byte) /\ ends' \in Nat /\ faults' \in Nat
<1>1. Rest(src, r.n) \in Seq(Byte)
  BY KernelAnswers
<1>2. src' \in Seq(Byte)
  BY <1>1 DEF Kernel
<1>3. ends \in Nat /\ faults \in Nat
  BY DEF TypeOK
<1>4. ends' \in {ends, ends + 1} /\ faults' \in {faults, faults + 1}
  BY DEF Kernel
<1> QED BY <1>2, <1>3, <1>4

LEMMA LeastBound ==
    \A m, n \in Nat : Least(m, n) \in 0..n /\ Least(m, n) <= m
BY DEF Least

LEMMA EmptyBytes == <<>> \in Seq(Byte) /\ Len(<<>>) = 0
BY EmptySeq

(* The bytes a call may take from what it is offered.                      *)
LEMMA OfferedBound ==
    ASSUME TypeOK, NEW n \in 0..Len(Offered)
    PROVE  /\ n \in 0..Len(buf)
           /\ req.op = "until" => n <= left
           /\ \A i \in 1..n : Offered[i] = buf[i]
<1>1. buf \in Seq(Byte) /\ left \in Nat
  BY DEF TypeOK
<1>2. Len(buf) \in Nat
  BY <1>1, LenProperties
<1> DEFINE k == Least(left, Len(buf))
<1>3. k \in 0..Len(buf) /\ k <= left
  BY <1>1, <1>2, LeastBound
<1>4. Len(First(buf, k)) = k /\ \A i \in 1..k : First(buf, k)[i] = buf[i]
  BY <1>1, <1>3, CutSeq
<1>5. CASE req.op = "until"
  <2>1. Offered = First(buf, k)
    BY <1>5 DEF Offered
  <2> HIDE DEF k
  <2>2. n \in 0..k
    BY <1>4, <2>1
  <2>3. \A i \in 1..n : i \in 1..k
    BY <1>2, <1>3, <2>2
  <2>4. n \in 0..Len(buf) /\ n <= left
    BY <1>1, <1>2, <1>3, <2>2
  <2> QED BY <1>4, <2>1, <2>3, <2>4
<1>6. CASE req.op # "until"
  <2>1. Offered = buf
    BY <1>6 DEF Offered
  <2> QED BY <1>6, <2>1
<1> QED BY <1>5, <1>6

(* Every variable holds a value of its kind.                               *)
THEOREM TypeCorrect == Spec => []TypeOK
<1>1. Init => TypeOK
  BY StdinAssumption, EmptyBytes DEF Init, TypeOK, Ops
<1>2. TypeOK /\ [Next]_vars => TypeOK'
  <2> SUFFICES ASSUME TypeOK, [Next]_vars PROVE TypeOK'
    OBVIOUS
  <2> USE StdinAssumption
  <2>1. CASE GetStdin
    BY <2>1 DEF GetStdin, TypeOK
  <2>2. ASSUME NEW h \in held, Drop(h) PROVE TypeOK'
    BY <2>2 DEF Drop, TypeOK
  <2>3. ASSUME NEW r \in Requests, Start(r) PROVE TypeOK'
    <3>1. r \in [op : Ops, max : Nat]
      OBVIOUS
    <3>2. left' \in Nat
      <4>1. r.max \in Nat /\ ChunkMax \in Nat
        BY <3>1
      <4>2. Least(r.max, ChunkMax) \in Nat
        BY <4>1 DEF Least
      <4>3. left' = IF r.op \in {"read", "bytes"} THEN Least(r.max, ChunkMax) ELSE r.max
        BY <2>3 DEF Start
      <4> QED BY <4>1, <4>2, <4>3
    <3>3. by' \in Handles \cup {Direct}
      BY <2>3 DEF Start, Readers, TypeOK
    <3>4. got' \in Seq(Byte) /\ ends' \in Nat /\ calls' \in Nat
      BY <2>3, EmptyBytes DEF Start, TypeOK
    <3>5. req' \in [op : Ops \cup {"none"}, max : Nat] /\ req' \in Requests
      BY <2>3, <3>1 DEF Start
    <3>6. pc' \in {"idle", "read", "fill", "consume", "done"}
      BY <2>3 DEF Start
    <3>7. /\ src' \in Seq(Byte) /\ buf' \in Seq(Byte) /\ held' \subseteq Handles
          /\ lock' \in Handles \cup {NoHandle, Direct} /\ faults' \in Nat
      BY <2>3 DEF Start, TypeOK
    <3> QED BY <3>2, <3>3, <3>4, <3>5, <3>6, <3>7 DEF TypeOK
  <2>4. CASE ReadBuffer
    <3>1. Least(left, Len(buf)) \in 0..Len(buf)
      BY LenProperties DEF TypeOK, Least
    <3>2. got' \in Seq(Byte) /\ buf' \in Seq(Byte)
      BY <2>4, <3>1, CutSeq DEF ReadBuffer, TypeOK
    <3> QED BY <2>4, <3>2 DEF ReadBuffer, TypeOK
  <2>5. CASE ReadFd
    <3> DEFINE k == IF left >= Cap THEN left ELSE Cap
    <3>1. k \in Nat
      BY DEF TypeOK
    <3>2. PICK r \in Reads(k) :
             LET chunk == First(src, r.n)
                 n     == Least(left, r.n)
             IN  /\ Kernel(r)
                 /\ IF r.is \in {"Interrupted", "Other"}
                    THEN Reply(r.is) /\ UNCHANGED buf
                    ELSE /\ got' = First(chunk, n)
                         /\ buf' = Rest(chunk, n)
                         /\ pc' = "done"
                         /\ UNCHANGED result
      BY <2>5 DEF ReadFd
    <3>3. src' \in Seq(Byte) /\ ends' \in Nat /\ faults' \in Nat
      BY <3>1, <3>2, KernelTypes
    <3>4. /\ First(src, r.n) \in Seq(Byte)
          /\ Least(left, r.n) \in 0..Len(First(src, r.n))
      <4>1. /\ First(src, r.n) \in Seq(Byte) /\ Len(First(src, r.n)) = r.n
            /\ r.n \in 0..Len(src)
        BY <3>1, KernelAnswers
      <4>2. r.n \in Nat /\ left \in Nat
        BY <4>1 DEF TypeOK
      <4> QED BY <4>1, <4>2, LeastBound
    <3>5. got' \in Seq(Byte) /\ buf' \in Seq(Byte) /\ pc' \in {"idle", "done"}
      <4>1. CASE r.is \in {"Interrupted", "Other"}
        BY <4>1, <3>2, EmptyBytes DEF Reply, TypeOK
      <4>2. CASE r.is \notin {"Interrupted", "Other"}
        <5>1. /\ First(First(src, r.n), Least(left, r.n)) \in Seq(Byte)
              /\ Rest(First(src, r.n), Least(left, r.n)) \in Seq(Byte)
          BY <3>4, CutSeq
        <5> QED BY <4>2, <5>1, <3>2
      <4> QED BY <4>1, <4>2
    <3> QED BY <2>5, <3>3, <3>5 DEF ReadFd, TypeOK
  <2>6. CASE FillLimit
    BY <2>6 DEF FillLimit, TypeOK
  <2>7. CASE FillHeld
    BY <2>7 DEF FillHeld, TypeOK
  <2>8. CASE FillFd
    <3>1. PICK r \in Reads(Cap) :
             /\ Kernel(r)
             /\ buf' = First(src, r.n)
             /\ lock' = FillLock(r)
             /\ IF r.is = "Other" THEN Reply("Other")
                ELSE pc' = FillNext(r) /\ UNCHANGED <<got, result>>
      BY <2>8 DEF FillFd
    <3>2. src' \in Seq(Byte) /\ ends' \in Nat /\ faults' \in Nat /\ buf' \in Seq(Byte)
      BY <3>1, KernelTypes, KernelAnswers
    <3>3. got' \in Seq(Byte) /\ pc' \in {"idle", "consume", "done", "fill"}
      BY <3>1, EmptyBytes DEF Reply, FillNext, TypeOK
    <3>4. lock' \in Handles \cup {NoHandle, Direct}
      BY <3>1 DEF FillLock, Between, TypeOK
    <3>5. pc # "idle"
      BY <2>8 DEF FillFd
    <3> QED BY <2>8, <3>2, <3>3, <3>4, <3>5 DEF FillFd, TypeOK
  <2>9. CASE Consume
    <3>1. PICK n \in 0..Len(Offered) :
             /\ got' = got \o First(buf, n)
             /\ buf' = Rest(buf, n)
             /\ left' = IF req.op = "until" THEN left - n ELSE left
             /\ pc' \in {"done", "fill"}
      BY <2>9 DEF Consume
    <3>3. n \in 0..Len(buf) /\ (req.op = "until" => n <= left)
      BY OfferedBound
    <3>4. got' \in Seq(Byte) /\ buf' \in Seq(Byte)
      <4>1. got \in Seq(Byte) /\ buf \in Seq(Byte)
        BY DEF TypeOK
      <4>2. First(buf, n) \in Seq(Byte) /\ Rest(buf, n) \in Seq(Byte)
        BY <3>3, <4>1, CutSeq
      <4>3. got \o First(buf, n) \in Seq(Byte)
        BY <4>1, <4>2, ConcatProperties
      <4> QED BY <3>1, <4>2, <4>3
    <3>5. left' \in Nat
      <4>1. left \in Nat /\ n \in Nat
        BY <3>3, LenProperties DEF TypeOK
      <4>2. CASE req.op = "until"
        BY <3>1, <3>3, <4>1, <4>2
      <4>3. CASE req.op # "until"
        BY <3>1, <4>1, <4>3
      <4> QED BY <4>2, <4>3
    <3>6. lock' \in Handles \cup {NoHandle, Direct}
      BY <2>9 DEF Consume, ConsumeLock, Between, TypeOK
    <3> QED BY <2>9, <3>1, <3>4, <3>5, <3>6 DEF Consume, TypeOK
  <2>10. CASE Finish
    BY <2>10, EmptyBytes DEF Finish, Reply, TypeOK
  <2>11. CASE UNCHANGED vars
    BY <2>11 DEF vars, TypeOK
  <2> QED
    BY <2>1, <2>2, <2>3, <2>4, <2>5, <2>6, <2>7, <2>8, <2>9, <2>10, <2>11 DEF Next, Step
<1> QED BY <1>1, <1>2, PTL DEF Spec

-----------------------------------------------------------------------------
(* Who has std's lock: the call that fills the buffer, until it consumes;  *)
(* a direct call from its first fill to its answer; nobody otherwise.      *)
LEMMA LockStep == TypeOK /\ LockInv /\ [Next]_vars => LockInv'
<1> SUFFICES ASSUME TypeOK, LockInv, [Next]_vars PROVE LockInv'
  OBVIOUS
<1> USE StdinAssumption
<1>1. CASE GetStdin
  BY <1>1 DEF GetStdin, LockInv
<1>2. ASSUME NEW h \in held, Drop(h) PROVE LockInv'
  BY <1>2 DEF Drop, LockInv
<1>3. ASSUME NEW r \in Requests, Start(r) PROVE LockInv'
  BY <1>3 DEF Start, LockInv
<1>4. CASE ReadBuffer
  BY <1>4 DEF ReadBuffer, LockInv
<1>5. CASE ReadFd
  BY <1>5 DEF ReadFd, Reply, LockInv
<1>6. CASE FillLimit
  BY <1>6 DEF FillLimit, LockInv, Between
<1>7. CASE FillHeld
  BY <1>7 DEF FillHeld, LockInv
<1>8. CASE FillFd
  <2>1. PICK r \in Reads(Cap) :
           /\ lock' = FillLock(r)
           /\ IF r.is = "Other" THEN Reply("Other") ELSE pc' = FillNext(r)
    BY <1>8 DEF FillFd
  <2>2. r.is \in {"bytes", "end", "Interrupted", "Other"}
    BY KernelAnswers
  <2>3. by' = by
    BY <1>8 DEF FillFd
  <2>4. CASE r.is = "bytes"
    BY <2>1, <2>3, <2>4 DEF FillLock, FillNext, LockInv
  <2>5. CASE r.is = "Other"
    BY <2>1, <2>5 DEF FillLock, Reply, LockInv
  <2>6. CASE r.is \in {"end", "Interrupted"}
    BY <2>1, <2>3, <2>6 DEF FillLock, FillNext, LockInv, Between
  <2> QED BY <2>2, <2>4, <2>5, <2>6
<1>9. CASE Consume
  BY <1>9 DEF Consume, ConsumeLock, LockInv, Between
<1>10. CASE Finish
  BY <1>10 DEF Finish, Reply, LockInv, Between
<1>11. CASE UNCHANGED vars
  BY <1>11 DEF vars, LockInv, Between
<1> QED
  BY <1>1, <1>2, <1>3, <1>4, <1>5, <1>6, <1>7, <1>8, <1>9, <1>10, <1>11 DEF Next, Step

(* No stream keeps std's lock from one call to the next.                   *)
THEOREM LockIsFree == Spec => []LockFreeBetweenCalls
<1>1. Init => LockInv
  BY DEF Init, LockInv
<1>2. LockInv => LockFreeBetweenCalls
  BY DEF LockInv, LockFreeBetweenCalls
<1> QED BY <1>1, <1>2, LockStep, TypeCorrect, PTL DEF Spec

(* So a step that takes the lock never waits for it: no call of an app can *)
(* be stuck on a lock the same app holds.                                  *)
THEOREM NobodyWaits == Spec => [](pc \in {"read", "fill"} => CanLock)
<1>1. Init => LockInv
  BY DEF Init, LockInv
<1>2. LockInv => (pc \in {"read", "fill"} => CanLock)
  BY DEF LockInv, CanLock, Between
<1> QED BY <1>1, <1>2, LockStep, TypeCorrect, PTL DEF Spec

-----------------------------------------------------------------------------
(* How often a call is told of the end of input.                           *)
LEMMA EndStep == TypeOK /\ EndInv /\ [Next]_vars => EndInv'
<1> SUFFICES ASSUME TypeOK, EndInv, [Next]_vars PROVE EndInv'
  OBVIOUS
<1> USE StdinAssumption
<1>1. CASE GetStdin
  BY <1>1 DEF GetStdin, EndInv
<1>2. ASSUME NEW h \in held, Drop(h) PROVE EndInv'
  BY <1>2 DEF Drop, EndInv
<1>3. ASSUME NEW r \in Requests, Start(r) PROVE EndInv'
  BY <1>3 DEF Start, EndInv
<1>4. CASE ReadBuffer
  BY <1>4 DEF ReadBuffer, EndInv
<1>5. CASE ReadFd
  <2>1. ends = 0 /\ ends' \in {0, 1} /\ pc' \in {"idle", "done"}
    BY <1>5 DEF ReadFd, Kernel, Reply, EndInv
  <2> QED BY <2>1 DEF EndInv
<1>6. CASE FillLimit
  BY <1>6 DEF FillLimit, EndInv
<1>7. CASE FillHeld
  BY <1>7 DEF FillHeld, EndInv
<1>8. CASE FillFd
  <2>1. PICK r \in Reads(Cap) :
           /\ Kernel(r)
           /\ IF r.is = "Other" THEN Reply("Other") ELSE pc' = FillNext(r)
    BY <1>8 DEF FillFd
  <2>2. ends = 0
    BY <1>8 DEF FillFd, EndInv
  <2>3. r.is \in {"bytes", "end", "Interrupted", "Other"}
    BY KernelAnswers
  <2>4. CASE r.is = "end"
    BY <2>1, <2>2, <2>4 DEF Kernel, FillNext, EndInv
  <2>5. CASE r.is # "end"
    BY <2>1, <2>2, <2>3, <2>5 DEF Kernel, EndInv
  <2> QED BY <2>4, <2>5
<1>9. CASE Consume
  BY <1>9 DEF Consume, EndInv
<1>10. CASE Finish
  BY <1>10 DEF Finish, Reply, EndInv
<1>11. CASE UNCHANGED vars
  BY <1>11 DEF vars, EndInv
<1> QED
  BY <1>1, <1>2, <1>3, <1>4, <1>5, <1>6, <1>7, <1>8, <1>9, <1>10, <1>11 DEF Next, Step

(* One end of input ends one call.                                         *)
THEOREM OneEnd == Spec => []OneEndPerCall
<1>1. Init => EndInv
  BY DEF Init, EndInv
<1>2. EndInv => OneEndPerCall
  BY DEF EndInv, OneEndPerCall
<1> QED BY <1>1, <1>2, EndStep, TypeCorrect, PTL DEF Spec

-----------------------------------------------------------------------------
(* What the running call has got.                                          *)

LEMMA RequestTypes == TypeOK => /\ req.max \in Nat
                                /\ pc # "idle" => req.op \in Ops
BY StdinAssumption DEF TypeOK

LEMMA GotStep == TypeOK /\ GotInv /\ [Next]_vars => GotInv'
<1> SUFFICES ASSUME TypeOK, GotInv, [Next]_vars PROVE GotInv'
  OBVIOUS
<1> USE StdinAssumption
<1>1. CASE GetStdin
  BY <1>1 DEF GetStdin, GotInv
<1>2. ASSUME NEW h \in held, Drop(h) PROVE GotInv'
  BY <1>2 DEF Drop, GotInv
<1>3. ASSUME NEW r \in Requests, Start(r) PROVE GotInv'
  <2>1. r.op \in Ops /\ r.max \in Nat
    OBVIOUS
  <2>2. /\ req' = r /\ got' = <<>>
        /\ r.op \in {"read", "bytes"} => pc' = "read" /\ left' = Least(r.max, ChunkMax)
        /\ r.op \notin {"read", "bytes"} => pc' = "fill" /\ left' = r.max
    BY <1>3 DEF Start
  <2>3. CASE r.op \in {"read", "bytes"}
    BY <2>1, <2>2, <2>3 DEF Least, GotInv
  <2>4. CASE r.op \notin {"read", "bytes"}
    BY <2>1, <2>2, <2>4, EmptyBytes DEF Ops, NoLine, GotInv
  <2> QED BY <2>3, <2>4
<1>4. CASE ReadBuffer
  <2>1. Least(left, Len(buf)) \in 0..Len(buf) /\ Least(left, Len(buf)) <= left
    BY LenProperties DEF TypeOK, Least
  <2>2. Len(First(buf, Least(left, Len(buf)))) = Least(left, Len(buf))
    BY <2>1, CutSeq DEF TypeOK
  <2>3. Len(got') <= left /\ left <= req.max /\ req.op \in {"read", "bytes"}
    BY <1>4, <2>1, <2>2 DEF ReadBuffer, GotInv
  <2>4. Len(got') <= req.max
    BY <1>4, <2>1, <2>2, <2>3, RequestTypes DEF ReadBuffer, TypeOK
  <2> QED BY <1>4, <2>3, <2>4 DEF ReadBuffer, GotInv
<1>5. CASE ReadFd
  <2> DEFINE k == IF left >= Cap THEN left ELSE Cap
  <2>1. k \in Nat
    BY DEF TypeOK
  <2>2. PICK r \in Reads(k) :
           IF r.is \in {"Interrupted", "Other"}
           THEN Reply(r.is)
           ELSE got' = First(First(src, r.n), Least(left, r.n)) /\ pc' = "done"
    BY <1>5 DEF ReadFd
  <2>3. /\ left \in Nat /\ req.max \in Nat /\ left <= req.max
        /\ req.op \in {"read", "bytes"} /\ req' = req
    BY <1>5, RequestTypes DEF ReadFd, GotInv, TypeOK
  <2>4. CASE r.is \in {"Interrupted", "Other"}
    BY <2>2, <2>4 DEF Reply, GotInv
  <2>5. CASE r.is \notin {"Interrupted", "Other"}
    <3>1. First(src, r.n) \in Seq(Byte) /\ r.n \in Nat /\ Len(First(src, r.n)) = r.n
      BY <2>1, KernelAnswers, LenProperties DEF TypeOK
    <3>2. Least(left, r.n) \in 0..r.n /\ Least(left, r.n) <= left
      BY <2>3, <3>1 DEF Least
    <3>3. Len(First(First(src, r.n), Least(left, r.n))) = Least(left, r.n)
      BY <3>1, <3>2, CutSeq
    <3>4. Len(got') <= req.max
      BY <2>2, <2>3, <2>5, <3>2, <3>3
    <3> QED BY <2>2, <2>3, <2>5, <3>4 DEF GotInv
  <2> QED BY <2>4, <2>5
<1>6. CASE FillLimit
  <2>1. Len(got) + 0 = req.max /\ NoLine(got) /\ req.op = "until"
    BY <1>6 DEF FillLimit, Full, GotInv
  <2>2. Len(got) \in Nat
    BY LenProperties DEF TypeOK
  <2> QED BY <1>6, <2>1, <2>2 DEF FillLimit, GotInv, NoLine, OneLine
<1>7. CASE FillHeld
  BY <1>7 DEF FillHeld, GotInv
<1>8. CASE FillFd
  <2>1. PICK r \in Reads(Cap) :
           IF r.is = "Other" THEN Reply("Other")
           ELSE pc' = FillNext(r) /\ UNCHANGED <<got, result>>
    BY <1>8 DEF FillFd
  <2>2. CASE r.is = "Other"
    BY <2>1, <2>2 DEF Reply, GotInv
  <2>3. CASE r.is # "Other"
    <3>1. /\ pc = "fill" /\ req' = req /\ left' = left /\ got' = got
          /\ pc' \in {"consume", "done", "fill"}
      BY <1>8, <2>1, <2>3 DEF FillFd, FillNext
    <3>2. req.op = "until" => Len(got) <= req.max
      BY <3>1, RequestTypes, LenProperties DEF GotInv, TypeOK
    <3>3. req.op # "to_end" => OneLine(got)
      BY <3>1 DEF GotInv, NoLine, OneLine
    <3> QED BY <3>1, <3>2, <3>3 DEF GotInv
  <2> QED BY <2>2, <2>3
<1>9. CASE Consume
  <2>1. PICK n \in 0..Len(Offered) :
           /\ UpTo(Offered, n)
           /\ got' = got \o First(buf, n)
           /\ left' = IF req.op = "until" THEN left - n ELSE left
           /\ pc' = IF Delimited(Offered, n) THEN "done" ELSE "fill"
    BY <1>9 DEF Consume
  <2>2. /\ buf \in Seq(Byte) /\ got \in Seq(Byte) /\ Len(buf) \in Nat /\ Len(got) \in Nat
        /\ left \in Nat /\ req.max \in Nat
    BY LenProperties, RequestTypes DEF TypeOK
  <2>5. /\ n \in 0..Len(buf)
        /\ req.op = "until" => n <= left
        /\ \A i \in 1..n : Offered[i] = buf[i]
    BY OfferedBound
  <2>6. /\ First(buf, n) \in Seq(Byte) /\ Len(First(buf, n)) = n
        /\ \A i \in 1..n : First(buf, n)[i] = buf[i]
    BY <2>2, <2>5, CutSeq
  <2>7. /\ Len(got') = Len(got) + n
        /\ \A i \in 1..Len(got') :
              got'[i] = IF i <= Len(got) THEN got[i] ELSE buf[i - Len(got)]
    <3>1. /\ Len(got \o First(buf, n)) = Len(got) + Len(First(buf, n))
          /\ \A i \in 1..(Len(got) + Len(First(buf, n))) :
                (got \o First(buf, n))[i] =
                   IF i <= Len(got) THEN got[i] ELSE First(buf, n)[i - Len(got)]
      <4>1. got \in Seq(Byte) /\ First(buf, n) \in Seq(Byte)
        BY <2>2, <2>6
      <4> QED BY <4>1, ConcatProperties, Zenon
    <3>2. got' = got \o First(buf, n)
      BY <2>1
    <3>3. /\ Len(got') = Len(got) + n
          /\ \A i \in 1..(Len(got) + n) :
                got'[i] = IF i <= Len(got) THEN got[i] ELSE First(buf, n)[i - Len(got)]
      BY <2>6, <3>1, <3>2
    <3>4. n \in Nat
      BY <2>2, <2>5
    <3>5. \A i \in 1..(Len(got) + n) : i > Len(got) => i - Len(got) \in 1..n
      BY <2>2, <3>4
    <3> QED BY <2>2, <2>6, <3>3, <3>5
  <2>8. pc = "consume" /\ req' = req /\ pc' \in {"done", "fill"}
    BY <1>9, <2>1 DEF Consume
  <2>9. req.op = "until" => Len(got') + left' = req.max /\ Len(got') <= req.max
    BY <2>1, <2>2, <2>5, <2>7, <2>8 DEF GotInv
  <2>10. req.op \in {"until", "line"} => OneLine(got')
    <3>1. SUFFICES ASSUME req.op \in {"until", "line"}, NEW i \in 1..Len(got'), got'[i] = NL
                   PROVE  i = Len(got')
      BY DEF OneLine
    <3>2. i > Len(got)
      <4>1. \A j \in 1..Len(got) : got[j] # NL
        BY <2>8, <3>1 DEF GotInv, NoLine
      <4>2. i <= Len(got) => i \in 1..Len(got) /\ got[i] = NL
        BY <2>2, <2>7, <3>1
      <4>3. i \in Nat
        BY <2>2, <2>5, <2>7
      <4> QED BY <2>2, <4>1, <4>2, <4>3
    <3>3. i - Len(got) \in 1..n /\ Offered[i - Len(got)] = NL
      <4>1. i \in 1..(Len(got) + n) /\ i - Len(got) \in 1..n
        BY <2>2, <2>5, <2>7, <3>1, <3>2
      <4>2. buf[i - Len(got)] = NL
        BY <2>2, <2>7, <3>1, <3>2
      <4> QED BY <2>5, <4>1, <4>2
    <3>4. Delimited(Offered, i - Len(got))
      BY <3>1, <3>3 DEF Delimited
    <3>5. i - Len(got) \notin 1..(n - 1)
      BY <2>1, <3>4 DEF UpTo
    <3> QED BY <2>2, <2>5, <2>7, <3>3, <3>5
  <2>11. (pc' = "fill" /\ req.op # "to_end") => NoLine(got')
    <3>1. SUFFICES ASSUME pc' = "fill", req.op # "to_end", NEW i \in 1..Len(got'), got'[i] = NL
                   PROVE  FALSE
      BY DEF NoLine
    <3>2. i > Len(got)
      <4>1. \A j \in 1..Len(got) : got[j] # NL
        BY <2>8, <3>1 DEF GotInv, NoLine
      <4>2. i <= Len(got) => i \in 1..Len(got) /\ got[i] = NL
        BY <2>2, <2>7, <3>1
      <4>3. i \in Nat
        BY <2>2, <2>5, <2>7
      <4> QED BY <2>2, <4>1, <4>2, <4>3
    <3>3. i - Len(got) \in 1..n /\ Offered[i - Len(got)] = NL
      <4>1. i \in 1..(Len(got) + n) /\ i - Len(got) \in 1..n
        BY <2>2, <2>5, <2>7, <3>1, <3>2
      <4>2. buf[i - Len(got)] = NL
        BY <2>2, <2>7, <3>1, <3>2
      <4> QED BY <2>5, <4>1, <4>2
    <3>4. Delimited(Offered, i - Len(got))
      BY <3>1, <3>3 DEF Delimited
    <3>5. ~Delimited(Offered, n)
      BY <2>1, <3>1
    <3> QED BY <2>1, <2>5, <3>3, <3>4, <3>5 DEF UpTo
  <2> QED BY <2>8, <2>9, <2>10, <2>11 DEF GotInv
<1>10. CASE Finish
  BY <1>10 DEF Finish, Reply, GotInv
<1>11. CASE UNCHANGED vars
  BY <1>11 DEF vars, GotInv
<1> QED
  BY <1>1, <1>2, <1>3, <1>4, <1>5, <1>6, <1>7, <1>8, <1>9, <1>10, <1>11 DEF Next, Step

-----------------------------------------------------------------------------
(* The refinement: `got \o buf \o src' is the queue, and only an answer    *)
(* takes from it.                                                          *)

LEMMA BytesAssociate ==
    \A s, m, u \in Seq(Byte) : (s \o m) \o u = s \o (m \o u)
BY ConcatAssociative

LEMMA CutBytes ==
    \A s, x \in Seq(Byte) : /\ Len(s) \in 0..Len(s \o x)
                            /\ First(s \o x, Len(s)) = s
                            /\ Rest(s \o x, Len(s)) = x
BY CutConcat

LEMMA QueueTypes ==
    ASSUME TypeOK
    PROVE  /\ buf \o src \in Seq(Byte)
           /\ got \o buf \o src = got \o (buf \o src)
<1>1. src \in Seq(Byte) /\ buf \in Seq(Byte) /\ got \in Seq(Byte)
  BY DEF TypeOK
<1>2. buf \o src \in Seq(Byte)
  BY <1>1, ConcatProperties
<1>3. (got \o buf) \o src = got \o (buf \o src)
  BY <1>1, ConcatAssociative
<1> QED BY <1>2, <1>3

(* Bytes that move from fd 0 to the buffer stay where they are in the      *)
(* queue.                                                                  *)
LEMMA QueueSame ==
    ASSUME TypeOK, TypeOK', got' = got, buf' \o src' = buf \o src
    PROVE  UNCHANGED (got \o buf \o src)
<1>1. got \in Seq(Byte) /\ buf' \in Seq(Byte) /\ src' \in Seq(Byte)
  BY DEF TypeOK
<1>2. (got \o buf') \o src' = got \o (buf' \o src')
  BY <1>1, BytesAssociate
<1>3. (got \o buf) \o src = got \o (buf \o src)
  BY QueueTypes
<1> QED BY <1>2, <1>3

(* So do bytes that move from the buffer to what the call has got.         *)
LEMMA TakingSame ==
    ASSUME TypeOK, NEW n \in 0..Len(buf)
    PROVE  (got \o First(buf, n)) \o Rest(buf, n) = got \o buf
<1> DEFINE a == First(buf, n)
<1> DEFINE b == Rest(buf, n)
<1>1. got \in Seq(Byte) /\ buf \in Seq(Byte)
  BY DEF TypeOK
<1>2. a \in Seq(Byte) /\ b \in Seq(Byte)
  BY <1>1, CutSeq
<1>3. a \o b = buf
  BY <1>1, CutSeq
<1> HIDE DEF a, b
<1>4. (got \o a) \o b = got \o (a \o b)
  BY <1>1, <1>2, BytesAssociate, Zenon
<1>5. (got \o a) \o b = got \o buf
  BY <1>3, <1>4
<1> QED BY <1>5 DEF a, b

(* ByteQueue's view of bytes is this module's.                             *)
LEMMA SameBytes ==
    /\ \A s, n : Q!First(s, n) = First(s, n) /\ Q!Rest(s, n) = Rest(s, n)
    /\ \A s : Q!Stripped(s) = Stripped(s)
    /\ \A s : Q!OneLine(s) = OneLine(s) /\ Q!Valid(s) = Valid(s)
BY DEF Q!First, First, Q!Rest, Rest, Q!Stripped, Stripped, Q!EndsIn, EndsIn,
       Q!Chop, Chop, Q!OneLine, OneLine, Q!Valid, Valid, Q!NL, NL, Q!CR, CR, Q!Bad, Bad

(* What a call has got comes off the front when it answers.                *)
LEMMA AnswerTakes ==
    ASSUME TypeOK, TypeOK', pc # "idle",
           NEW e, Reply(e), UNCHANGED req, buf' \o src' = buf \o src,
           \/ e = "ok" /\ Q!Takes(got, req)
           \/ e = "EndOfFile" /\ req.op \in {"bytes", "line"} /\ got = <<>>
           \/ e \in {"Interrupted", "Other"} /\ (req.op \in {"read", "bytes"} => got = <<>>)
    PROVE  Q!Next
<1> DEFINE queue == got \o buf \o src
<1>1. /\ got \in Seq(Byte) /\ req \in Requests /\ buf \o src \in Seq(Byte)
      /\ queue = got \o (buf \o src)
  BY QueueTypes DEF TypeOK
<1>2. /\ Len(got) \in 0..Len(queue)
      /\ Q!First(queue, Len(got)) = got
      /\ Q!Rest(queue, Len(got)) = buf \o src
  <2>1. /\ Len(got) \in 0..Len(got \o (buf \o src))
        /\ First(got \o (buf \o src), Len(got)) = got
        /\ Rest(got \o (buf \o src), Len(got)) = buf \o src
    <3>1. got \in Seq(Byte) /\ buf \o src \in Seq(Byte)
      BY <1>1
    <3> QED BY <3>1, CutBytes, Zenon
  <2> QED BY <1>1, <2>1, SameBytes
<1>3. queue' = Q!Rest(queue, Len(got))
  <2>1. got' = <<>> /\ buf' \in Seq(Byte)
    BY DEF Reply, TypeOK
  <2>2. <<>> \o buf' = buf'
    BY <2>1, ConcatEmptySeq
  <2> QED BY <1>2, <2>1, <2>2
<1>4. result' = IF e = "ok" THEN Q!Gives(got, req) ELSE Q!Fails(e, req)
  <2>1. CASE e = "ok" /\ req.op = "line"
    <3>1. result' = [req |-> req, err |-> "ok", bytes |-> Stripped(got)]
      BY <2>1 DEF Reply
    <3> QED BY <2>1, <3>1, SameBytes DEF Q!Gives
  <2>2. CASE e = "ok" /\ req.op # "line"
    BY <2>2 DEF Reply, Q!Gives
  <2>3. CASE e # "ok"
    BY <2>3 DEF Reply, Q!Fails
  <2> QED BY <2>1, <2>2, <2>3
<1>5. Q!Answer(req, Len(got))
  <2> HIDE DEF queue
  <2>1. CASE e = "ok"
    BY <1>2, <1>3, <1>4, <2>1 DEF Q!Answer, queue
  <2>2. CASE e = "EndOfFile"
    BY <1>2, <1>3, <1>4, <2>2 DEF Q!Answer, queue
  <2>3. CASE e \in {"Interrupted", "Other"}
    BY <1>2, <1>3, <1>4, <2>3 DEF Q!Answer, queue
  <2> QED BY <2>1, <2>2, <2>3
<1> QED BY <1>1, <1>2, <1>5 DEF Q!Next

LEMMA QueueStep ==
    TypeOK /\ TypeOK' /\ GotInv /\ [Next]_vars => [Q!Next]_<<got \o buf \o src, result>>
<1> SUFFICES ASSUME TypeOK, TypeOK', GotInv, [Next]_vars
             PROVE  Q!Next \/ UNCHANGED <<got \o buf \o src, result>>
  OBVIOUS
<1> USE StdinAssumption
<1>0. got \in Seq(Byte) /\ buf \in Seq(Byte) /\ src \in Seq(Byte)
  BY DEF TypeOK
<1>a. \A s \in Seq(Byte) : <<>> \o s = s /\ s \o <<>> = s
  BY ConcatEmptySeq
<1>1. CASE GetStdin
  BY <1>1 DEF GetStdin
<1>2. ASSUME NEW h \in held, Drop(h)
      PROVE  UNCHANGED <<got \o buf \o src, result>>
  BY <1>2 DEF Drop
<1>3. ASSUME NEW r \in Requests, Start(r)
      PROVE  UNCHANGED <<got \o buf \o src, result>>
  BY <1>3 DEF Start, GotInv
<1>4. CASE ReadBuffer
  <2>1. Least(left, Len(buf)) \in 0..Len(buf)
    BY LenProperties DEF TypeOK, Least
  <2>2. got = <<>> /\ got' \o buf' = buf /\ src' = src /\ result' = result
    BY <1>0, <1>a, <1>4, <2>1, CutSeq DEF ReadBuffer, GotInv
  <2> QED BY <1>0, <1>a, <2>2
<1>5. CASE ReadFd
  <2> DEFINE k == IF left >= Cap THEN left ELSE Cap
  <2>1. k \in Nat
    BY DEF TypeOK
  <2>2. PICK r \in Reads(k) :
           /\ Kernel(r)
           /\ IF r.is \in {"Interrupted", "Other"}
              THEN Reply(r.is) /\ UNCHANGED buf
              ELSE /\ got' = First(First(src, r.n), Least(left, r.n))
                   /\ buf' = Rest(First(src, r.n), Least(left, r.n))
                   /\ UNCHANGED result
    BY <1>5 DEF ReadFd
  <2>3. /\ r.n \in 0..Len(src) /\ First(src, r.n) \in Seq(Byte)
        /\ Rest(src, r.n) \in Seq(Byte) /\ Len(First(src, r.n)) = r.n
        /\ First(src, r.n) \o Rest(src, r.n) = src
        /\ r.is # "bytes" => r.n = 0
    BY <2>1, KernelAnswers
  <2>4. got = <<>> /\ buf = <<>> /\ src' = Rest(src, r.n) /\ pc = "read" /\ req' = req
    BY <1>5, <2>2 DEF ReadFd, Kernel, GotInv
  <2>5. CASE r.is \in {"Interrupted", "Other"}
    <3>1. First(src, r.n) = <<>>
      BY <2>3, <2>5, EmptySeq
    <3>2. src' = src /\ buf' = buf
      BY <1>0, <1>a, <2>2, <2>3, <2>4, <2>5, <3>1
    <3> QED BY <2>2, <2>4, <2>5, <3>2, AnswerTakes
  <2>6. CASE r.is \notin {"Interrupted", "Other"}
    <3>1. Least(left, r.n) \in 0..Len(First(src, r.n))
      <4>1. r.n \in Nat /\ left \in Nat
        BY <1>0, <2>3, LenProperties DEF TypeOK
      <4> QED BY <2>3, <4>1, LeastBound
    <3>2. First(src, r.n) \in Seq(Byte)
      BY <2>3
    <3>3. got' \o buf' = First(src, r.n)
      BY <2>2, <2>6, <3>1, <3>2, CutSeq, Zenon
    <3> QED BY <1>0, <1>a, <2>2, <2>3, <2>4, <2>6, <3>3
  <2> QED BY <2>5, <2>6
<1>6. CASE FillLimit
  BY <1>6 DEF FillLimit
<1>7. CASE FillHeld
  BY <1>7 DEF FillHeld
<1>8. CASE FillFd
  <2>1. PICK r \in Reads(Cap) :
           /\ Kernel(r)
           /\ buf' = First(src, r.n)
           /\ IF r.is = "Other" THEN Reply("Other") ELSE UNCHANGED <<got, result>>
    BY <1>8 DEF FillFd
  <2>2. /\ buf = <<>> /\ pc = "fill" /\ req' = req /\ src' = Rest(src, r.n)
        /\ buf' \o src' = src
    BY <1>8, <2>1, KernelAnswers DEF FillFd, Kernel
  <2>3. buf' \o src' = buf \o src
    BY <1>0, <1>a, <2>2
  <2>4. CASE r.is = "Other"
    BY <2>1, <2>2, <2>3, <2>4, AnswerTakes DEF GotInv
  <2>5. CASE r.is # "Other"
    <3>1. got' = got /\ result' = result
      BY <2>1, <2>5
    <3> QED BY <2>3, <3>1, QueueSame
  <2> QED BY <2>4, <2>5
<1>9. CASE Consume
  <2>1. PICK n \in 0..Len(Offered) :
           /\ got' = got \o First(buf, n)
           /\ buf' = Rest(buf, n)
    BY <1>9 DEF Consume
  <2>2. n \in 0..Len(buf)
    BY OfferedBound
  <2>3. got' \o buf' = got \o buf
    BY <2>1, <2>2, TakingSame
  <2> QED BY <1>9, <2>3 DEF Consume
<1>10. CASE Finish
  <2>1. pc = "done" /\ req' = req /\ buf' \o src' = buf \o src
    BY <1>10 DEF Finish
  <2>2. CASE req.op \in {"line", "bytes"} /\ got = <<>>
    <3>1. Reply("EndOfFile")
      BY <1>10, <2>2, EmptyBytes DEF Finish, Valid
    <3> QED BY <2>1, <2>2, <3>1, AnswerTakes
  <2>3. CASE req.op = "line" /\ got # <<>> /\ ~Valid(got)
    <3>1. Reply("Other")
      BY <1>10, <2>3 DEF Finish
    <3> QED BY <2>1, <2>3, <3>1, AnswerTakes
  <2>4. CASE ~(req.op \in {"line", "bytes"} /\ got = <<>>) /\ (req.op = "line" => Valid(got))
    <3>1. Reply("ok")
      BY <1>10, <2>4 DEF Finish
    <3>2. Q!Takes(got, req)
      BY <2>1, <2>4, SameBytes DEF Q!Takes, GotInv
    <3> QED BY <2>1, <3>1, <3>2, AnswerTakes
  <2> QED BY <2>2, <2>3, <2>4
<1>11. CASE UNCHANGED vars
  BY <1>11 DEF vars
<1> QED
  BY <1>1, <1>2, <1>3, <1>4, <1>5, <1>6, <1>7, <1>8, <1>9, <1>10, <1>11 DEF Next, Step

(* Standard input is one queue of bytes: whichever streams an app holds and*)
(* whichever calls it mixes, an answer is the next bytes of the queue, none*)
(* twice and none lost but by a call that failed.                          *)
THEOREM OneQueue == Spec => IsOneQueue
<1>1. Init => Q!Init
  <2> SUFFICES ASSUME Init PROVE Q!Init
    OBVIOUS
  <2>1. <<>> \o <<>> \o Input = Input
    BY StdinAssumption, EmptyBytes, ConcatEmptySeq
  <2> QED BY <2>1 DEF Init, Q!Init, Q!Gives
<1>2. Init => GotInv
  BY DEF Init, GotInv
<1> QED
  BY <1>1, <1>2, TypeCorrect, GotStep, QueueStep, PTL DEF Spec, IsOneQueue, Q!Spec
=============================================================================
