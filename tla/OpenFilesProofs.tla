---------------------------- MODULE OpenFilesProofs ----------------------------
(***************************************************************************)
(* Every descriptor has one owner, none that is given out is 0, 1 or 2, and*)
(* the bytes of the file are where the cursors that wrote and read them    *)
(* left them: proved for any number of descriptors, handles and open files,*)
(* any calls, whatever other processes do, and however the app was started.*)
(*                                                                         *)
(* Between two steps of one call a number may be nobody's yet: the one the *)
(* call has just duplicated.  With it every number has one owner always    *)
(* (FdInv), so what a stream writes and reads through is an open file of   *)
(* its own choosing; then no two open files are in one run, what a run     *)
(* wrote or read is behind its cursor, and a byte that was read is in one  *)
(* place, told or in one buffer (DataInv).                                 *)
(***************************************************************************)
EXTENDS OpenFiles, SequenceTheorems, WellFoundedInduction, TLAPS

(* The number the running call has made and not yet given to a resource.   *)
Pending == IF pc = "seek" \/ (pc = "dup" /\ cur.op = "descriptor_fd") THEN {cur.n} ELSE {}

(* One owner each, of the numbers open in f: those inherited, those of the *)
(* resources r, those handed out, those pending.                           *)
Owns(r, i) == r[i].is \in {"desc", "in", "out"}
OneOwner(f, r, inherited, out, pending) ==
    /\ \A n \in Fd : f[n] # NoFile <=>
          \/ n \in inherited \cup out \cup pending
          \/ \E i \in Id : Owns(r, i) /\ r[i].fd = n
    /\ \A i \in Id : Owns(r, i) => r[i].fd \in Fd \ (inherited \cup out \cup pending)
    /\ \A i, j \in Id : Owns(r, i) /\ Owns(r, j) /\ i # j => r[i].fd # r[j].fd
    /\ inherited \cap out = {} /\ (inherited \cup out) \cap pending = {}
    /\ out \cup pending \subseteq Fd

(* The fields of a resource, and what is known of each.                    *)
Fields == {"is", "fd", "end", "buf"}
HandlesOK ==
    /\ start \in Starts
    /\ fd \in [Fd -> Nat]
    /\ res = [i \in Id |-> res[i]]
    /\ \A i \in Id :
          /\ DOMAIN res[i] = Fields
          /\ res[i].is \in {"none", "desc", "dir", "in", "out", "std"}
          /\ res[i].is = "std" => res[i].fd = 1 /\ 1 \in Inherited

(* What each step of a call knows of it.                                   *)
IsCall(c) ==
    /\ c = [op |-> c.op, on |-> c.on, kind |-> c.kind, flags |-> c.flags, off |-> c.off, n |-> c.n]
    /\ c.op \in DOMAIN Kinds /\ c.kind \in Kinds[c.op]
Running ==
    /\ pc \in {"idle", "open", "clone", "seek", "end", "write", "read", "dup"}
    /\ pc # "idle" => IsCall(cur)
    /\ pc = "open" => cur.op = "open" /\ Room(cur)
    /\ pc = "clone" => /\ cur.op \in {"open", "stream", "descriptor_fd"}
                       /\ cur.kind # "none" /\ cur.on \in Id
                       /\ res[cur.on].is \in {"desc", "dir"}
                       /\ cur.op = "open" => res[cur.on].is = "desc"
                       /\ MakesStream(cur) => FreeId # {}
    /\ pc = "seek" => /\ FreeId # {} /\ cur.on \in Id
                      /\ cur.op = "open" => res[cur.on].is = "desc"
    /\ pc \in {"end", "write"} => cur.op = "write"
    /\ pc = "read" => cur.on \in Id /\ res[cur.on].is = "in"
    /\ pc = "dup" => \/ cur.op = "descriptor_fd"
                     \/ cur.op = "hand" /\ cur.on \in Id /\ res[cur.on].is \in {"in", "out", "std"}

FdInv ==
    /\ HandlesOK /\ Running
    /\ OneOwner(fd, res, Inherited, handed, Pending)
    /\ HandedAboveStdio

-----------------------------------------------------------------------------
(* The least of some numbers is one of them.                               *)
LEMMA LowestIn ==
    ASSUME NEW S \in SUBSET Nat, S # {}
    PROVE  Lowest(S) \in S
  <1>1. PICK n \in S : \A m \in S : ~ (<<m, n>> \in OpToRel(<, Nat))
    BY NatLessThanWellFounded, WFMin
  <1>2. \A m \in S : n <= m
    <2> TAKE m \in S
    <2>1. m \in Nat /\ n \in Nat  OBVIOUS
    <2>2. m < n => <<m, n>> \in OpToRel(<, Nat)
      BY <2>1 DEF OpToRel
    <2>3. ~ (m < n)
      BY <1>1, <2>2, Zenon
    <2> QED  BY <2>1, <2>3, SMT
  <1> QED  BY <1>2 DEF Lowest

(* A free number at least as high as was asked, and a free handle.         *)
LEMMA LowestFree ==
    /\ \A min \in Nat : FreeFd(min) # {} =>
          LET n == Lowest(FreeFd(min)) IN n \in Fd /\ n >= min /\ fd[n] = NoFile
    /\ FreeId # {} => Lowest(FreeId) \in Id /\ res[Lowest(FreeId)].is = "none"
  <1>1. ASSUME NEW min \in Nat, FreeFd(min) # {}
        PROVE  Lowest(FreeFd(min)) \in FreeFd(min)
    <2>1. FreeFd(min) \in SUBSET Nat  BY OpenFilesAssumption DEF FreeFd, Fd
    <2> QED  BY <1>1, <2>1, LowestIn
  <1>2. ASSUME FreeId # {}  PROVE  Lowest(FreeId) \in FreeId
    <2>1. FreeId \in SUBSET Nat  BY OpenFilesAssumption DEF FreeId
    <2> QED  BY <1>2, <2>1, LowestIn
  <1>3. ASSUME NEW min \in Nat, FreeFd(min) # {}
        PROVE  LET n == Lowest(FreeFd(min)) IN n \in Fd /\ n >= min /\ fd[n] = NoFile
    BY <1>1, <1>3 DEF FreeFd
  <1>4. FreeId # {} => Lowest(FreeId) \in Id /\ res[Lowest(FreeId)].is = "none"
    BY <1>2 DEF FreeId
  <1> QED  BY <1>3, <1>4

-----------------------------------------------------------------------------
(* How ownership moves.  A free number is taken by the running call.       *)
LEMMA Taken ==
    ASSUME NEW f \in [Fd -> Nat], NEW r, NEW old, NEW out, NEW pending,
           OneOwner(f, r, old, out, pending),
           NEW n \in Fd, f[n] = NoFile, NEW x \in Nat, x # NoFile
    PROVE  OneOwner([f EXCEPT ![n] = x], r, old, out, pending \cup {n})
  BY DEF OneOwner

(* The call hands the number out,                                          *)
LEMMA HandedOut ==
    ASSUME NEW f, NEW r, NEW old, NEW out, NEW pending,
           OneOwner(f, r, old, out, pending), NEW n \in pending
    PROVE  OneOwner(f, r, old, out \cup {n}, pending \ {n})
  BY DEF OneOwner

(* or gives it to a resource under a free handle.                          *)
LEMMA Given ==
    ASSUME NEW f, NEW r, r = [i \in Id |-> r[i]], NEW old, NEW out, NEW pending,
           OneOwner(f, r, old, out, pending), NEW n \in pending,
           NEW id \in Id, ~ Owns(r, id), NEW w, w.fd = n, w.is \in {"desc", "in", "out"}
    PROVE  OneOwner(f, [r EXCEPT ![id] = w], old, out, pending \ {n})
  <1> DEFINE s == [r EXCEPT ![id] = w]
  <1>1. Owns(s, id) /\ s[id].fd = n
    BY DEF Owns
  <1>2. \A i \in Id : i # id => s[i] = r[i]
    OBVIOUS
  <1>3. \A i \in Id : i # id => (Owns(s, i) <=> Owns(r, i))
    BY <1>2 DEF Owns
  <1> HIDE DEF s
  <1> QED  BY <1>1, <1>2, <1>3 DEF OneOwner, s

(* A number handed out, or the call's own, is closed.                      *)
LEMMA Freed ==
    ASSUME NEW f \in [Fd -> Nat], NEW r, NEW old, NEW out, NEW pending,
           OneOwner(f, r, old, out, pending), NEW n \in out \cup pending
    PROVE  OneOwner(Without(f, n), r, old, out \ {n}, pending \ {n})
  BY DEF OneOwner, Without, NoFile

(* A resource that owns its number is dropped with it.                     *)
LEMMA Dropped ==
    ASSUME NEW f \in [Fd -> Nat], NEW r, r = [i \in Id |-> r[i]], NEW old, NEW out, NEW pending,
           OneOwner(f, r, old, out, pending), NEW id \in Id, Owns(r, id)
    PROVE  OneOwner(Without(f, r[id].fd), [r EXCEPT ![id] = Nobody], old, out, pending)
  <1> DEFINE s == [r EXCEPT ![id] = Nobody]
  <1>1. ~ Owns(s, id)
    BY DEF Owns, Nobody
  <1>2. \A i \in Id : i # id => s[i] = r[i]
    OBVIOUS
  <1>3. \A i \in Id : i # id => (Owns(s, i) <=> Owns(r, i))
    BY <1>2 DEF Owns
  <1> DEFINE n == r[id].fd
             g == Without(f, n)
  <1>4. n \in Fd /\ n \notin old \cup out \cup pending
    BY DEF OneOwner
  <1>5. \A m \in Fd : g[m] # NoFile <=> m # n /\ f[m] # NoFile
    BY <1>4 DEF Without, NoFile
  <1>6. \A i \in Id : Owns(s, i) => s[i].fd # n
    BY <1>1, <1>2, <1>3 DEF OneOwner
  <1> HIDE DEF s, n, g
  <1>7. \A m \in Fd : g[m] # NoFile <=>
            \/ m \in old \cup out \cup pending
            \/ \E i \in Id : Owns(s, i) /\ s[i].fd = m
    <2> TAKE m \in Fd
    <2>1. CASE m = n
      BY <1>4, <1>5, <1>6, <2>1
    <2>2. CASE m # n
      <3>1. (\E i \in Id : Owns(s, i) /\ s[i].fd = m) <=> \E i \in Id : Owns(r, i) /\ r[i].fd = m
        BY <1>1, <1>2, <1>3, <2>2 DEF n
      <3> QED  BY <1>5, <2>2, <3>1 DEF OneOwner
    <2> QED  BY <2>1, <2>2
  <1>8. \A i \in Id : Owns(s, i) => Owns(r, i) /\ s[i].fd = r[i].fd
    BY <1>1, <1>2, <1>3, Zenon
  <1>9. OneOwner(g, s, old, out, pending)
    <2>1. \A i \in Id : Owns(s, i) => s[i].fd \in Fd \ (old \cup out \cup pending)
      BY <1>8 DEF OneOwner
    <2>2. \A i, j \in Id : Owns(s, i) /\ Owns(s, j) /\ i # j => s[i].fd # s[j].fd
      BY <1>8 DEF OneOwner
    <2> QED  BY <1>7, <2>1, <2>2 DEF OneOwner
  <1> QED  BY <1>9 DEF s, n, g

(* A change of the resources that leaves each its number.                  *)
LEMMA Kept ==
    ASSUME NEW f, NEW r, NEW s, NEW old, NEW out, NEW pending,
           OneOwner(f, r, old, out, pending),
           \A i \in Id : (Owns(s, i) <=> Owns(r, i)) /\ (Owns(r, i) => s[i].fd = r[i].fd)
    PROVE  OneOwner(f, s, old, out, pending)
  BY DEF OneOwner

-----------------------------------------------------------------------------
(* The steps of a call.                                                    *)

LEMMA CallKinds ==
    ASSUME NEW c, IsCall(c)
    PROVE  /\ c.op \in {"open", "stream", "write", "read", "hand", "descriptor_fd"}
           /\ c.op = "open" => c.kind \in {"none", "read", "offset", "append"}
           /\ c.op = "stream" => c.kind \in {"read", "offset", "append"}
           /\ c.op = "descriptor_fd" => c.kind = "hand"
  BY DEF IsCall, Kinds

LEMMA StartKeeps ==
    ASSUME FdInv, NEW c \in start.calls, Start(c)
    PROVE  FdInv'
  <1> USE DEF FdInv
  <1>1. IsCall(c) /\ (c.op # "open" => c.on \in Id)
    BY CallsAssumption DEF IsCall, HandlesOK
  <1>2. /\ pc' = First(c) /\ cur' = c /\ Room(c)
        /\ c.op # "open" => res[c.on].is \in Acts(c)
        /\ UNCHANGED <<start, fd, res, handed>>
    BY DEF Start
  <1>3. HandlesOK'
    BY <1>2 DEF HandlesOK, Inherited
  <1>5. Running'
    <2>1. CASE c.op = "open"
      BY <1>1, <1>2, <2>1 DEF Running, First, Room, FreeId
    <2>2. CASE c.op \in {"stream", "descriptor_fd"}
      BY <1>1, <1>2, <2>2, CallKinds DEF Running, First, Acts, Room, FreeId, MakesStream
    <2>3. CASE c.op \in {"write", "read", "hand"}
      BY <1>1, <1>2, <2>3 DEF Running, First, Acts
    <2> QED  BY <1>1, <2>1, <2>2, <2>3, CallKinds
  <1>6. Pending = {} /\ Pending' = {}
    BY <1>1, <1>2, CallKinds DEF Pending, First, Start
  <1> QED  BY <1>2, <1>3, <1>5, <1>6 DEF HandedAboveStdio, Inherited

(* A handle changes hands.                                                 *)
LEMMA HandleChanged ==
    ASSUME HandlesOK, UNCHANGED start, fd' \in [Fd -> Nat],
           NEW id \in Id, NEW w, res' = [res EXCEPT ![id] = w],
           DOMAIN w = Fields, w.is \in {"none", "desc", "dir", "in", "out"}
    PROVE  HandlesOK'
  <1>1. res'[id] = w /\ \A i \in Id : i # id => res'[i] = res[i]
    BY DEF HandlesOK
  <1>2. res' = [i \in Id |-> res'[i]]
    BY DEF HandlesOK
  <1> QED  BY <1>1, <1>2 DEF HandlesOK, Inherited

LEMMA OpenFileKeeps ==
    ASSUME FdInv, pc = "open", NEW f, NEW n \in Fd, fd[n] = NoFile,
           NEW i \in Files, NEW id \in Id, id = Lowest(FreeId), res[id].is = "none",
           OpenFile(f, n, i, id), UNCHANGED <<start, handed>>
    PROVE  FdInv'
  <1> USE DEF FdInv
  <1> DEFINE w == [Nobody EXCEPT !.is = "desc", !.fd = n]
  <1>1. DOMAIN w = Fields /\ w.is = "desc" /\ w.fd = n
    BY DEF Nobody, Fields
  <1>2. fd' = [fd EXCEPT ![n] = i] /\ res' = [res EXCEPT ![id] = w]
    BY DEF OpenFile
  <1> HIDE DEF w
  <1>3. i \in Nat /\ i # NoFile
    BY OpenFilesAssumption DEF Files, NoFile
  <1>4. fd' \in [Fd -> Nat]
    BY <1>2, <1>3 DEF HandlesOK
  <1>5. HandlesOK'
    BY <1>1, <1>2, <1>4, HandleChanged
  <1>6. Pending = {} /\ Pending' = {}
    BY DEF Pending, OpenFile
  <1>7. OneOwner(fd', res, Inherited, handed, {n})
    <2>1. OneOwner(fd', res, Inherited, handed, {} \cup {n})
      BY <1>2, <1>3, <1>6, Taken DEF HandlesOK
    <2> QED  BY <2>1
  <1>8. OneOwner(fd', res', Inherited, handed, {})
    <2>1. OneOwner(fd', res', Inherited, handed, {n} \ {n})
      BY <1>1, <1>2, <1>7, Given DEF HandlesOK, Owns
    <2> QED  BY <2>1
  <1>9. Running'
    <2>1. CASE cur.kind = "none"
      BY <2>1 DEF OpenFile, Running
    <2>2. CASE cur.kind # "none"
      <3>1. pc' = "clone" /\ cur' = [cur EXCEPT !.on = id]
        BY <2>2 DEF OpenFile
      <3>2. IsCall(cur) /\ cur.op = "open" /\ Room(cur)
        BY DEF Running
      <3>3. IsCall(cur') /\ cur'.op = "open" /\ cur'.kind = cur.kind /\ cur'.on = id
        BY <3>1, <3>2 DEF IsCall
      <3>4. MakesStream(cur)
        BY <2>2, <3>2, CallKinds DEF MakesStream
      <3>5. PICK j \in FreeId : j # id
        BY <3>2, <3>4 DEF Room
      <3>6. res'[j].is = "none" /\ res'[id].is = "desc"
        BY <1>1, <1>2, <3>5 DEF HandlesOK, FreeId
      <3>7. (FreeId # {})'
        BY <3>5, <3>6 DEF FreeId
      <3> QED  BY <2>2, <3>1, <3>3, <3>6, <3>7 DEF Running
    <2> QED  BY <2>1, <2>2
  <1> QED  BY <1>5, <1>6, <1>8, <1>9 DEF HandedAboveStdio, Inherited

LEMMA OpenKeeps ==
    ASSUME FdInv, Open
    PROVE  FdInv'
  <1> USE DEF FdInv
  <1>1. pc = "open" /\ UNCHANGED <<start, handed>> /\ Pending = {}
    BY DEF Open, Pending
  <1>2. CASE pc' = "idle" /\ UNCHANGED <<fd, res>>
    <2>1. HandlesOK' /\ Pending' = {} /\ Running'
      BY <1>1, <1>2 DEF HandlesOK, Inherited, Pending, Running
    <2> QED  BY <1>1, <1>2, <2>1 DEF HandedAboveStdio, Inherited
  <1>3. FreeId # {}
    BY <1>1 DEF Running, Room
  <1>4. Lowest(FreeId) \in Id /\ res[Lowest(FreeId)].is = "none"
    BY <1>3, LowestFree
  <1>5. CASE OpenDirectory(Lowest(FreeId))
    <2> DEFINE id == Lowest(FreeId)
               w  == [Nobody EXCEPT !.is = "dir"]
    <2>1. DOMAIN w = Fields /\ w.is = "dir"
      BY DEF Nobody, Fields
    <2>2. res' = [res EXCEPT ![id] = w] /\ UNCHANGED fd /\ pc' = "idle"
      BY <1>5 DEF OpenDirectory, Answer
    <2> HIDE DEF id, w
    <2>3. id \in Id /\ res[id].is = "none"
      BY <1>4 DEF id
    <2>4. HandlesOK'
      <3>1. fd' \in [Fd -> Nat]  BY <2>2 DEF HandlesOK
      <3> QED  BY <1>1, <2>1, <2>2, <2>3, <3>1, HandleChanged
    <2>5. \A i \in Id : ~ (i = id /\ (Owns(res, i) \/ Owns(res', i)))
                        /\ (i # id => res'[i] = res[i])
      BY <2>1, <2>2, <2>3 DEF Owns, HandlesOK
    <2>6. \A i \in Id : (Owns(res', i) <=> Owns(res, i))
                        /\ (Owns(res, i) => res'[i].fd = res[i].fd)
      BY <2>5 DEF Owns
    <2>7. OneOwner(fd, res', Inherited, handed, {})
      BY <1>1, <2>6, Kept
    <2>8. Pending' = {} /\ Running'
      BY <2>2 DEF Pending, Running
    <2> QED  BY <1>1, <2>2, <2>4, <2>7, <2>8 DEF HandedAboveStdio, Inherited
  <1>6. ASSUME NEW f \in OpenFlags(cur.flags), FreeFd(0) # {}, FreeFile # {},
               OpenFile(f, Lowest(FreeFd(0)), Lowest(FreeFile), Lowest(FreeId))
        PROVE  FdInv'
    <2>1. Lowest(FreeFd(0)) \in Fd /\ fd[Lowest(FreeFd(0))] = NoFile
      BY <1>6, LowestFree
    <2>2. Lowest(FreeFile) \in Files
      <3>1. FreeFile \in SUBSET Nat  BY DEF FreeFile, Files
      <3>2. Lowest(FreeFile) \in FreeFile  BY <1>6, <3>1, LowestIn
      <3> QED  BY <3>2 DEF FreeFile
    <2> QED  BY <1>1, <1>4, <1>6, <2>1, <2>2, OpenFileKeeps
  <1> QED  BY <1>2, <1>5, <1>6 DEF Open, Answer

(* The clone fails: an open that was to make a stream drops what it opened.*)
LEMMA CloneFailsKeeps ==
    ASSUME FdInv, pc = "clone", CloneFails(cur.on), Answer, UNCHANGED <<start, handed>>
    PROVE  FdInv'
  <1> USE DEF FdInv
  <1>1. Pending = {} /\ Pending' = {} /\ Running' /\ cur.on \in Id
    BY DEF Pending, Answer, Running
  <1>2. CASE cur.op = "open"
    <2>1. res[cur.on].is = "desc" /\ Owns(res, cur.on)
      BY <1>2 DEF Running, Owns
    <2>2. fd' = Without(fd, res[cur.on].fd) /\ res' = [res EXCEPT ![cur.on] = Nobody]
      BY <1>2 DEF CloneFails
    <2>3. OneOwner(fd', res', Inherited, handed, {})
      BY <1>1, <2>1, <2>2, Dropped DEF HandlesOK
    <2>4. HandlesOK'
      <3>1. fd' \in [Fd -> Nat]
        BY <2>2 DEF HandlesOK, Without, NoFile
      <3>2. DOMAIN Nobody = Fields /\ Nobody.is = "none"
        BY DEF Nobody, Fields
      <3> QED  BY <1>1, <2>2, <3>1, <3>2, HandleChanged
    <2> QED  BY <1>1, <2>3, <2>4 DEF HandedAboveStdio, Inherited
  <1>3. CASE cur.op # "open"
    BY <1>1, <1>3 DEF CloneFails, HandlesOK, HandedAboveStdio, Inherited
  <1> QED  BY <1>2, <1>3

LEMMA NewStreamKeeps ==
    ASSUME FdInv, pc = "clone", res[cur.on].is # "dir",
           NEW n \in Fd, fd[n] = NoFile, fd' = [fd EXCEPT ![n] = FileOf(cur.on)],
           NewStream(Lowest(FreeId), n), UNCHANGED <<start, handed>>
    PROVE  FdInv'
  <1> USE DEF FdInv
  <1> DEFINE id == Lowest(FreeId)
  <1>1. /\ IsCall(cur) /\ cur.on \in Id /\ Owns(res, cur.on)
        /\ cur.op \in {"open", "stream", "descriptor_fd"} /\ cur.kind # "none"
    BY DEF Running, Owns
  <1>2. FileOf(cur.on) \in Nat /\ FileOf(cur.on) # NoFile
    BY <1>1 DEF OneOwner, HandlesOK, FileOf
  <1>3. fd' \in [Fd -> Nat]
    BY <1>2 DEF HandlesOK
  <1>4. Pending = {}
    BY DEF Pending
  <1>5. OneOwner(fd', res, Inherited, handed, {n})
    <2>1. OneOwner(fd', res, Inherited, handed, {} \cup {n})
      BY <1>2, <1>4, Taken DEF HandlesOK
    <2> QED  BY <2>1
  <1>6. CASE cur.kind \in {"read", "append"}
    <2>1. id \in Id /\ res[id].is = "none"
      BY <1>6, LowestFree DEF Running, MakesStream
    <2>2. PICK w : res' = [res EXCEPT ![id] = w] /\ DOMAIN w = Fields
                   /\ w.is \in {"in", "out"} /\ w.fd = n
      <3>1. CASE cur.kind = "read"
        <4> DEFINE w == [Nobody EXCEPT !.is = "in", !.fd = n]
        <4>1. DOMAIN w = Fields /\ w.is = "in" /\ w.fd = n
          BY DEF Nobody, Fields
        <4>2. res' = [res EXCEPT ![id] = w]
          BY <3>1 DEF NewStream
        <4> QED  BY <4>1, <4>2
      <3>2. CASE cur.kind = "append"
        <4> DEFINE w == [Nobody EXCEPT !.is = "out", !.fd = n,
                                       !.end = ~file[FileOf(cur.on)].append]
        <4>1. DOMAIN w = Fields /\ w.is = "out" /\ w.fd = n
          BY DEF Nobody, Fields
        <4>2. res' = [res EXCEPT ![id] = w]
          BY <3>2 DEF NewStream
        <4> QED  BY <4>1, <4>2
      <3> QED  BY <1>6, <3>1, <3>2
    <2> HIDE DEF id
    <2>3. pc' = "idle"
      BY <1>6 DEF NewStream, Answer
    <2>4. OneOwner(fd', res', Inherited, handed, {})
      <3>1. OneOwner(fd', res', Inherited, handed, {n} \ {n})
        BY <1>5, <2>1, <2>2, Given DEF HandlesOK, Owns
      <3> QED  BY <3>1
    <2>5. HandlesOK'
      BY <1>3, <2>1, <2>2, HandleChanged
    <2> QED  BY <2>3, <2>4, <2>5 DEF HandedAboveStdio, Inherited, Pending, Running
  <1>7. CASE cur.kind \in {"offset", "hand"}
    <2>1. /\ cur' = [cur EXCEPT !.n = n] /\ res' = res
          /\ pc' = IF cur.kind = "offset" THEN "seek" ELSE "dup"
      BY <1>7 DEF NewStream
    <2>2. IsCall(cur') /\ cur'.op = cur.op /\ cur'.n = n
      BY <1>1, <2>1 DEF IsCall
    <2>3. cur.kind = "hand" => cur.op = "descriptor_fd"
      BY <1>1, CallKinds
    <2>4. Pending' = {n}
      BY <1>7, <2>1, <2>2, <2>3 DEF Pending
    <2>5. HandlesOK'
      BY <1>3, <2>1 DEF HandlesOK, Inherited
    <2>6. Running'
      BY <1>7, <2>1, <2>2, <2>3 DEF Running, MakesStream, FreeId
    <2> QED  BY <1>5, <2>1, <2>4, <2>5, <2>6 DEF HandedAboveStdio, Inherited
  <1> QED  BY <1>1, <1>6, <1>7, CallKinds

LEMMA CloneKeeps ==
    ASSUME FdInv, Clone
    PROVE  FdInv'
  <1>1. pc = "clone" /\ UNCHANGED <<start, handed>>
    BY DEF Clone
  <1>2. CASE res[cur.on].is = "dir" \/ FreeFd(FirstNonStdio) = {}
    BY <1>1, <1>2, CloneFailsKeeps DEF Clone
  <1>3. CASE res[cur.on].is # "dir" /\ FreeFd(FirstNonStdio) # {}
    <2> DEFINE n == Lowest(FreeFd(FirstNonStdio))
    <2>1. n \in Fd /\ fd[n] = NoFile
      BY <1>3, LowestFree DEF FirstNonStdio
    <2>2. fd' = [fd EXCEPT ![n] = FileOf(cur.on)] /\ NewStream(Lowest(FreeId), n)
      BY <1>3 DEF Clone
    <2> QED  BY <1>1, <1>3, <2>1, <2>2, NewStreamKeeps
  <1> QED  BY <1>2, <1>3

LEMMA SeekKeeps ==
    ASSUME FdInv, Seek
    PROVE  FdInv'
  <1> USE DEF FdInv
  <1> DEFINE id == Lowest(FreeId)
             w  == [Nobody EXCEPT !.is = "out", !.fd = cur.n]
  <1>1. id \in Id /\ res[id].is = "none"
    BY LowestFree DEF Running, Seek
  <1>2. DOMAIN w = Fields /\ w.is = "out" /\ w.fd = cur.n
    BY DEF Nobody, Fields
  <1>3. res' = [res EXCEPT ![id] = w] /\ pc' = "idle" /\ UNCHANGED <<start, fd, handed>>
    BY DEF Seek, Answer
  <1> HIDE DEF id, w
  <1>4. Pending = {cur.n}
    BY DEF Pending, Seek
  <1>5. OneOwner(fd, res', Inherited, handed, {})
    <2>1. OneOwner(fd, res', Inherited, handed, {cur.n} \ {cur.n})
      BY <1>1, <1>2, <1>3, <1>4, Given DEF HandlesOK, Owns
    <2> QED  BY <2>1
  <1>6. HandlesOK'
    <2>1. fd' \in [Fd -> Nat]  BY <1>3 DEF HandlesOK
    <2> QED  BY <1>1, <1>2, <1>3, <2>1, HandleChanged
  <1> QED  BY <1>3, <1>5, <1>6 DEF HandedAboveStdio, Inherited, Pending, Running

LEMMA SeekFailsKeeps ==
    ASSUME FdInv, SeekFails
    PROVE  FdInv'
  <1> USE DEF FdInv
  <1> DEFINE spent == Without(fd, cur.n)
  <1>1. pc = "seek" /\ pc' = "idle" /\ UNCHANGED <<start, handed>> /\ cur.on \in Id
    BY DEF SeekFails, Answer, Running
  <1>2. Pending = {cur.n} /\ Pending' = {} /\ Running'
    BY <1>1 DEF Pending, Running
  <1>3. spent \in [Fd -> Nat]
    BY DEF HandlesOK, Without, NoFile
  <1>4. OneOwner(spent, res, Inherited, handed, {})
    <2>1. OneOwner(spent, res, Inherited, handed \ {cur.n}, {cur.n} \ {cur.n})
      BY <1>2, Freed DEF HandlesOK
    <2>2. cur.n \notin handed
      BY <1>2 DEF OneOwner
    <2>3. handed \ {cur.n} = handed
      BY <2>2
    <2> QED  BY <2>1, <2>3
  <1>5. CASE cur.op = "open"
    <2>1. fd' = Without(spent, res[cur.on].fd) /\ res' = [res EXCEPT ![cur.on] = Nobody]
      BY <1>5 DEF SeekFails
    <2>2. Owns(res, cur.on)
      BY <1>1, <1>5 DEF Running, Owns
    <2> HIDE DEF spent
    <2>3. OneOwner(fd', res', Inherited, handed, {})
      BY <1>1, <1>3, <1>4, <2>1, <2>2, Dropped DEF HandlesOK
    <2>4. HandlesOK'
      <3>1. fd' \in [Fd -> Nat]
        BY <1>3, <2>1 DEF Without, NoFile
      <3>2. DOMAIN Nobody = Fields /\ Nobody.is = "none"
        BY DEF Nobody, Fields
      <3> QED  BY <1>1, <2>1, <3>1, <3>2, HandleChanged
    <2> QED  BY <1>1, <1>2, <2>3, <2>4 DEF HandedAboveStdio, Inherited
  <1>6. CASE cur.op # "open"
    <2>1. fd' = spent /\ res' = res
      BY <1>6 DEF SeekFails
    <2> HIDE DEF spent
    <2>2. HandlesOK'
      BY <1>1, <1>3, <2>1 DEF HandlesOK, Inherited
    <2> QED  BY <1>1, <1>2, <1>4, <2>1, <2>2 DEF HandedAboveStdio, Inherited
  <1> QED  BY <1>5, <1>6

LEMMA WriteKeeps ==
    ASSUME FdInv, SeekEnd \/ SeekEndFails \/ Write
    PROVE  FdInv'
  <1> USE DEF FdInv
  <1>1. IsCall(cur) /\ cur.op = "write" /\ pc \in {"end", "write"}
    BY DEF Running, SeekEnd, SeekEndFails, Write
  <1>2. UNCHANGED <<start, fd, res, handed>>
    BY DEF SeekEnd, SeekEndFails, Write
  <1>3. IsCall(cur') /\ cur'.op = "write" /\ pc' \in {"idle", "end", "write"}
    <2>1. CASE SeekEnd \/ SeekEndFails
      BY <1>1, <2>1 DEF SeekEnd, SeekEndFails, Answer
    <2>2. CASE Write
      <3>1. First(cur) \in {"end", "write"}
        BY <1>1 DEF First
      <3>2. pc' \in {"idle", First(cur)}
        BY <2>2 DEF Write, Answer
      <3>3. cur' = cur \/ \E k : cur' = [cur EXCEPT !.n = k]
        BY <2>2 DEF Write
      <3> QED  BY <1>1, <3>1, <3>2, <3>3 DEF IsCall
    <2> QED  BY <2>1, <2>2
  <1>4. Pending = {} /\ Pending' = {}
    BY <1>1, <1>3 DEF Pending
  <1>5. HandlesOK' /\ Running'
    BY <1>2, <1>3 DEF HandlesOK, Running, Inherited
  <1> QED  BY <1>2, <1>4, <1>5 DEF HandedAboveStdio, Inherited

LEMMA ReadKeeps ==
    ASSUME FdInv, Read
    PROVE  FdInv'
  <1> USE DEF FdInv
  <1>1. /\ pc = "read" /\ pc' = "idle" /\ cur.on \in Id /\ res[cur.on].is = "in"
        /\ UNCHANGED <<start, fd, handed>>
    BY DEF Read, Answer, Running
  <1>2. res' = res \/ \E rest : res' = [res EXCEPT ![cur.on].buf = rest]
    BY DEF Read
  <1>3. PICK r : (r = res[cur.on] \/ \E rest : r = [res[cur.on] EXCEPT !.buf = rest])
                 /\ res' = [res EXCEPT ![cur.on] = r]
    <2>1. CASE res' = res
      <3>1. res' = [res EXCEPT ![cur.on] = res[cur.on]]
        BY <1>1, <2>1 DEF HandlesOK
      <3> QED  BY <3>1
    <2>2. CASE \E rest : res' = [res EXCEPT ![cur.on].buf = rest]
      BY <2>2
    <2> QED  BY <1>2, <2>1, <2>2
  <1>4. DOMAIN r = Fields /\ r.is = "in" /\ r.fd = res[cur.on].fd
    BY <1>1, <1>3 DEF HandlesOK, Fields
  <1>5. HandlesOK'
    <2>1. fd' \in [Fd -> Nat]  BY <1>1 DEF HandlesOK
    <2> QED  BY <1>1, <1>3, <1>4, <2>1, HandleChanged
  <1>6. \A i \in Id : (Owns(res', i) <=> Owns(res, i)) /\ res'[i].fd = res[i].fd
    BY <1>1, <1>3, <1>4 DEF Owns, HandlesOK
  <1>7. OneOwner(fd, res', Inherited, handed, {})
    <2>1. Pending = {}  BY <1>1 DEF Pending
    <2> QED  BY <1>6, <2>1, Kept
  <1> QED  BY <1>1, <1>5, <1>7 DEF HandedAboveStdio, Inherited, Pending, Running

LEMMA DupKeeps ==
    ASSUME FdInv, Dup
    PROVE  FdInv'
  <1> USE DEF FdInv
  <1>1. pc = "dup" /\ pc' = "idle" /\ UNCHANGED <<start, res>> /\ IsCall(cur)
    BY DEF Dup, Answer, Running
  <1>2. Running' /\ Pending' = {}
    BY <1>1 DEF Running, Pending
  <1>3. Source \in Fd /\ fd[Source] # NoFile
    <2>1. CASE cur.op = "descriptor_fd"
      BY <1>1, <2>1 DEF Source, Pending, OneOwner
    <2>2. CASE cur.op = "hand" /\ cur.on \in Id /\ res[cur.on].is \in {"in", "out"}
      BY <2>2 DEF Source, Owns, OneOwner
    <2>3. CASE cur.op = "hand" /\ cur.on \in Id /\ res[cur.on].is = "std"
      <3>1. 1 \in Inherited /\ Inherited \subseteq Fd
        BY <2>3, OpenFilesAssumption DEF HandlesOK, Inherited
      <3> QED  BY <2>3, <3>1 DEF Source, HandlesOK, OneOwner
    <2> QED  BY <1>1, <2>1, <2>2, <2>3 DEF Running
  (* The duplicate, if there is one, then the call's own number is closed. *)
  <1>4. PICK f, out : /\ f \in [Fd -> Nat] /\ fd' = Spent(f) /\ handed' = out
                      /\ OneOwner(f, res, Inherited, out, Pending)
                      /\ \A n \in out : n >= FirstNonStdio
    <2>1. CASE UNCHANGED handed /\ fd' = Spent(fd)
      BY <2>1 DEF HandlesOK, HandedAboveStdio
    <2>2. CASE ~ (DupNumbers = {} \/ (cur.op = "hand" /\ res[cur.on].end))
      <3> DEFINE n == Lowest(DupNumbers)
                 f == [fd EXCEPT ![n] = fd[Source]]
      <3>1. n \in Fd /\ n >= FirstNonStdio /\ fd[n] = NoFile
        BY <2>2, LowestFree DEF DupNumbers, FirstNonStdio
      <3>2. handed' = handed \cup {n} /\ fd' = Spent(f)
        BY <2>2 DEF Dup, HandDup
      <3> HIDE DEF n
      <3>3. f \in [Fd -> Nat]
        BY <1>3 DEF HandlesOK
      <3>4. OneOwner(f, res, Inherited, handed, Pending \cup {n})
        <4>1. fd[Source] \in Nat  BY <1>3 DEF HandlesOK
        <4> QED  BY <1>3, <3>1, <4>1, Taken DEF HandlesOK
      <3>5. OneOwner(f, res, Inherited, handed \cup {n}, Pending)
        <4>1. n \notin Pending
          BY <3>1 DEF OneOwner
        <4>2. (Pending \cup {n}) \ {n} = Pending
          BY <4>1
        <4>3. OneOwner(f, res, Inherited, handed \cup {n}, (Pending \cup {n}) \ {n})
          BY <3>4, HandedOut
        <4> QED  BY <4>2, <4>3
      <3> QED  BY <3>1, <3>2, <3>3, <3>5 DEF HandedAboveStdio
    <2> QED  BY <2>1, <2>2 DEF Dup
  <1>5. OneOwner(fd', res, Inherited, out, {}) /\ fd' \in [Fd -> Nat]
    <2>1. CASE cur.op = "descriptor_fd"
      <3>1. Pending = {cur.n} /\ cur.n \notin out
        BY <1>1, <1>4, <2>1 DEF Pending, OneOwner
      <3>2. out \ {cur.n} = out /\ {cur.n} \ {cur.n} = {}
        BY <3>1
      <3>3. OneOwner(Without(f, cur.n), res, Inherited, out \ {cur.n}, {cur.n} \ {cur.n})
        BY <1>4, <3>1, Freed
      <3>4. Without(f, cur.n) \in [Fd -> Nat]
        BY <1>4 DEF Without, NoFile
      <3> QED  BY <1>4, <2>1, <3>2, <3>3, <3>4 DEF Spent
    <2>2. CASE cur.op # "descriptor_fd"
      BY <1>1, <1>4, <2>2 DEF Spent, Pending
    <2> QED  BY <2>1, <2>2
  <1>6. HandlesOK'
    BY <1>1, <1>5 DEF HandlesOK, Inherited
  <1> QED  BY <1>1, <1>2, <1>4, <1>5, <1>6 DEF HandedAboveStdio, Inherited

-----------------------------------------------------------------------------
(* What the app does with what it holds, between calls.                    *)

LEMMA LetGoKeeps ==
    ASSUME FdInv, NEW n \in handed, CloseFd(n) \/ Spawn(n)
    PROVE  FdInv'
  <1> USE DEF FdInv
  <1>1. /\ pc = "idle" /\ UNCHANGED <<start, res, pc, cur>>
        /\ handed' = handed \ {n} /\ fd' = Without(fd, n)
    BY DEF CloseFd, Spawn
  <1>2. Pending = {} /\ Pending' = {}
    BY <1>1 DEF Pending
  <1>3. OneOwner(fd', res, Inherited, handed', {})
    <2>1. OneOwner(fd', res, Inherited, handed', {} \ {n})
      BY <1>1, <1>2, Freed DEF HandlesOK
    <2> QED  BY <2>1
  <1>4. HandlesOK' /\ Running'
    BY <1>1 DEF HandlesOK, Running, Without, NoFile, Inherited
  <1>5. HandedAboveStdio'
    BY <1>1 DEF HandedAboveStdio
  <1> QED  BY <1>1, <1>2, <1>3, <1>4, <1>5 DEF Inherited

LEMMA GetStdoutKeeps ==
    ASSUME FdInv, GetStdout
    PROVE  FdInv'
  <1> USE DEF FdInv
  <1> DEFINE id == Lowest(FreeId)
             w  == [Nobody EXCEPT !.is = "std", !.fd = 1]
  <1>1. id \in Id /\ res[id].is = "none"
    BY LowestFree DEF GetStdout
  <1>2. DOMAIN w = Fields /\ w.is = "std" /\ w.fd = 1
    BY DEF Nobody, Fields
  <1>3. /\ res' = [res EXCEPT ![id] = w] /\ pc = "idle" /\ 1 \in Inherited
        /\ UNCHANGED <<start, fd, handed, pc>>
    BY DEF GetStdout
  <1> HIDE DEF id, w
  <1>4. /\ res'[id] = w /\ \A i \in Id : i # id => res'[i] = res[i]
        /\ res' = [i \in Id |-> res'[i]]
    BY <1>1, <1>3 DEF HandlesOK
  <1>5. HandlesOK'
    BY <1>2, <1>3, <1>4 DEF HandlesOK, Inherited
  <1>6. \A i \in Id : (Owns(res', i) <=> Owns(res, i)) /\ (Owns(res, i) => res'[i].fd = res[i].fd)
    BY <1>1, <1>2, <1>4 DEF Owns
  <1>7. Pending = {} /\ Pending' = {} /\ Running'
    BY <1>3 DEF Pending, Running
  <1>8. OneOwner(fd, res', Inherited, handed, {})
    BY <1>6, <1>7, Kept
  <1> QED  BY <1>3, <1>5, <1>7, <1>8 DEF HandedAboveStdio, Inherited

LEMMA DropKeeps ==
    ASSUME FdInv, NEW id \in Id, Drop(id)
    PROVE  FdInv'
  <1> USE DEF FdInv
  <1>1. /\ pc = "idle" /\ UNCHANGED <<start, handed, pc>>
        /\ res' = [res EXCEPT ![id] = Nobody] /\ res[id].is # "none"
        /\ fd' = IF res[id].is \in {"std", "dir"} THEN fd ELSE Without(fd, res[id].fd)
    BY DEF Drop
  <1>2. DOMAIN Nobody = Fields /\ Nobody.is = "none"
    BY DEF Nobody, Fields
  <1>3. HandlesOK'
    <2>1. fd' \in [Fd -> Nat]
      BY <1>1 DEF HandlesOK, Without, NoFile
    <2> QED  BY <1>1, <1>2, <2>1, HandleChanged
  <1>4. Pending = {} /\ Pending' = {} /\ Running'
    BY <1>1 DEF Pending, Running
  <1>5. OneOwner(fd', res', Inherited, handed, {})
    <2>1. CASE res[id].is \in {"std", "dir"}
      <3>1. \A i \in Id : (Owns(res', i) <=> Owns(res, i))
                          /\ (Owns(res, i) => res'[i].fd = res[i].fd)
        BY <1>1, <1>2, <2>1 DEF Owns, HandlesOK
      <3> QED  BY <1>1, <1>4, <2>1, <3>1, Kept
    <2>2. CASE res[id].is \notin {"std", "dir"}
      <3>1. Owns(res, id) /\ fd' = Without(fd, res[id].fd)
        BY <1>1, <2>2 DEF Owns, HandlesOK
      <3> QED  BY <1>1, <1>4, <3>1, Dropped DEF HandlesOK
    <2> QED  BY <2>1, <2>2
  <1> QED  BY <1>1, <1>3, <1>4, <1>5 DEF HandedAboveStdio, Inherited

(* The child and the other program have no part in it.                     *)
LEMMA OthersKeep ==
    ASSUME FdInv, UNCHANGED <<start, fd, res, handed, pc, cur>>
    PROVE  FdInv'
  <1>1. HandlesOK'
    BY DEF FdInv, HandlesOK, Inherited
  <1>2. Running'
    BY DEF FdInv, Running, Room, FreeId
  <1>3. Pending' = Pending
    BY DEF Pending
  <1> QED  BY <1>1, <1>2, <1>3 DEF FdInv, HandedAboveStdio, Inherited

-----------------------------------------------------------------------------
LEMMA InitFdInv == Init => FdInv
  <1> SUFFICES ASSUME Init  PROVE FdInv
    OBVIOUS
  <1>1. HandlesOK
    <2>1. \A i \in Id : DOMAIN res[i] = Fields /\ res[i].is = "none"
      BY DEF Init, Nobody, Fields
    <2>2. fd \in [Fd -> Nat]
      BY OpenFilesAssumption DEF Init, Std, NoFile
    <2>3. res = [i \in Id |-> res[i]] /\ start \in Starts
      BY DEF Init
    <2> QED  BY <2>1, <2>2, <2>3 DEF HandlesOK
  <1>2. Running /\ Pending = {} /\ HandedAboveStdio
    BY DEF Init, Running, Pending, HandedAboveStdio
  <1>3. OneOwner(fd, res, Inherited, handed, {})
    <2>1. \A i \in Id : ~ Owns(res, i)
      BY DEF Init, Owns, Nobody
    <2>2. Inherited \subseteq Fd /\ Std # NoFile
      BY OpenFilesAssumption DEF Init, Inherited, Std, NoFile
    <2>3. handed = {} /\ \A n \in Fd : fd[n] # NoFile <=> n \in Inherited
      BY <2>2 DEF Init
    <2> QED  BY <2>1, <2>2, <2>3 DEF OneOwner
  <1> QED  BY <1>1, <1>2, <1>3 DEF FdInv

LEMMA NextFdInv == FdInv /\ [Next]_vars => FdInv'
  <1> SUFFICES ASSUME FdInv, [Next]_vars  PROVE FdInv'
    OBVIOUS
  <1>1. ASSUME NEW c \in start.calls, Start(c)  PROVE FdInv'
    BY <1>1, StartKeeps
  <1>2. CASE Open \/ Clone \/ Seek \/ SeekFails
    BY <1>2, OpenKeeps, CloneKeeps, SeekKeeps, SeekFailsKeeps
  <1>3. CASE SeekEnd \/ SeekEndFails \/ Write \/ Read \/ Dup
    BY <1>3, WriteKeeps, ReadKeeps, DupKeeps
  <1>4. ASSUME NEW n \in handed, CloseFd(n) \/ Spawn(n)  PROVE FdInv'
    BY <1>4, LetGoKeeps
  <1>5. CASE GetStdout
    BY <1>5, GetStdoutKeeps
  <1>6. ASSUME NEW i \in Id, Drop(i)  PROVE FdInv'
    BY <1>6, DropKeeps
  <1>7. ASSUME NEW i \in child, ChildWrites(i) \/ ChildReads(i)  PROVE FdInv'
    BY <1>7, OthersKeep DEF ChildWrites, ChildReads
  <1>8. CASE OtherAppends
    BY <1>8, OthersKeep DEF OtherAppends
  <1>9. CASE UNCHANGED vars
    BY <1>9, OthersKeep DEF vars
  <1> QED  BY <1>1, <1>2, <1>3, <1>4, <1>5, <1>6, <1>7, <1>8, <1>9 DEF Next

LEMMA FdInvAlways == Spec => []FdInv
  <1> QED  BY InitFdInv, NextFdInv, PTL DEF Spec

(* FdHandoff never gives out 0, 1 or 2, so that setting up a child's stdio *)
(* cannot close what it was given, not even in an app started with one of  *)
(* them closed (sync-io lib.rs:102-105).                                   *)
THEOREM HandedAlwaysAboveStdio == Spec => []HandedAboveStdio
  <1>1. FdInv => HandedAboveStdio
    BY DEF FdInv
  <1> QED  BY <1>1, FdInvAlways, PTL

(* Between calls every open descriptor has one owner, so no failed call    *)
(* leaks one and no drop closes another owner's (FdHandoff.roc:14-18,      *)
(* fs-core lib.rs:432-434).                                                *)
THEOREM FdsAlwaysHaveOneOwner == Spec => []FdsHaveOneOwner
  <1>1. FdInv => FdsHaveOneOwner
    <2> SUFFICES ASSUME FdInv, pc = "idle"
                 PROVE  LET owned == {res[i].fd : i \in {j \in Id : Owned(j)}}
                        IN  /\ {n \in Fd : fd[n] # NoFile} = Inherited \cup owned \cup handed
                            /\ Inherited \cap owned = {} /\ Inherited \cap handed = {}
                            /\ owned \cap handed = {}
                            /\ \A i, j \in Id : Owned(i) /\ Owned(j) /\ i # j
                                                => res[i].fd # res[j].fd
      BY DEF FdsHaveOneOwner
    <2>1. OneOwner(fd, res, Inherited, handed, {})
      BY DEF FdInv, Pending
    <2>2. \A i \in Id : Owned(i) <=> Owns(res, i)
      BY DEF Owned, Owns
    <2>3. Inherited \subseteq Fd
      BY OpenFilesAssumption DEF FdInv, HandlesOK, Inherited
    <2> DEFINE owned == {res[i].fd : i \in {j \in Id : Owned(j)}}
    <2>4. \A n : n \in owned <=> \E i \in Id : Owns(res, i) /\ res[i].fd = n
      BY <2>2
    <2> HIDE DEF owned
    <2>5. {n \in Fd : fd[n] # NoFile} = Inherited \cup owned \cup handed
      BY <2>1, <2>3, <2>4 DEF OneOwner
    <2>6. Inherited \cap owned = {} /\ Inherited \cap handed = {} /\ owned \cap handed = {}
      BY <2>1, <2>4 DEF OneOwner
    <2>7. \A i, j \in Id : Owned(i) /\ Owned(j) /\ i # j => res[i].fd # res[j].fd
      BY <2>1, <2>2 DEF OneOwner
    <2> QED  BY <2>5, <2>6, <2>7 DEF owned
  <1> QED  BY <1>1, FdInvAlways, PTL


-----------------------------------------------------------------------------
(* What is in the file, and where cursors are.                             *)

(* An open file that has had no run since it was closed is closed.         *)
Cells == [by : {"old", "app", "child", "other", "none"}, run : Nat]
OpenAs(pos, app, rd, wr, asked, run) ==
    [pos |-> pos, append |-> app, read |-> rd, write |-> wr, opened |-> asked, run |-> run]
IsFile(x, rr) ==
    /\ x = OpenAs(x.pos, x.append, x.read, x.write, x.opened, x.run)
    /\ x.pos \in Nat /\ x.run \in Nat /\ x.run <= rr
    /\ x.append = x.opened
    /\ x.run = 0 => x = Closed

(* No two open files are in one run, and what a run wrote is behind the    *)
(* cursor that wrote it.                                                   *)
Sound(f, d, rr) ==
    /\ rr \in Nat /\ d \in Seq(Cells)
    /\ f = [i \in Files |-> f[i]]
    /\ \A i \in Files : IsFile(f[i], rr)
    /\ \A i, j \in Files : i # j /\ f[i].run = f[j].run => f[i].run = 0
    /\ \A k \in 1..Len(d) : d[k].run <= rr
    /\ \A i \in Files : \A k \in 1..Len(d) :
          f[i].run # 0 /\ d[k].run = f[i].run => k <= f[i].pos

(* So is a byte that was read.                                             *)
Places == [run : Nat, ix : Nat]
Past(f, rr, x) ==
    /\ x \in Places /\ x.run # 0 /\ x.run <= rr
    /\ \A i \in Files : f[i].run = x.run => x.ix <= f[i].pos

(* What was told and what streams hold are places behind the cursors, each *)
(* in one share.                                                           *)
Distinct(s)    == \A j, k \in 1..Len(s) : j # k => s[j] # s[k]
Disjoint(s, u) == \A j \in 1..Len(s) : \A k \in 1..Len(u) : s[j] # u[k]
Behind(f, rr, s) == s \in Seq(Places) /\ \A k \in 1..Len(s) : Past(f, rr, s[k])
Shares(f, rr, said, r) ==
    /\ Behind(f, rr, said) /\ Distinct(said)
    /\ \A i \in Id : /\ Behind(f, rr, r[i].buf) /\ Distinct(r[i].buf)
                     /\ Disjoint(said, r[i].buf)
    /\ \A i, j \in Id : i # j => Disjoint(r[i].buf, r[j].buf)

(* A number that is a resource's, or the running call's, is of an open     *)
(* file; only what was inherited or handed out may be something else.      *)
OwnFiles ==
    /\ \A n \in Fd \ (Inherited \cup handed) : fd[n] \in Files \cup {NoFile}
    /\ child \subseteq Files

(* What a write knows: it is of an output stream, and a stream that writes *)
(* at the end is there, unless another process has written since.          *)
Writing ==
    /\ others \in Nat
    /\ pc # "idle" => cur.off \in Nat /\ cur.n \in Nat
    /\ pc \in {"end", "write"} => cur.on \in Id /\ res[cur.on].is = "out"
    /\ pc = "write" /\ res[cur.on].end /\ ~moved /\ Seekable => file[FileOf(cur.on)].pos = Len(data)

DataInv ==
    /\ Sound(file, data, runs)
    /\ Shares(file, runs, told, res)
    /\ OwnFiles /\ Writing


-----------------------------------------------------------------------------
(* How runs go on.  File i of f becomes one with a new run, or goes on     *)
(* with its own, and the others stay.                                      *)
Goes(f, g, rr, r1, i) ==
    /\ g = [j \in Files |-> g[j]] /\ \A j \in Files \ {i} : g[j] = f[j]
    /\ IsFile(g[i], r1)
    /\ \/ r1 = rr + 1 /\ g[i].run = r1
       \/ r1 = rr /\ g[i].run = f[i].run /\ g[i].pos >= f[i].pos

(* The runs stay apart, when what was written stays, is gone, or is of the *)
(* run that goes on and behind its cursor.                                 *)
LEMMA GoesSound ==
    ASSUME NEW f, NEW d, NEW rr, Sound(f, d, rr), NEW i \in Files,
           NEW g, NEW r1, Goes(f, g, rr, r1, i), NEW d1 \in Seq(Cells),
           \A k \in 1..Len(d1) : \/ k \in 1..Len(d) /\ d1[k] = d[k]
                                 \/ d1[k].run = 0
                                 \/ d1[k].run = g[i].run /\ k <= g[i].pos
    PROVE  Sound(g, d1, r1)
  <1>1. rr \in Nat /\ r1 \in Nat /\ rr <= r1
    BY DEF Sound, Goes
  <1>2. \A j \in Files : /\ f[j].run \in Nat /\ f[j].run <= rr /\ f[j].pos \in Nat
                         /\ g[j].run \in Nat /\ g[j].run <= r1 /\ g[j].pos \in Nat
    BY <1>1 DEF Sound, Goes, IsFile
  <1>3. \A j \in Files : IsFile(g[j], r1)
    BY <1>1, <1>2 DEF Sound, Goes, IsFile
  <1>4. \A j \in Files \ {i} : g[j].run = f[j].run /\ g[j].pos = f[j].pos
    BY DEF Goes
  <1>5. \/ r1 = rr + 1 /\ g[i].run = r1
        \/ r1 = rr /\ g[i].run = f[i].run /\ g[i].pos >= f[i].pos
    BY DEF Goes
  <1>6. \A j, k \in Files : j # k /\ f[j].run = f[k].run => f[j].run = 0
    BY DEF Sound
  <1>7. \A j, k \in Files : j # k /\ g[j].run = g[k].run => g[j].run = 0
    BY <1>1, <1>2, <1>4, <1>5, <1>6
  <1>8. \A k \in 1..Len(d) : d[k].run \in Nat /\ d[k].run <= rr
    <2>1. \A k \in 1..Len(d) : d[k] \in Cells
      BY ElementOfSeq DEF Sound
    <2> QED  BY <2>1 DEF Sound, Cells
  <1>9. ASSUME NEW k \in 1..Len(d1)
        PROVE  /\ d1[k].run <= r1
               /\ \A j \in Files : g[j].run # 0 /\ d1[k].run = g[j].run => k <= g[j].pos
    <2>1. CASE k \in 1..Len(d) /\ d1[k] = d[k]
      <3>1. \A j \in Files : f[j].run # 0 /\ d[k].run = f[j].run => k <= f[j].pos
        BY <2>1 DEF Sound
      <3>2. k \in Nat /\ d1[k].run = d[k].run /\ d[k].run \in Nat /\ d[k].run <= rr
        BY <1>8, <2>1
      <3>3. \A j \in Files \ {i} : g[j].run # 0 /\ d[k].run = g[j].run => k <= g[j].pos
        BY <1>4, <3>1
      <3>4. g[i].run # 0 /\ d[k].run = g[i].run => k <= g[i].pos
        <4> SUFFICES ASSUME g[i].run # 0, d[k].run = g[i].run  PROVE k <= g[i].pos
          OBVIOUS
        <4>1. g[i].run = f[i].run /\ g[i].pos >= f[i].pos
          BY <1>1, <1>5, <3>2
        <4>2. k <= f[i].pos
          BY <3>1, <4>1
        <4>3. f[i].pos \in Nat /\ g[i].pos \in Nat
          BY <1>2
        <4> QED  BY <3>2, <4>1, <4>2, <4>3
      <3> QED  BY <1>1, <3>2, <3>3, <3>4
    <2>2. CASE d1[k].run = 0
      BY <1>1, <2>2
    <2>3. CASE d1[k].run = g[i].run /\ k <= g[i].pos
      BY <1>2, <1>7, <2>3
    <2> QED  BY <1>9, <2>1, <2>2, <2>3
  <1>10. g = [j \in Files |-> g[j]]
    BY DEF Goes
  <1> QED  BY <1>1, <1>3, <1>7, <1>9, <1>10 DEF Sound

(* What was read stays behind the cursors.                                 *)
LEMMA GoesPast ==
    ASSUME NEW f, NEW d, NEW rr, Sound(f, d, rr), NEW i \in Files,
           NEW g, NEW r1, Goes(f, g, rr, r1, i), NEW x, Past(f, rr, x)
    PROVE  Past(g, r1, x)
  <1>1. rr \in Nat /\ r1 \in Nat /\ rr <= r1 /\ x.run \in Nat /\ x.ix \in Nat
    BY DEF Sound, Goes, Past, Places
  <1>2. \A j \in Files : f[j].pos \in Nat /\ g[j].pos \in Nat
    BY DEF Sound, Goes, IsFile
  <1>3. \A j \in Files \ {i} : g[j].run = f[j].run /\ g[j].pos = f[j].pos
    BY DEF Goes
  <1>4. \/ r1 = rr + 1 /\ g[i].run = r1
        \/ r1 = rr /\ g[i].run = f[i].run /\ g[i].pos >= f[i].pos
    BY DEF Goes
  <1>5. x \in Places /\ x.run # 0 /\ x.run <= rr
        /\ \A j \in Files : f[j].run = x.run => x.ix <= f[j].pos
    BY DEF Past
  <1>6. \A j \in Files : g[j].run = x.run => x.ix <= g[j].pos
    BY <1>1, <1>2, <1>3, <1>4, <1>5
  <1>7. x.run <= r1
    BY <1>1, <1>5
  <1> QED  BY <1>5, <1>6, <1>7 DEF Past

(* Closing some of the files leaves the rest.                              *)
Closing(f, g) == g = [j \in Files |-> g[j]] /\ \A j \in Files : g[j] \in {f[j], Closed}
LEMMA ClosingSound ==
    ASSUME NEW f, NEW d, NEW rr, Sound(f, d, rr), NEW g, Closing(f, g)
    PROVE  /\ Sound(g, d, rr)
           /\ \A x : Past(f, rr, x) => Past(g, rr, x)
  <1>1. Closed.run = 0 /\ IsFile(Closed, rr)
    BY DEF Closed, IsFile, OpenAs, Sound
  <1>2. \A j \in Files : IsFile(g[j], rr) /\ (g[j].run # 0 => g[j] = f[j])
    BY <1>1 DEF Closing, Sound
  <1>3. \A j, k \in Files : j # k /\ g[j].run = g[k].run => g[j].run = 0
    BY <1>2 DEF Sound
  <1>4. Sound(g, d, rr)
    BY <1>2, <1>3 DEF Sound, Closing
  <1>5. \A x : Past(f, rr, x) => Past(g, rr, x)
    BY <1>2 DEF Past
  <1> QED  BY <1>4, <1>5


(* Shares: a byte newly read is in none of them, and one that is told, or  *)
(* lost with a stream, leaves the rest apart.                              *)
LEMMA SharesGo ==
    ASSUME NEW f, NEW rr, NEW g, NEW r1, \A x : Past(f, rr, x) => Past(g, r1, x),
           NEW said, NEW r, Shares(f, rr, said, r),
           NEW s, \A i \in Id : s[i].buf = r[i].buf \/ s[i].buf = <<>>
    PROVE  Shares(g, r1, said, s)
  <1>1. \A u : Behind(f, rr, u) => Behind(g, r1, u)
    BY DEF Behind
  <1>2. Behind(g, r1, <<>>) /\ Distinct(<<>>) /\ \A u : Disjoint(u, <<>>) /\ Disjoint(<<>>, u)
    <2>1. <<>> \in Seq(Places) /\ Len(<<>>) = 0  OBVIOUS
    <2>2. 1..0 = {}  OBVIOUS
    <2> QED  BY <2>1, <2>2 DEF Behind, Distinct, Disjoint
  <1>3. Behind(g, r1, said) /\ Distinct(said)
    BY <1>1 DEF Shares
  <1>4. ASSUME NEW i \in Id
        PROVE  Behind(g, r1, s[i].buf) /\ Distinct(s[i].buf) /\ Disjoint(said, s[i].buf)
    <2>1. CASE s[i].buf = r[i].buf
      BY <1>1, <2>1 DEF Shares
    <2>2. CASE s[i].buf = <<>>
      BY <1>2, <2>2
    <2> QED  BY <1>4, <2>1, <2>2
  <1>5. ASSUME NEW i \in Id, NEW j \in Id, i # j
        PROVE  Disjoint(s[i].buf, s[j].buf)
    <2>1. CASE s[i].buf = r[i].buf /\ s[j].buf = r[j].buf
      BY <1>5, <2>1 DEF Shares
    <2>2. CASE s[i].buf = <<>> \/ s[j].buf = <<>>
      BY <1>2, <2>2
    <2> QED  BY <1>4, <1>5, <2>1, <2>2
  <1> QED  BY <1>3, <1>4, <1>5 DEF Shares

(* What has been got is told in front and kept behind.                     *)
Apart(f, rr, said, r, id, got) ==
    /\ Behind(f, rr, got) /\ Distinct(got) /\ Disjoint(said, got)
    /\ \A j \in Id \ {id} : Disjoint(r[j].buf, got)
Keeping(r, s, id, v) == s[id].buf = v /\ \A j \in Id \ {id} : s[j].buf = r[j].buf

LEMMA SharesRead ==
    ASSUME NEW f, NEW rr, NEW said, NEW r, Shares(f, rr, said, r), NEW id \in Id,
           NEW got, Apart(f, rr, said, r, id, got),
           NEW n \in 0..Len(got), NEW u, u = SubSeq(got, 1, n),
           NEW v, v = SubSeq(got, n + 1, Len(got)),
           NEW s, Keeping(r, s, id, v), NEW said1, said1 = said \o u
    PROVE  Shares(f, rr, said1, s)
  <1>0. /\ Behind(f, rr, got) /\ Distinct(got) /\ Disjoint(said, got)
        /\ \A j \in Id \ {id} : Disjoint(r[j].buf, got)
        /\ s[id].buf = v /\ \A j \in Id \ {id} : s[j].buf = r[j].buf
    BY DEF Apart, Keeping
  <1> USE <1>0
  <1>1. /\ u \in Seq(Places) /\ v \in Seq(Places) /\ Len(u) = n /\ Len(v) = Len(got) - n
        /\ \A k \in 1..Len(u) : k \in 1..Len(got) /\ u[k] = got[k]
        /\ \A k \in 1..Len(v) : n + k \in 1..Len(got) /\ v[k] = got[n + k]
    <2>1. got \in Seq(Places) /\ Len(got) \in Nat /\ n \in Nat /\ n <= Len(got)
      BY LenProperties DEF Behind
    <2>2. u \in Seq(Places) /\ Len(u) = n /\ \A k \in 1..n : u[k] = got[k]
      BY <2>1
    <2>3. /\ v \in Seq(Places) /\ Len(v) = Len(got) - n
          /\ \A k \in 1..(Len(got) - n) : v[k] = got[n + k]
      BY <2>1
    <2>4. \A k \in 1..Len(u) : k \in 1..Len(got) /\ u[k] = got[k]
      BY <2>1, <2>2
    <2>5. \A k \in 1..Len(v) : n + k \in 1..Len(got) /\ v[k] = got[n + k]
      BY <2>1, <2>3
    <2> QED  BY <2>2, <2>3, <2>4, <2>5
  <1>2. Len(got) \in Nat /\ n \in Nat /\ said \in Seq(Places) /\ Len(said) \in Nat
    BY LenProperties DEF Behind, Shares
  <1>3. /\ said1 \in Seq(Places) /\ Len(said1) = Len(said) + n
        /\ \A k \in 1..Len(said) : said1[k] = said[k]
        /\ \A k \in 1..n : said1[Len(said) + k] = u[k]
    <2>1. /\ said1 \in Seq(Places) /\ Len(said1) = Len(said) + Len(u)
          /\ \A k \in 1..Len(said) + Len(u) :
                said1[k] = IF k <= Len(said) THEN said[k] ELSE u[k - Len(said)]
      BY <1>1, <1>2, ConcatProperties
    <2>2. \A k \in 1..Len(said) : said1[k] = said[k]
      BY <1>1, <1>2, <2>1
    <2>3. ASSUME NEW k \in 1..n
          PROVE  said1[Len(said) + k] = u[k]
      <3>1. Len(said) + k \in 1..Len(said) + Len(u) /\ ~ (Len(said) + k <= Len(said))
            /\ (Len(said) + k) - Len(said) = k
        BY <1>1, <1>2
      <3>2. said1[Len(said) + k] = u[(Len(said) + k) - Len(said)]
        BY <2>1, <3>1, Zenon
      <3> QED  BY <3>1, <3>2, Zenon
    <2> QED  BY <1>1, <2>1, <2>2, <2>3
  <1>4. \A k \in 1..Len(said1) : \/ k \in 1..Len(said) /\ said1[k] = said[k]
                                 \/ k - Len(said) \in 1..n /\ said1[k] = got[k - Len(said)]
    <2> TAKE k \in 1..Len(said1)
    <2>1. CASE k \in 1..Len(said)
      BY <1>3, <2>1
    <2>2. CASE k \notin 1..Len(said)
      <3>1. k - Len(said) \in 1..n /\ Len(said) + (k - Len(said)) = k
        BY <1>2, <1>3, <2>2
      <3> QED  BY <1>1, <1>3, <3>1
    <2> QED  BY <2>1, <2>2
  <1>5. 1..n \subseteq 1..Len(got)
    BY <1>2
  <1>6. Behind(f, rr, said1)
    BY <1>3, <1>4, <1>5 DEF Behind, Shares
  <1>7. Distinct(said1)
    <2> SUFFICES ASSUME NEW j \in 1..Len(said1), NEW k \in 1..Len(said1), j # k
                 PROVE  said1[j] # said1[k]
      BY DEF Distinct
    <2>1. CASE j \in 1..Len(said) /\ said1[j] = said[j] /\ k \in 1..Len(said) /\ said1[k] = said[k]
      BY <2>1 DEF Shares, Distinct
    <2>2. CASE /\ j - Len(said) \in 1..n /\ said1[j] = got[j - Len(said)]
               /\ k - Len(said) \in 1..n /\ said1[k] = got[k - Len(said)]
      <3>1. j - Len(said) # k - Len(said)
        BY <1>2
      <3> QED  BY <1>5, <2>2, <3>1 DEF Distinct
    <2>3. CASE /\ j \in 1..Len(said) /\ said1[j] = said[j]
               /\ k - Len(said) \in 1..n /\ said1[k] = got[k - Len(said)]
      BY <1>5, <2>3 DEF Disjoint
    <2>4. CASE /\ j - Len(said) \in 1..n /\ said1[j] = got[j - Len(said)]
               /\ k \in 1..Len(said) /\ said1[k] = said[k]
      BY <1>5, <2>4 DEF Disjoint
    <2> QED  BY <1>4, <2>1, <2>2, <2>3, <2>4
  <1>8. Behind(f, rr, v) /\ Distinct(v)
    <2>1. Behind(f, rr, v)
      BY <1>1 DEF Behind
    <2>2. ASSUME NEW j \in 1..Len(v), NEW k \in 1..Len(v), j # k
          PROVE  v[j] # v[k]
      <3>1. n + j # n + k
        BY <1>2, <2>2
      <3>2. /\ n + j \in 1..Len(got) /\ v[j] = got[n + j]
            /\ n + k \in 1..Len(got) /\ v[k] = got[n + k]
        BY <1>1
      <3> QED  BY <3>1, <3>2 DEF Distinct
    <2> QED  BY <2>1, <2>2 DEF Distinct
  <1>9. Disjoint(said1, v)
    <2> SUFFICES ASSUME NEW j \in 1..Len(said1), NEW k \in 1..Len(v)
                 PROVE  said1[j] # v[k]
      BY DEF Disjoint
    <2>1. v[k] = got[n + k] /\ n + k \in 1..Len(got)
      BY <1>1
    <2>2. CASE j \in 1..Len(said) /\ said1[j] = said[j]
      BY <2>1, <2>2 DEF Disjoint
    <2>3. CASE j - Len(said) \in 1..n /\ said1[j] = got[j - Len(said)]
      <3>1. j - Len(said) # n + k
        BY <1>2, <2>3
      <3> QED  BY <1>5, <2>1, <2>3, <3>1 DEF Distinct
    <2> QED  BY <1>4, <2>2, <2>3
  <1>10. ASSUME NEW j \in Id \ {id}
         PROVE  Disjoint(said1, r[j].buf) /\ Disjoint(r[j].buf, v) /\ Disjoint(v, r[j].buf)
    <2>1. Disjoint(said, r[j].buf) /\ Disjoint(r[j].buf, got)
      BY DEF Shares
    <2>2. Disjoint(said1, r[j].buf)
      BY <1>4, <1>5, <2>1 DEF Disjoint
    <2>3. Disjoint(r[j].buf, v)
      BY <1>1, <2>1 DEF Disjoint
    <2>4. Disjoint(v, r[j].buf)
      BY <2>3 DEF Disjoint
    <2> QED  BY <2>2, <2>3, <2>4
  <1>11. \A j \in Id : Behind(f, rr, s[j].buf) /\ Distinct(s[j].buf) /\ Disjoint(said1, s[j].buf)
    BY <1>8, <1>9, <1>10 DEF Shares
  <1>12. \A j, k \in Id : j # k => Disjoint(s[j].buf, s[k].buf)
    BY <1>10 DEF Shares
  <1> QED  BY <1>6, <1>7, <1>11, <1>12 DEF Shares


-----------------------------------------------------------------------------
(* What is written over a file.                                            *)
LEMMA PutIs ==
    ASSUME data \in Seq(Cells), NEW at \in Nat, NEW k \in Nat, NEW c \in Cells,
           NEW p, p = Put(at, k, c)
    PROVE  /\ p \in Seq(Cells) /\ Len(p) \in Nat /\ Len(data) \in Nat
           /\ Len(p) >= Len(data) /\ Len(p) >= at + k
           /\ Len(p) = Len(data) \/ Len(p) = at + k
           /\ \A j \in 1..Len(p) : p[j] = IF j \in (at + 1)..(at + k) THEN c
                                          ELSE IF j <= Len(data) THEN data[j] ELSE Hole
  <1>1. Len(data) \in Nat /\ \A j \in 1..Len(data) : data[j] \in Cells
    BY LenProperties, ElementOfSeq
  <1>2. PICK m \in Nat : /\ m = IF at + k > Len(data) THEN at + k ELSE Len(data)
                         /\ m >= Len(data) /\ m >= at + k /\ (m = Len(data) \/ m = at + k)
    BY <1>1
  <1>3. Hole \in Cells
    BY DEF Hole, Cells
  <1>4. p = [j \in 1..m |-> IF j \in (at + 1)..(at + k) THEN c
                            ELSE IF j <= Len(data) THEN data[j] ELSE Hole]
    BY <1>2 DEF Put
  <1>5. p \in [1..m -> Cells]
    BY <1>1, <1>3, <1>4
  <1>6. p \in Seq(Cells) /\ Len(p) = m
    <2>1. p \in Seq(Cells)
      BY <1>5 DEF Seq
    <2>2. DOMAIN p = 1..m /\ DOMAIN p = 1..Len(p) /\ Len(p) \in Nat
      BY <1>5, <2>1, LenProperties
    <2> QED  BY <2>1, <2>2
  <1> QED  BY <1>1, <1>2, <1>4, <1>6

(* A file whose cursor is set, or that starts a run.                       *)
Set(x, p, u)      == [x EXCEPT !.pos = p, !.run = u]
SetAt(f, i, p, u) == [f EXCEPT ![i].pos = p, ![i].run = u]

LEMMA FieldsSet ==
    ASSUME NEW x, NEW rr \in Nat, IsFile(x, rr), NEW p, NEW u,
           NEW y, y = Set(x, p, u)
    PROVE  /\ y = OpenAs(p, x.append, x.read, x.write, x.opened, u)
           /\ y.pos = p /\ y.run = u /\ y.append = x.append /\ y.opened = x.opened
           /\ y.read = x.read /\ y.write = x.write
  <1>1. x = OpenAs(x.pos, x.append, x.read, x.write, x.opened, x.run)
    BY DEF IsFile
  <1>2. y = OpenAs(p, x.append, x.read, x.write, x.opened, u)
    BY <1>1 DEF OpenAs, Set
  <1> QED  BY <1>2 DEF OpenAs

LEMMA CursorSet ==
    ASSUME NEW f, NEW d, NEW rr, Sound(f, d, rr), NEW i \in Files, NEW p \in Nat, NEW u \in Nat,
           \/ u = rr + 1
           \/ u = f[i].run /\ u # 0 /\ p >= f[i].pos,
           NEW r1, r1 = IF u = f[i].run THEN rr ELSE rr + 1,
           NEW g, g = SetAt(f, i, p, u)
    PROVE  /\ Goes(f, g, rr, r1, i)
           /\ g[i].pos = p /\ g[i].run = u
           /\ g[i].append = f[i].append /\ g[i].opened = f[i].opened
  <1>1. rr \in Nat /\ IsFile(f[i], rr) /\ f = [j \in Files |-> f[j]]
    BY DEF Sound
  <1>2. PICK y : y = Set(f[i], p, u)
    OBVIOUS
  <1>3. g = [f EXCEPT ![i] = y]
    BY <1>1, <1>2 DEF Set, SetAt
  <1>4. g[i] = y /\ g = [j \in Files |-> g[j]] /\ \A j \in Files \ {i} : g[j] = f[j]
    BY <1>1, <1>3
  <1>5. /\ y = OpenAs(p, f[i].append, f[i].read, f[i].write, f[i].opened, u)
        /\ y.pos = p /\ y.run = u /\ y.append = f[i].append /\ y.opened = f[i].opened
        /\ y.read = f[i].read /\ y.write = f[i].write
    BY <1>1, <1>2, FieldsSet
  <1>6. f[i].run \in Nat /\ f[i].run <= rr /\ f[i].append = f[i].opened
    BY <1>1 DEF IsFile
  <1>7. r1 = (IF u = rr + 1 THEN rr + 1 ELSE rr) /\ u # 0 /\ u <= r1
    BY <1>1, <1>6
  <1>8. IsFile(y, r1)
    <2>1. y = OpenAs(y.pos, y.append, y.read, y.write, y.opened, y.run)
      BY <1>5
    <2> QED  BY <1>5, <1>6, <1>7, <2>1 DEF IsFile
  <1>9. \/ r1 = rr + 1 /\ u = r1
        \/ r1 = rr /\ u = f[i].run /\ p >= f[i].pos
    BY <1>1, <1>6, <1>7
  <1> QED  BY <1>4, <1>5, <1>8, <1>9 DEF Goes

(* An open file that may be read or written is in a run.                   *)
LEMMA InRun ==
    ASSUME NEW rr, NEW x, IsFile(x, rr), x.read \/ x.write
    PROVE  x.run \in Nat /\ x.run # 0 /\ x.pos \in Nat /\ rr >= x.run
  BY DEF IsFile, Closed

(* What is written lands in the run of its cursor, or starts one.          *)
LEMMA LandsSound ==
    ASSUME Sound(file, data, runs), NEW i \in Files, file[i].write,
           NEW k \in Nat, k >= 1, NEW by \in {"app", "child"},
           Lands(i, k, by, At(i) + k)
    PROVE  /\ Sound(file', data', runs')
           /\ \A x : Past(file, runs, x) => Past(file', runs', x)
           /\ At(i) \in Nat /\ Len(data) \in Nat
           /\ Len(data') >= Len(data) /\ Len(data') >= At(i) + k
           /\ \A j \in 1..Len(data) : j <= At(i) => data'[j] = data[j]
           /\ data'[At(i) + 1].run = Run(i)
           /\ file'[i].pos = At(i) + k
           /\ At(i) = Len(data) => Len(data') = At(i) + k
           /\ At(i) + k > Len(data) => Len(data') = At(i) + k
  <1> DEFINE at == At(i)
             u  == Run(i)
  <1>1. data \in Seq(Cells) /\ runs \in Nat /\ IsFile(file[i], runs) /\ Len(data) \in Nat
    BY LenProperties DEF Sound
  <1>2. file[i].run \in Nat /\ file[i].run # 0 /\ file[i].pos \in Nat /\ runs >= file[i].run
    BY <1>1, InRun
  <1>3. at \in Nat
    BY <1>1, <1>2 DEF At
  <1>4. u \in Nat /\ (u = runs + 1 \/ (u = file[i].run /\ at = file[i].pos))
    BY <1>1, <1>2 DEF Run
  <1>5. /\ data' = Put(at, k, [by |-> by, run |-> u])
        /\ file' = [file EXCEPT ![i].pos = at + k, ![i].run = u]
        /\ runs' = IF u = file[i].run THEN runs ELSE runs + 1
    BY DEF Lands
  <1> HIDE DEF at, u
  <1>6. PICK c \in Cells : c = [by |-> by, run |-> u]
    BY <1>4 DEF Cells
  <1>7. /\ data' \in Seq(Cells) /\ Len(data') \in Nat
        /\ Len(data') >= Len(data) /\ Len(data') >= at + k
        /\ Len(data') = Len(data) \/ Len(data') = at + k
        /\ \A j \in 1..Len(data') : data'[j] = IF j \in (at + 1)..(at + k) THEN c
                                         ELSE IF j <= Len(data) THEN data[j] ELSE Hole
    <2>1. data' = Put(at, k, c)
      BY <1>5, <1>6
    <2>2. PICK p : p = data'
      OBVIOUS
    <2>3. p = Put(at, k, c) /\ data \in Seq(Cells) /\ at \in Nat
      BY <1>1, <1>3, <2>1, <2>2
    <2>4. /\ p \in Seq(Cells) /\ Len(p) \in Nat
          /\ Len(p) >= Len(data) /\ Len(p) >= at + k
          /\ Len(p) = Len(data) \/ Len(p) = at + k
          /\ \A j \in 1..Len(p) : p[j] = IF j \in (at + 1)..(at + k) THEN c
                                         ELSE IF j <= Len(data) THEN data[j] ELSE Hole
      BY <2>3, PutIs, Zenon
    <2> QED  BY <2>2, <2>4
  <1>8. /\ Goes(file, file', runs, runs', i)
        /\ file'[i].pos = at + k /\ file'[i].run = u
    <2>1. at + k \in Nat /\ (u = runs + 1 \/ (u = file[i].run /\ u # 0 /\ at + k >= file[i].pos))
      BY <1>2, <1>3, <1>4
    <2>2. PICK r1 : r1 = IF u = file[i].run THEN runs ELSE runs + 1
      OBVIOUS
    <2>3. PICK p \in Nat : p = at + k
      BY <2>1
    <2>4. file' = SetAt(file, i, p, u) /\ runs' = r1
      BY <1>5, <2>2, <2>3 DEF SetAt
    <2>5. u = runs + 1 \/ (u = file[i].run /\ u # 0 /\ p >= file[i].pos)
      BY <2>1, <2>3
    <2>6. Goes(file, file', runs, r1, i) /\ file'[i].pos = p /\ file'[i].run = u
      BY <1>4, <2>2, <2>4, <2>5, CursorSet
    <2> QED  BY <2>3, <2>4, <2>6
  <1>9. \A j \in 1..Len(data') : \/ j \in 1..Len(data) /\ data'[j] = data[j]
                                 \/ data'[j].run = 0
                                 \/ data'[j].run = file'[i].run /\ j <= file'[i].pos
    <2> TAKE j \in 1..Len(data')
    <2>1. CASE j \in (at + 1)..(at + k)
      <3>1. data'[j] = c /\ c.run = u
        BY <1>6, <1>7, <2>1
      <3>2. j <= at + k
        BY <1>3, <2>1
      <3> QED  BY <1>8, <3>1, <3>2
    <2>2. CASE j \notin (at + 1)..(at + k) /\ j <= Len(data)
      BY <1>1, <1>7, <2>2
    <2>3. CASE j \notin (at + 1)..(at + k) /\ ~ (j <= Len(data))
      BY <1>7, <2>3 DEF Hole
    <2> QED  BY <2>1, <2>2, <2>3
  <1>10. Sound(file', data', runs')
    BY <1>7, <1>8, <1>9, GoesSound
  <1>11. \A x : Past(file, runs, x) => Past(file', runs', x)
    BY <1>8, GoesPast
  <1>12. \A j \in 1..Len(data) : j <= at => data'[j] = data[j]
    BY <1>1, <1>3, <1>7
  <1>13. data'[at + 1].run = u
    <2>1. at + 1 \in 1..Len(data') /\ at + 1 \in (at + 1)..(at + k)
      BY <1>3, <1>7
    <2>2. data'[at + 1] = c
      BY <1>7, <2>1
    <2> QED  BY <1>6, <2>2
  <1>14. (at = Len(data) \/ at + k > Len(data)) => Len(data') = at + k
    BY <1>1, <1>3, <1>7
  <1> QED  BY <1>1, <1>3, <1>7, <1>8, <1>10, <1>11, <1>12, <1>13, <1>14 DEF at, u


-----------------------------------------------------------------------------
(* Each action, given who owns what.                                       *)

LEMMA DataStep ==
    ASSUME DataInv, Sound(file', data', runs'), told' = told,
           \A x : Past(file, runs, x) => Past(file', runs', x),
           \A i \in Id : res'[i].buf = res[i].buf \/ res'[i].buf = <<>>,
           OwnFiles', Writing'
    PROVE  DataInv'
  <1>1. Shares(file, runs, told, res)
    BY DEF DataInv
  <1>2. PICK g, r1, s : g = file' /\ r1 = runs' /\ s = res'
    OBVIOUS
  <1>3. Shares(g, r1, told, s)
    BY <1>1, <1>2, SharesGo
  <1> QED  BY <1>2, <1>3 DEF DataInv

(* A step that leaves the file alone and its cursors where they are.       *)
LEMMA StillStep ==
    ASSUME DataInv, UNCHANGED <<data, told, runs>>, Closing(file, file'),
           \A i \in Id : res'[i].buf = res[i].buf \/ res'[i].buf = <<>>,
           OwnFiles', Writing'
    PROVE  DataInv'
  <1>1. Sound(file, data, runs)
    BY DEF DataInv
  <1>2. PICK g : g = file'
    OBVIOUS
  <1>3. Sound(g, data, runs) /\ \A x : Past(file, runs, x) => Past(g, runs, x)
    BY <1>1, <1>2, ClosingSound
  <1> QED  BY <1>2, <1>3, DataStep

LEMMA CollectedCloses ==
    ASSUME DataInv, NEW g, file' = Collected(file, g)
    PROVE  Closing(file, file')
  BY DEF Collected, Closing

LEMMA SameCloses ==
    ASSUME DataInv, file' = file
    PROVE  Closing(file, file')
  BY DEF DataInv, Sound, Closing

LEMMA NotWriting ==
    ASSUME DataInv, others' = others, pc' \notin {"end", "write"},
           pc' # "idle" => cur'.off \in Nat /\ cur'.n \in Nat
    PROVE  Writing'
  BY DEF DataInv, Writing

(* What a resource, or the running call, has the number of.                *)
LEMMA OwnFileIs ==
    ASSUME FdInv, OwnFiles
    PROVE  /\ \A i \in Id : Owns(res, i) => res[i].fd \in Fd /\ FileOf(i) \in Files
           /\ \A n \in Pending : n \in Fd /\ fd[n] \in Files
  <1>1. OneOwner(fd, res, Inherited, handed, Pending)
    BY DEF FdInv
  <1>2. \A n \in Fd : n \notin Inherited \cup handed /\ fd[n] # NoFile => fd[n] \in Files
    BY DEF OwnFiles
  <1>3. \A i \in Id : Owns(res, i) => /\ res[i].fd \in Fd \ (Inherited \cup handed)
                                      /\ fd[res[i].fd] # NoFile
    BY <1>1 DEF OneOwner
  <1>4. \A n \in Pending : n \in Fd \ (Inherited \cup handed) /\ fd[n] # NoFile
    BY <1>1 DEF OneOwner
  <1> QED  BY <1>2, <1>3, <1>4 DEF FileOf

LEMMA FdsAre ==
    ASSUME FdInv
    PROVE  /\ fd \in [Fd -> Nat] /\ res = [i \in Id |-> res[i]]
           /\ Fd \subseteq Nat /\ Nobody.buf = <<>>
  BY OpenFilesAssumption DEF FdInv, HandlesOK, Nobody, Fd

LEMMA StartData ==
    ASSUME FdInv, DataInv, NEW c \in start.calls, Start(c)
    PROVE  DataInv'
  <1>1. start \in Starts
    BY DEF FdInv, HandlesOK
  <1>2. /\ c.op \in DOMAIN Kinds /\ (c.op # "open" => c.on \in Id)
        /\ c.off \in Nat /\ c.n \in Nat
    BY <1>1, CallsAssumption
  <1>3. /\ pc' = First(c) /\ cur' = c
        /\ c.op # "open" => res[c.on].is \in Acts(c)
        /\ UNCHANGED <<start, data, file, fd, res, handed, child, told, runs, others>>
    BY DEF Start
  <1>4. Writing'
    <2>1. CASE c.op = "write"
      <3>1. c.on \in Id /\ res[c.on].is = "out"
        BY <1>2, <1>3, <2>1 DEF Acts
      <3>2. pc' = IF res[c.on].end THEN "end" ELSE "write"
        BY <1>3, <2>1 DEF First
      <3> QED  BY <1>2, <1>3, <3>1, <3>2 DEF DataInv, Writing
    <2>2. CASE c.op # "write"
      <3>1. pc' \notin {"end", "write"}
        BY <1>2, <1>3, <2>2 DEF First, Kinds
      <3> QED  BY <1>2, <1>3, <3>1, NotWriting
    <2> QED  BY <2>1, <2>2
  <1>5. OwnFiles'
    BY <1>3 DEF DataInv, OwnFiles, Inherited
  <1> QED  BY <1>3, <1>4, <1>5, SameCloses, StillStep

LEMMA OpenFileData ==
    ASSUME FdInv, DataInv, pc = "open", NEW f, NEW n \in Fd, fd[n] = NoFile,
           NEW i \in Files, NEW id \in Id, OpenFile(f, n, i, id),
           UNCHANGED <<start, handed, child, told, moved, calls, others>>
    PROVE  DataInv'
  <1>1. /\ fd' = [fd EXCEPT ![n] = i] /\ runs' = runs + 1
        /\ data' = data \/ data' = <<>>
        /\ pc' \in {"idle", "clone"} /\ (cur' = cur \/ cur' = [cur EXCEPT !.on = id])
    BY DEF OpenFile
  <1>2. PICK w : res' = [res EXCEPT ![id] = w] /\ w.buf = <<>>
    <2>1. PICK w : w = [Nobody EXCEPT !.is = "desc", !.fd = n]
      OBVIOUS
    <2>2. w.buf = <<>>
      BY <2>1 DEF Nobody
    <2>3. res' = [res EXCEPT ![id] = w]
      BY <2>1 DEF OpenFile
    <2> QED  BY <2>2, <2>3
  <1>3. PICK y : /\ file' = [file EXCEPT ![i] = y]
                 /\ y = OpenAs(0, f.append, f.read, f.write, f.append, runs + 1)
    BY DEF OpenFile, OpenAs, AppendAsked
  <1>4. runs \in Nat /\ data \in Seq(Cells) /\ file = [j \in Files |-> file[j]]
    BY DEF DataInv, Sound
  <1>5. Goes(file, file', runs, runs', i)
    <2>1. y.pos = 0 /\ y.run = runs + 1 /\ y.append = f.append /\ y.opened = f.append
          /\ y = OpenAs(y.pos, y.append, y.read, y.write, y.opened, y.run)
      BY <1>3 DEF OpenAs
    <2>2. IsFile(y, runs + 1)
      BY <1>4, <2>1 DEF IsFile
    <2>3. file'[i] = y /\ file' = [j \in Files |-> file'[j]] /\ \A j \in Files \ {i} : file'[j] = file[j]
      BY <1>3, <1>4
    <2> QED  BY <1>1, <2>1, <2>2, <2>3 DEF Goes
  <1>6. Sound(file', data', runs') /\ \A x : Past(file, runs, x) => Past(file', runs', x)
    <2>1. PICK g, r1, d1 : g = file' /\ r1 = runs' /\ d1 = data'
      OBVIOUS
    <2>2. d1 \in Seq(Cells) /\ \A k \in 1..Len(d1) : k \in 1..Len(data) /\ d1[k] = data[k]
      <3>1. CASE d1 = data
        BY <1>4, <3>1
      <3>2. CASE d1 = <<>>
        BY <3>2
      <3> QED  BY <1>1, <2>1, <3>1, <3>2
    <2>3. Goes(file, g, runs, r1, i) /\ Sound(file, data, runs)
      BY <1>5, <2>1 DEF DataInv
    <2>4. Sound(g, d1, r1)
      BY <2>2, <2>3, GoesSound
    <2>5. \A x : Past(file, runs, x) => Past(g, r1, x)
      BY <2>3, GoesPast
    <2> QED  BY <2>1, <2>4, <2>5
  <1>7. OwnFiles'
    BY <1>1, FdsAre DEF DataInv, OwnFiles, Inherited
  <1>8. Writing'
    <2>1. cur.off \in Nat /\ cur.n \in Nat /\ IsCall(cur)
      BY DEF DataInv, Writing, FdInv, Running
    <2>2. cur'.off = cur.off /\ cur'.n = cur.n
      BY <1>1, <2>1 DEF IsCall
    <2> QED  BY <1>1, <2>1, <2>2, NotWriting
  <1>9. \A j \in Id : res'[j].buf = res[j].buf \/ res'[j].buf = <<>>
    BY <1>2, FdsAre
  <1> QED  BY <1>6, <1>7, <1>8, <1>9, DataStep

LEMMA OpenData ==
    ASSUME FdInv, DataInv, Open
    PROVE  DataInv'
  <1>1. pc = "open" /\ UNCHANGED <<start, handed, child, told, moved, calls, others>>
    BY DEF Open
  <1>2. FreeId # {}
    BY <1>1 DEF FdInv, Running, Room
  <1>3. Lowest(FreeId) \in Id
    BY <1>2, LowestFree
  <1>4. CASE /\ pc' = "idle" /\ UNCHANGED <<data, file, fd, cur, runs>>
             /\ \A i \in Id : res'[i].buf = res[i].buf \/ res'[i].buf = <<>>
    <2>1. OwnFiles'
      BY <1>1, <1>4 DEF DataInv, OwnFiles, Inherited
    <2>2. Writing'
      BY <1>1, <1>4, NotWriting
    <2> QED  BY <1>1, <1>4, <2>1, <2>2, SameCloses, StillStep
  <1>5. CASE OpenDirectory(Lowest(FreeId))
    <2>1. PICK w : w = [Nobody EXCEPT !.is = "dir"]
      OBVIOUS
    <2>2. w.buf = <<>>
      BY <2>1 DEF Nobody
    <2>3. res' = [res EXCEPT ![Lowest(FreeId)] = w]
      BY <1>5, <2>1 DEF OpenDirectory
    <2>4. \A i \in Id : res'[i].buf = res[i].buf \/ res'[i].buf = <<>>
      BY <1>3, <2>2, <2>3, FdsAre
    <2> QED  BY <1>4, <1>5, <2>4 DEF OpenDirectory, Answer
  <1>6. ASSUME NEW f \in OpenFlags(cur.flags), FreeFd(0) # {}, FreeFile # {},
               OpenFile(f, Lowest(FreeFd(0)), Lowest(FreeFile), Lowest(FreeId))
        PROVE  DataInv'
    <2>1. Lowest(FreeFd(0)) \in Fd /\ fd[Lowest(FreeFd(0))] = NoFile
      BY <1>6, LowestFree
    <2>2. Lowest(FreeFile) \in Files
      <3>1. FreeFile \in SUBSET Nat  BY DEF FreeFile, Files
      <3>2. Lowest(FreeFile) \in FreeFile  BY <1>6, <3>1, LowestIn
      <3> QED  BY <3>2 DEF FreeFile
    <2> QED  BY <1>1, <1>3, <1>6, <2>1, <2>2, OpenFileData
  <1>7. CASE OpenFlags(cur.flags) = {} \/ FreeFd(0) = {}
    <2>1. CASE pc' = "idle" /\ UNCHANGED <<data, file, fd, res, cur, runs>>
      BY <1>4, <2>1
    <2> QED  BY <1>5, <1>6, <2>1 DEF Open, Answer
  <1> QED  BY <1>5, <1>6, <1>7 DEF Open, Answer


LEMMA CloneData ==
    ASSUME FdInv, DataInv, Clone
    PROVE  DataInv'
  <1>1. /\ pc = "clone" /\ cur.on \in Id
        /\ UNCHANGED <<start, data, handed, child, told, moved, runs, calls, others>>
    BY DEF Clone, FdInv, Running
  <1>2. cur.off \in Nat /\ cur.n \in Nat /\ IsCall(cur)
    BY <1>1 DEF DataInv, Writing, FdInv, Running
  <1>3. CASE CloneFails(cur.on) /\ Answer /\ UNCHANGED cur
    <2>1. fd' = fd \/ fd' = Without(fd, res[cur.on].fd)
      BY <1>3 DEF CloneFails
    <2>2. OwnFiles'
      BY <1>1, <2>1, FdsAre DEF DataInv, OwnFiles, Inherited, Without
    <2>3. Closing(file, file')
      BY <1>3, CollectedCloses, SameCloses DEF CloneFails
    <2>4. res' = res \/ res' = [res EXCEPT ![cur.on] = Nobody]
      BY <1>3 DEF CloneFails
    <2>5. \A i \in Id : res'[i].buf = res[i].buf \/ res'[i].buf = <<>>
      BY <2>4, FdsAre
    <2>6. Writing'
      BY <1>1, <1>3, NotWriting DEF Answer
    <2> QED  BY <1>1, <2>2, <2>3, <2>5, <2>6, StillStep
  <1>4. ASSUME NEW n \in Fd, res[cur.on].is # "dir",
               fd' = [fd EXCEPT ![n] = FileOf(cur.on)], NewStream(Lowest(FreeId), n)
        PROVE  DataInv'
    <2>1. Owns(res, cur.on)
      BY <1>1, <1>4 DEF Owns, FdInv, Running
    <2>2. FileOf(cur.on) \in Files
      BY <1>1, <2>1, OwnFileIs DEF DataInv
    <2>3. OwnFiles'
      BY <1>1, <1>4, <2>2, FdsAre DEF DataInv, OwnFiles, Inherited
    <2>4. cur.kind \in {"read", "append", "offset", "hand"}
      BY <1>1, <1>2, CallKinds DEF FdInv, Running
    <2>5. file' = file /\ pc' \in {"idle", "seek", "dup"}
          /\ (cur' = cur \/ cur' = [cur EXCEPT !.n = n])
      BY <1>4, <2>4 DEF NewStream, AppendMode, Answer
    <2>6. \E w : w.buf = <<>> /\ (res' = res \/ res' = [res EXCEPT ![Lowest(FreeId)] = w])
      <3>1. PICK w1 : w1 = [Nobody EXCEPT !.is = "in", !.fd = n]
        OBVIOUS
      <3>2. PICK w2 : w2 = [Nobody EXCEPT !.is = "out", !.fd = n, !.end = ~file[FileOf(cur.on)].append]
        OBVIOUS
      <3>3. w1.buf = <<>> /\ w2.buf = <<>>
        BY <3>1, <3>2 DEF Nobody
      <3>4. CASE cur.kind = "read"
        BY <1>4, <3>1, <3>3, <3>4 DEF NewStream
      <3>5. CASE cur.kind = "append"
        BY <1>4, <3>2, <3>3, <3>5 DEF NewStream
      <3>6. CASE cur.kind \in {"offset", "hand"}
        BY <1>4, <3>3, <3>6 DEF NewStream
      <3> QED  BY <2>4, <3>4, <3>5, <3>6
    <2>7. \A i \in Id : res'[i].buf = res[i].buf \/ res'[i].buf = <<>>
      BY <2>6, FdsAre
    <2>8. cur'.off \in Nat /\ cur'.n \in Nat
      <3>1. n \in Nat
        BY FdsAre
      <3> QED  BY <1>2, <2>5, <3>1 DEF IsCall
    <2>9. Writing'
      BY <1>1, <2>5, <2>8, NotWriting
    <2> QED  BY <1>1, <2>3, <2>5, <2>7, <2>9, SameCloses, StillStep
  <1>5. CASE res[cur.on].is = "dir" \/ FreeFd(FirstNonStdio) = {}
    BY <1>3, <1>5 DEF Clone
  <1>6. CASE res[cur.on].is # "dir" /\ FreeFd(FirstNonStdio) # {}
    <2>1. Lowest(FreeFd(FirstNonStdio)) \in Fd
      BY <1>6, LowestFree DEF FirstNonStdio
    <2> QED  BY <1>4, <1>6, <2>1 DEF Clone
  <1> QED  BY <1>5, <1>6

(* The cursor is set, and a run starts there.                              *)
LEMMA CursorSetData ==
    ASSUME DataInv, NEW i \in Files, NEW p \in Nat, data' = data,
           \/ UNCHANGED <<file, runs>>
           \/ /\ file' = [file EXCEPT ![i].pos = p, ![i].run = runs + 1]
              /\ runs' = runs + 1
    PROVE  /\ Sound(file', data', runs')
           /\ \A x : Past(file, runs, x) => Past(file', runs', x)
           /\ file' # file => file'[i].pos = p
  <1>1. Sound(file, data, runs) /\ runs \in Nat /\ data \in Seq(Cells) /\ IsFile(file[i], runs)
    BY DEF DataInv, Sound
  <1>2. CASE UNCHANGED <<file, runs>>
    BY <1>1, <1>2
  <1>3. CASE /\ file' = [file EXCEPT ![i].pos = p, ![i].run = runs + 1]
             /\ runs' = runs + 1
    <2>1. PICK u, g, r1 : u = runs + 1 /\ u \in Nat /\ g = file' /\ r1 = runs'
      BY <1>1
    <2>2. g = SetAt(file, i, p, u)
      BY <1>3, <2>1 DEF SetAt
    <2>3. r1 = IF u = file[i].run THEN runs ELSE runs + 1
      BY <1>1, <1>3, <2>1 DEF IsFile
    <2>4. Goes(file, g, runs, r1, i) /\ g[i].pos = p
      BY <1>1, <2>1, <2>2, <2>3, CursorSet
    <2>5. Sound(g, data, r1)
      BY <1>1, <2>4, GoesSound
    <2>6. \A x : Past(file, runs, x) => Past(g, r1, x)
      BY <1>1, <2>4, GoesPast
    <2> QED  BY <2>1, <2>4, <2>5, <2>6
  <1> QED  BY <1>2, <1>3

LEMMA SeekData ==
    ASSUME FdInv, DataInv, Seek
    PROVE  DataInv'
  <1> DEFINE i == fd[cur.n]
  <1>1. /\ pc = "seek" /\ pc' = "idle"
        /\ UNCHANGED <<start, data, fd, handed, child, cur, told, moved, calls, others>>
        /\ \/ UNCHANGED <<file, runs>>
           \/ file' = [file EXCEPT ![i].pos = cur.off, ![i].run = runs + 1] /\ runs' = runs + 1
    BY DEF Seek, Answer
  <1>2. i \in Files /\ cur.off \in Nat
    <2>1. cur.n \in Pending
      BY <1>1 DEF Pending
    <2> QED  BY <1>1, <2>1, OwnFileIs DEF DataInv, Writing
  <1>3. PICK w : w = [Nobody EXCEPT !.is = "out", !.fd = cur.n]
    OBVIOUS
  <1>4. w.buf = <<>>
    BY <1>3 DEF Nobody
  <1>5. res' = [res EXCEPT ![Lowest(FreeId)] = w]
    BY <1>3 DEF Seek
  <1>6. \A j \in Id : res'[j].buf = res[j].buf \/ res'[j].buf = <<>>
    BY <1>4, <1>5, FdsAre
  <1>7. OwnFiles'
    BY <1>1 DEF DataInv, OwnFiles, Inherited
  <1>8. Writing'
    BY <1>1, NotWriting
  <1> HIDE DEF i
  <1>9. Sound(file', data', runs') /\ \A x : Past(file, runs, x) => Past(file', runs', x)
    BY <1>1, <1>2, CursorSetData
  <1> QED  BY <1>1, <1>6, <1>7, <1>8, <1>9, DataStep

LEMMA SeekFailsData ==
    ASSUME FdInv, DataInv, SeekFails
    PROVE  DataInv'
  <1>1. /\ pc = "seek" /\ pc' = "idle" /\ cur.on \in Id
        /\ UNCHANGED <<start, data, handed, child, cur, told, moved, runs, calls, others>>
        /\ file' = Collected(file, fd')
        /\ res' = res \/ res' = [res EXCEPT ![cur.on] = Nobody]
    BY DEF SeekFails, Answer, FdInv, Running
  <1>2. \A n \in Fd : fd'[n] = fd[n] \/ fd'[n] = NoFile
    BY FdsAre DEF SeekFails, Without
  <1>3. OwnFiles'
    BY <1>1, <1>2 DEF DataInv, OwnFiles, Inherited
  <1>4. Closing(file, file')
    BY <1>1, CollectedCloses
  <1>5. \A i \in Id : res'[i].buf = res[i].buf \/ res'[i].buf = <<>>
    BY <1>1, FdsAre
  <1>6. Writing'
    BY <1>1, NotWriting
  <1> QED  BY <1>1, <1>3, <1>4, <1>5, <1>6, StillStep

LEMMA SeekEndFailsData ==
    ASSUME FdInv, DataInv, SeekEndFails
    PROVE  DataInv'
  <1>1. /\ pc' = "idle"
        /\ UNCHANGED <<start, data, file, fd, res, handed, child, cur, told, moved, runs, calls, others>>
    BY DEF SeekEndFails, Answer
  <1>2. OwnFiles'
    BY <1>1 DEF DataInv, OwnFiles, Inherited
  <1>3. Writing'
    BY <1>1, NotWriting
  <1> QED  BY <1>1, <1>2, <1>3, SameCloses, StillStep

LEMMA SeekEndData ==
    ASSUME FdInv, DataInv, SeekEnd
    PROVE  DataInv'
  <1> DEFINE i == FileOf(cur.on)
  <1>1. /\ pc = "end" /\ pc' = "write" /\ moved' = FALSE
        /\ UNCHANGED <<start, data, fd, res, handed, child, cur, told, calls, others>>
        /\ IF Seekable
           THEN file' = [file EXCEPT ![i].pos = Len(data), ![i].run = runs + 1] /\ runs' = runs + 1
           ELSE UNCHANGED <<file, runs>>
    BY DEF SeekEnd
  <1>2. i \in Files /\ cur.on \in Id /\ res[cur.on].is = "out" /\ Len(data) \in Nat
    <2>1. cur.on \in Id /\ res[cur.on].is = "out" /\ OwnFiles /\ data \in Seq(Cells)
      BY <1>1 DEF DataInv, Writing, Sound
    <2>2. i \in Files
      BY <2>1, OwnFileIs DEF Owns
    <2> QED  BY <2>1, <2>2, LenProperties
  <1>3. OwnFiles'
    BY <1>1 DEF DataInv, OwnFiles, Inherited
  <1>4. i' = i /\ Seekable' = Seekable
    BY <1>1 DEF FileOf, Seekable
  <1>5. Seekable => file'[i].pos = Len(data)
    <2>1. Sound(file, data, runs)
      BY DEF DataInv
    <2>2. IsFile(file[i], runs) /\ file = [j \in Files |-> file[j]]
      BY <1>2, <2>1 DEF Sound
    <2>3. file[i] = OpenAs(file[i].pos, file[i].append, file[i].read, file[i].write, file[i].opened, file[i].run)
      BY <2>2 DEF IsFile
    <2> HIDE DEF i
    <2>4. PICK y : y = Set(file[i], Len(data), runs + 1)
      OBVIOUS
    <2>5. y.pos = Len(data)
      BY <2>3, <2>4 DEF Set, OpenAs
    <2>6. Seekable => file' = [file EXCEPT ![i] = y]
      BY <1>1, <1>2, <2>2, <2>4 DEF Set
    <2> QED  BY <1>2, <2>2, <2>5, <2>6
  <1>6. Writing'
    <2>1. cur.off \in Nat /\ cur.n \in Nat /\ others \in Nat
      BY <1>1 DEF DataInv, Writing
    <2>2. file'[i'].pos = Len(data') \/ ~ Seekable'
      BY <1>1, <1>4, <1>5
    <2> QED  BY <1>1, <1>2, <2>1, <2>2 DEF Writing
  <1> HIDE DEF i
  <1>7. Sound(file', data', runs') /\ \A x : Past(file, runs, x) => Past(file', runs', x)
    BY <1>1, <1>2, CursorSetData
  <1> QED  BY <1>1, <1>3, <1>6, <1>7, DataStep


(* Each write goes where its stream's kind says, and may end the call.     *)
LEMMA WriteData ==
    ASSUME FdInv, DataInv, Write
    PROVE  DataInv'
  <1> DEFINE i == FileOf(cur.on)
  <1>1. /\ pc = "write" /\ cur.on \in Id /\ res[cur.on].is = "out" /\ cur.op = "write"
        /\ cur.off \in Nat /\ cur.n \in Nat /\ others \in Nat /\ OwnFiles /\ IsCall(cur)
        /\ UNCHANGED <<start, fd, res, handed, child, told, moved, calls, others>>
    BY DEF Write, DataInv, Writing, FdInv, Running
  <1>2. i \in Files
    BY <1>1, OwnFileIs DEF Owns
  <1>3. OwnFiles'
    BY <1>1 DEF OwnFiles, Inherited
  <1>4. i' = FileOf(cur'.on)
    BY <1>1 DEF FileOf
  <1>5. \A j \in Id : res'[j].buf = res[j].buf
    BY <1>1
  <1>6. CASE pc' = "idle" /\ UNCHANGED <<data, file, cur, runs>>
    <2>1. Writing'
      BY <1>1, <1>6, NotWriting
    <2> QED  BY <1>1, <1>3, <1>5, <1>6, <2>1, SameCloses, StillStep
  <1>7. ASSUME NEW k \in 1..cur.n, file[i].write, Lands(i, k, "app", At(i) + k),
               cur' = [cur EXCEPT !.n = @ - k], pc' = IF k = cur.n THEN "idle" ELSE First(cur)
        PROVE  DataInv'
    <2>1. k \in Nat /\ k >= 1 /\ cur.n - k \in Nat
      BY <1>1
    <2>2. Sound(file, data, runs) /\ Shares(file, runs, told, res)
      BY DEF DataInv
    <2> HIDE DEF i
    <2>3. /\ Sound(file', data', runs') /\ \A x : Past(file, runs, x) => Past(file', runs', x)
          /\ At(i) = Len(data) => Len(data') = At(i) + k
          /\ file'[i].pos = At(i) + k
      BY <1>2, <1>7, <2>1, <2>2, LandsSound
    <2>4. cur'.off = cur.off /\ cur'.n = cur.n - k /\ cur'.on = cur.on
      BY <1>1, <1>7 DEF IsCall
    <2>5. First(cur) = IF res[cur.on].end THEN "end" ELSE "write"
      BY <1>1 DEF First
    <2>6. ~ (pc' = "write" /\ res'[cur'.on].end)
      BY <1>1, <1>7, <2>4, <2>5
    <2>7. Writing'
      BY <1>1, <2>1, <2>4, <2>6 DEF Writing
    <2> QED  BY <1>1, <1>3, <1>5, <2>3, <2>7, DataStep
  <1> QED  BY <1>6, <1>7 DEF Write, Answer, Advance

(* Bytes read are new places, one after another.                           *)
LEMMA BytesAre ==
    ASSUME Sound(file, data, runs), NEW i \in Files, file[i].read, NEW k \in Nat,
           NEW b, b = Bytes(i, k), NEW said, NEW r, Shares(file, runs, said, r),
           NEW g, g = Passed(i, k)
    PROVE  /\ Goes(file, g, runs, runs, i)
           /\ Behind(g, runs, b) /\ Distinct(b) /\ Disjoint(said, b) /\ Len(b) = k
           /\ \A j \in Id : Disjoint(r[j].buf, b)
  <1>1. runs \in Nat /\ IsFile(file[i], runs)
    BY DEF Sound
  <1>2. file[i].run \in Nat /\ file[i].run # 0 /\ file[i].pos \in Nat /\ runs >= file[i].run
    BY <1>1, InRun
  <1>3. /\ b \in Seq(Places) /\ Len(b) = k
        /\ \A j \in 1..k : b[j].run = file[i].run /\ b[j].ix = file[i].pos + j
    <2>1. b = [j \in 1..k |-> [run |-> file[i].run, ix |-> file[i].pos + j]]
      BY DEF Bytes
    <2>2. \A j \in 1..k : [run |-> file[i].run, ix |-> file[i].pos + j] \in Places
      BY <1>2 DEF Places
    <2>3. b \in [1..k -> Places]
      BY <2>1, <2>2
    <2>4. b \in Seq(Places)
      BY <2>3 DEF Seq
    <2>5. DOMAIN b = 1..k /\ DOMAIN b = 1..Len(b) /\ Len(b) \in Nat
      BY <2>3, <2>4, LenProperties
    <2>6. Len(b) = k
      BY <2>5
    <2> QED  BY <2>1, <2>4, <2>6
  <1>4. Goes(file, g, runs, runs, i) /\ g[i].pos = file[i].pos + k /\ g[i].run = file[i].run
    <2>1. PICK p, u, r1 : p = file[i].pos + k /\ u = file[i].run /\ r1 = runs
      OBVIOUS
    <2>2. /\ file = [j \in Files |-> file[j]]
          /\ file[i] = OpenAs(file[i].pos, file[i].append, file[i].read, file[i].write,
                              file[i].opened, file[i].run)
      BY <1>1 DEF Sound, IsFile
    <2>3. [file[i] EXCEPT !.pos = @ + k] = Set(file[i], p, u)
      BY <1>2, <2>1, <2>2 DEF Set, OpenAs
    <2>4. g = SetAt(file, i, p, u)
      BY <2>2, <2>3 DEF Set, SetAt, Passed
    <2>5. p \in Nat /\ u \in Nat /\ p >= file[i].pos /\ u # 0
          /\ r1 = IF u = file[i].run THEN runs ELSE runs + 1
      BY <1>2, <2>1
    <2>6. Goes(file, g, runs, r1, i) /\ g[i].pos = p /\ g[i].run = u
      BY <2>1, <2>4, <2>5, CursorSet, SMTT(60)
    <2> QED  BY <2>1, <2>6
  <1>5. Behind(g, runs, b)
    <2>1. ASSUME NEW j \in 1..k, NEW h \in Files, g[h].run = b[j].run
          PROVE  b[j].ix <= g[h].pos
      <3>1. h = i
        BY <1>2, <1>3, <1>4, <2>1 DEF Goes, Sound
      <3> QED  BY <1>2, <1>3, <1>4, <3>1
    <2>2. \A j \in 1..k : b[j] \in Places
      BY <1>3, ElementOfSeq
    <2> QED  BY <1>2, <1>3, <2>1, <2>2 DEF Behind, Past
  <1>6. Distinct(b)
    BY <1>2, <1>3 DEF Distinct
  <1>7. ASSUME NEW s, Behind(file, runs, s)
        PROVE  Disjoint(s, b)
    <2> SUFFICES ASSUME NEW m \in 1..Len(s), NEW j \in 1..Len(b), s[m] = b[j]
                 PROVE  FALSE
      BY DEF Disjoint
    <2>1. s[m].run = file[i].run => s[m].ix <= file[i].pos
      BY <1>7 DEF Behind, Past
    <2>2. b[j].run = file[i].run /\ b[j].ix = file[i].pos + j /\ j >= 1 /\ j \in Nat
      BY <1>3
    <2> QED  BY <1>2, <2>1, <2>2
  <1>8. Disjoint(said, b) /\ \A j \in Id : Disjoint(r[j].buf, b)
    BY <1>7 DEF Shares
  <1> QED  BY <1>3, <1>4, <1>5, <1>6, <1>8


LEMMA ReadData ==
    ASSUME FdInv, DataInv, Read
    PROVE  DataInv'
  <1> DEFINE i   == FileOf(cur.on)
             buf == res[cur.on].buf
             k   == Least(IF cur.n >= Cap THEN cur.n ELSE Cap, Available(i))
  <1>1. /\ pc = "read" /\ pc' = "idle" /\ cur.on \in Id /\ res[cur.on].is = "in"
        /\ cur.n \in Nat /\ OwnFiles /\ Sound(file, data, runs) /\ Shares(file, runs, told, res)
        /\ UNCHANGED <<start, data, fd, handed, child, cur, moved, runs, calls, others>>
    BY DEF Read, Answer, FdInv, Running, DataInv, Writing
  <1>2. i \in Files
    BY <1>1, OwnFileIs DEF Owns
  <1>3. OwnFiles' /\ Writing'
    BY <1>1, NotWriting DEF OwnFiles, Inherited
  <1>4. CASE UNCHANGED <<file, told, res>>
    BY <1>1, <1>3, <1>4, SameCloses, StillStep
  (* What is told and what is kept are cut from what was got.              *)
  <1>5. ASSUME NEW got, NEW g, file' = g,
               Sound(g, data, runs), Shares(g, runs, told, res),
               Apart(g, runs, told, res, cur.on, got),
               LET n == Least(cur.n, Len(got))
               IN  /\ told' = told \o SubSeq(got, 1, n)
                   /\ res' = [res EXCEPT ![cur.on].buf = SubSeq(got, n + 1, Len(got))]
        PROVE  DataInv'
    <2>1. Len(got) \in Nat
      BY <1>5, LenProperties DEF Apart, Behind
    <2>2. PICK n : n = Least(cur.n, Len(got))
      OBVIOUS
    <2>3. n \in 0..Len(got)
      BY <1>1, <2>1, <2>2 DEF Least
    <2>4. PICK u, v : u = SubSeq(got, 1, n) /\ v = SubSeq(got, n + 1, Len(got))
      OBVIOUS
    <2>5. told' = told \o u /\ res' = [res EXCEPT ![cur.on].buf = v]
      BY <1>5, <2>2, <2>4
    <2>6. res = [j \in Id |-> res[j]] /\ DOMAIN res[cur.on] = Fields
      BY <1>1 DEF FdInv, HandlesOK
    <2>7. PICK x : x = [res[cur.on] EXCEPT !.buf = v]
      OBVIOUS
    <2>8. x.buf = v
      BY <2>6, <2>7 DEF Fields
    <2>9. PICK s, said1 : s = res' /\ said1 = told'
      OBVIOUS
    <2>10. Keeping(res, s, cur.on, v)
      BY <1>1, <2>5, <2>6, <2>7, <2>8, <2>9 DEF Keeping
    <2>11. said1 = told \o u /\ cur.on \in Id
      BY <1>1, <2>5, <2>9
    <2>12. Shares(g, runs, said1, s)
      BY <1>5, <2>3, <2>4, <2>10, <2>11, SharesRead, Zenon
    <2> QED  BY <1>1, <1>3, <1>5, <2>9, <2>12 DEF DataInv
  <1>6. CASE buf # <<>> /\ ~ UNCHANGED <<file, told, res>>
    <2>1. /\ file' = file
          /\ LET n == Least(cur.n, Len(buf))
             IN  /\ told' = told \o SubSeq(buf, 1, n)
                 /\ res' = [res EXCEPT ![cur.on].buf = SubSeq(buf, n + 1, Len(buf))]
      BY <1>6 DEF Read
    <2>2. Apart(file, runs, told, res, cur.on, buf)
      BY <1>1 DEF Shares, Apart
    <2> HIDE DEF buf
    <2> QED  BY <1>1, <1>5, <2>1, <2>2
  <1>7. CASE buf = <<>> /\ ~ UNCHANGED <<file, told, res>>
    <2>1. PICK b : b = Bytes(i, k)
      OBVIOUS
    <2>2. /\ file[i].read /\ file' = Passed(i, k)
          /\ LET n == Least(cur.n, Len(b))
             IN  /\ told' = told \o SubSeq(b, 1, n)
                 /\ res' = [res EXCEPT ![cur.on].buf = SubSeq(b, n + 1, Len(b))]
      BY <1>7, <2>1 DEF Read
    <2>3. k \in Nat
      <3>1. file[i].pos \in Nat
        BY <1>1, <1>2 DEF Sound, IsFile
      <3>2. Len(data) \in Nat
        BY <1>1, LenProperties DEF Sound
      <3>3. Available(i) \in Nat
        BY <3>1, <3>2 DEF Available
      <3>4. Cap \in Nat
        BY OpenFilesAssumption
      <3> QED  BY <1>1, <3>3, <3>4 DEF Least
    <2> HIDE DEF k, i
    <2>4. PICK g : g = file'
      OBVIOUS
    <2>5. /\ Goes(file, g, runs, runs, i)
          /\ Behind(g, runs, b) /\ Distinct(b) /\ Disjoint(told, b)
          /\ \A j \in Id : Disjoint(res[j].buf, b)
      <3>1. g = Passed(i, k)
        BY <2>2, <2>4
      <3> QED  BY <1>1, <1>2, <2>1, <2>2, <2>3, <3>1, BytesAre, Zenon
    <2>6. Sound(g, data, runs)
      <3>1. data \in Seq(Cells)
        BY <1>1 DEF Sound
      <3> QED  BY <1>1, <1>2, <2>5, <3>1, GoesSound
    <2>7. \A x : Past(file, runs, x) => Past(g, runs, x)
      BY <1>1, <1>2, <2>5, GoesPast
    <2>8. Shares(g, runs, told, res)
      BY <1>1, <2>7, SharesGo
    <2>9. Apart(g, runs, told, res, cur.on, b)
      BY <2>5 DEF Apart
    <2> QED  BY <1>5, <2>2, <2>4, <2>6, <2>8, <2>9
  <1> QED  BY <1>4, <1>6, <1>7

LEMMA DupData ==
    ASSUME FdInv, DataInv, Dup
    PROVE  DataInv'
  <1>1. /\ pc' = "idle" /\ file' = Collected(file, fd')
        /\ UNCHANGED <<start, data, res, child, cur, told, moved, runs, calls, others>>
    BY DEF Dup, Answer
  <1>2. \/ fd' = Spent(fd) /\ handed' = handed
        \/ \E n \in Fd : \E x : fd' = Spent([fd EXCEPT ![n] = x]) /\ handed' = handed \cup {n}
    <2>1. CASE DupNumbers = {} \/ (cur.op = "hand" /\ res[cur.on].end)
      BY <2>1 DEF Dup
    <2>2. CASE ~ (DupNumbers = {} \/ (cur.op = "hand" /\ res[cur.on].end))
      <3>1. Lowest(DupNumbers) \in Fd
        BY <2>2, LowestFree DEF DupNumbers, FirstNonStdio
      <3>2. fd' = Spent([fd EXCEPT ![Lowest(DupNumbers)] = fd[Source]])
            /\ handed' = handed \cup {Lowest(DupNumbers)}
        BY <2>2 DEF Dup, HandDup
      <3> QED  BY <3>1, <3>2
    <2> QED  BY <2>1, <2>2
  <1>3. OwnFiles'
    BY <1>1, <1>2, FdsAre DEF DataInv, OwnFiles, Inherited, Spent, Without
  <1>4. Writing' /\ Closing(file, file')
    BY <1>1, NotWriting, CollectedCloses
  <1> QED  BY <1>1, <1>3, <1>4, StillStep


(* What has been got is told whole.                                        *)
LEMMA SharesTold ==
    ASSUME NEW f, NEW rr, NEW said, NEW r, Shares(f, rr, said, r),
           NEW got, Behind(f, rr, got), Distinct(got), Disjoint(said, got),
           \A j \in Id : Disjoint(r[j].buf, got)
    PROVE  Shares(f, rr, said \o got, r)
  <1> DEFINE said1 == said \o got
  <1>1. said \in Seq(Places) /\ got \in Seq(Places) /\ Len(said) \in Nat /\ Len(got) \in Nat
    BY LenProperties DEF Behind, Shares
  <1>2. /\ said1 \in Seq(Places) /\ Len(said1) = Len(said) + Len(got)
        /\ \A k \in 1..Len(said) + Len(got) :
              said1[k] = IF k <= Len(said) THEN said[k] ELSE got[k - Len(said)]
    BY <1>1, ConcatProperties
  <1> HIDE DEF said1
  <1>3. \A k \in 1..Len(said1) : \/ k \in 1..Len(said) /\ said1[k] = said[k]
                                 \/ k - Len(said) \in 1..Len(got) /\ said1[k] = got[k - Len(said)]
    BY <1>1, <1>2
  <1>4. Behind(f, rr, said1)
    BY <1>2, <1>3 DEF Behind, Shares
  <1>5. Distinct(said1)
    <2> SUFFICES ASSUME NEW j \in 1..Len(said1), NEW k \in 1..Len(said1), j # k
                 PROVE  said1[j] # said1[k]
      BY DEF Distinct
    <2>1. CASE j \in 1..Len(said) /\ said1[j] = said[j] /\ k \in 1..Len(said) /\ said1[k] = said[k]
      BY <2>1 DEF Shares, Distinct
    <2>2. CASE /\ j - Len(said) \in 1..Len(got) /\ said1[j] = got[j - Len(said)]
               /\ k - Len(said) \in 1..Len(got) /\ said1[k] = got[k - Len(said)]
      <3>1. j - Len(said) # k - Len(said)
        BY <1>1
      <3> QED  BY <2>2, <3>1 DEF Distinct
    <2>3. CASE /\ j \in 1..Len(said) /\ said1[j] = said[j]
               /\ k - Len(said) \in 1..Len(got) /\ said1[k] = got[k - Len(said)]
      BY <2>3 DEF Disjoint
    <2>4. CASE /\ j - Len(said) \in 1..Len(got) /\ said1[j] = got[j - Len(said)]
               /\ k \in 1..Len(said) /\ said1[k] = said[k]
      BY <2>4 DEF Disjoint
    <2> QED  BY <1>3, <2>1, <2>2, <2>3, <2>4
  <1>6. \A j \in Id : Disjoint(said1, r[j].buf)
    <2> TAKE j \in Id
    <2>1. Disjoint(said, r[j].buf) /\ Disjoint(r[j].buf, got)
      BY DEF Shares
    <2> QED  BY <1>3, <2>1 DEF Disjoint
  <1> QED  BY <1>4, <1>5, <1>6 DEF Shares, said1

(* What the app does between calls.                                        *)
LEMMA LetGoData ==
    ASSUME FdInv, DataInv, NEW n \in handed, CloseFd(n) \/ Spawn(n)
    PROVE  DataInv'
  <1>1. /\ fd' = Without(fd, n) /\ handed' = handed \ {n} /\ pc' = "idle"
        /\ UNCHANGED <<start, data, res, told, runs, others>>
        /\ child' = child \/ child' = child \cup ({fd[n]} \cap Files)
        /\ file' = file \/ file' = Collected(file, fd')
    BY DEF CloseFd, Spawn
  <1>2. \A m \in Fd : fd'[m] = IF m = n THEN NoFile ELSE fd[m]
    BY <1>1, FdsAre DEF Without
  <1>3. OwnFiles'
    BY <1>1, <1>2 DEF DataInv, OwnFiles, Inherited
  <1>4. Writing' /\ Closing(file, file')
    BY <1>1, NotWriting, CollectedCloses, SameCloses
  <1> QED  BY <1>1, <1>3, <1>4, StillStep

LEMMA GetStdoutData ==
    ASSUME FdInv, DataInv, GetStdout
    PROVE  DataInv'
  <1>1. /\ pc' = "idle"
        /\ UNCHANGED <<start, data, file, fd, handed, child, told, runs, others>>
    BY DEF GetStdout
  <1>2. PICK w : w = [Nobody EXCEPT !.is = "std", !.fd = 1]
    OBVIOUS
  <1>3. w.buf = <<>>
    BY <1>2 DEF Nobody
  <1>4. res' = [res EXCEPT ![Lowest(FreeId)] = w]
    BY <1>2 DEF GetStdout
  <1>5. \A j \in Id : res'[j].buf = res[j].buf \/ res'[j].buf = <<>>
    BY <1>3, <1>4, FdsAre
  <1>6. OwnFiles' /\ Writing'
    BY <1>1, NotWriting DEF DataInv, OwnFiles, Inherited
  <1> QED  BY <1>1, <1>5, <1>6, SameCloses, StillStep

LEMMA DropData ==
    ASSUME FdInv, DataInv, NEW i \in Id, Drop(i)
    PROVE  DataInv'
  <1>1. /\ pc' = "idle" /\ file' = Collected(file, fd') /\ res' = [res EXCEPT ![i] = Nobody]
        /\ fd' = fd \/ fd' = Without(fd, res[i].fd)
        /\ UNCHANGED <<start, data, handed, child, told, runs, others>>
    BY DEF Drop
  <1>2. \A m \in Fd : fd'[m] \in {NoFile, fd[m]}
    BY <1>1, FdsAre DEF Without
  <1>3. OwnFiles'
    BY <1>1, <1>2 DEF DataInv, OwnFiles, Inherited
  <1>4. \A j \in Id : res'[j].buf = res[j].buf \/ res'[j].buf = <<>>
    BY <1>1, FdsAre
  <1>5. Writing' /\ Closing(file, file')
    BY <1>1, NotWriting, CollectedCloses
  <1> QED  BY <1>1, <1>3, <1>4, <1>5, StillStep

(* Other processes: from then on the end may be elsewhere.                 *)
LEMMA MovedOn ==
    ASSUME DataInv, Others, moved' = TRUE, UNCHANGED <<start, fd, res, handed, child, pc, cur>>
    PROVE  OwnFiles' /\ Writing'
  <1>1. others' \in Nat
    BY DEF Others, DataInv, Writing
  <1> QED  BY <1>1 DEF DataInv, OwnFiles, Writing, Inherited

LEMMA ChildWritesData ==
    ASSUME DataInv, NEW i \in child, ChildWrites(i)
    PROVE  DataInv'
  <1>1. /\ file[i].write /\ Lands(i, 1, "child", At(i) + 1) /\ moved' = TRUE /\ Others
        /\ UNCHANGED <<start, fd, res, handed, child, pc, cur, told, calls>>
    BY DEF ChildWrites
  <1>2. i \in Files /\ Sound(file, data, runs)
    BY DEF DataInv, OwnFiles
  <1>3. Sound(file', data', runs') /\ \A x : Past(file, runs, x) => Past(file', runs', x)
    <2>1. PICK k : k = 1
      OBVIOUS
    <2>2. k \in Nat /\ k >= 1 /\ Lands(i, k, "child", At(i) + k)
      BY <1>1, <2>1
    <2> QED  BY <1>1, <1>2, <2>2, LandsSound
  <1> QED  BY <1>1, <1>3, MovedOn, DataStep

LEMMA ChildReadsData ==
    ASSUME FdInv, DataInv, NEW i \in child, ChildReads(i)
    PROVE  DataInv'
  <1>1. /\ file[i].read /\ told' = told \o Bytes(i, 1) /\ moved' = TRUE /\ Others
        /\ file' = Passed(i, 1)
        /\ UNCHANGED <<start, data, fd, res, handed, child, pc, cur, runs, calls>>
    BY DEF ChildReads, Passed
  <1>2. i \in Files /\ Sound(file, data, runs) /\ Shares(file, runs, told, res)
    BY DEF DataInv, OwnFiles
  <1>3. PICK k : k = 1
    OBVIOUS
  <1>4. PICK b, g : b = Bytes(i, k) /\ g = file'
    OBVIOUS
  <1>5. g = Passed(i, k) /\ k \in Nat
    BY <1>1, <1>3, <1>4
  <1>6. /\ Goes(file, g, runs, runs, i)
        /\ Behind(g, runs, b) /\ Distinct(b) /\ Disjoint(told, b) /\ Len(b) = k
        /\ \A j \in Id : Disjoint(res[j].buf, b)
    BY <1>1, <1>2, <1>4, <1>5, BytesAre, Zenon
  <1>7. data \in Seq(Cells)
    BY <1>2 DEF Sound
  <1>8. Sound(g, data, runs)
    BY <1>2, <1>6, <1>7, GoesSound
  <1>9. \A x : Past(file, runs, x) => Past(g, runs, x)
    BY <1>2, <1>6, GoesPast
  <1>10. Shares(g, runs, told, res)
    BY <1>2, <1>9, SharesGo
  <1>11. Shares(g, runs, told \o b, res)
    BY <1>6, <1>10, SharesTold
  <1> QED  BY <1>1, <1>3, <1>4, <1>8, <1>11, MovedOn DEF DataInv

LEMMA OtherAppendsData ==
    ASSUME DataInv, OtherAppends
    PROVE  DataInv'
  <1>1. /\ data' = Append(data, [by |-> "other", run |-> 0]) /\ moved' = TRUE /\ Others
        /\ UNCHANGED <<start, file, fd, res, handed, child, pc, cur, told, runs, calls>>
    BY DEF OtherAppends
  <1>2. data \in Seq(Cells) /\ Len(data) \in Nat /\ runs \in Nat /\ Sound(file, data, runs)
    BY LenProperties DEF DataInv, Sound
  <1>3. PICK c : c = [by |-> "other", run |-> 0] /\ c \in Cells /\ c.run = 0
    <2>1. [by |-> "other", run |-> 0] \in Cells
      BY DEF Cells
    <2>2. [by |-> "other", run |-> 0].run = 0
      OBVIOUS
    <2> QED  BY <2>1, <2>2
  <1>4. /\ data' \in Seq(Cells) /\ Len(data') = Len(data) + 1
        /\ \A k \in 1..Len(data) : data'[k] = data[k]
        /\ data'[Len(data) + 1] = c
    BY <1>1, <1>2, <1>3
  <1>5. \A k \in 1..Len(data') : \/ k \in 1..Len(data) /\ data'[k] = data[k]
                                 \/ data'[k].run = 0
    BY <1>2, <1>3, <1>4
  <1>6. Sound(file, data', runs)
    BY <1>2, <1>4, <1>5 DEF Sound
  <1> QED  BY <1>1, <1>6, MovedOn DEF DataInv


-----------------------------------------------------------------------------
LEMMA InitDataInv == Init => DataInv
  <1> SUFFICES ASSUME Init  PROVE DataInv
    OBVIOUS
  <1>1. /\ start \in Starts /\ data = start.data /\ file = [i \in Files |-> Closed]
        /\ fd = [n \in Fd |-> IF n \in Inherited THEN Std ELSE NoFile]
        /\ res = [i \in Id |-> Nobody] /\ child = {}
        /\ pc = "idle" /\ told = <<>> /\ runs = 0 /\ others = 0
    BY DEF Init
  <1>2. data \in Seq(Cells) /\ \A k \in 1..Len(data) : data[k].run = 0
    <2> DEFINE Old == [by : {"old"}, run : {0}]
    <2>1. data \in Seq(Old)
      BY <1>1, OpenFilesAssumption
    <2>2. \A k \in 1..Len(data) : data[k] \in Old
      BY <2>1, ElementOfSeq
    <2>3. Old \subseteq Cells
      BY DEF Cells
    <2> HIDE DEF Old
    <2>4. data \in Seq(Cells)
      BY <2>1, <2>3
    <2> QED  BY <2>2, <2>4 DEF Old
  <1>3. Closed.run = 0 /\ IsFile(Closed, 0)
    BY DEF Closed, IsFile, OpenAs
  <1>4. Sound(file, data, runs)
    BY <1>1, <1>2, <1>3 DEF Sound
  <1>5. Nobody.buf = <<>>
    BY DEF Nobody
  <1>6. /\ Behind(file, runs, <<>>) /\ Distinct(<<>>) /\ Disjoint(<<>>, <<>>)
    <2>1. <<>> \in Seq(Places) /\ Len(<<>>) = 0 /\ 1..0 = {}
      OBVIOUS
    <2> QED  BY <2>1 DEF Behind, Distinct, Disjoint
  <1>7. Shares(file, runs, told, res)
    BY <1>1, <1>5, <1>6 DEF Shares
  <1>8. OwnFiles /\ Writing
    BY <1>1 DEF OwnFiles, Writing, NoFile
  <1> QED  BY <1>4, <1>7, <1>8 DEF DataInv

LEMMA NextDataInv == FdInv /\ DataInv /\ [Next]_vars => DataInv'
  <1> SUFFICES ASSUME FdInv, DataInv, [Next]_vars  PROVE DataInv'
    OBVIOUS
  <1>1. ASSUME NEW c \in start.calls, Start(c)  PROVE DataInv'
    BY <1>1, StartData
  <1>2. CASE Open \/ Clone \/ Seek \/ SeekFails
    BY <1>2, OpenData, CloneData, SeekData, SeekFailsData
  <1>3. CASE SeekEnd \/ SeekEndFails \/ Write \/ Read \/ Dup
    BY <1>3, SeekEndData, SeekEndFailsData, WriteData, ReadData, DupData
  <1>4. ASSUME NEW n \in handed, CloseFd(n) \/ Spawn(n)  PROVE DataInv'
    BY <1>4, LetGoData
  <1>5. CASE GetStdout
    BY <1>5, GetStdoutData
  <1>6. ASSUME NEW i \in Id, Drop(i)  PROVE DataInv'
    BY <1>6, DropData
  <1>7. ASSUME NEW i \in child, ChildWrites(i) \/ ChildReads(i)  PROVE DataInv'
    BY <1>7, ChildWritesData, ChildReadsData
  <1>8. CASE OtherAppends
    BY <1>8, OtherAppendsData
  <1>9. CASE UNCHANGED vars
    BY <1>9 DEF vars, DataInv, OwnFiles, Writing, Inherited, FileOf, Seekable
  <1> QED  BY <1>1, <1>2, <1>3, <1>4, <1>5, <1>6, <1>7, <1>8, <1>9 DEF Next

LEMMA DataInvAlways == Spec => [](FdInv /\ DataInv)
  <1> QED  BY InitFdInv, NextFdInv, InitDataInv, NextDataInv, PTL DEF Spec

(* Whoever writes through an open file, streams or a child, writes past    *)
(* what was written since its cursor last jumped: they continue each other *)
(* and never write over one another (fs-core lib.rs:471-474).              *)
THEOREM CursorAlwaysPastRun == Spec => []CursorPastRun
  <1>1. FdInv /\ DataInv => CursorPastRun
    <2> SUFFICES ASSUME DataInv, NEW i \in Files, NEW k \in 1..Len(data),
                        file[i] # Closed, data[k].run = file[i].run
                 PROVE  k <= file[i].pos
      BY DEF CursorPastRun
    <2>1. Sound(file, data, runs)
      BY DEF DataInv
    <2>2. file[i].run # 0
      BY <2>1 DEF Sound, IsFile
    <2> QED  BY <2>1, <2>2 DEF Sound
  <1> QED  BY <1>1, DataInvAlways, PTL

(* Streams that buffer and a child that reads through one open file share  *)
(* its bytes out: what one was told no other is told, and none still has   *)
(* it in a buffer (fs-core lib.rs:471-472).                                *)
THEOREM NoByteToldTwice == Spec => []NoByteTwice
  <1>1. FdInv /\ DataInv => NoByteTwice
    <2> SUFFICES ASSUME DataInv  PROVE NoByteTwice
      OBVIOUS
    <2>1. Distinct(told) /\ \A i \in Id : Disjoint(told, res[i].buf)
      BY DEF DataInv, Shares
    <2>2. ASSUME NEW i \in Id, NEW k \in 1..Len(told)
          PROVE  told[k] \notin Buffered(i)
      BY <2>1 DEF Buffered, Disjoint
    <2>3. \A j, k \in 1..Len(told) : j # k => told[j] # told[k]
      BY <2>1 DEF Distinct
    <2> QED  BY <2>2, <2>3 DEF NoByteTwice
  <1> QED  BY <1>1, DataInvAlways, PTL


(* While a write is under way, what is not its own step and not another    *)
(* process's leaves the file alone; its own lands where its cursor is, or  *)
(* at the end.                                                             *)
LEMMA WriteLands ==
    ASSUME FdInv, DataInv, [Next]_vars, pc = "write", others' = others, data' # data,
           NEW i, i = FileOf(cur.on)
    PROVE  /\ i \in Files /\ At(i) \in Nat /\ Len(data) \in Nat
           /\ Len(data') >= Len(data)
           /\ \A j \in 1..Len(data) : j <= At(i) => data'[j] = data[j]
           /\ data'[At(i) + 1].run = Run(i)
           /\ file[i].append = file[i].opened
           /\ res[cur.on].end /\ ~moved /\ Seekable => file[i].pos = Len(data)
  <1>1. Write
    <2>1. others' # others + 1
      BY DEF DataInv, Writing
    <2>2. ~ OtherAppends /\ \A j \in child : ~ ChildWrites(j) /\ ~ ChildReads(j)
      BY <2>1 DEF OtherAppends, ChildWrites, ChildReads, Others
    <2>3. /\ ~ (UNCHANGED vars) /\ ~ Open /\ ~ Clone /\ ~ Seek /\ ~ SeekFails /\ ~ SeekEnd
          /\ ~ SeekEndFails /\ ~ Read /\ ~ Dup /\ ~ GetStdout
      BY DEF vars, Open, Clone, Seek, SeekFails, SeekEnd, SeekEndFails, Read, Dup, GetStdout
    <2>4. /\ \A c \in start.calls : ~ Start(c)
          /\ \A n \in handed : ~ CloseFd(n) /\ ~ Spawn(n)
          /\ \A j \in Id : ~ Drop(j)
      BY DEF Start, CloseFd, Spawn, Drop
    <2> QED  BY <2>2, <2>3, <2>4 DEF Next
  <1>2. /\ cur.on \in Id /\ res[cur.on].is = "out" /\ OwnFiles /\ cur.n \in Nat
        /\ Sound(file, data, runs)
        /\ res[cur.on].end /\ ~moved /\ Seekable => file[i].pos = Len(data)
    BY DEF DataInv, Writing
  <1>3. i \in Files
    BY <1>2, OwnFileIs DEF Owns
  <1>4. PICK k \in 1..cur.n : file[i].write /\ Lands(i, k, "app", At(i) + k)
    BY <1>1 DEF Write, Advance
  <1>5. k \in Nat /\ k >= 1
    BY <1>2
  <1>6. /\ At(i) \in Nat /\ Len(data) \in Nat /\ Len(data') >= Len(data)
        /\ \A j \in 1..Len(data) : j <= At(i) => data'[j] = data[j]
        /\ data'[At(i) + 1].run = Run(i)
    BY <1>2, <1>3, <1>4, <1>5, LandsSound
  <1>7. file[i].append = file[i].opened
    BY <1>2, <1>3 DEF Sound, IsFile
  <1> QED  BY <1>2, <1>3, <1>6, <1>7

(* A write of an append stream keeps all that is in the file, whatever is  *)
(* written between its system calls when the descriptor was opened to      *)
(* append, and otherwise unless another process wrote between its seek and *)
(* its write (Fs.roc:81-86).                                               *)
THEOREM AppendsAlwaysKeepAll == Spec => AppendsKeepAll
  <1> DEFINE A == (pc = "write" /\ calls' = calls /\ others' = others
                      /\ (file[FileOf(cur.on)].opened \/ (res[cur.on].end /\ ~moved)))
                  => Len(data') >= Len(data) /\ \A k \in 1..Len(data) : data'[k] = data[k]
  <1>1. FdInv /\ DataInv /\ [Next]_vars => A
    <2> SUFFICES ASSUME FdInv, DataInv, [Next]_vars, pc = "write", others' = others,
                        file[FileOf(cur.on)].opened \/ (res[cur.on].end /\ ~moved)
                 PROVE  Len(data') >= Len(data) /\ \A k \in 1..Len(data) : data'[k] = data[k]
      OBVIOUS
    <2>1. CASE data' = data
      <3>1. Len(data) \in Nat
        BY LenProperties DEF DataInv, Sound
      <3> QED  BY <2>1, <3>1
    <2>2. CASE data' # data
      <3>1. PICK i : i = FileOf(cur.on)
        OBVIOUS
      <3>2. /\ At(i) \in Nat /\ Len(data) \in Nat /\ Len(data') >= Len(data)
            /\ \A j \in 1..Len(data) : j <= At(i) => data'[j] = data[j]
            /\ file[i].append = file[i].opened
            /\ res[cur.on].end /\ ~moved /\ Seekable => file[i].pos = Len(data)
        BY <2>2, <3>1, WriteLands
      <3>3. At(i) = Len(data)
        <4>1. Jumps(i) => At(i) = Len(data)
          BY DEF At
        <4>2. ~ Jumps(i) => Seekable /\ ~ file[i].append /\ At(i) = file[i].pos
          BY DEF At, Jumps
        <4> QED  BY <3>1, <3>2, <4>1, <4>2
      <3> QED  BY <3>2, <3>3
    <2> QED  BY <2>1, <2>2
  <1>2. FdInv /\ DataInv /\ [Next]_vars => [A]_vars
    BY <1>1
  <1> QED  BY <1>2, DataInvAlways, PTL DEF Spec, AppendsKeepAll

(* A write of an offset stream lands at the cursor, in the run that write  *)
(* or read there last: no append stream made on the same descriptor has    *)
(* turned it append-only (fs-core lib.rs:505-509).                         *)
THEOREM OffsetsAlwaysKept == Spec => OffsetsAreKept
  <1> DEFINE A == (pc = "write" /\ others' = others /\ data' # data /\ Seekable
                      /\ ~res[cur.on].end /\ ~file[FileOf(cur.on)].opened)
                  => data'[file[FileOf(cur.on)].pos + 1].run = file[FileOf(cur.on)].run
  <1>1. FdInv /\ DataInv /\ [Next]_vars => A
    <2> SUFFICES ASSUME FdInv, DataInv, [Next]_vars, pc = "write", others' = others,
                        data' # data, Seekable, ~file[FileOf(cur.on)].opened
                 PROVE  data'[file[FileOf(cur.on)].pos + 1].run = file[FileOf(cur.on)].run
      OBVIOUS
    <2>1. PICK i : i = FileOf(cur.on)
      OBVIOUS
    <2>2. data'[At(i) + 1].run = Run(i) /\ file[i].append = file[i].opened
      BY <2>1, WriteLands
    <2>3. At(i) = file[i].pos /\ Run(i) = file[i].run
      BY <2>1, <2>2 DEF At, Jumps, Run
    <2> QED  BY <2>1, <2>2, <2>3
  <1>2. FdInv /\ DataInv /\ [Next]_vars => [A]_vars
    BY <1>1
  <1> QED  BY <1>2, DataInvAlways, PTL DEF Spec, OffsetsAreKept
===============================================================================
