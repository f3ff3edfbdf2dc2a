-------------------------- MODULE WorkingDirProofs --------------------------
(***************************************************************************)
(* One run of the confined host acts under one root, and a root that was   *)
(* not established stays so; a relative path leads below what set_cwd!     *)
(* accepted, and nowhere when there is no working directory: proved for    *)
(* every tree, every set of paths and every number of calls and of moves by*)
(* other programs.                                                         *)
(*                                                                         *)
(* RootInv is about the memo alone: a call in progress finds the root only *)
(* while it is unset, nothing has acted before that, and whatever has acted*)
(* since acted in the directory whose handle the memo holds.  CwdInv adds  *)
(* what is known of the slot and of the running call's path: the slot is   *)
(* empty until the memo is what it will stay; what was set is where the    *)
(* slot's path leads by that handle; and no move by another program makes a*)
(* path to a directory that had none.                                      *)
(***************************************************************************)
EXTENDS WorkingDir, Loops, SequenceTheorems, TLAPS

(* Which call may still find the root, and who may act without one.        *)
Finding ==
    /\ pc \in {"find", "open"} => confined /\ memo = Unset
    /\ pc = "act" /\ memo = Unset => ~confined
    /\ ~confined => memo = Unset

(* The memo is one of its three values.                                    *)
MemoIs ==
    \/ memo = Unset
    \/ \E e \in {"NotFound", "PermissionDenied"} : memo = Failed(e)
    \/ \E b, d : memo = Opened(b, d)

(* Where calls have acted so far.                                          *)
ActedIn ==
    /\ acted \subseteq IF memo.is = "opened" THEN {memo.dir}
                         ELSE IF confined THEN {} ELSE {Top}

(* What a failed root leaves behind.                                       *)
FailedStays ==
    told # {} => memo.is = "failed" /\ told = {memo.err} /\ result.err \in {memo.err, "Other"}

RootInv == Finding /\ MemoIs /\ ActedIn /\ FailedStays

(* The invariant of the memo holds from the start.                         *)
LEMMA RootStart == Init => RootInv
BY SMT DEF Init, RootInv, Finding, MemoIs, ActedIn, FailedStays, Unset

(* Every step keeps it.                                                    *)
LEMMA RootStep == RootInv /\ [Next]_vars => RootInv'
<1> USE DEF RootInv, Finding, MemoIs, ActedIn, FailedStays, past, Unset, Failed, Opened, world
<1> SUFFICES ASSUME RootInv, [Next]_vars PROVE RootInv'
    OBVIOUS
<1>1. ASSUME NEW op, NEW p, Start(op, p) PROVE RootInv'
    BY <1>1, SMT DEF Start
<1>2. CASE Resolve
    BY <1>2, SMT DEF Resolve
<1>3. CASE FindBase
    BY <1>3, SMT DEF FindBase, NoRoot, KeepFailure, Answer
<1>4. CASE OpenRoot
    BY <1>4, SMT DEF OpenRoot, NoRoot, KeepFailure, Answer
<1>5. CASE Act
    <2>1. ASSUME NEW from, NEW c,
                 \/ memo.is = "opened" /\ from = memo.dir
                 \/ memo.is = "unset" /\ from = Top,
                 memo.is # "failed", pc = "act", Reached(from, c), UNCHANGED <<confined, memo, told>>
          PROVE  RootInv'
        <3>1. /\ acted' = acted \cup {from}
              /\ told' = told
            BY <2>1, SMT DEF Reached
        <3>2. Finding' /\ MemoIs'
            BY <2>1, SMT DEF Reached, Answer
        <3>3. acted \cup {from} \subseteq IF memo.is = "opened" THEN {memo.dir}
                                            ELSE IF confined THEN {} ELSE {Top}
            <4>1. CASE memo.is = "opened"
                BY <2>1, <4>1, SMT
            <4>2. CASE memo = Unset
                <5>1. ~confined /\ from = Top /\ memo.is # "opened"
                    BY <2>1, <4>2, SMT
                <5> QED
                    BY <5>1, SMT
            <4> QED
                BY <2>1, <4>1, <4>2, SMT
        <3> QED
            BY <2>1, <3>1, <3>2, <3>3, SMT
    <2>2. ASSUME NEW e, Refused(e), UNCHANGED <<confined, memo, told>>, told = {} \/ e = memo.err
          PROVE  RootInv'
        BY <2>2, SMT DEF Refused, Answer
    <2>3. pc = "act" /\ UNCHANGED <<confined, memo, told>>
        BY <1>5, SMT DEF Act
    <2>4. \/ memo.is = "failed" /\ Refused(memo.err)
          \/ memo.is # "failed" /\ \E e : Refused(e)
          \/ memo.is = "unset" /\ Reached(Top, cand.comps)
          \/ memo.is = "opened" /\ \E c : Reached(memo.dir, c)
        BY <1>5 DEF Act, RootUsed
    <2>5. memo.is # "failed" => told = {}
        BY SMT
    <2>6. CASE memo.is = "failed" /\ Refused(memo.err)
        BY <2>2, <2>3, <2>6
    <2>7. CASE memo.is # "failed" /\ \E e : Refused(e)
        BY <2>2, <2>3, <2>5, <2>7
    <2>8. memo.is \in {"unset", "opened"} => memo.is # "failed"
        BY SMT
    <2>9. CASE memo.is = "unset" /\ Reached(Top, cand.comps)
        BY <2>1, <2>3, <2>8, <2>9
    <2>10. CASE memo.is = "opened" /\ \E c : Reached(memo.dir, c)
        BY <2>1, <2>3, <2>8, <2>10
    <2> QED
        BY <2>4, <2>6, <2>7, <2>9, <2>10
<1>6. CASE RenameDir \/ RemoveDir \/ MakeDir \/ Chmod
    BY <1>6, SMT DEF RenameDir, RemoveDir, MakeDir, Chmod, Moved
<1>7. CASE RefuseBytes
    BY <1>7, SMT DEF RefuseBytes, Refused, Answer
<1>8. CASE UNCHANGED vars
    BY <1>8, SMT DEF vars
<1> QED
    BY <1>1, <1>2, <1>3, <1>4, <1>5, <1>6, <1>7, <1>8 DEF Next

(* One run never resolves a path under two roots (lib.rs:85-96), confined  *)
(* or not.                                                                 *)
THEOREM RootIsOne == Spec => []OneRoot
<1>1. RootInv => OneRoot
    BY SMT DEF RootInv, ActedIn, OneRoot
<1> QED
    BY <1>1, RootStart, RootStep, PTL DEF Spec

(* Once a call has answered that the root could not be established, no     *)
(* later call acts anywhere, and each gives that answer (lib.rs:85-89), or *)
(* refuses the path it was given before it looks for a root.               *)
THEOREM FailureIsKept == Spec => FailureStays
<1>1. RootInv /\ RootInv' /\ [Next]_vars
        => (told # {} => told' = told /\ acted' = acted /\ result'.err \in told \cup {"Other"})
    <2> SUFFICES ASSUME RootInv, RootInv', [Next]_vars, told # {}
                 PROVE told' = told /\ acted' = acted /\ result'.err \in told \cup {"Other"}
        OBVIOUS
    <2>1. memo.is = "failed" /\ memo # Unset
        BY SMT DEF RootInv, FailedStays, Unset
    <2>2. told' = told /\ acted' = acted
        <3> USE <2>1 DEF RootInv, Finding, world, past
        <3>1. ASSUME NEW op, NEW p, Start(op, p) PROVE told' = told /\ acted' = acted
            BY <3>1, SMT DEF Start
        <3>2. CASE Resolve \/ UNCHANGED vars
            BY <3>2, SMT DEF Resolve, vars
        <3>3. CASE FindBase \/ OpenRoot
            BY <3>3, SMT DEF FindBase, OpenRoot
        <3>4. CASE Act
            BY <3>4, SMT DEF Act, Refused
        <3>5. CASE RenameDir \/ RemoveDir \/ MakeDir \/ Chmod
            BY <3>5, SMT DEF RenameDir, RemoveDir, MakeDir, Chmod, Moved
        <3>6. CASE RefuseBytes
            BY <3>6, SMT DEF RefuseBytes, Refused
        <3> QED
            BY <3>1, <3>2, <3>3, <3>4, <3>5, <3>6 DEF Next
    <2> QED
        BY <2>2 DEF RootInv, FailedStays
<1> QED
    BY <1>1, RootStart, RootStep, PTL DEF Spec, FailureStays


-----------------------------------------------------------------------------
(* Where names lead in the tree e, one name at a time.                     *)
Stepped(e, S, n) == {e[x][n] : x \in {y \in S : n \in DOMAIN e[y]}}
Walk(e, d, c, w) ==
    w = [i \in 0..Len(c) |-> IF i = 0 THEN {d} ELSE Stepped(e, w[i - 1], c[i])]
AtIn(e, d, c)    == LET w == CHOOSE u : Walk(e, d, c, u) IN w[Len(c)]

Steps(e, d, c, w, k) ==
    /\ w = [i \in 0..k |-> w[i]]
    /\ w[0] = {d}
    /\ \A i \in 1..k : w[i] = Stepped(e, w[i - 1], c[i])

LEMMA WalkStep ==
    ASSUME NEW e, NEW d, NEW c, Len(c) \in Nat, NEW w
    PROVE  Walk(e, d, c, w) <=> Steps(e, d, c, w, Len(c))
  <1> DEFINE g == [i \in 0..Len(c) |-> IF i = 0 THEN {d} ELSE Stepped(e, w[i - 1], c[i])]
  <1>1. ASSUME w = g
        PROVE  /\ w = [i \in 0..Len(c) |-> w[i]]
               /\ w[0] = {d}
               /\ \A i \in 1..Len(c) : w[i] = Stepped(e, w[i - 1], c[i])
    <2>1. \A i \in 0..Len(c) : w[i] = IF i = 0 THEN {d} ELSE Stepped(e, w[i - 1], c[i])
      BY <1>1
    <2>2. 0 \in 0..Len(c) /\ \A i \in 1..Len(c) : i \in 0..Len(c) /\ i # 0
      OBVIOUS
    <2>3. w = [i \in 0..Len(c) |-> w[i]]
      BY <1>1
    <2> QED  BY <2>1, <2>2, <2>3
  <1>2. ASSUME /\ w = [i \in 0..Len(c) |-> w[i]]
               /\ w[0] = {d}
               /\ \A i \in 1..Len(c) : w[i] = Stepped(e, w[i - 1], c[i])
        PROVE  w = g
    <2>1. \A i \in 0..Len(c) : w[i] = IF i = 0 THEN {d} ELSE Stepped(e, w[i - 1], c[i])
      <3> TAKE i \in 0..Len(c)
      <3>1. i = 0 \/ i \in 1..Len(c)
        OBVIOUS
      <3> QED  BY <1>2, <3>1
    <2> QED  BY <1>2, <2>1
  <1> QED  BY <1>1, <1>2 DEF Walk, Steps

(* What holds at the start and is kept by each name holds at the end.      *)
LEMMA Upwards ==
    ASSUME NEW N \in Nat, NEW S, 0 \in S,
           \A i \in 0..N : i \in S /\ i # N => i + 1 \in S
    PROVE  \A i \in 0..N : i \in S
  <1> DEFINE T == {i \in 0..N : i \notin S}
  <1> SUFFICES ASSUME T # {}  PROVE FALSE
    OBVIOUS
  <1>1. T \in SUBSET Nat
    OBVIOUS
  <1>2. PICK k \in T : \A j \in T : k <= j
    BY <1>1, LeastNumber
  <1>3. k \in 0..N /\ k \notin S /\ k # 0
    OBVIOUS
  <1>4. k - 1 \in 0..N /\ k - 1 # N /\ (k - 1) + 1 = k /\ ~ (k <= k - 1)
    BY <1>3
  <1>5. k - 1 \in S
    BY <1>2, <1>4
  <1> QED  BY <1>3, <1>4, <1>5

LEMMA WalkExists ==
    ASSUME NEW e, NEW d, NEW c, Len(c) \in Nat
    PROVE  \E w : Walk(e, d, c, w)
  <1> DEFINE S == {k \in 0..Len(c) : \E w : Steps(e, d, c, w, k)}
  <1>1. 0 \in S
    <2>1. PICK w : w = [i \in 0..0 |-> {d}]
      OBVIOUS
    <2>2. Steps(e, d, c, w, 0)
      BY <2>1 DEF Steps
    <2> QED  BY <2>2
  <1>2. ASSUME NEW k \in 0..Len(c), k \in S, k # Len(c)
        PROVE  k + 1 \in S
    <2>1. PICK w : Steps(e, d, c, w, k)
      BY <1>2
    <2>2. k \in Nat /\ k + 1 \in 0..Len(c)
      BY <1>2
    <2>3. PICK u : u = [i \in 0..(k + 1) |-> IF i = k + 1 THEN Stepped(e, w[k], c[k + 1]) ELSE w[i]]
      OBVIOUS
    <2>4. u[k + 1] = Stepped(e, w[k], c[k + 1]) /\ \A i \in 0..k : u[i] = w[i]
      BY <2>2, <2>3
    <2>5. ASSUME NEW i \in 1..(k + 1)  PROVE u[i] = Stepped(e, u[i - 1], c[i])
      <3>1. CASE i = k + 1
        <4>1. i - 1 = k /\ k \in 0..k
          BY <2>2, <3>1
        <4> QED  BY <2>4, <3>1, <4>1
      <3>2. CASE i # k + 1
        <4>1. i \in 1..k /\ i \in 0..k /\ i - 1 \in 0..k
          BY <2>2, <3>2
        <4>2. w[i] = Stepped(e, w[i - 1], c[i])
          BY <2>1, <4>1 DEF Steps
        <4> QED  BY <2>4, <4>1, <4>2
      <3> QED  BY <3>1, <3>2
    <2>6. u[0] = {d}
      BY <2>1, <2>2, <2>4 DEF Steps
    <2>7. Steps(e, d, c, u, k + 1)
      BY <2>2, <2>3, <2>5, <2>6 DEF Steps
    <2> QED  BY <2>2, <2>7
  <1>3. \A k \in 0..Len(c) : k \in S /\ k # Len(c) => k + 1 \in S
    BY <1>2
  <1> HIDE DEF S
  <1>4. Len(c) \in S
    <2>1. \A k \in 0..Len(c) : k \in S
      BY <1>1, <1>3, Upwards
    <2> QED  BY <2>1
  <1>5. PICK w : Steps(e, d, c, w, Len(c))
    BY <1>4 DEF S
  <1> QED  BY <1>5, WalkStep

LEMMA WalkUnique ==
    ASSUME NEW e, NEW d, NEW c, Len(c) \in Nat,
           NEW w, Walk(e, d, c, w), NEW u, Walk(e, d, c, u)
    PROVE  w = u
  <1> DEFINE S == {k \in 0..Len(c) : w[k] = u[k]}
  <1>1. /\ w = [i \in 0..Len(c) |-> w[i]] /\ w[0] = {d}
        /\ \A i \in 1..Len(c) : w[i] = Stepped(e, w[i - 1], c[i])
    <2>1. Steps(e, d, c, w, Len(c))
      BY WalkStep
    <2> QED  BY <2>1 DEF Steps
  <1>2. /\ u = [i \in 0..Len(c) |-> u[i]] /\ u[0] = {d}
        /\ \A i \in 1..Len(c) : u[i] = Stepped(e, u[i - 1], c[i])
    <2>1. Steps(e, d, c, u, Len(c))
      BY WalkStep
    <2> QED  BY <2>1 DEF Steps
  <1>3. 0 \in S
    <2>1. w[0] = u[0]
      BY <1>1, <1>2
    <2>2. 0 \in 0..Len(c)
      OBVIOUS
    <2> QED  BY <2>1, <2>2
  <1>4. ASSUME NEW k \in 0..Len(c), k \in S, k # Len(c)
        PROVE  k + 1 \in S
    <2>1. k + 1 \in 1..Len(c) /\ k + 1 \in 0..Len(c) /\ (k + 1) - 1 = k
      BY <1>4
    <2> QED  BY <1>1, <1>2, <1>4, <2>1
  <1>5. \A k \in 0..Len(c) : k \in S /\ k # Len(c) => k + 1 \in S
    BY <1>4
  <1> HIDE DEF S
  <1>6. \A k \in 0..Len(c) : k \in S
    BY <1>3, <1>5, Upwards
  <1>7. \A k \in 0..Len(c) : w[k] = u[k]
    BY <1>6 DEF S
  <1> QED  BY <1>1, <1>2, <1>7

(* The way from a directory along names ends where any walk of it does.    *)
LEMMA AtIs ==
    ASSUME NEW e, NEW d, NEW c, Len(c) \in Nat, NEW w, Walk(e, d, c, w)
    PROVE  AtIn(e, d, c) = w[Len(c)]
  <1>1. PICK u : u = (CHOOSE v : Walk(e, d, c, v))
    OBVIOUS
  <1>2. Walk(e, d, c, u)
    BY <1>1
  <1>3. u = w
    BY <1>2, WalkUnique
  <1> QED  BY <1>1, <1>3 DEF AtIn

LEMMA AtInIsAt ==
    ASSUME NEW d, NEW c
    PROVE  At(d, c) = AtIn(ents, d, c) /\ At(d, c)' = AtIn(ents', d, c)
  BY DEF At, AtIn, Walk, Stepped


(* Two stretches of a way are walked one after the other.                  *)
Joined(q, c, p) == c \in Seq(Name) /\ p \in Seq(Name) /\ q = c \o p
Onward(e, S, p) == UNION {AtIn(e, x, p) : x \in S}
LEMMA AtJoins ==
    ASSUME NEW e, NEW d, NEW c, NEW p, NEW q, Joined(q, c, p)
    PROVE  AtIn(e, d, q) = Onward(e, AtIn(e, d, c), p)
  <1>0. c \in Seq(Name) /\ p \in Seq(Name) /\ q = c \o p
    BY DEF Joined
  <1>1. /\ Len(c) \in Nat /\ Len(p) \in Nat /\ Len(q) \in Nat /\ Len(q) = Len(c) + Len(p)
        /\ \A i \in 1..Len(c) : q[i] = c[i]
        /\ \A j \in 1..Len(p) : q[Len(c) + j] = p[j]
    <2>1. /\ q \in Seq(Name) /\ Len(q) = Len(c) + Len(p)
          /\ \A i \in 1..Len(c) + Len(p) : q[i] = IF i <= Len(c) THEN c[i] ELSE p[i - Len(c)]
      BY <1>0, ConcatProperties
    <2>2. Len(c) \in Nat /\ Len(p) \in Nat /\ Len(q) \in Nat
      BY <1>0, <2>1, LenProperties
    <2>3. \A i \in 1..Len(c) : q[i] = c[i]
      BY <2>1, <2>2
    <2>4. ASSUME NEW j \in 1..Len(p)  PROVE q[Len(c) + j] = p[j]
      <3>1. Len(c) + j \in 1..Len(c) + Len(p) /\ ~ (Len(c) + j <= Len(c)) /\ (Len(c) + j) - Len(c) = j
        BY <2>2
      <3>2. q[Len(c) + j] = p[(Len(c) + j) - Len(c)]
        BY <2>1, <3>1, Zenon
      <3> QED  BY <3>1, <3>2, Zenon
    <2> QED  BY <2>1, <2>2, <2>3, <2>4
  <1>2. PICK w : Walk(e, d, q, w)
    BY <1>1, WalkExists
  <1>3. /\ w = [i \in 0..Len(q) |-> w[i]] /\ w[0] = {d}
        /\ \A i \in 1..Len(q) : w[i] = Stepped(e, w[i - 1], q[i])
    <2>1. Steps(e, d, q, w, Len(q))
      BY <1>1, <1>2, WalkStep
    <2> QED  BY <2>1 DEF Steps
  <1>4. AtIn(e, d, c) = w[Len(c)]
    <2>1. PICK u : u = [i \in 0..Len(c) |-> w[i]]
      OBVIOUS
    <2>2. u = [i \in 0..Len(c) |-> u[i]] /\ \A i \in 0..Len(c) : u[i] = w[i]
      BY <2>1
    <2>3. 0 \in 0..Len(c) /\ Len(c) \in 0..Len(c) /\ \A i \in 1..Len(c) : i \in 0..Len(c) /\ i - 1 \in 0..Len(c) /\ i \in 1..Len(q)
      BY <1>1
    <2>4. \A i \in 1..Len(c) : u[i] = Stepped(e, u[i - 1], c[i])
      BY <1>1, <1>3, <2>2, <2>3
    <2>5. u[0] = {d}
      BY <1>3, <2>2, <2>3
    <2>6. Steps(e, d, c, u, Len(c))
      BY <2>2, <2>4, <2>5 DEF Steps
    <2>7. AtIn(e, d, c) = u[Len(c)]
      BY <1>1, <2>6, WalkStep, AtIs
    <2> QED  BY <2>2, <2>3, <2>7
  <1> DEFINE V(x) == CHOOSE v : Walk(e, x, p, v)
             A(j) == UNION {V(x)[j] : x \in w[Len(c)]}
             S    == {j \in 0..Len(p) : w[Len(c) + j] = A(j)}
  <1>5. \A x : Walk(e, x, p, V(x))
    <2> TAKE x
    <2>1. \E v : Walk(e, x, p, v)
      BY <1>1, WalkExists
    <2> QED  BY <2>1
  <1> HIDE DEF V
  <1>6. ASSUME NEW x
        PROVE  /\ V(x)[0] = {x} /\ AtIn(e, x, p) = V(x)[Len(p)]
               /\ \A j \in 1..Len(p) : V(x)[j] = Stepped(e, V(x)[j - 1], p[j])
    <2>1. Walk(e, x, p, V(x))
      BY <1>5
    <2>2. PICK v : v = V(x)
      OBVIOUS
    <2>3. Steps(e, x, p, v, Len(p)) /\ AtIn(e, x, p) = v[Len(p)]
      BY <1>1, <2>1, <2>2, WalkStep, AtIs
    <2> QED  BY <2>2, <2>3 DEF Steps
  <1>7. 0 \in S
    <2>1. 0 \in 0..Len(p) /\ Len(c) + 0 = Len(c)
      BY <1>1
    <2>2. A(0) = w[Len(c)]
      BY <1>6
    <2> QED  BY <2>1, <2>2
  <1>8. ASSUME NEW j \in 0..Len(p), j \in S, j # Len(p)
        PROVE  j + 1 \in S
    <2>1. /\ j + 1 \in 0..Len(p) /\ j + 1 \in 1..Len(p) /\ (j + 1) - 1 = j
          /\ Len(c) + (j + 1) \in 1..Len(q) /\ (Len(c) + (j + 1)) - 1 = Len(c) + j
      <3>1. PICK a \in Nat, b \in Nat : a = Len(c) /\ b = Len(p) /\ Len(q) = a + b
        BY <1>1
      <3>2. j \in 0..b /\ j # b
        BY <1>8, <3>1
      <3>3. /\ j + 1 \in 0..b /\ j + 1 \in 1..b /\ (j + 1) - 1 = j
            /\ a + (j + 1) \in 1..(a + b) /\ (a + (j + 1)) - 1 = a + j
        BY <3>2
      <3> QED  BY <3>1, <3>3
    <2>2. w[Len(c) + (j + 1)] = Stepped(e, w[Len(c) + j], p[j + 1])
      <3>1. w[Len(c) + (j + 1)] = Stepped(e, w[(Len(c) + (j + 1)) - 1], q[Len(c) + (j + 1)])
        BY <1>3, <2>1
      <3>2. q[Len(c) + (j + 1)] = p[j + 1]
        BY <1>1, <2>1
      <3> QED  BY <2>1, <3>1, <3>2
    <2>3. w[Len(c) + j] = A(j)
      BY <1>8
    <2>4. \A x : V(x)[j + 1] = Stepped(e, V(x)[j], p[j + 1])
      <3> TAKE x
      <3>1. V(x)[j + 1] = Stepped(e, V(x)[(j + 1) - 1], p[j + 1])
        BY <1>6, <2>1
      <3> QED  BY <2>1, <3>1
    <2>5. PICK n : n = p[j + 1]
      OBVIOUS
    <2>6. Stepped(e, A(j), n) = UNION {Stepped(e, V(x)[j], n) : x \in w[Len(c)]}
      BY DEF Stepped
    <2>7. A(j + 1) = UNION {Stepped(e, V(x)[j], n) : x \in w[Len(c)]}
      BY <2>4, <2>5
    <2> QED  BY <2>1, <2>2, <2>3, <2>5, <2>6, <2>7
  <1>9. \A j \in 0..Len(p) : j \in S /\ j # Len(p) => j + 1 \in S
    BY <1>8
  <1> HIDE DEF S
  <1>10. \A j \in 0..Len(p) : j \in S
    BY <1>1, <1>7, <1>9, Upwards
  <1>11. w[Len(c) + Len(p)] = A(Len(p))
    <2>1. Len(p) \in 0..Len(p)
      BY <1>1
    <2> QED  BY <1>10, <2>1 DEF S
  <1>12. AtIn(e, d, q) = w[Len(q)]
    <2>1. Len(q) \in Nat
      BY <1>1
    <2> QED  BY <1>2, <2>1, AtIs, Zenon
  <1>13. A(Len(p)) = UNION {AtIn(e, x, p) : x \in w[Len(c)]}
    BY <1>6
  <1> QED  BY <1>1, <1>4, <1>11, <1>12, <1>13 DEF Onward


-----------------------------------------------------------------------------
(* When every entry of e1 is one of e, perhaps by another name, or leads   *)
(* to a directory that is empty, a path that leads Home in e1 is one that  *)
(* did in e, by other names.                                               *)
Trees == [Dir -> UNION {[S -> Dir] : S \in SUBSET Name}]
Gone(e1, S) == \A x \in S : DOMAIN e1[x] = {} /\ x # Home
Mapped(e, e1, b) ==
    \A x \in Dir : \A n \in DOMAIN e1[x] :
        /\ e1[x][n] \in Dir
        /\ \/ DOMAIN e1[e1[x][n]] = {} /\ e1[x][n] # Home
           \/ b[x][n] \in DOMAIN e[x] /\ e[x][b[x][n]] = e1[x][n]

LEMMA WayBack ==
    ASSUME NEW e, NEW e1, NEW b \in [Dir -> [Name -> Name]], Mapped(e, e1, b),
           NEW c \in Place, Home \in AtIn(e1, Top, c)
    PROVE  \E c0 \in Place : Home \in AtIn(e, Top, c0)
  <1>1. PICK N \in 0..Depth : c \in [1..N -> Name]
    BY DEF Place
  <1>2. N \in Nat /\ Len(c) = N
    <2>1. Depth \in Nat
      BY WorkingDirAssumption
    <2>2. N \in Nat
      BY <2>1
    <2>3. c \in Seq(Name) /\ DOMAIN c = 1..N
      BY <1>1, <2>2, IsASeq
    <2>4. DOMAIN c = 1..Len(c) /\ Len(c) \in Nat
      BY <2>3, LenProperties
    <2> QED  BY <2>2, <2>3, <2>4
  <1>3. PICK w : Walk(e1, Top, c, w)
    BY <1>2, WalkExists
  <1>4. /\ w[0] = {Top} /\ \A i \in 1..N : w[i] = Stepped(e1, w[i - 1], c[i])
        /\ AtIn(e1, Top, c) = w[N]
    <2>1. Steps(e1, Top, c, w, N) /\ AtIn(e1, Top, c) = w[N]
      BY <1>2, <1>3, WalkStep, AtIs
    <2> QED  BY <2>1 DEF Steps
  <1> DEFINE P == {i \in 0..N : \E x \in Dir : w[i] \subseteq {x}}
  <1>5. 0 \in P
    <2>1. 0 \in 0..N /\ Top \in Dir
      BY <1>2, WorkingDirAssumption
    <2> QED  BY <1>4, <2>1
  <1>6. \A i \in 0..N : i \in P /\ i # N => i + 1 \in P
    <2> SUFFICES ASSUME NEW i \in 0..N, i \in P, i # N  PROVE i + 1 \in P
      OBVIOUS
    <2>1. i + 1 \in 1..N /\ i + 1 \in 0..N /\ (i + 1) - 1 = i
      BY <1>2
    <2>2. PICK x \in Dir : w[i] \subseteq {x}
      OBVIOUS
    <2>3. w[i + 1] = Stepped(e1, w[i], c[i + 1])
      BY <1>4, <2>1
    <2>4. PICK n : n = c[i + 1]
      OBVIOUS
    <2>5. CASE w[i] = {x} /\ n \in DOMAIN e1[x]
      <3>1. e1[x][n] \in Dir
        BY <2>5 DEF Mapped
      <3>2. w[i + 1] \subseteq {e1[x][n]}
        BY <2>3, <2>4, <2>5 DEF Stepped
      <3> QED  BY <2>1, <3>1, <3>2
    <2>6. CASE ~ (w[i] = {x} /\ n \in DOMAIN e1[x])
      <3>1. \A y \in w[i] : y = x /\ n \notin DOMAIN e1[y]
        BY <2>2, <2>6
      <3>2. w[i + 1] = {}
        BY <2>3, <2>4, <3>1 DEF Stepped
      <3> QED  BY <2>1, <2>2, <3>2
    <2> QED  BY <2>5, <2>6
  <1>7. \A i \in 0..N : i \in P
    <2> HIDE DEF P
    <2> QED  BY <1>2, <1>5, <1>6, Upwards
  <1> DEFINE on(i) == CHOOSE x \in Dir : w[i] \subseteq {x}
  <1>8. \A i \in 0..N : on(i) \in Dir /\ w[i] \subseteq {on(i)}
    BY <1>7
  <1> HIDE DEF on, P
  <1>9. PICK c0 : c0 = [i \in 1..N |-> b[on(i - 1)][c[i]]]
    OBVIOUS
  <1>10. c0 \in [1..N -> Name] /\ \A i \in 1..N : c0[i] = b[on(i - 1)][c[i]]
    <2>1. ASSUME NEW i \in 1..N  PROVE b[on(i - 1)][c[i]] \in Name
      <3>1. i - 1 \in 0..N
        BY <1>2
      <3>2. on(i - 1) \in Dir /\ c[i] \in Name
        BY <1>1, <1>8, <3>1
      <3> QED  BY <3>2
    <2> QED  BY <1>9, <2>1
  <1>11. c0 \in Place /\ Len(c0) = N
    <2>1. c0 \in Seq(Name) /\ DOMAIN c0 = 1..N
      BY <1>2, <1>10, IsASeq
    <2>2. DOMAIN c0 = 1..Len(c0) /\ Len(c0) \in Nat
      BY <2>1, LenProperties
    <2> QED  BY <1>1, <1>2, <1>10, <2>1, <2>2 DEF Place
  <1>12. PICK u : Walk(e, Top, c0, u)
    BY <1>2, <1>11, WalkExists
  <1>13. /\ u[0] = {Top} /\ \A i \in 1..N : u[i] = Stepped(e, u[i - 1], c0[i])
         /\ AtIn(e, Top, c0) = u[N]
    <2>1. Steps(e, Top, c0, u, N) /\ AtIn(e, Top, c0) = u[N]
      BY <1>2, <1>11, <1>12, WalkStep, AtIs
    <2> QED  BY <2>1 DEF Steps
  <1> DEFINE S == {i \in 0..N : Gone(e1, w[i]) \/ w[i] = u[i]}
  <1>14. 0 \in S
    <2>1. 0 \in 0..N
      BY <1>2
    <2> QED  BY <1>4, <1>13, <2>1
  <1>15. \A i \in 0..N : i \in S /\ i # N => i + 1 \in S
    <2> SUFFICES ASSUME NEW i \in 0..N, i \in S, i # N  PROVE i + 1 \in S
      OBVIOUS
    <2>1. i + 1 \in 1..N /\ i + 1 \in 0..N /\ (i + 1) - 1 = i
      BY <1>2
    <2>2. PICK x, n, m : x = on(i) /\ n = c[i + 1] /\ m = c0[i + 1]
      OBVIOUS
    <2>3. x \in Dir /\ w[i] \subseteq {x} /\ m = b[x][n]
      BY <1>8, <1>10, <2>1, <2>2
    <2>4. w[i + 1] = Stepped(e1, w[i], n) /\ u[i + 1] = Stepped(e, u[i], m)
      BY <1>4, <1>13, <2>1, <2>2
    <2>5. CASE \A y \in w[i] : n \notin DOMAIN e1[y]
      <3>1. w[i + 1] = {}
        BY <2>4, <2>5 DEF Stepped
      <3> QED  BY <2>1, <3>1 DEF Gone
    <2>6. CASE ~ \A y \in w[i] : n \notin DOMAIN e1[y]
      <3>1. w[i] = {x} /\ n \in DOMAIN e1[x] /\ ~ Gone(e1, w[i])
        BY <2>3, <2>6 DEF Gone
      <3>2. u[i] = {x}
        BY <3>1
      <3>3. w[i + 1] = {e1[x][n]}
        BY <2>4, <3>1 DEF Stepped
      <3>4. CASE DOMAIN e1[e1[x][n]] = {} /\ e1[x][n] # Home
        <4>1. Gone(e1, w[i + 1])
          BY <3>3, <3>4 DEF Gone
        <4> QED  BY <2>1, <4>1
      <3>5. CASE m \in DOMAIN e[x] /\ e[x][m] = e1[x][n]
        <4>1. u[i + 1] = {e1[x][n]}
          BY <2>4, <3>2, <3>5 DEF Stepped
        <4> QED  BY <2>1, <3>3, <4>1
      <3> QED  BY <2>3, <3>1, <3>4, <3>5 DEF Mapped
    <2> QED  BY <2>5, <2>6
  <1>16. N \in S
    <2> HIDE DEF S
    <2>1. \A i \in 0..N : i \in S
      BY <1>2, <1>14, <1>15, Upwards
    <2> QED  BY <1>2, <2>1
  <1>17. ~ Gone(e1, w[N])
    BY <1>4 DEF Gone
  <1> QED  BY <1>4, <1>11, <1>13, <1>16, <1>17


-----------------------------------------------------------------------------
(* What a call and the slot are, and which of them there are.              *)
PathOK(q) == q = Empty \/ (q.abs /\ q.comps \in Seq(Name))
CallsOK ==
    /\ ents \in Trees
    /\ PathOK(slot) /\ slot.comps \in Seq(Name)
    /\ pc # "idle" => call.path \in Paths /\ call.op \in {"use", "set"}
    /\ pc \in {"find", "open", "act"} => PathOK(cand)
    /\ pc = "open" => based \in Seq(Name)
    /\ memo.is = "opened" => memo.base \in Seq(Name)
    /\ slot # Empty => IF confined THEN memo.is = "opened" ELSE memo.is = "unset"

(* A call that began with no working directory finds none.                 *)
Lost ==
    /\ pc = "resolve" /\ lost => slot = Empty /\ CwdPaths = {}
    /\ pc \in {"find", "open", "act"} /\ lost => call.path.abs \/ cand = Empty
    /\ LostCwdActsNowhere

(* What was set is where the slot's path leads by the root's handle, and a *)
(* relative path of a use goes on from there.                              *)
Below(b, c)  == SubSeq(c, Len(b) + 1, Len(c))
Leads(e, c)  == IF memo.is = "opened" THEN AtIn(e, memo.dir, Below(memo.base, c))
                                      ELSE AtIn(e, Top, c)
Used ==
    (pc = "idle" /\ slot # Empty /\ still /\ result.call.op = "use"
        /\ ~result.call.path.abs /\ result.err = "ok")
    => result.at = UNION {AtIn(ents, d, result.call.path.comps) : d \in set}
SetKept ==
    /\ slot # Empty /\ memo.is = "opened" => IsPrefix(memo.base, slot.comps)
    /\ slot # Empty /\ still => set = Leads(ents, slot.comps)
    /\ pc \in {"find", "open", "act"} /\ call.op = "use" /\ ~call.path.abs /\ slot # Empty
          => cand = Empty \/ cand.comps = slot.comps \o call.path.comps
    /\ Used

CwdInv == RootInv /\ CallsOK /\ Lost /\ SetKept


LEMMA PlaceIsSeq ==
    ASSUME NEW c \in Place
    PROVE  c \in Seq(Name)
  <1>1. PICK n \in 0..Depth : c \in [1..n -> Name]
    BY DEF Place
  <1>2. n \in Nat
    BY WorkingDirAssumption
  <1> QED  BY <1>1, <1>2, IsASeq

LEMMA EmptyIs == Empty.abs = FALSE /\ Empty.comps = <<>> /\ <<>> \in Seq(Name)
  BY DEF Empty, PathOf

LEMMA PathsAre ==
    ASSUME NEW p \in Paths
    PROVE  p.abs \in BOOLEAN /\ p.comps \in Place /\ p.comps \in Seq(Name)
  <1>1. p.abs \in BOOLEAN /\ p.comps \in Place
    BY WorkingDirAssumption
  <1> QED  BY <1>1, PlaceIsSeq

(* What a path is resolved to.                                             *)
LEMMA ResolvedIs ==
    ASSUME CallsOK, NEW p \in Paths, NEW r \in ResolvedPaths(p)
    PROVE  /\ PathOK(r) /\ r = [abs |-> r.abs, comps |-> r.comps]
           /\ ~p.abs /\ slot # Empty => r = Empty \/ r.comps = slot.comps \o p.comps
           /\ ~p.abs /\ slot = Empty /\ CwdPaths = {} => r = Empty
  <1>1. p.abs \in BOOLEAN /\ p.comps \in Seq(Name) /\ slot.comps \in Seq(Name)
        /\ p = [abs |-> p.abs, comps |-> p.comps]
    BY PathsAre, WorkingDirAssumption DEF CallsOK
  <1>2. CASE p.abs \/ p = Empty
    <2>1. r = p
      BY <1>2 DEF ResolvedPaths
    <2> QED  BY <1>1, <1>2, <2>1 DEF PathOK
  <1>3. CASE ~ (p.abs \/ p = Empty) /\ slot # Empty
    <2>1. r = PathOf(TRUE, slot.comps \o p.comps)
      BY <1>3 DEF ResolvedPaths
    <2>2. PICK c : c = slot.comps \o p.comps
      OBVIOUS
    <2>3. c \in Seq(Name)
      BY <1>1, <2>2, ConcatProperties
    <2>4. r.abs = TRUE /\ r.comps = c /\ r = [abs |-> r.abs, comps |-> r.comps]
      BY <2>1, <2>2 DEF PathOf
    <2> QED  BY <1>3, <2>2, <2>3, <2>4 DEF PathOK
  <1>4. CASE ~ (p.abs \/ p = Empty) /\ slot = Empty /\ CwdPaths = {}
    <2>1. r = Empty
      BY <1>4 DEF ResolvedPaths
    <2> QED  BY <1>4, <2>1 DEF PathOK, Empty, PathOf
  <1>5. CASE ~ (p.abs \/ p = Empty) /\ slot = Empty /\ CwdPaths # {}
    <2>1. PICK x \in CwdPaths : r = PathOf(TRUE, x \o p.comps)
      BY <1>5 DEF ResolvedPaths
    <2>2. x \in Seq(Name)
      BY PlaceIsSeq DEF CwdPaths
    <2>3. PICK c : c = x \o p.comps
      OBVIOUS
    <2>4. c \in Seq(Name)
      BY <1>1, <2>2, <2>3, ConcatProperties
    <2>5. r.abs = TRUE /\ r.comps = c /\ r = [abs |-> r.abs, comps |-> r.comps]
      BY <2>1, <2>3 DEF PathOf
    <2> QED  BY <1>5, <2>4, <2>5 DEF PathOK
  <1> QED  BY <1>2, <1>3, <1>4, <1>5

(* Decoding keeps what is absolute so, and the empty path.                 *)
LEMMA DecodedIs ==
    ASSUME NEW r, PathOK(r), r = [abs |-> r.abs, comps |-> r.comps]
    PROVE  PathOK(Decoded(r)) /\ (r = Empty => Decoded(r) = Empty)
  <1>1. r.comps \in Seq(Name)
    BY EmptyIs DEF PathOK
  <1>2. PICK c : c = [i \in DOMAIN r.comps |-> Lossy[r.comps[i]]]
    OBVIOUS
  <1>3. c \in Seq(Name)
    <2>1. DOMAIN r.comps = 1..Len(r.comps) /\ Len(r.comps) \in Nat
      BY <1>1, LenProperties
    <2>2. \A i \in 1..Len(r.comps) : r.comps[i] \in Name
      BY <1>1, ElementOfSeq
    <2>3. c \in [1..Len(r.comps) -> Name]
      BY <1>2, <2>1, <2>2, WorkingDirAssumption
    <2> QED  BY <2>1, <2>3, IsASeq
  <1>4. PICK q : q = Decoded(r)
    OBVIOUS
  <1>5. q = [abs |-> r.abs, comps |-> c]
    BY <1>2, <1>4 DEF Decoded
  <1>6. CASE r = Empty
    <2>1. DOMAIN r.comps = {} /\ r.abs = FALSE
      BY <1>6, EmptyIs
    <2>2. c = <<>>
      BY <1>2, <2>1
    <2>3. q = Empty
      BY <1>5, <2>1, <2>2 DEF Empty, PathOf
    <2> QED  BY <1>4, <2>3 DEF PathOK
  <1>7. CASE r # Empty
    <2>1. q.abs /\ q.comps = c
      BY <1>5, <1>7 DEF PathOK
    <2> QED  BY <1>3, <1>4, <1>7, <2>1 DEF PathOK
  <1> QED  BY <1>6, <1>7

LEMMA CandidateIs ==
    ASSUME CallsOK, pc = "resolve", NEW q \in Candidates
    PROVE  /\ PathOK(q)
           /\ call.op = "use" /\ ~call.path.abs /\ slot # Empty
                 => q = Empty \/ q.comps = slot.comps \o call.path.comps
           /\ ~call.path.abs /\ slot = Empty /\ CwdPaths = {} => q = Empty
  <1>1. call.path \in Paths /\ call.op \in {"use", "set"}
    BY DEF CallsOK
  <1>2. PICK r \in ResolvedPaths(call.path) : q = IF call.op = "set" THEN Decoded(r) ELSE r
    BY DEF Candidates
  <1>3. PICK p : p = call.path
    OBVIOUS
  <1>4. /\ PathOK(r) /\ r = [abs |-> r.abs, comps |-> r.comps]
        /\ ~p.abs /\ slot # Empty => r = Empty \/ r.comps = slot.comps \o p.comps
        /\ ~p.abs /\ slot = Empty /\ CwdPaths = {} => r = Empty
    BY <1>1, <1>2, <1>3, ResolvedIs
  <1>5. PathOK(Decoded(r)) /\ (r = Empty => Decoded(r) = Empty)
    BY <1>4, DecodedIs
  <1> QED  BY <1>1, <1>2, <1>3, <1>4, <1>5


(* A tree that other programs have moved is a tree, and whoever had lost   *)
(* its directory still has.                                                *)
LEMMA TreeIs ==
    ASSUME NEW e \in Trees, NEW x \in Dir
    PROVE  /\ DOMAIN e[x] \subseteq Name /\ e[x] = [n \in DOMAIN e[x] |-> e[x][n]]
           /\ \A n \in DOMAIN e[x] : e[x][n] \in Dir
  <1>1. PICK S \in SUBSET Name : e[x] \in [S -> Dir]
    BY DEF Trees
  <1> QED  BY <1>1

TopIs(e, f, e1) == e1 = [e EXCEPT ![Top] = f]
LEMMA TreeWith ==
    ASSUME NEW e \in Trees, NEW S \in SUBSET Name, NEW f \in [S -> Dir],
           NEW e1, TopIs(e, f, e1)
    PROVE  /\ e1 \in Trees /\ e1[Top] = f /\ DOMAIN f = S
           /\ \A x \in Dir \ {Top} : e1[x] = e[x]
  <1>1. Top \in Dir
    BY WorkingDirAssumption
  <1>2. f \in UNION {[T -> Dir] : T \in SUBSET Name}
    OBVIOUS
  <1> QED  BY <1>1, <1>2 DEF Trees, TopIs

LEMMA StillLost ==
    ASSUME NEW e1, e1 = ents', NEW b \in [Dir -> [Name -> Name]], Mapped(ents, e1, b), CwdPaths = {}
    PROVE  CwdPaths' = {}
  <1>1. \A c \in Place : ~ (Home \in AtIn(ents, Top, c))
    BY AtInIsAt DEF CwdPaths
  <1>2. \A c \in Place : ~ (Home \in AtIn(e1, Top, c))
    <2> SUFFICES ASSUME NEW c \in Place, Home \in AtIn(e1, Top, c)  PROVE FALSE
      OBVIOUS
    <2>1. PICK e : e = ents
      OBVIOUS
    <2>2. \E c0 \in Place : Home \in AtIn(e, Top, c0)
      BY <2>1, WayBack
    <2> QED  BY <1>1, <2>1, <2>2
  <1>3. ASSUME NEW c \in Place  PROVE ~ (Home \in At(Top, c))'
    BY <1>2, AtInIsAt
  <1>4. CwdPaths' = {c \in Place : (Home \in At(Top, c))'}
    BY DEF CwdPaths, Place
  <1> QED  BY <1>3, <1>4

LEMMA MovedTree ==
    ASSUME ents \in Trees, RenameDir \/ RemoveDir \/ MakeDir \/ Chmod
    PROVE  ents' \in Trees /\ (CwdPaths = {} => CwdPaths' = {})
  <1> DEFINE same == [x \in Dir |-> [y \in Name |-> y]]
  <1>0. same \in [Dir -> [Name -> Name]] /\ \A x \in Dir : \A y \in Name : same[x][y] = y
    OBVIOUS
  <1> HIDE DEF same
  <1>1. /\ Top \in Dir /\ DOMAIN ents[Top] \subseteq Name
        /\ \A n \in DOMAIN ents[Top] : ents[Top][n] \in Dir
    BY WorkingDirAssumption, TreeIs
  <1>2. \A x \in Dir : \A n \in DOMAIN ents[x] : ents[x][n] \in Dir /\ n \in Name
    BY TreeIs
  <1>3. PICK e1 : e1 = ents'
    OBVIOUS
  <1>4. CASE RenameDir
    <2>1. PICK m \in DOMAIN ents[Top], n \in Name \ DOMAIN ents[Top] :
             TopWith([x \in (DOMAIN ents[Top] \ {m}) \cup {n} |->
                         IF x = n THEN ents[Top][m] ELSE ents[Top][x]])
      BY <1>4 DEF RenameDir
    <2>2. PICK S, f : /\ S = (DOMAIN ents[Top] \ {m}) \cup {n}
                      /\ f = [x \in S |-> IF x = n THEN ents[Top][m] ELSE ents[Top][x]]
      OBVIOUS
    <2>3. S \in SUBSET Name /\ f \in [S -> Dir]
      BY <1>1, <2>2
    <2>4. TopIs(ents, f, e1)
      BY <1>3, <2>1, <2>2 DEF TopWith, TopIs
    <2>5. /\ e1 \in Trees /\ e1[Top] = f /\ DOMAIN f = S
          /\ \A x \in Dir \ {Top} : e1[x] = ents[x]
      BY <2>3, <2>4, TreeWith
    <2> DEFINE b == [x \in Dir |-> [y \in Name |-> IF x = Top /\ y = n THEN m ELSE y]]
    <2>6. /\ b \in [Dir -> [Name -> Name]]
          /\ \A x \in Dir : \A y \in Name : b[x][y] = IF x = Top /\ y = n THEN m ELSE y
      BY <1>1
    <2> HIDE DEF b
    <2>7. ASSUME NEW x \in Dir, NEW y \in DOMAIN e1[x]
          PROVE  e1[x][y] \in Dir /\ b[x][y] \in DOMAIN ents[x] /\ ents[x][b[x][y]] = e1[x][y]
      <3>1. CASE x = Top
        <4>1. y \in S /\ y \in Name /\ e1[x][y] = IF y = n THEN ents[Top][m] ELSE ents[Top][y]
          BY <2>2, <2>3, <2>5, <3>1
        <4>2. b[x][y] = IF y = n THEN m ELSE y
          BY <2>6, <3>1, <4>1
        <4> QED  BY <1>1, <2>2, <3>1, <4>1, <4>2
      <3>2. CASE x # Top
        <4>1. e1[x] = ents[x]
          BY <2>5, <3>2
        <4>2. b[x][y] = y
          BY <1>2, <2>6, <3>2, <4>1
        <4> QED  BY <1>2, <4>1, <4>2
      <3> QED  BY <3>1, <3>2
    <2>8. Mapped(ents, e1, b)
      BY <2>7 DEF Mapped
    <2> QED  BY <1>3, <2>5, <2>6, <2>8, StillLost
  <1>5. CASE RemoveDir
    <2>1. PICK n \in DOMAIN ents[Top] : TopWith(Without(n))
      BY <1>5 DEF RemoveDir
    <2>2. PICK S, f : S = DOMAIN ents[Top] \ {n} /\ f = [m \in S |-> ents[Top][m]]
      OBVIOUS
    <2>3. S \in SUBSET Name /\ f \in [S -> Dir]
      BY <1>1, <2>2
    <2>4. TopIs(ents, f, e1)
      BY <1>3, <2>1, <2>2 DEF TopWith, Without, TopIs
    <2>5. /\ e1 \in Trees /\ e1[Top] = f /\ DOMAIN f = S
          /\ \A x \in Dir \ {Top} : e1[x] = ents[x]
      BY <2>3, <2>4, TreeWith
    <2>6. ASSUME NEW x \in Dir, NEW y \in DOMAIN e1[x]
          PROVE  y \in DOMAIN ents[x] /\ ents[x][y] = e1[x][y]
      BY <2>2, <2>5
    <2>7. Mapped(ents, e1, same)
      BY <1>0, <1>2, <2>6 DEF Mapped
    <2> QED  BY <1>0, <1>3, <2>5, <2>7, StillLost
  <1>6. CASE MakeDir
    <2>1. PICK n \in Name \ DOMAIN ents[Top], d \in New :
             TopWith([x \in DOMAIN ents[Top] \cup {n} |-> IF x = n THEN d ELSE ents[Top][x]])
      BY <1>6 DEF MakeDir
    <2>2. PICK S, f : /\ S = DOMAIN ents[Top] \cup {n}
                      /\ f = [x \in S |-> IF x = n THEN d ELSE ents[Top][x]]
      OBVIOUS
    <2>3. d \in Dir /\ d # Top /\ d # Home /\ ents[d] = <<>>
      BY DEF New
    <2>4. S \in SUBSET Name /\ f \in [S -> Dir]
      BY <1>1, <2>2, <2>3
    <2>5. TopIs(ents, f, e1)
      BY <1>3, <2>1, <2>2 DEF TopWith, TopIs
    <2>6. /\ e1 \in Trees /\ e1[Top] = f /\ DOMAIN f = S
          /\ \A x \in Dir \ {Top} : e1[x] = ents[x]
      BY <2>4, <2>5, TreeWith
    <2>7. DOMAIN e1[d] = {}
      <3>1. e1[d] = <<>>
        BY <2>3, <2>6
      <3> QED  BY <3>1
    <2>8. ASSUME NEW x \in Dir, NEW y \in DOMAIN e1[x]
          PROVE  \/ y \in DOMAIN ents[x] /\ ents[x][y] = e1[x][y]
                 \/ e1[x][y] = d
      BY <2>2, <2>6
    <2>9. Mapped(ents, e1, same)
      BY <1>0, <1>2, <2>3, <2>7, <2>8 DEF Mapped
    <2> QED  BY <1>0, <1>3, <2>6, <2>9, StillLost
  <1>7. CASE Chmod
    <2>1. ents' = ents
      BY <1>7 DEF Chmod
    <2>2. CwdPaths' = CwdPaths
      BY <2>1 DEF CwdPaths, At, Place
    <2> QED  BY <2>1, <2>2
  <1> QED  BY <1>4, <1>5, <1>6, <1>7


LEMMA CwdStart == Init => CwdInv
  <1> SUFFICES ASSUME Init  PROVE CwdInv
    OBVIOUS
  <1>1. RootInv
    BY RootStart
  <1>2. ents \in Trees
    BY WorkingDirAssumption DEF Init, Trees
  <1>3. /\ slot = Empty /\ pc = "idle" /\ memo = Unset /\ calls = 0 /\ ~ lost
    BY DEF Init
  <1>4. CallsOK
    BY <1>2, <1>3, EmptyIs DEF CallsOK, PathOK, Unset
  <1>5. Lost /\ SetKept
    BY <1>3 DEF Lost, LostCwdActsNowhere, SetKept, Used
  <1> QED  BY <1>1, <1>4, <1>5 DEF CwdInv

(* What does not answer, and leaves the tree and the slot alone.           *)
LEMMA BusyStep ==
    ASSUME CwdInv, UNCHANGED <<ents, slot, set, still, lost>>, CallsOK', pc' # "idle",
           memo' = memo \/ slot = Empty,
           pc' = "resolve" /\ lost => CwdPaths = {} /\ slot = Empty,
           pc' \in {"find", "open", "act"} /\ lost => call'.path.abs \/ cand' = Empty,
           pc' \in {"find", "open", "act"} /\ call'.op = "use" /\ ~call'.path.abs /\ slot # Empty
              => cand' = Empty \/ cand'.comps = slot.comps \o call'.path.comps
    PROVE  Lost' /\ SetKept'
  <1>1. CwdPaths' = CwdPaths
    BY DEF CwdPaths, At, Place
  <1>2. Lost'
    <2>1. slot' = slot /\ (lost <=> lost')
      OBVIOUS
    <2>2. pc' = "resolve" /\ lost' => slot' = Empty /\ CwdPaths' = {}
      BY <1>1, <2>1, Zenon
    <2>3. pc' \in {"find", "open", "act"} /\ lost' => call'.path.abs \/ cand' = Empty
      BY <2>1, Zenon
    <2>4. LostCwdActsNowhere'
      BY Zenon DEF LostCwdActsNowhere
    <2> QED  BY <2>2, <2>3, <2>4, Zenon DEF Lost
  <1>3. /\ slot # Empty /\ memo.is = "opened" => IsPrefix(memo.base, slot.comps)
        /\ slot # Empty /\ still => set = Leads(ents, slot.comps)
    BY DEF CwdInv, SetKept
  <1>4. CASE slot = Empty
    <2>1. slot' = Empty
      BY <1>4
    <2> QED  BY <1>2, <2>1, Zenon DEF SetKept, Used
  <1>5. CASE slot # Empty
    <2>1. memo' = memo
      BY <1>5
    <2>2. Leads(ents, slot.comps)' = Leads(ents, slot.comps)
      BY <2>1 DEF Leads
    <2>3. (slot # Empty /\ memo.is = "opened" => IsPrefix(memo.base, slot.comps))'
      BY <1>3, <2>1
    <2>4. (slot # Empty /\ still => set = Leads(ents, slot.comps))'
      BY <1>3, <1>5, <2>2
    <2>5. slot' = slot /\ memo' = memo
      BY <2>1
    <2>6. Used'
      BY Zenon DEF Used
    <2> QED  BY <1>2, <2>3, <2>4, <2>5, <2>6 DEF SetKept
  <1> QED  BY <1>2, <1>4, <1>5


LEMMA StartCwd ==
    ASSUME CwdInv, NEW op \in {"use", "set"}, NEW p \in Paths, Start(op, p)
    PROVE  CallsOK' /\ Lost' /\ SetKept'
  <1>1. /\ pc' = "resolve" /\ call'.op = op /\ call'.path = p
        /\ (lost' <=> CwdPaths = {} /\ slot = Empty)
        /\ UNCHANGED <<confined, ents, memo, slot, based, set, still>>
    BY DEF Start, world
  <1>2. CallsOK'
    BY <1>1 DEF CwdInv, CallsOK
  <1>3. CwdPaths' = CwdPaths
    BY <1>1 DEF CwdPaths, At, Place
  <1>4. Lost'
    BY <1>1, <1>3 DEF Lost, LostCwdActsNowhere
  <1>5. Leads(ents, slot.comps)' = Leads(ents, slot.comps)
    BY <1>1 DEF Leads
  <1>6. Used' /\ pc' \notin {"find", "open", "act"}
    BY <1>1 DEF Used
  <1>7. SetKept'
    <2>1. /\ slot # Empty /\ memo.is = "opened" => IsPrefix(memo.base, slot.comps)
          /\ slot # Empty /\ still => set = Leads(ents, slot.comps)
      BY DEF CwdInv, SetKept
    <2>2. (slot # Empty /\ memo.is = "opened" => IsPrefix(memo.base, slot.comps))'
      BY <1>1, <2>1
    <2>3. (slot # Empty /\ still => set = Leads(ents, slot.comps))'
      BY <1>1, <1>5, <2>1
    <2> QED  BY <1>6, <2>2, <2>3 DEF SetKept
  <1> QED  BY <1>2, <1>4, <1>7

LEMMA ResolveCwd ==
    ASSUME CwdInv, Resolve
    PROVE  CallsOK' /\ Lost' /\ SetKept'
  <1>1. /\ pc = "resolve" /\ pc' \in {"find", "act"} /\ cand' \in Candidates
        /\ UNCHANGED <<confined, ents, memo, slot, call, based, set, still, lost>>
    BY DEF Resolve, world, past
  <1>2. PICK q : q = cand'
    OBVIOUS
  <1>3. /\ PathOK(q)
        /\ call.op = "use" /\ ~call.path.abs /\ slot # Empty
              => q = Empty \/ q.comps = slot.comps \o call.path.comps
        /\ ~call.path.abs /\ slot = Empty /\ CwdPaths = {} => q = Empty
    BY <1>1, <1>2, CandidateIs DEF CwdInv
  <1>4. CallsOK'
    BY <1>1, <1>2, <1>3 DEF CwdInv, CallsOK
  <1>5. lost => slot = Empty /\ CwdPaths = {}
    BY <1>1 DEF CwdInv, Lost
  <1>6. lost => call'.path.abs \/ cand' = Empty
    BY <1>1, <1>2, <1>3, <1>5
  <1>7. call'.op = "use" /\ ~call'.path.abs /\ slot # Empty
              => cand' = Empty \/ cand'.comps = slot.comps \o call'.path.comps
    BY <1>1, <1>2, <1>3
  <1> QED  BY <1>1, <1>4, <1>6, <1>7, BusyStep


(* What answers that it could not.                                         *)
LEMMA FailedStep ==
    ASSUME CwdInv, UNCHANGED <<confined, ents, slot, set, still>>, pc' = "idle", result'.err # "ok",
           memo' = memo \/ (slot = Empty /\ memo'.is # "opened")
    PROVE  CallsOK' /\ Lost' /\ SetKept'
  <1>1. /\ confined' = confined /\ ents' = ents /\ slot' = slot /\ set' = set /\ still' = still
    OBVIOUS
  <1>2. CallsOK'
    <2>1. /\ ents \in Trees /\ PathOK(slot) /\ slot.comps \in Seq(Name)
          /\ memo.is = "opened" => memo.base \in Seq(Name)
          /\ slot # Empty => IF confined THEN memo.is = "opened" ELSE memo.is = "unset"
      BY DEF CwdInv, CallsOK
    <2>2. memo'.is = "opened" => memo'.base \in Seq(Name)
      BY <2>1
    <2>3. slot # Empty => memo' = memo
      OBVIOUS
    <2>4. (slot # Empty => IF confined THEN memo.is = "opened" ELSE memo.is = "unset")'
      BY <1>1, <2>1, <2>3
    <2> QED  BY <1>1, <2>1, <2>2, <2>4 DEF CallsOK
  <1>3. Lost'
    BY DEF Lost, LostCwdActsNowhere
  <1>4. Used' /\ pc' \notin {"find", "open", "act"}
    BY DEF Used
  <1>5. /\ slot # Empty /\ memo.is = "opened" => IsPrefix(memo.base, slot.comps)
        /\ slot # Empty /\ still => set = Leads(ents, slot.comps)
    BY DEF CwdInv, SetKept
  <1>6. CASE slot = Empty
    <2>1. slot' = Empty
      BY <1>6
    <2> QED  BY <1>2, <1>3, <1>4, <2>1 DEF SetKept
  <1>7. CASE memo' = memo
    <2>1. Leads(ents, slot.comps)' = Leads(ents, slot.comps)
      BY <1>7 DEF Leads
    <2>2. (slot # Empty /\ memo.is = "opened" => IsPrefix(memo.base, slot.comps))'
      BY <1>1, <1>5, <1>7
    <2>3. (slot # Empty /\ still => set = Leads(ents, slot.comps))'
      BY <1>1, <1>5, <2>1
    <2> QED  BY <1>2, <1>3, <1>4, <2>2, <2>3 DEF SetKept
  <1> QED  BY <1>6, <1>7

(* The steps in which the root is found: there is no slot yet.             *)
LEMMA FindCwd ==
    ASSUME CwdInv, FindBase \/ OpenRoot
    PROVE  CallsOK' /\ Lost' /\ SetKept'
  <1>1. /\ pc \in {"find", "open"} /\ confined /\ memo = Unset
        /\ UNCHANGED <<confined, ents, slot, call, cand, set, still, lost>>
    BY DEF FindBase, OpenRoot, CwdInv, RootInv, Finding, world
  <1>2. slot = Empty
    BY <1>1 DEF CwdInv, CallsOK, Unset
  <1>3. CASE \E e : NoRoot(e) /\ UNCHANGED based
    <2>1. PICK e : NoRoot(e)
      BY <1>3
    <2>2. pc' = "idle" /\ result'.err = e /\ memo'.is = "failed"
      BY <2>1 DEF NoRoot, Answer, KeepFailure, Failed
    <2>3. e # "ok"
      <3>1. RootInv'
        BY RootStep DEF CwdInv, Next
      <3>2. memo' = Failed(e)
        BY <2>1 DEF NoRoot, KeepFailure
      <3>3. memo'.err = e
        BY <3>2 DEF Failed
      <3>4. \E x \in {"NotFound", "PermissionDenied"} : memo' = Failed(x)
        BY <2>2, <3>1 DEF RootInv, MemoIs, Unset, Opened
      <3>5. memo'.err \in {"NotFound", "PermissionDenied"}
        BY <3>4 DEF Failed
      <3> QED  BY <3>3, <3>5
    <2> QED  BY <1>1, <1>2, <2>2, <2>3, FailedStep
  <1>4. CASE /\ pc' \in {"open", "act"}
             /\ based' \in Seq(Name)
             /\ memo' = memo \/ (memo'.is = "opened" /\ memo'.base \in Seq(Name))
    <2>1. PathOK(cand) /\ PathOK(slot) /\ slot.comps \in Seq(Name) /\ ents \in Trees
          /\ call.path \in Paths /\ call.op \in {"use", "set"}
          /\ memo.is # "opened"
      BY <1>1 DEF CwdInv, CallsOK, Unset
    <2>2. CallsOK'
      <3>1. slot' = slot /\ slot' = Empty /\ ents' = ents /\ call' = call /\ cand' = cand
        BY <1>1, <1>2
      <3>2. PathOK(slot') /\ slot'.comps \in Seq(Name) /\ ents' \in Trees /\ PathOK(cand')
            /\ call'.path \in Paths /\ call'.op \in {"use", "set"}
        BY <2>1, <3>1
      <3>3. memo'.is = "opened" => memo'.base \in Seq(Name)
        BY <1>4, <2>1
      <3> QED  BY <1>4, <3>1, <3>2, <3>3 DEF CallsOK
    <2>3. pc' # "idle" /\ pc' # "resolve" /\ call' = call /\ cand' = cand
      BY <1>1, <1>4
    <2>4. lost => call'.path.abs \/ cand' = Empty
      BY <1>1, <2>3 DEF CwdInv, Lost
    <2> QED  BY <1>1, <1>2, <2>2, <2>3, <2>4, BusyStep
  <1>5. CASE FindBase
    <2>1. CASE CwdPaths = {}
      BY <1>3, <1>5, <2>1 DEF FindBase
    <2>2. CASE CwdPaths # {}
      <3>1. based' \in Place /\ pc' = "open" /\ memo' = memo
        BY <1>5, <2>2 DEF FindBase, CwdPaths
      <3> QED  BY <1>4, <3>1, PlaceIsSeq
    <2> QED  BY <2>1, <2>2
  <1>6. CASE OpenRoot
    <2>1. based' = based /\ pc = "open"
      BY <1>6 DEF OpenRoot
    <2>2. CASE \E e : NoRoot(e)
      BY <1>3, <2>1, <2>2
    <2>3. CASE \E d : memo' = Opened(based, d) /\ pc' = "act"
      <3>1. based \in Seq(Name)
        BY <2>1 DEF CwdInv, CallsOK
      <3>2. memo'.is = "opened" /\ memo'.base = based
        BY <2>3 DEF Opened
      <3> QED  BY <1>4, <2>1, <2>3, <3>1, <3>2
    <2> QED  BY <1>6, <2>2, <2>3 DEF OpenRoot
  <1> QED  BY <1>5, <1>6


(* What is below the root goes on as the path does.                        *)
Within(b, s)     == Len(b) \in Nat /\ s \in Seq(Name) /\ Len(b) <= Len(s)
IsBelow(v, b, s) ==
    /\ v \in Seq(Name) /\ Len(v) = Len(s) - Len(b)
    /\ \A i \in 1..Len(v) : v[i] = s[Len(b) + i]
LEMMA BelowIs ==
    ASSUME NEW b, NEW s, Within(b, s)
    PROVE  IsBelow(Below(b, s), b, s)
  <1>1. PICK v, n : v = Below(b, s) /\ n = Len(b)
    OBVIOUS
  <1>2. Len(s) \in Nat /\ n \in Nat /\ n <= Len(s) /\ s \in Seq(Name)
    BY <1>1, LenProperties DEF Within
  <1>3. v = SubSeq(s, n + 1, Len(s))
    BY <1>1 DEF Below
  <1>4. v \in Seq(Name) /\ Len(v) = Len(s) - n /\ \A k \in 1..(Len(s) - n) : v[k] = s[n + k]
    BY <1>2, <1>3
  <1> QED  BY <1>1, <1>4 DEF IsBelow

LEMMA BelowJoins ==
    ASSUME NEW b, NEW s, Within(b, s), NEW p, NEW q, Joined(q, s, p)
    PROVE  Joined(Below(b, q), Below(b, s), p)
  <1>0. Len(b) \in Nat /\ s \in Seq(Name) /\ Len(b) <= Len(s) /\ p \in Seq(Name) /\ q = s \o p
    BY DEF Within, Joined
  <1>1. /\ q \in Seq(Name) /\ Len(q) = Len(s) + Len(p)
        /\ \A i \in 1..Len(s) + Len(p) : q[i] = IF i <= Len(s) THEN s[i] ELSE p[i - Len(s)]
    BY <1>0, ConcatProperties
  <1>2. Len(s) \in Nat /\ Len(p) \in Nat /\ Len(b) <= Len(q)
    BY <1>0, <1>1, LenProperties
  <1>3. PICK v, u : v = Below(b, q) /\ u = Below(b, s)
    OBVIOUS
  <1>4. v \in Seq(Name) /\ Len(v) = Len(q) - Len(b) /\ \A i \in 1..Len(v) : v[i] = q[Len(b) + i]
    <2>1. Within(b, q)
      BY <1>0, <1>1, <1>2 DEF Within
    <2>2. IsBelow(v, b, q)
      BY <1>3, <2>1, BelowIs
    <2> QED  BY <2>2 DEF IsBelow
  <1>6. u \in Seq(Name) /\ Len(u) = Len(s) - Len(b) /\ \A i \in 1..Len(u) : u[i] = s[Len(b) + i]
    <2>1. IsBelow(u, b, s)
      BY <1>3, BelowIs
    <2> QED  BY <2>1 DEF IsBelow
  <1>7. PICK w : w = u \o p
    OBVIOUS
  <1>8. /\ w \in Seq(Name) /\ Len(w) = Len(u) + Len(p)
        /\ \A i \in 1..Len(u) + Len(p) : w[i] = IF i <= Len(u) THEN u[i] ELSE p[i - Len(u)]
    BY <1>0, <1>6, <1>7, ConcatProperties
  <1>9. Len(v) = Len(w)
    BY <1>0, <1>1, <1>2, <1>4, <1>6, <1>8
  <1>10. ASSUME NEW i \in 1..Len(v)  PROVE v[i] = w[i]
    <2>1. i \in Nat /\ Len(b) + i \in 1..Len(s) + Len(p) /\ i \in 1..Len(u) + Len(p)
          /\ (Len(b) + i) - Len(s) = i - Len(u)
          /\ (Len(b) + i <= Len(s) <=> i <= Len(u))
      BY <1>0, <1>1, <1>2, <1>4, <1>6
    <2>2. v[i] = IF Len(b) + i <= Len(s) THEN s[Len(b) + i] ELSE p[(Len(b) + i) - Len(s)]
      <3>1. v[i] = q[Len(b) + i]
        BY <1>4
      <3> QED  BY <1>1, <2>1, <3>1, Zenon
    <2>3. w[i] = IF i <= Len(u) THEN u[i] ELSE p[i - Len(u)]
      BY <1>8, <2>1, Zenon
    <2>4. i <= Len(u) => u[i] = s[Len(b) + i]
      <3>1. i <= Len(u) => i \in 1..Len(u)
        BY <1>0, <1>2, <1>6
      <3> QED  BY <1>6, <3>1
    <2> QED  BY <2>1, <2>2, <2>3, <2>4
  <1>11. v = w
    BY <1>4, <1>8, <1>9, <1>10, SeqEqual
  <1> QED  BY <1>0, <1>3, <1>6, <1>7, <1>11 DEF Joined

LEMMA LeadsOn ==
    ASSUME NEW e, NEW s, NEW p, NEW q, Joined(q, s, p),
           memo.is = "opened" => memo.base \in Seq(Name) /\ IsPrefix(memo.base, s)
    PROVE  Leads(e, q) = Onward(e, Leads(e, s), p)
  <1>1. CASE memo.is # "opened"
    <2>1. Leads(e, q) = AtIn(e, Top, q) /\ Leads(e, s) = AtIn(e, Top, s)
      BY <1>1 DEF Leads
    <2>2. AtIn(e, Top, q) = Onward(e, AtIn(e, Top, s), p)
      BY AtJoins
    <2> QED  BY <2>1, <2>2
  <1>2. CASE memo.is = "opened"
    <2>1. PICK b, d : b = memo.base /\ d = memo.dir
      OBVIOUS
    <2>2. Within(b, s)
      BY <1>2, <2>1, LenProperties DEF IsPrefix, Within, Joined
    <2>3. PICK v, u : v = Below(b, q) /\ u = Below(b, s)
      OBVIOUS
    <2>4. Joined(v, u, p)
      BY <2>2, <2>3, BelowJoins
    <2>5. AtIn(e, d, v) = Onward(e, AtIn(e, d, u), p)
      BY <2>4, AtJoins
    <2>6. Leads(e, q) = AtIn(e, d, v) /\ Leads(e, s) = AtIn(e, d, u)
      BY <1>2, <2>1, <2>3 DEF Leads
    <2> QED  BY <2>5, <2>6
  <1> QED  BY <1>1, <1>2


(* What acts, by the root's handle or, unconfined, from the top.           *)
Acting(from, c) ==
    /\ pc = "act" /\ cand # Empty
    /\ UNCHANGED <<confined, ents, memo, call, lost>>
    /\ Reached(from, c)
    /\ memo.is \in {"unset", "opened"} /\ (confined <=> memo.is = "opened")
    /\ memo.is = "opened" => IsPrefix(memo.base, cand.comps)
    /\ AtIn(ents, from, c) = Leads(ents, cand.comps)

LEMMA SettingCwd ==
    ASSUME CwdInv, NEW from, NEW c, Acting(from, c), call.op = "set", AtIn(ents, from, c) # {}
    PROVE  CallsOK' /\ Lost' /\ SetKept'
  <1>1. /\ slot' = cand /\ set' = AtIn(ents, from, c) /\ pc' = "idle"
        /\ result'.call = call
    BY AtInIsAt DEF Acting, Reached, Answer, StoredSlot
  <1>2. /\ pc = "act" /\ cand # Empty
        /\ confined' = confined /\ ents' = ents /\ memo' = memo /\ call' = call
        /\ memo.is \in {"unset", "opened"} /\ (confined <=> memo.is = "opened")
        /\ memo.is = "opened" => IsPrefix(memo.base, cand.comps)
        /\ AtIn(ents, from, c) = Leads(ents, cand.comps)
    BY DEF Acting
  <1>3. /\ PathOK(cand) /\ cand.comps \in Seq(Name) /\ ents \in Trees
        /\ memo.is = "opened" => memo.base \in Seq(Name)
    BY <1>2 DEF CwdInv, CallsOK, PathOK
  <1>4. CallsOK'
    <2>1. PathOK(slot') /\ slot'.comps \in Seq(Name) /\ ents' \in Trees
      BY <1>1, <1>2, <1>3
    <2>2. memo'.is = "opened" => memo'.base \in Seq(Name)
      BY <1>2, <1>3
    <2>3. IF confined' THEN memo'.is = "opened" ELSE memo'.is = "unset"
      <3>1. (confined' <=> confined) /\ memo' = memo
        BY <1>2
      <3>2. IF confined THEN memo.is = "opened" ELSE memo.is = "unset"
        BY <1>2
      <3> QED  BY <3>1, <3>2, Zenon
    <2> QED  BY <1>1, <2>1, <2>2, <2>3 DEF CallsOK
  <1>5. Lost'
    <2>0. pc = "act" /\ cand # Empty
      BY <1>2
    <2>1. lost => call.path.abs
      BY <2>0 DEF CwdInv, Lost
    <2>2. lost' => result'.call.path.abs
      <3>1. (lost' <=> lost) /\ result'.call.path.abs = call.path.abs
        BY <1>1 DEF Acting
      <3> QED  BY <2>1, <3>1, Zenon
    <2>3. LostCwdActsNowhere'
      BY <2>2 DEF LostCwdActsNowhere
    <2> QED  BY <1>1, <2>3 DEF Lost
  <1>6. SetKept'
    <2>1. Leads(ents, slot.comps)' = Leads(ents, cand.comps)
      BY <1>1, <1>2 DEF Leads
    <2>2. (slot # Empty /\ still => set = Leads(ents, slot.comps))'
      BY <1>1, <1>2, <2>1
    <2>3. (slot # Empty /\ memo.is = "opened" => IsPrefix(memo.base, slot.comps))'
      BY <1>1, <1>2
    <2>4. result'.call.op # "use" /\ pc' \notin {"find", "open", "act"}
      BY <1>1
    <2>5. Used'
      BY <2>4 DEF Used
    <2> QED  BY <2>2, <2>3, <2>4, <2>5 DEF SetKept
  <1> QED  BY <1>4, <1>5, <1>6

LEMMA UsingCwd ==
    ASSUME CwdInv, NEW from, NEW c, Acting(from, c), ~ (call.op = "set" /\ AtIn(ents, from, c) # {})
    PROVE  CallsOK' /\ Lost' /\ SetKept'
  <1>1. /\ slot' = slot /\ set' = set /\ still' = still /\ pc' = "idle"
        /\ result'.call = call /\ result'.at = AtIn(ents, from, c)
        /\ result'.err = IF AtIn(ents, from, c) = {} THEN "NotFound" ELSE "ok"
    BY AtInIsAt DEF Acting, Reached, Answer
  <1>2. /\ pc = "act" /\ cand # Empty
        /\ confined' = confined /\ ents' = ents /\ memo' = memo /\ call' = call
        /\ AtIn(ents, from, c) = Leads(ents, cand.comps)
    BY DEF Acting
  <1>3. CASE result'.err # "ok"
    BY <1>1, <1>2, <1>3, FailedStep
  <1>4. CASE result'.err = "ok"
    <2>1. call.op = "use"
      BY <1>1, <1>2, <1>4 DEF CwdInv, CallsOK
    <2>2. CallsOK'
      <3>1. /\ ents \in Trees /\ PathOK(slot) /\ slot.comps \in Seq(Name)
            /\ memo.is = "opened" => memo.base \in Seq(Name)
            /\ slot # Empty => IF confined THEN memo.is = "opened" ELSE memo.is = "unset"
        BY DEF CwdInv, CallsOK
      <3>2. /\ ents' \in Trees /\ PathOK(slot') /\ slot'.comps \in Seq(Name)
            /\ memo'.is = "opened" => memo'.base \in Seq(Name)
            /\ slot' # Empty => IF confined' THEN memo'.is = "opened" ELSE memo'.is = "unset"
        BY <1>1, <1>2, <3>1
      <3> QED  BY <1>1, <3>2 DEF CallsOK
    <2>3. Lost'
      <3>1. lost => call.path.abs
        BY <1>2 DEF CwdInv, Lost
      <3>2. lost' => result'.call.path.abs
        BY <1>1, <3>1 DEF Acting
      <3>3. LostCwdActsNowhere'
        BY <3>2 DEF LostCwdActsNowhere
      <3> QED  BY <1>1, <3>3 DEF Lost
    <2>4. Used'
      <3> SUFFICES ASSUME slot' # Empty, still', ~ result'.call.path.abs
                   PROVE  result'.at = UNION {AtIn(ents', d, result'.call.path.comps) : d \in set'}
        BY DEF Used
      <3>1. slot # Empty /\ ~ call.path.abs
        BY <1>1
      <3>2. set = Leads(ents, slot.comps)
        BY <1>1, <3>1 DEF CwdInv, SetKept
      <3>3. cand.comps = slot.comps \o call.path.comps
        BY <1>2, <2>1, <3>1 DEF CwdInv, SetKept
      <3>4. slot.comps \in Seq(Name) /\ call.path.comps \in Seq(Name)
        BY <1>2, PathsAre DEF CwdInv, CallsOK
      <3>5. PICK e, s, p, q : e = ents /\ s = slot.comps /\ p = call.path.comps /\ q = cand.comps
        OBVIOUS
      <3>6. Joined(q, s, p)
        BY <3>3, <3>4, <3>5 DEF Joined
      <3>7. memo.is = "opened" => memo.base \in Seq(Name) /\ IsPrefix(memo.base, s)
        BY <3>1, <3>5 DEF CwdInv, CallsOK, SetKept
      <3>8. Leads(e, q) = Onward(e, Leads(e, s), p)
        BY <3>6, <3>7, LeadsOn
      <3>9. result'.at = Onward(e, set, p)
        BY <1>1, <1>2, <3>2, <3>5, <3>8
      <3> QED  BY <1>1, <1>2, <3>5, <3>9 DEF Onward
    <2>5. SetKept'
      <3>1. /\ slot # Empty /\ memo.is = "opened" => IsPrefix(memo.base, slot.comps)
            /\ slot # Empty /\ still => set = Leads(ents, slot.comps)
        BY DEF CwdInv, SetKept
      <3>2. Leads(ents, slot.comps)' = Leads(ents, slot.comps)
        BY <1>1, <1>2 DEF Leads
      <3>3. (slot # Empty /\ still => set = Leads(ents, slot.comps))'
        BY <1>1, <3>1, <3>2
      <3>4. (slot # Empty /\ memo.is = "opened" => IsPrefix(memo.base, slot.comps))'
        BY <1>1, <1>2, <3>1
      <3>5. pc' \notin {"find", "open", "act"}
        BY <1>1
      <3> QED  BY <2>4, <3>3, <3>4, <3>5 DEF SetKept
    <2> QED  BY <2>2, <2>3, <2>5
  <1> QED  BY <1>3, <1>4


LEMMA ActCwd ==
    ASSUME CwdInv, Act
    PROVE  CallsOK' /\ Lost' /\ SetKept'
  <1>1. /\ pc = "act"
        /\ UNCHANGED <<confined, ents, memo, call, lost>>
    BY DEF Act, world
  <1>2. ASSUME NEW e, e # "ok", Refused(e)  PROVE CallsOK' /\ Lost' /\ SetKept'
    <2>1. pc' = "idle" /\ result'.err = e /\ UNCHANGED <<slot, set, still>>
      BY <1>2 DEF Refused, Answer
    <2> QED  BY <1>1, <1>2, <2>1, FailedStep
  <1>3. memo.is = "failed" => memo.err # "ok"
    BY DEF CwdInv, RootInv, MemoIs, Unset, Failed, Opened
  <1>4. ASSUME NEW from, NEW c, Acting(from, c)  PROVE CallsOK' /\ Lost' /\ SetKept'
    BY <1>4, SettingCwd, UsingCwd
  <1>5. CASE memo.is = "unset" /\ cand # Empty /\ Reached(Top, cand.comps)
    <2>1. ~ confined
      <3>1. memo = Unset
        BY <1>5 DEF CwdInv, RootInv, MemoIs, Failed, Opened
      <3> QED  BY <1>1, <3>1 DEF CwdInv, RootInv, Finding
    <2>2. Acting(Top, cand.comps)
      BY <1>1, <1>5, <2>1 DEF Acting, Leads
    <2> QED  BY <1>4, <2>2
  <1>6. CASE memo.is = "opened" /\ cand # Empty
             /\ \E c \in Beneath(cand.comps) : Reached(memo.dir, c)
    <2>1. confined
      BY <1>6 DEF CwdInv, RootInv, Finding, Unset
    <2>2. PICK c \in Beneath(cand.comps) : Reached(memo.dir, c)
      BY <1>6
    <2>3. IsPrefix(memo.base, cand.comps) /\ c = Below(memo.base, cand.comps)
      BY <2>2 DEF Beneath, Below
    <2>4. AtIn(ents, memo.dir, c) = Leads(ents, cand.comps)
      BY <1>6, <2>3 DEF Leads
    <2>5. Acting(memo.dir, c)
      BY <1>1, <1>6, <2>1, <2>2, <2>3, <2>4 DEF Acting
    <2> QED  BY <1>4, <2>5
  <1>7. \/ memo.is = "failed" /\ Refused(memo.err)
        \/ Refused("NotFound") \/ Refused("PermissionDenied")
        \/ memo.is = "unset" /\ cand # Empty /\ Reached(Top, cand.comps)
        \/ memo.is = "opened" /\ cand # Empty
              /\ \E c \in Beneath(cand.comps) : Reached(memo.dir, c)
    BY DEF Act, RootUsed
  <1> QED  BY <1>2, <1>3, <1>5, <1>6, <1>7

(* Other programs: what was lost stays lost, and what was set moves on.    *)
LEMMA MovesCwd ==
    ASSUME CwdInv, RenameDir \/ RemoveDir \/ MakeDir \/ Chmod
    PROVE  CallsOK' /\ Lost' /\ SetKept'
  <1>1. /\ still' = FALSE
        /\ UNCHANGED <<confined, memo, slot, pc, call, cand, based, result, calls, lost, set>>
    BY DEF RenameDir, RemoveDir, MakeDir, Chmod, Moved
  <1>2. ents' \in Trees /\ (CwdPaths = {} => CwdPaths' = {})
    BY MovedTree DEF CwdInv, CallsOK
  <1>3. CallsOK'
    BY <1>1, <1>2 DEF CwdInv, CallsOK
  <1>4. Lost'
    BY <1>1, <1>2, Zenon DEF CwdInv, Lost, LostCwdActsNowhere
  <1>5. SetKept'
    <2>1. Used'
      BY <1>1 DEF Used
    <2>2. /\ slot # Empty /\ memo.is = "opened" => IsPrefix(memo.base, slot.comps)
          /\ pc \in {"find", "open", "act"} /\ call.op = "use" /\ ~call.path.abs /\ slot # Empty
                => cand = Empty \/ cand.comps = slot.comps \o call.path.comps
      BY DEF CwdInv, SetKept
    <2>3. (slot # Empty /\ memo.is = "opened" => IsPrefix(memo.base, slot.comps))'
      BY <1>1, <2>2
    <2>4. (pc \in {"find", "open", "act"} /\ call.op = "use" /\ ~call.path.abs /\ slot # Empty
                => cand = Empty \/ cand.comps = slot.comps \o call.path.comps)'
      BY <1>1, <2>2
    <2> QED  BY <1>1, <2>1, <2>3, <2>4 DEF SetKept
  <1> QED  BY <1>3, <1>4, <1>5

LEMMA CwdStep == CwdInv /\ [Next]_vars => CwdInv'
  <1> SUFFICES ASSUME CwdInv, [Next]_vars  PROVE CwdInv'
    OBVIOUS
  <1>1. RootInv'
    BY RootStep DEF CwdInv
  <1>2. CallsOK' /\ Lost' /\ SetKept'
    <2>1. ASSUME NEW op \in {"use", "set"}, NEW p \in Paths, Start(op, p)
          PROVE  CallsOK' /\ Lost' /\ SetKept'
      BY <2>1, StartCwd
    <2>2. CASE RefuseBytes
      <3>1. /\ pc' = "idle" /\ result'.err = "Other"
            /\ UNCHANGED <<confined, ents, slot, set, still, memo>>
        BY <2>2 DEF RefuseBytes, Refused, Answer, world
      <3> QED  BY <3>1, FailedStep
    <2>3. CASE Resolve
      BY <2>3, ResolveCwd
    <2>4. CASE FindBase \/ OpenRoot
      BY <2>4, FindCwd
    <2>5. CASE Act
      BY <2>5, ActCwd
    <2>6. CASE RenameDir \/ RemoveDir \/ MakeDir \/ Chmod
      BY <2>6, MovesCwd
    <2>7. CASE UNCHANGED vars
      <3>1. UNCHANGED <<confined, ents, locked, memo, slot, pc, call, cand, based, result, calls,
                        lost, set, still>>
        BY <2>7 DEF vars, world, past
      <3>2. CallsOK'
        BY <3>1 DEF CwdInv, CallsOK
      <3>3. Lost'
        <4>1. CwdPaths' = CwdPaths
          BY <3>1 DEF CwdPaths, At, Place
        <4> QED  BY <3>1, <4>1, Zenon DEF CwdInv, Lost, LostCwdActsNowhere
      <3>4. SetKept'
        BY <3>1, Zenon DEF CwdInv, SetKept, Used, Leads
      <3> QED  BY <3>2, <3>3, <3>4
    <2> QED  BY <2>1, <2>2, <2>3, <2>4, <2>5, <2>6, <2>7 DEF Next
  <1> QED  BY <1>1, <1>2 DEF CwdInv


LEMMA CwdAlways == Spec => []CwdInv
  <1> QED  BY CwdStart, CwdStep, PTL DEF Spec

(* With no working directory a relative path acts nowhere, whatever other  *)
(* programs do until it is resolved: renaming, removing and making         *)
(* directories gives no path back to one that was removed (FsOps.roc:12-15,*)
(* 66-70).                                                                 *)
THEOREM LostNeverActs == Spec => []LostCwdActsNowhere
  <1>1. CwdInv => LostCwdActsNowhere
    BY DEF CwdInv, Lost
  <1> QED  BY <1>1, CwdAlways, PTL

(* A relative path leads below the directory that set_cwd! accepted, by    *)
(* the root's handle or from "/", and however it was spelled, while nothing*)
(* is renamed (FsOps.roc:30-37).                                           *)
THEOREM SetAlwaysUsed == Spec => []SetCwdIsUsed
  <1>1. CwdInv => SetCwdIsUsed
    <2> SUFFICES ASSUME CwdInv, pc = "idle", slot # Empty, still, result.call.op = "use",
                        ~result.call.path.abs, result.err = "ok"
                 PROVE  result.at = UNION {At(d, result.call.path.comps) : d \in set}
      BY DEF SetCwdIsUsed
    <2>1. result.at = UNION {AtIn(ents, d, result.call.path.comps) : d \in set}
      BY DEF CwdInv, SetKept, Used
    <2>2. \A d : At(d, result.call.path.comps) = AtIn(ents, d, result.call.path.comps)
      BY DEF At, AtIn, Walk, Stepped
    <2> QED  BY <2>1, <2>2
  <1> QED  BY <1>1, CwdAlways, PTL
=============================================================================
