-------------------------------- MODULE Loops --------------------------------
(***************************************************************************)
(* A loop written as a recursive function: from a state it goes on to the  *)
(* next until it is in one that ends it.  There is such a function, and    *)
(* when something decreases on the way it ends where the steps lead.       *)
(*                                                                         *)
(* The link walk of Tree, what is below a directory, and the way from a    *)
(* directory along names are such loops.                                   *)
(***************************************************************************)
EXTENDS Naturals, WellFoundedInduction, TLAPS

(* f goes from a state of D by step until the state is in done.            *)
Loop(f, D, done, step) == f = [s \in D |-> IF s \in done THEN s ELSE f[step[s]]]

(* The sets that a loop does not leave.                                    *)
Keeps(S, D, done, step) == S \subseteq D /\ \A s \in S \ done : step[s] \in S

(* A set of numbers that is not empty has a least one.                     *)
LEMMA LeastNumber ==
    ASSUME NEW S \in SUBSET Nat, S # {}
    PROVE  \E n \in S : \A m \in S : n <= m
  <1>1. PICK n \in S : \A m \in S : ~ (<<m, n>> \in OpToRel(<, Nat))
    BY NatLessThanWellFounded, WFMin
  <1>2. \A m \in S : n <= m
    <2> TAKE m \in S
    <2>1. m \in Nat /\ n \in Nat  OBVIOUS
    <2>2. m < n => <<m, n>> \in OpToRel(<, Nat)
      BY <2>1 DEF OpToRel
    <2>3. ~ (m < n)
      BY <1>1, <2>2, Zenon
    <2> QED  BY <2>1, <2>3, SMT
  <1> QED  BY <1>2

(* There is a loop for every step: it answers a state that ends it among   *)
(* those that come after the given one, which are those of every set that  *)
(* is not left.                                                            *)
LEMMA LoopExists ==
    ASSUME NEW D, NEW done, NEW step \in [D -> D]
    PROVE  \E f : Loop(f, D, done, step)
  <1> DEFINE After(s) == {x \in D : \A S \in SUBSET D : s \in S /\ Keeps(S, D, done, step) => x \in S}
             End(s)   == After(s) \cap done
             f        == [s \in D |-> CHOOSE x : x \in End(s)]
  <1>1. ASSUME NEW s \in D, s \in done
        PROVE  f[s] = s
    <2>1. {s} \in SUBSET D /\ s \in {s} /\ Keeps({s}, D, done, step)
      BY <1>1 DEF Keeps
    <2>2. End(s) = {s}
      BY <1>1, <2>1
    <2>3. f[s] \in End(s)
      BY <2>2
    <2> QED  BY <2>2, <2>3
  <1>2. ASSUME NEW s \in D, s \notin done
        PROVE  f[s] = f[step[s]]
    <2>1. step[s] \in D
      OBVIOUS
    <2>2. ASSUME NEW x \in D, x \in After(step[s])  PROVE x \in After(s)
      <3> SUFFICES ASSUME NEW S \in SUBSET D, s \in S, Keeps(S, D, done, step)
                   PROVE  x \in S
        OBVIOUS
      <3>1. step[s] \in S
        BY <1>2 DEF Keeps
      <3> QED  BY <2>2, <3>1
    <2>3. ASSUME NEW x \in D, x \in After(s), x # s  PROVE x \in After(step[s])
      <3> SUFFICES ASSUME NEW S \in SUBSET D, step[s] \in S, Keeps(S, D, done, step)
                   PROVE  x \in S
        OBVIOUS
      <3>1. S \cup {s} \in SUBSET D /\ s \in S \cup {s} /\ Keeps(S \cup {s}, D, done, step)
        BY <1>2 DEF Keeps
      <3>2. x \in S \cup {s}
        BY <2>3, <3>1
      <3> QED  BY <2>3, <3>2
    <2>4. End(s) = End(step[s])
      BY <1>2, <2>1, <2>2, <2>3
    <2> HIDE DEF End
    <2>5. f[s] = (CHOOSE x : x \in End(s)) /\ f[step[s]] = (CHOOSE x : x \in End(step[s]))
      BY <2>1
    <2> QED  BY <2>4, <2>5
  <1> HIDE DEF End
  <1>3. f = [s \in D |-> IF s \in done THEN s ELSE f[step[s]]]
    <2>1. \A s \in D : f[s] = IF s \in done THEN s ELSE f[step[s]]
      BY <1>1, <1>2
    <2>2. f = [s \in D |-> f[s]]
      OBVIOUS
    <2> HIDE DEF f
    <2> QED  BY <2>1, <2>2
  <1> QED  BY <1>3 DEF Loop

(* A loop on which two numbers decrease, the first or, while the first     *)
(* stays, the second, ends in every set that it starts in and does not     *)
(* leave.                                                                  *)
LEMMA LoopEnds ==
    ASSUME NEW D, NEW done, NEW step, NEW f, Loop(f, D, done, step),
           NEW m \in [D -> Nat], NEW n \in [D -> Nat],
           \A s \in D \ done : \/ m[step[s]] < m[s]
                               \/ m[step[s]] = m[s] /\ n[step[s]] < n[s],
           NEW S, Keeps(S, D, done, step), NEW x \in S
    PROVE  f[x] \in S \cap done
  <1> DEFINE T == {s \in S : f[s] \notin S \cap done}
  <1> SUFFICES ASSUME T # {}  PROVE FALSE
    OBVIOUS
  <1>1. \A s \in S : s \in D
    BY DEF Keeps
  <1>2. PICK s \in T : \A r \in T : m[s] <= m[r]
    <2> DEFINE M == {m[s] : s \in T}
    <2>1. M \in SUBSET Nat /\ M # {}
      BY <1>1
    <2>2. PICK k \in M : \A j \in M : k <= j
      BY <2>1, LeastNumber
    <2> QED  BY <2>2
  <1> DEFINE U == {r \in T : m[r] = m[s]}
  <1>3. PICK r \in U : \A q \in U : n[r] <= n[q]
    <2> DEFINE N == {n[q] : q \in U}
    <2>1. N \in SUBSET Nat /\ N # {}
      BY <1>1
    <2>2. PICK k \in N : \A j \in N : k <= j
      BY <2>1, LeastNumber
    <2> QED  BY <2>2
  <1>4. r \in S /\ r \in D /\ m[r] = m[s] /\ f[r] \notin S \cap done
    BY <1>1
  <1>5. f[r] = IF r \in done THEN r ELSE f[step[r]]
    BY <1>4 DEF Loop
  <1>6. r \notin done /\ step[r] \in S /\ f[step[r]] \notin S \cap done
    BY <1>4, <1>5 DEF Keeps
  <1>7. step[r] \in T /\ step[r] \in D
    BY <1>1, <1>6
  <1>8. m[s] <= m[step[r]]
    BY <1>2, <1>7
  <1>9. m[step[r]] \in Nat /\ m[r] \in Nat /\ n[step[r]] \in Nat /\ n[r] \in Nat
    BY <1>4, <1>7
  <1>10. m[step[r]] = m[s] /\ n[step[r]] < n[r]
    BY <1>4, <1>6, <1>8, <1>9
  <1>11. n[r] <= n[step[r]]
    BY <1>3, <1>7, <1>10
  <1> QED  BY <1>9, <1>10, <1>11
=============================================================================
