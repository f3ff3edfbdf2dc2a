------------------------------ MODULE FsProofs ------------------------------
(***************************************************************************)
(* The confined host stays inside its root: proved for every tree that has *)
(* a root, every call and path, either umask, and any number of exchanges  *)
(* and replacements by another program between the system calls.           *)
(*                                                                         *)
(* What is the root's is a set of nodes with a wall around it (Walled in   *)
(* Tree): no name leads in but the root's own, and none out.  A walk from  *)
(* the root's handle that takes no absolute link and no `..' at the root   *)
(* ends inside the wall; a system call that changes only what such walks   *)
(* found leaves the wall standing, around what it made as well; another    *)
(* program's exchange moves names within one directory, on its side.  The  *)
(* nodes a call holds open are inside, so each later step acts inside too. *)
(*                                                                         *)
(* Then, for either host: the tree stays a tree in which a directory has   *)
(* one name, what a call holds open is of the kind its next step needs,    *)
(* and a copy is never more open than its source (TreeInv, from Fine).     *)
(*                                                                         *)
(* Last, nothing is lost: every node has a name or is held open, and what  *)
(* has entries has a name, so that a call that makes something keeps every *)
(* name there was; and a failed copy removes the file it made or, if       *)
(* nobody moved since it compared, nothing (KeepInv, from Spared).         *)
(***************************************************************************)
EXTENDS FsProps, Loops, SequenceTheorems, FiniteSetTheorems

(* The entries of a directory.                                             *)
LEMMA EntryIs ==
    ASSUME NEW t0, IsTree(t0), NEW d \in Ino, IsDir(t0, d)
    PROVE  /\ t0[d] = DirNode(Ents(t0, d), t0[d].mode)
           /\ Ents(t0, d) = [n \in DOMAIN Ents(t0, d) |-> Ents(t0, d)[n]]
           /\ \A n \in DOMAIN Ents(t0, d) :
                 LET i == Ents(t0, d)[n]
                 IN  i \in Ino /\ t0[i] # Free /\ i \in Children(t0, d) /\ IsNode(t0, t0[i])
           /\ \A i \in Children(t0, d) : \E n \in DOMAIN Ents(t0, d) : i = Ents(t0, d)[n]
  <1>1. IsNode(t0, t0[d]) /\ t0[d].kind = "dir"
    BY DEF IsTree, IsDir, Kind
  <1>2. t0[d] = DirNode(Ents(t0, d), t0[d].mode) /\ IsEnts(t0, Ents(t0, d))
    BY <1>1 DEF IsNode, Free, OtherNode, Ents
  <1>3. \A n \in DOMAIN Ents(t0, d) : Ents(t0, d)[n] \in Children(t0, d)
    BY DEF Children, Range
  <1> QED  BY <1>2, <1>3 DEF IsEnts, IsTree, Children, Range

(* A parent is a directory that has the child.                             *)
LEMMA ParentIs ==
    ASSUME NEW t0, IsTree(t0), NEW d \in Ino, IsDir(t0, d)
    PROVE  /\ ParentOf(t0, d) \in Ino /\ IsDir(t0, ParentOf(t0, d))
           /\ ParentOf(t0, d) = d \/ d \in Children(t0, ParentOf(t0, d))
  <1>1. CASE \E p \in Ino : d \in Children(t0, p)
    <2>1. ParentOf(t0, d) \in Ino /\ d \in Children(t0, ParentOf(t0, d))
      BY <1>1 DEF ParentOf
    <2> QED  BY <2>1 DEF Children
  <1>2. CASE ~ \E p \in Ino : d \in Children(t0, p)
    BY <1>2 DEF ParentOf
  <1> QED  BY <1>1, <1>2

(* What a node of each kind holds.                                         *)
LEMMA KindIs ==
    ASSUME NEW t0, NEW x, IsNode(t0, x)
    PROVE  /\ x.kind = "file" => x = FileNode(x.data, x.mode)
           /\ x.kind = "link" => x = LinkNode(x.to) /\ IsPath(x.to)
           /\ x.kind = "dir" => x = DirNode(x.ents, x.mode) /\ IsEnts(t0, x.ents)
           /\ x.kind \in {"free", "other", "file", "link", "dir"}
           /\ x.kind = "free" <=> x = Free
  BY DEF IsNode, Free, OtherNode

(* The fields of a walk. *)
IsWalk(t0, q) ==
    /\ q = [out |-> q.out, at |-> q.at, todo |-> q.todo, hops |-> q.hops, dir |-> q.dir,
            name |-> q.name]
    /\ q.out \in Outcomes /\ q.at \in Ino /\ q.todo \in Seq(Comps) /\ q.hops \in 0..MaxHops
    /\ q.dir \in Ino /\ q.name \in Comps \cup {""} /\ (q.out = "go" => IsDir(t0, q.at))

(* A record with those fields is a walk, and a walk has them.              *)
LEMMA WalkIs == \A t0, q : IsWalk(t0, q) <=> q \in Walks(t0)
  <1> TAKE t0, q
  <1> DEFINE R == [out : Outcomes, at : Ino, todo : Seq(Comps), hops : 0..MaxHops,
                   dir : Ino, name : Comps \cup {""}]
  <1>1. q \in R <=> IsWalk(t0, q) \/ (q \in R /\ ~(q.out = "go" => IsDir(t0, q.at)))
    <2> HIDE DEF Outcomes
    <2> DEFINE HH == 0..MaxHops  SS == Seq(Comps)  NN == Comps \cup {""}
    <2> HIDE DEF HH, SS, NN
    <2>1. q \in [out : Outcomes, at : Ino, todo : SS, hops : HH, dir : Ino, name : NN]
            <=> /\ q = [out |-> q.out, at |-> q.at, todo |-> q.todo, hops |-> q.hops,
                        dir |-> q.dir, name |-> q.name]
                /\ q.out \in Outcomes /\ q.at \in Ino /\ q.todo \in SS /\ q.hops \in HH
                /\ q.dir \in Ino /\ q.name \in NN
      OBVIOUS
    <2> QED  BY <2>1 DEF HH, SS, NN, IsWalk
  <1>2. IsWalk(t0, q) => (q.out = "go" => IsDir(t0, q.at))
    BY DEF IsWalk
  <1> QED  BY <1>1, <1>2, Zenon DEF Walks

(* Where one more name leads: to a link's contents, and a hop is used up;  *)
(* or through an entry, and a component is.                                *)
Stepped(t0, s, r) ==
    /\ IsWalk(t0, r)
    /\ r.out \in {"go", "found"} =>
          \/ r.hops = s.hops + 1 /\ r.at = s.at /\ r.dir = s.dir /\ r.name = ""
          \/ r.hops = s.hops /\ Len(r.todo) < Len(s.todo) /\ r.dir = s.at
                             /\ r.at \in Children(t0, s.at)
    /\ r.out \notin {"go", "found"} => r.hops = s.hops /\ r.at = s.at /\ r.dir \in {s.dir, s.at}

(* One name of a walk beneath the root is followed as Stepped says.        *)
LEMMA NameStep ==
    ASSUME NEW t0, IsTree(t0), NEW s \in Walks(t0), s.out = "go", s.todo # <<>>, NEW follow
    PROVE  Stepped(t0, s, WalkName(t0, s, follow, TRUE))
  <1> DEFINE r    == WalkName(t0, s, follow, TRUE)
             n    == Head(s.todo)
             rest == Tail(s.todo)
             i    == Ents(t0, s.at)[n]
             node == t0[i]
             last == rest = <<>>
             W(o, x, td, hp, dr, nm) ==
               [out |-> o, at |-> x, todo |-> td, hops |-> hp, dir |-> dr, name |-> nm]
  <1>1. /\ s.at \in Ino /\ IsDir(t0, s.at) /\ s.todo \in Seq(Comps) /\ s.hops \in 0..MaxHops
        /\ s.dir \in Ino /\ s.name \in Comps \cup {""} /\ s.out \in Outcomes
        /\ s = W(s.out, s.at, s.todo, s.hops, s.dir, s.name)
    BY WalkIs DEF IsWalk
  <1>2. n \in Comps /\ rest \in Seq(Comps) /\ Len(rest) < Len(s.todo)
    <2>1. s.todo \in Seq(Comps)
      BY <1>1
    <2>2. n \in Comps /\ rest \in Seq(Comps) /\ Len(rest) = Len(s.todo) - 1
      BY <2>1, HeadTailProperties
    <2>3. Len(s.todo) \in Nat
      BY <2>1, LenProperties
    <2> QED  BY <2>2, <2>3
  <1>3. n \in DOMAIN Ents(t0, s.at) =>
          i \in Ino /\ node # Free /\ i \in Children(t0, s.at) /\ IsNode(t0, node)
    BY <1>1, EntryIs
  <1>4. MaxHops \in Nat
    BY TreeAssumption
  <1>5. r = IF n \notin DOMAIN Ents(t0, s.at)
            THEN [s EXCEPT !.out = IF last THEN "absent" ELSE "NotFound", !.dir = s.at, !.name = n]
            ELSE IF node.kind = "link" /\ (~last \/ follow)
            THEN IF node.to.abs THEN [s EXCEPT !.out = "PermissionDenied"]
                 ELSE IF s.hops = MaxHops THEN [s EXCEPT !.out = "FilesystemLoop"]
                 ELSE [s EXCEPT !.at   = IF node.to.abs THEN Top ELSE s.at,
                                !.todo = node.to.comps \o rest,
                                !.name = "",
                                !.hops = s.hops + 1]
            ELSE IF node.kind # "dir" /\ ~last
            THEN [s EXCEPT !.out = "NotADirectory"]
            ELSE [s EXCEPT !.dir = s.at, !.name = n, !.at = i, !.todo = rest,
                           !.out = IF node.kind = "dir" THEN "go" ELSE "found"]
    BY Zenon DEF WalkName
  <1> HIDE DEF r, n, rest, i, node, last
  <1> SUFFICES Stepped(t0, s, r)
    BY DEF r
  <1>6. CASE n \notin DOMAIN Ents(t0, s.at)
    <2>1. r = W(IF last THEN "absent" ELSE "NotFound", s.at, s.todo, s.hops, s.at, n)
      <3>1. r = [s EXCEPT !.out = IF last THEN "absent" ELSE "NotFound", !.dir = s.at, !.name = n]
        BY <1>5, <1>6
      <3> QED  BY <1>1, <3>1
    <2>2. IsWalk(t0, r)
      BY <1>1, <1>2, <2>1 DEF IsWalk, Outcomes
    <2> QED  BY <2>1, <2>2 DEF Stepped
  <1>7. CASE n \in DOMAIN Ents(t0, s.at) /\ node.kind = "link" /\ (~last \/ follow)
    <2>1. node.to.comps \in Seq(Comps)
      BY <1>3, <1>7, KindIs DEF IsPath
    <2>2. CASE node.to.abs
      <3>1. r = W("PermissionDenied", s.at, s.todo, s.hops, s.dir, s.name)
        <4>1. r = [s EXCEPT !.out = "PermissionDenied"]
          BY <1>5, <1>7, <2>2
        <4> QED  BY <1>1, <4>1
      <3>2. IsWalk(t0, r)
        BY <1>1, <3>1 DEF IsWalk, Outcomes
      <3> QED  BY <3>1, <3>2 DEF Stepped
    <2>3. CASE ~node.to.abs /\ s.hops = MaxHops
      <3>1. r = W("FilesystemLoop", s.at, s.todo, s.hops, s.dir, s.name)
        <4>1. r = [s EXCEPT !.out = "FilesystemLoop"]
          BY <1>5, <1>7, <2>3
        <4> QED  BY <1>1, <4>1
      <3>2. IsWalk(t0, r)
        BY <1>1, <3>1 DEF IsWalk, Outcomes
      <3> QED  BY <3>1, <3>2 DEF Stepped
    <2>4. CASE ~node.to.abs /\ s.hops # MaxHops
      <3>1. r = W(s.out, s.at, node.to.comps \o rest, s.hops + 1, s.dir, "")
        <4>1. r = [s EXCEPT !.at = s.at, !.todo = node.to.comps \o rest, !.name = "", !.hops = s.hops + 1]
          BY <1>5, <1>7, <2>4
        <4> QED  BY <1>1, <4>1
      <3>2. s.hops + 1 \in 0..MaxHops
        <4>1. s.hops \in 0..MaxHops /\ s.hops # MaxHops
          BY <1>1, <2>4
        <4> QED  BY <1>4, <4>1
      <3>4. node.to.comps \o rest \in Seq(Comps)
        BY <1>2, <2>1, ConcatProperties
      <3>3. IsWalk(t0, r)
        BY <1>1, <3>1, <3>2, <3>4 DEF IsWalk, Outcomes
      <3> QED  BY <3>1, <3>3 DEF Stepped
    <2> QED  BY <2>2, <2>3, <2>4
  <1>8. CASE /\ n \in DOMAIN Ents(t0, s.at) /\ ~(node.kind = "link" /\ (~last \/ follow))
             /\ node.kind # "dir" /\ ~last
    <2>1. r = W("NotADirectory", s.at, s.todo, s.hops, s.dir, s.name)
      <3>1. r = [s EXCEPT !.out = "NotADirectory"]
        BY <1>5, <1>8
      <3> QED  BY <1>1, <3>1
    <2>2. IsWalk(t0, r)
      BY <1>1, <2>1 DEF IsWalk, Outcomes
    <2> QED  BY <2>1, <2>2 DEF Stepped
  <1>9. CASE /\ n \in DOMAIN Ents(t0, s.at) /\ ~(node.kind = "link" /\ (~last \/ follow))
             /\ ~(node.kind # "dir" /\ ~last)
    <2>1. node.kind = "dir" => IsDir(t0, i)
      BY DEF node, IsDir, Kind
    <2>2. r = W(IF node.kind = "dir" THEN "go" ELSE "found", i, rest, s.hops, s.at, n)
      <3>1. r = [s EXCEPT !.dir = s.at, !.name = n, !.at = i, !.todo = rest,
                            !.out = IF node.kind = "dir" THEN "go" ELSE "found"]
        BY <1>5, <1>9
      <3> QED  BY <1>1, <3>1
    <2>3. IsWalk(t0, r)
      BY <1>1, <1>2, <1>3, <1>9, <2>1, <2>2 DEF IsWalk, Outcomes
    <2> QED  BY <1>2, <1>3, <1>9, <2>2, <2>3 DEF Stepped
  <1> QED  BY <1>6, <1>7, <1>8, <1>9

(* One step of a walk beneath the root, the same said of all of them.      *)
Hops(s) == MaxHops - s.hops
Left(s) == IF s.out = "go" THEN Len(s.todo) + 1 ELSE 0

(* The hops and components a walk has left are counted in numbers.         *)
LEMMA MeasuresAre ==
    ASSUME NEW t0, NEW s, IsWalk(t0, s)
    PROVE  Hops(s) \in Nat /\ Left(s) \in Nat /\ Len(s.todo) \in Nat /\ s.hops \in Nat
  <1>1. Len(s.todo) \in Nat
    <2>1. s.todo \in Seq(Comps)
      BY DEF IsWalk
    <2> QED  BY <2>1, LenProperties
  <1>2. s.hops \in 0..MaxHops /\ MaxHops \in Nat
    BY TreeAssumption DEF IsWalk
  <1>3. Left(s) \in Nat
    BY <1>1 DEF Left
  <1>4. s.hops \in Nat /\ Hops(s) \in Nat
    BY <1>2 DEF Hops
  <1> QED  BY <1>1, <1>3, <1>4

Onward(t0, s, r) ==
    /\ IsWalk(t0, r)
    /\ Hops(r) < Hops(s) \/ (Hops(r) = Hops(s) /\ Left(r) < Left(s))
    /\ r.dir \in {s.dir, s.at}
    /\ \/ r.at = s.at /\ (r.out \in {"go", "found"} => r.name \in {s.name, ""})
       \/ r.at \in Children(t0, s.at)
       \/ s.at \in Children(t0, r.at) /\ s.at # Root /\ r.name = ""

(* One step of a walk beneath the root goes on as Onward says, which       *)
(* leaves fewer hops, or as many and fewer components.                     *)
LEMMA StepIs ==
    ASSUME NEW t0, IsTree(t0), NEW s \in Walks(t0), s.out = "go", NEW follow
    PROVE  LET r == WalkStep(t0, s, Root, follow, TRUE)
           IN  Onward(t0, s, r)
  <1> DEFINE r == WalkStep(t0, s, Root, follow, TRUE)
             W(o, x, td, hp, dr, nm) ==
               [out |-> o, at |-> x, todo |-> td, hops |-> hp, dir |-> dr, name |-> nm]
  <1>1. /\ IsWalk(t0, s)
        /\ s.at \in Ino /\ IsDir(t0, s.at) /\ s.todo \in Seq(Comps) /\ s.dir \in Ino
        /\ s = W(s.out, s.at, s.todo, s.hops, s.dir, s.name)
    BY WalkIs DEF IsWalk
  <1>2. Len(s.todo) \in Nat /\ s.hops \in Nat /\ Hops(s) \in Nat
    BY <1>1, MeasuresAre
  <1>3. MaxHops \in Nat
    BY TreeAssumption
  <1> HIDE DEF r
  <1> SUFFICES Onward(t0, s, r)
    BY DEF r
  <1>4. CASE s.todo = <<>>
    <2>1. r = [s EXCEPT !.out = "found"]
      BY <1>4, Zenon DEF r, WalkStep
    <2>2. r = W("found", s.at, s.todo, s.hops, s.dir, s.name)
      BY <1>1, <2>1
    <2>3. IsWalk(t0, r)
      BY <1>1, <2>2 DEF IsWalk, Outcomes
    <2>4. Hops(r) = Hops(s) /\ Left(r) < Left(s)
      BY <1>2, <1>3, <2>2 DEF Hops, Left
    <2> QED  BY <2>2, <2>3, <2>4 DEF Onward
  <1>5. CASE s.todo # <<>> /\ Head(s.todo) = ".."
    <2>1. r = IF s.at = Root THEN [s EXCEPT !.out = "PermissionDenied"]
              ELSE [s EXCEPT !.at   = IF s.at = Root THEN s.at ELSE ParentOf(t0, s.at),
                             !.todo = Tail(s.todo), !.name = ""]
      BY <1>5, Zenon DEF r, WalkStep
    <2>2. Tail(s.todo) \in Seq(Comps) /\ Len(Tail(s.todo)) = Len(s.todo) - 1
      BY <1>1, <1>5, HeadTailProperties
    <2>3. CASE s.at = Root
      <3>1. r = [s EXCEPT !.out = "PermissionDenied"]
        BY <2>1, <2>3
      <3>2. r = W("PermissionDenied", s.at, s.todo, s.hops, s.dir, s.name)
        BY <1>1, <3>1
      <3>3. IsWalk(t0, r)
        BY <1>1, <3>2 DEF IsWalk, Outcomes
      <3>4. Hops(r) = Hops(s) /\ Left(r) < Left(s)
        BY <1>2, <1>3, <3>2 DEF Hops, Left
      <3> QED  BY <3>2, <3>3, <3>4 DEF Onward
    <2>4. CASE s.at # Root
      <3>1. r = [s EXCEPT !.at = ParentOf(t0, s.at), !.todo = Tail(s.todo), !.name = ""]
        BY <2>1, <2>4
      <3>2. r = W(s.out, ParentOf(t0, s.at), Tail(s.todo), s.hops, s.dir, "")
        BY <1>1, <3>1
      <3>3. /\ ParentOf(t0, s.at) \in Ino /\ IsDir(t0, ParentOf(t0, s.at))
            /\ ParentOf(t0, s.at) = s.at \/ s.at \in Children(t0, ParentOf(t0, s.at))
        BY <1>1, ParentIs
      <3>4. IsWalk(t0, r)
        BY <1>1, <2>2, <3>2, <3>3 DEF IsWalk, Outcomes
      <3>5. Hops(r) = Hops(s) /\ Left(r) < Left(s)
        <4>1. r.hops = s.hops /\ r.out = s.out /\ r.todo = Tail(s.todo)
          BY <3>2
        <4>2. Len(r.todo) = Len(s.todo) - 1
          BY <2>2, <4>1
        <4> QED  BY <1>2, <4>1, <4>2 DEF Hops, Left
      <3> QED  BY <2>4, <3>2, <3>3, <3>4, <3>5 DEF Onward
    <2> QED  BY <2>3, <2>4
  <1>6. CASE s.todo # <<>> /\ Head(s.todo) # ".."
    <2>1. r = WalkName(t0, s, follow, TRUE)
      BY <1>6, Zenon DEF r, WalkStep
    <2>2. Stepped(t0, s, r)
      BY <1>6, <2>1, NameStep
    <2>3. Len(r.todo) \in Nat /\ r.hops \in Nat
      BY <2>2, MeasuresAre DEF Stepped
    <2>4. Hops(r) < Hops(s) \/ (Hops(r) = Hops(s) /\ Left(r) < Left(s))
      <3>1. CASE r.out \in {"go", "found"} /\ r.hops = s.hops + 1
        BY <1>2, <1>3, <2>3, <3>1 DEF Hops
      <3>2. CASE r.out \in {"go", "found"} /\ r.hops = s.hops /\ Len(r.todo) < Len(s.todo)
        BY <1>2, <2>3, <3>2 DEF Hops, Left
      <3>3. CASE r.out \notin {"go", "found"} /\ r.hops = s.hops
        BY <1>2, <2>3, <3>3 DEF Hops, Left
      <3> QED  BY <2>2, <3>1, <3>2, <3>3 DEF Stepped
    <2> QED  BY <2>2, <2>4 DEF Stepped, Onward
  <1> QED  BY <1>4, <1>5, <1>6

(* Where a walk beneath the root is: at one of its nodes.                  *)
WalkIn(t0, In, s) ==
    /\ IsWalk(t0, s) /\ s.at \in In /\ s.dir \in In /\ IsDir(t0, s.dir)
    /\ s.name # "" /\ s.out \in {"go", "found"} => s.at # Root

(* One step of a walk at a node of the root's leads to another.            *)
LEMMA StepStays ==
    ASSUME NEW t0, NEW In \in SUBSET Ino, Walled(t0, In), NEW s, NEW r,
           WalkIn(t0, In, s), s.out = "go", Onward(t0, s, r)
    PROVE  WalkIn(t0, In, r)
  <1>1. /\ s.at \in In /\ s.dir \in In /\ IsDir(t0, s.dir) /\ IsDir(t0, s.at)
        /\ s.name # "" => s.at # Root
    BY DEF WalkIn, IsWalk
  <1>2. r.at \in Ino /\ r.dir \in {s.dir, s.at} /\ IsWalk(t0, r)
    BY DEF Onward, IsWalk
  <1>3. CASE r.at = s.at /\ (r.out \in {"go", "found"} => r.name \in {s.name, ""})
    BY <1>1, <1>2, <1>3 DEF WalkIn
  <1>4. CASE r.at \in Children(t0, s.at)
    <2>1. r.at \in In \ {Root}
      BY <1>1, <1>4 DEF Walled
    <2> QED  BY <1>1, <1>2, <2>1 DEF WalkIn
  <1>5. CASE s.at \in Children(t0, r.at) /\ s.at # Root /\ r.name = ""
    <2>1. r.at \in In
      BY <1>1, <1>2, <1>5 DEF Walled
    <2> QED  BY <1>1, <1>2, <1>5, <2>1 DEF WalkIn
  <1> QED  BY <1>3, <1>4, <1>5 DEF Onward

(* A walk from the root handle ends, and at a node of the root's.          *)
LEMMA WalkStays ==
    ASSUME NEW t0, IsTree(t0), NEW In \in SUBSET Ino, Walled(t0, In),
           NEW p, IsPath(p), NEW follow
    PROVE  LET q == WalkFrom(t0, Root, Root, p, follow, TRUE)
           IN  WalkIn(t0, In, q) /\ q.out # "go"
  <1> DEFINE D    == Walks(t0)
             done == {s \in D : s.out # "go"}
             step == [s \in D |-> IF s.out # "go" THEN s ELSE WalkStep(t0, s, Root, follow, TRUE)]
             Is(g) == g = [s \in D |-> IF s.out # "go" THEN s
                                       ELSE g[WalkStep(t0, s, Root, follow, TRUE)]]
             F    == CHOOSE g : Is(g)
             m    == [s \in D |-> Hops(s)]
             n    == [s \in D |-> Left(s)]
             S    == {s \in D : WalkIn(t0, In, s)}
             x    == StartWalk(Root, p.comps)
  <1>1. \A s \in D \ done : /\ step[s] \in D
                            /\ Onward(t0, s, step[s])
    <2> TAKE s \in D \ done
    <2>1. step[s] = WalkStep(t0, s, Root, follow, TRUE)
      OBVIOUS
    <2>2. Onward(t0, s, step[s])
      BY <2>1, StepIs
    <2> QED  BY <2>2, WalkIs DEF Onward
  <1>2. step \in [D -> D]
    BY <1>1
  <1>3. \A g : Loop(g, D, done, step) => Is(g)
    <2> TAKE g
    <2> HAVE Loop(g, D, done, step)
    <2>1. g = [s \in D |-> IF s \in done THEN s ELSE g[step[s]]]
      BY DEF Loop
    <2>2. \A s \in D : g[s] = IF s.out # "go" THEN s ELSE g[WalkStep(t0, s, Root, follow, TRUE)]
      BY <2>1
    <2> QED  BY <2>1, <2>2
  <1>4. Is(F)
    <2>1. \E g : Is(g)
      BY <1>2, <1>3, LoopExists
    <2> QED  BY <2>1
  <1>5. Loop(F, D, done, step)
    <2> HIDE DEF F
    <2>1. \A s \in D : F[s] = IF s \in done THEN s ELSE F[step[s]]
      BY <1>4
    <2> QED  BY <1>4, <2>1 DEF Loop
  <1>6. m \in [D -> Nat] /\ n \in [D -> Nat]
    BY WalkIs, MeasuresAre
  <1>7. \A s \in D \ done : m[step[s]] < m[s] \/ (m[step[s]] = m[s] /\ n[step[s]] < n[s])
    BY <1>1 DEF Onward
  <1>8. Keeps(S, D, done, step)
    BY <1>1, StepStays DEF Keeps
  <1>9. x \in S
    <2>1. x = [out |-> "go", at |-> Root, todo |-> p.comps, hops |-> 0, dir |-> Root, name |-> ""]
      BY DEF StartWalk
    <2>2. p.comps \in Seq(Comps) /\ Root \in Ino /\ Root \in In /\ IsDir(t0, Root) /\ 0 \in 0..MaxHops
      <3>1. MaxHops \in Nat /\ Root \in Ino
        BY TreeAssumption
      <3>2. p.comps \in Seq(Comps)
        BY DEF IsPath
      <3>3. 0 \in 0..MaxHops
        BY <3>1
      <3> QED  BY <3>1, <3>2, <3>3 DEF Walled
    <2> HIDE DEF x
    <2>3. IsWalk(t0, x)
      <3>1. /\ x.out = "go" /\ x.at = Root /\ x.todo = p.comps /\ x.hops = 0 /\ x.dir = Root
            /\ x.name = ""
            /\ x = [out |-> x.out, at |-> x.at, todo |-> x.todo, hops |-> x.hops, dir |-> x.dir,
                    name |-> x.name]
        BY <2>1
      <3>2. x.name \in Comps \cup {""} /\ x.out \in Outcomes
        BY <3>1 DEF Outcomes
      <3> QED  BY <2>2, <3>1, <3>2 DEF IsWalk
    <2>4. WalkIn(t0, In, x)
      BY <2>1, <2>2, <2>3 DEF WalkIn
    <2> QED  BY <2>3, <2>4, WalkIs
  <1>10. F[x] \in S \cap done
    <2> HIDE DEF D, done, step, F, m, n, S, x
    <2> QED  BY <1>5, <1>6, <1>7, <1>8, <1>9, LoopEnds
  <1>11. WalkFrom(t0, Root, Root, p, follow, TRUE) = F[x]
    BY DEF WalkFrom
  <1> QED  BY <1>10, <1>11

(* What a look beneath the root finds is the root's, and only the name ""  *)
(* finds the root itself.                                                  *)
LookIn(t0, In, l) ==
    /\ l.ino \in In /\ l.dir \in In /\ IsDir(t0, l.dir) /\ l.is \in Outcomes
    /\ Found(l) /\ l.name # "" => l.ino # Root

(* A look beneath the root finds what is the root's.                       *)
LEMMA LookStays ==
    ASSUME NEW t0, IsTree(t0), NEW In \in SUBSET Ino, Walled(t0, In),
           NEW p, IsPath(p), NEW follow
    PROVE  LookIn(t0, In, Look(t0, TRUE, p, follow))
  <1> DEFINE l == Look(t0, TRUE, p, follow)
  <1>1. Root \in In /\ IsDir(t0, Root)
    BY DEF Walled
  <1>2. CASE p.abs
    <2>1. l = [is |-> "PermissionDenied", ino |-> Root, dir |-> Root, name |-> ""]
      BY <1>2 DEF Look
    <2> HIDE DEF l
    <2>2. l.ino = Root /\ l.dir = Root /\ l.name = "" /\ l.is \in Outcomes
      BY <2>1 DEF Outcomes
    <2>3. LookIn(t0, In, l)
      BY <1>1, <2>2, Zenon DEF LookIn
    <2> QED  BY <2>3 DEF l
  <1>3. CASE ~p.abs
    <2> DEFINE q == WalkFrom(t0, Root, Root, p, follow \/ p.tail # "", TRUE)
    <2>1. l = Ended(t0, q, p.tail # "")
      BY <1>3 DEF Look
    <2>2. WalkIn(t0, In, q)
      BY WalkStays
    <2> HIDE DEF q, l
    <2>3. /\ l.ino = q.at /\ l.dir = q.dir /\ l.name = q.name
          /\ l.is \in {q.out, "NotADirectory"}
      BY <2>1 DEF Ended
    <2>4. LookIn(t0, In, l)
      <3>1. q.out \in Outcomes
        BY <2>2 DEF WalkIn, IsWalk
      <3>2. l.is \in Outcomes
        BY <2>3, <3>1 DEF Outcomes
      <3> QED  BY <2>2, <2>3, <3>2 DEF WalkIn, LookIn, Found
    <2> QED  BY <2>4 DEF l
  <1> QED  BY <1>2, <1>3

(* The children of a directory are nodes.                                  *)
LEMMA ChildrenAre ==
    ASSUME NEW t0, IsTree(t0), NEW d \in Ino
    PROVE  /\ Children(t0, d) \subseteq Ino
           /\ \A i \in Children(t0, d) : t0[i] # Free
  <1>1. CASE IsDir(t0, d)
    BY <1>1, EntryIs
  <1>2. CASE ~IsDir(t0, d)
    BY <1>2 DEF Children
  <1> QED  BY <1>1, <1>2

(* Below d: the least set that holds d and the children of its members.    *)
LEMMA BelowIs ==
    ASSUME NEW t0, IsTree(t0), NEW d \in Ino
    PROVE  /\ d \in Below(t0, d) /\ Below(t0, d) \subseteq Ino
           /\ \A x \in Below(t0, d) : Children(t0, x) \subseteq Below(t0, d)
           /\ \A T \in SUBSET Ino : d \in T /\ (\A x \in T : Children(t0, x) \subseteq T)
                                      => Below(t0, d) \subseteq T
  <1> DEFINE D    == SUBSET Ino
             R(S) == S \cup UNION {Children(t0, x) : x \in S}
             done == {S \in D : R(S) = S}
             step == [S \in D |-> R(S)]
             Is(g) == g = [S \in D |-> IF R(S) = S THEN S ELSE g[R(S)]]
             F    == CHOOSE g : Is(g)
             m    == [S \in D |-> Cardinality(Ino \ S)]
             n    == [S \in D |-> 0]
             K(T) == {S \in D : d \in S /\ S \subseteq T}
  <1>1. \A S \in D : R(S) \in D
    BY ChildrenAre
  <1>2. step \in [D -> D]
    BY <1>1
  <1>3. Is(F)
    <2>1. \A g : Loop(g, D, done, step) => Is(g)
      <3> TAKE g
      <3> HAVE Loop(g, D, done, step)
      <3>1. g = [S \in D |-> IF S \in done THEN S ELSE g[step[S]]]
        BY DEF Loop
      <3>2. \A S \in D : g[S] = IF R(S) = S THEN S ELSE g[R(S)]
        BY <3>1
      <3> QED  BY <3>1, <3>2
    <2>2. \E g : Is(g)
      BY <1>2, <2>1, LoopExists
    <2> QED  BY <2>2
  <1>4. Loop(F, D, done, step)
    <2> HIDE DEF F
    <2>1. \A S \in D : F[S] = IF S \in done THEN S ELSE F[step[S]]
      BY <1>3
    <2> QED  BY <1>3, <2>1 DEF Loop
  <1>5. \A S \in D : IsFiniteSet(Ino \ S) /\ Cardinality(Ino \ S) \in Nat
    BY TreeAssumption, FS_Subset, FS_CardinalityType
  <1>6. m \in [D -> Nat] /\ n \in [D -> Nat]
    BY <1>5
  <1>7. \A S \in D \ done : m[step[S]] < m[S] \/ (m[step[S]] = m[S] /\ n[step[S]] < n[S])
    <2> TAKE S \in D \ done
    <2>1. step[S] = R(S) /\ R(S) # S /\ R(S) \in D
      BY <1>1
    <2>2. Ino \ R(S) \in SUBSET (Ino \ S) /\ Ino \ R(S) # Ino \ S
      BY <2>1
    <2>3. Cardinality(Ino \ R(S)) <= Cardinality(Ino \ S) /\ Cardinality(Ino \ R(S)) # Cardinality(Ino \ S)
      <3> DEFINE A == Ino \ S  B == Ino \ R(S)
      <3>1. IsFiniteSet(A) /\ B \in SUBSET A /\ A # B
        BY <1>5, <2>2
      <3> HIDE DEF A, B
      <3>2. Cardinality(B) <= Cardinality(A) /\ Cardinality(B) # Cardinality(A)
        BY <3>1, FS_Subset
      <3> QED  BY <3>2 DEF A, B
    <2>4. Cardinality(Ino \ R(S)) < Cardinality(Ino \ S)
      <3>1. Cardinality(Ino \ R(S)) \in Nat /\ Cardinality(Ino \ S) \in Nat
        BY <1>5, <2>1
      <3> DEFINE A == Cardinality(Ino \ S)  B == Cardinality(Ino \ R(S))
      <3> HIDE DEF A, B
      <3>2. A \in Nat /\ B \in Nat /\ B <= A /\ B # A
        BY <2>3, <3>1 DEF A, B
      <3>3. B < A
        BY <3>2
      <3> QED  BY <3>3 DEF A, B
    <2> QED  BY <2>1, <2>4
  <1>8. ASSUME NEW T \in SUBSET Ino, d \in T, \A x \in T : Children(t0, x) \subseteq T
        PROVE  F[{d}] \in K(T) \cap done
    <2>1. Keeps(K(T), D, done, step)
      BY <1>1, <1>8 DEF Keeps
    <2>2. {d} \in K(T)
      BY <1>8
    <2> HIDE DEF D, done, step, F, m, n, K
    <2> QED  BY <1>4, <1>6, <1>7, <2>1, <2>2, LoopEnds
  <1>9. Below(t0, d) = F[{d}]
    BY DEF Below
  <1>10. F[{d}] \in K(Ino) \cap done
    BY <1>8, ChildrenAre
  <1>11. \A T \in SUBSET Ino : d \in T /\ (\A x \in T : Children(t0, x) \subseteq T) => F[{d}] \subseteq T
    BY <1>8
  <1>12. d \in F[{d}] /\ F[{d}] \subseteq Ino /\ R(F[{d}]) = F[{d}]
    BY <1>10
  <1> HIDE DEF F
  <1>13. \A x \in F[{d}] : Children(t0, x) \subseteq F[{d}]
    BY <1>12
  <1> QED  BY <1>9, <1>11, <1>12, <1>13

(* What is outside the root: none of its nodes, and in a directory that is *)
(* not the root's.                                                         *)
LEMMA OutsideIs ==
    ASSUME NEW t0, IsTree(t0), NEW In \in SUBSET Ino, Walled(t0, In), NEW i \in Outside(t0)
    PROVE  /\ i \in Ino \ In /\ t0[i] # Free
           /\ i = Top \/ \E d \in Ino \ In : IsDir(t0, d) /\ i \in Children(t0, d)
  <1> DEFINE T == Below(t0, Root) \cup (Ino \ In)
             U == {Top} \cup UNION {Children(t0, d) : d \in Ino}
  <1>1. Top \in Ino /\ Root \in Ino
    BY TreeAssumption
  <1>2. /\ Root \in Below(t0, Root) /\ Below(t0, Root) \subseteq Ino
        /\ \A x \in Below(t0, Root) : Children(t0, x) \subseteq Below(t0, Root)
    BY <1>1, BelowIs
  <1>3. Below(t0, Top) \subseteq T
    <2>1. T \in SUBSET Ino /\ Top \in T
      BY <1>1, <1>2 DEF Walled
    <2>2. ASSUME NEW x \in T  PROVE Children(t0, x) \subseteq T
      <3>1. CASE x \in Below(t0, Root)
        BY <1>2, <3>1
      <3>2. CASE x \in Ino \ In
        <4>1. Children(t0, x) \subseteq Ino
          BY <3>2, ChildrenAre
        <4> QED  BY <1>2, <3>2, <4>1 DEF Walled
      <3> QED  BY <3>1, <3>2
    <2> HIDE DEF T
    <2> QED  BY <1>1, <2>1, <2>2, BelowIs
  <1>4. Below(t0, Top) \subseteq U
    <2>1. U \in SUBSET Ino /\ Top \in U
      BY <1>1, ChildrenAre
    <2>2. \A x \in U : Children(t0, x) \subseteq U
      BY <2>1
    <2> HIDE DEF U
    <2> QED  BY <1>1, <2>1, <2>2, BelowIs
  <1>5. i \in Ino \ In /\ i \in U
    BY <1>3, <1>4 DEF Outside
  <1>6. CASE i = Top
    BY <1>5, <1>6 DEF Walled, IsDir, Kind, Free
  <1>7. CASE i # Top
    <2>1. PICK d \in Ino : i \in Children(t0, d)
      BY <1>5, <1>7
    <2>2. IsDir(t0, d) /\ t0[i] # Free
      BY <2>1, ChildrenAre DEF Children
    <2>3. d \notin In
      BY <1>5, <2>1 DEF Walled
    <2> QED  BY <1>5, <2>1, <2>2, <2>3
  <1> QED  BY <1>6, <1>7

(* What is below a node of the root's is the root's.                       *)
LEMMA BelowStays ==
    ASSUME NEW t0, IsTree(t0), NEW In \in SUBSET Ino, Walled(t0, In), NEW d \in In
    PROVE  Below(t0, d) \subseteq In
  <1>1. \A x \in In : Children(t0, x) \subseteq In
    BY DEF Walled
  <1> QED  BY <1>1, BelowIs

(* The edit of a directory's entries, of which every other edit is made.   *)
SetEnts(t0, d, e) == [t0 EXCEPT ![d].ents = e]

(* It changes that directory and nothing else.                             *)
LEMMA EntsEdit ==
    ASSUME NEW t0, IsTree(t0), NEW d \in Ino, IsDir(t0, d), NEW e, IsEnts(t0, e),
           NEW t1, t1 = SetEnts(t0, d, e)
    PROVE  /\ IsTree(t1) /\ Children(t1, d) = Range(e) /\ t1[d] = DirNode(e, t0[d].mode)
           /\ \A i \in Ino \ {d} : t1[i] = t0[i]
           /\ \A i \in Ino : t1[i] = Free <=> t0[i] = Free
           /\ \A i \in Ino : t1[i].kind = t0[i].kind
  <1>1. t0 = [i \in Ino |-> t0[i]] /\ \A i \in Ino : IsNode(t0, t0[i])
    BY DEF IsTree
  <1>2. t0[d] = DirNode(Ents(t0, d), t0[d].mode)
    BY EntryIs
  <1>3. t1 = [i \in Ino |-> IF i = d THEN [t0[d] EXCEPT !.ents = e] ELSE t0[i]]
    BY <1>1 DEF SetEnts
  <1>4. t1[d] = [t0[d] EXCEPT !.ents = e] /\ \A i \in Ino \ {d} : t1[i] = t0[i]
    BY <1>3
  <1>5. t1[d] = DirNode(e, t0[d].mode)
    BY <1>2, <1>4 DEF DirNode
  <1>6. t1[d].kind = "dir" /\ t1[d].ents = e /\ t1[d] # Free /\ t0[d].kind = "dir" /\ t0[d] # Free
    BY <1>2, <1>5 DEF DirNode, Free
  <1>7. \A i \in Ino : (t1[i] = Free <=> t0[i] = Free) /\ t1[i].kind = t0[i].kind
    BY <1>4, <1>6
  <1>8. \A x : IsEnts(t0, x) => IsEnts(t1, x)
    BY <1>7 DEF IsEnts
  <1>9. \A x : IsNode(t0, x) => IsNode(t1, x)
    BY <1>8 DEF IsNode
  <1>10. IsNode(t1, t1[d])
    BY <1>5, <1>6, <1>8 DEF IsNode, DirNode
  <1>11. IsTree(t1)
    BY <1>1, <1>3, <1>4, <1>9, <1>10 DEF IsTree
  <1>12. Children(t1, d) = Range(e)
    BY <1>6 DEF Children, IsDir, Kind, Ents
  <1> QED  BY <1>4, <1>5, <1>7, <1>11, <1>12

(* The entries after one is added, and after one is removed.               *)
LEMMA AddedEntry ==
    ASSUME NEW t0, NEW e, IsEnts(t0, e), NEW n, NEW i \in Ino, t0[i] # Free
    PROVE  IsEnts(t0, With(e, n, i)) /\ Range(With(e, n, i)) \subseteq Range(e) \cup {i}
  <1> DEFINE f == With(e, n, i)
  <1>1. f = [x \in DOMAIN e \cup {n} |-> IF x = n THEN i ELSE e[x]]
    BY DEF With
  <1> HIDE DEF f
  <1>2. DOMAIN f = DOMAIN e \cup {n} /\ \A x \in DOMAIN f : f[x] = IF x = n THEN i ELSE e[x]
    BY <1>1
  <1>3. f = [x \in DOMAIN f |-> f[x]]
    BY <1>1
  <1>4. \A x \in DOMAIN f : f[x] \in Ino /\ t0[f[x]] # Free
    BY <1>2 DEF IsEnts
  <1>5. Range(f) \subseteq Range(e) \cup {i}
    BY <1>2 DEF Range
  <1> QED  BY <1>3, <1>4, <1>5 DEF IsEnts, f

LEMMA RemovedEntry ==
    ASSUME NEW t0, NEW e, IsEnts(t0, e), NEW n
    PROVE  LET f == Restrict(e, DOMAIN e \ {n})
           IN  IsEnts(t0, f) /\ Range(f) \subseteq Range(e)
  <1> DEFINE f == Restrict(e, DOMAIN e \ {n})
  <1>1. f = [x \in DOMAIN e \ {n} |-> e[x]]
    BY DEF Restrict
  <1> HIDE DEF f
  <1>2. DOMAIN f = DOMAIN e \ {n} /\ \A x \in DOMAIN f : f[x] = e[x]
    BY <1>1
  <1>3. f = [x \in DOMAIN f |-> f[x]]
    BY <1>1
  <1>4. \A x \in DOMAIN f : f[x] \in Ino /\ t0[f[x]] # Free
    BY <1>2 DEF IsEnts
  <1>5. Range(f) \subseteq Range(e)
    BY <1>2 DEF Range
  <1> QED  BY <1>3, <1>4, <1>5 DEF IsEnts, f

(* The entries of a directory are entries.                                 *)
LEMMA EntsAre ==
    ASSUME NEW t0, IsTree(t0), NEW d \in Ino, IsDir(t0, d)
    PROVE  IsEnts(t0, Ents(t0, d)) /\ Range(Ents(t0, d)) = Children(t0, d)
  <1>1. IsNode(t0, t0[d]) /\ t0[d].kind = "dir"
    BY DEF IsTree, IsDir, Kind
  <1> QED  BY <1>1, KindIs DEF Ents, Children

(* A name made, and a name removed, in one directory.                      *)
LEMMA AttachIs ==
    ASSUME NEW t0, IsTree(t0), NEW d \in Ino, IsDir(t0, d), NEW n, NEW i \in Ino, t0[i] # Free,
           NEW t1, t1 = Attach(t0, d, n, i)
    PROVE  /\ IsTree(t1) /\ Children(t1, d) \subseteq Children(t0, d) \cup {i}
           /\ \A j \in Ino \ {d} : t1[j] = t0[j]
           /\ \A j \in Ino : t1[j] = Free <=> t0[j] = Free
           /\ \A j \in Ino : t1[j].kind = t0[j].kind
           /\ t1[d] = DirNode(With(Ents(t0, d), n, i), t0[d].mode)
  <1>0. PICK e : e = With(Ents(t0, d), n, i)
    OBVIOUS
  <1>1. IsEnts(t0, e) /\ Range(e) \subseteq Children(t0, d) \cup {i}
    BY <1>0, EntsAre, AddedEntry
  <1>2. t1 = SetEnts(t0, d, e)
    BY <1>0 DEF Attach, Ents, SetEnts
  <1>3. /\ IsTree(t1) /\ Children(t1, d) = Range(e) /\ t1[d] = DirNode(e, t0[d].mode)
        /\ \A j \in Ino \ {d} : t1[j] = t0[j]
        /\ \A j \in Ino : t1[j] = Free <=> t0[j] = Free
        /\ \A j \in Ino : t1[j].kind = t0[j].kind
    <2>1. IsEnts(t0, e)
      BY <1>1
    <2> QED  BY <1>2, <2>1, EntsEdit
  <1> QED  BY <1>0, <1>1, <1>3

LEMMA DetachIs ==
    ASSUME NEW t0, IsTree(t0), NEW d \in Ino, IsDir(t0, d), NEW n,
           NEW t1, t1 = Detach(t0, d, n)
    PROVE  /\ IsTree(t1) /\ Children(t1, d) \subseteq Children(t0, d)
           /\ \A j \in Ino \ {d} : t1[j] = t0[j]
           /\ \A j \in Ino : t1[j] = Free <=> t0[j] = Free
           /\ \A j \in Ino : t1[j].kind = t0[j].kind
  <1>0. PICK e : e = Restrict(Ents(t0, d), DOMAIN Ents(t0, d) \ {n})
    OBVIOUS
  <1>1. IsEnts(t0, e) /\ Range(e) \subseteq Children(t0, d)
    <2>1. IsEnts(t0, Ents(t0, d)) /\ Range(Ents(t0, d)) = Children(t0, d)
      BY EntsAre
    <2> DEFINE f == Ents(t0, d)
    <2>2. IsEnts(t0, f)
      BY <2>1
    <2> HIDE DEF f
    <2>3. LET g == Restrict(f, DOMAIN f \ {n}) IN IsEnts(t0, g) /\ Range(g) \subseteq Range(f)
      BY <2>2, RemovedEntry
    <2> QED  BY <1>0, <2>1, <2>3 DEF f
  <1>2. t1 = SetEnts(t0, d, e)
    BY <1>0 DEF Detach, Ents, SetEnts
  <1>3. /\ IsTree(t1) /\ Children(t1, d) = Range(e) /\ t1[d] = DirNode(e, t0[d].mode)
        /\ \A j \in Ino \ {d} : t1[j] = t0[j]
        /\ \A j \in Ino : t1[j] = Free <=> t0[j] = Free
        /\ \A j \in Ino : t1[j].kind = t0[j].kind
    <2>1. IsEnts(t0, e)
      BY <1>1
    <2> QED  BY <1>2, <2>1, EntsEdit
  <1> QED  BY <1>0, <1>1, <1>3

(* A node written over: the tree keeps its entries.                        *)
SetNode(t0, i, x) == [t0 EXCEPT ![i] = x]
Childless(x) == x # Free /\ (x.kind = "dir" => x = DirNode(<<>>, x.mode))

(* A directory that is as it was has the children it had.                  *)
LEMMA ChildrenOf ==
    ASSUME NEW t0, NEW t1, NEW d, t1[d] = t0[d]
    PROVE  Children(t1, d) = Children(t0, d) /\ IsDir(t1, d) = IsDir(t0, d)
  BY DEF Children, IsDir, Kind, Ents

(* A tree stays one when a node is written over.                           *)
LEMMA SetNodeIs ==
    ASSUME NEW t0, IsTree(t0), NEW i \in Ino, NEW x, IsNode(t0, x),
           t0[i] # Free => x # Free,
           NEW t1, t1 = SetNode(t0, i, x)
    PROVE  /\ IsTree(t1) /\ t1[i] = x /\ \A j \in Ino \ {i} : t1[j] = t0[j]
  <1>1. t0 = [j \in Ino |-> t0[j]] /\ \A j \in Ino : IsNode(t0, t0[j])
    BY DEF IsTree
  <1>2. t1 = [j \in Ino |-> IF j = i THEN x ELSE t0[j]]
    BY <1>1 DEF SetNode
  <1>3. t1[i] = x /\ \A j \in Ino \ {i} : t1[j] = t0[j]
    BY <1>2
  <1>4. \A j \in Ino : t0[j] # Free => t1[j] # Free
    BY <1>3
  <1>5. \A e : IsEnts(t0, e) => IsEnts(t1, e)
    BY <1>4 DEF IsEnts
  <1>6. \A y : IsNode(t0, y) => IsNode(t1, y)
    BY <1>5 DEF IsNode
  <1>7. \A j \in Ino : IsNode(t1, t1[j])
    BY <1>1, <1>3, <1>6
  <1> QED  BY <1>2, <1>3, <1>7 DEF IsTree

(* A new node is one that was free.                                        *)
LEMMA FreshIs ==
    ASSUME NEW t0, IsTree(t0), FreeInos(t0) # {}
    PROVE  Fresh(t0) \in Ino /\ t0[Fresh(t0)] = Free
  <1>1. FreeInos(t0) \in SUBSET Nat
    BY TreeAssumption DEF FreeInos
  <1>2. \E i \in FreeInos(t0) : \A j \in FreeInos(t0) : i <= j
    BY <1>1, LeastNumber
  <1>3. Fresh(t0) \in FreeInos(t0)
    BY <1>2 DEF Fresh
  <1>4. IsNode(t0, t0[Fresh(t0)])
    BY <1>3 DEF IsTree, FreeInos
  <1> QED  BY <1>3, <1>4, KindIs DEF FreeInos, Kind

(* A node made under a new name has no children yet.                       *)
LEMMA CreateIs ==
    ASSUME NEW t0, IsTree(t0), NEW d \in Ino, IsDir(t0, d), FreeInos(t0) # {}, NEW n,
           NEW x, IsNode(t0, x), Childless(x),
           NEW t1, t1 = Create(t0, d, n, x)
    PROVE  LET i == Fresh(t0)
           IN  /\ i \in Ino /\ t0[i] = Free /\ IsTree(t1)
               /\ t1[i] = x /\ Children(t1, i) = {} /\ Children(t0, i) = {}
               /\ Children(t1, d) \subseteq Children(t0, d) \cup {i}
               /\ IsDir(t1, d) /\ t1[d].mode = t0[d].mode
               /\ \A j \in Ino \ {d, i} : t1[j] = t0[j]
  <1>1. PICK i : i = Fresh(t0)
    OBVIOUS
  <1>2. i \in Ino /\ t0[i] = Free
    BY <1>1, FreshIs
  <1>3. PICK t2 : t2 = SetNode(t0, i, x)
    OBVIOUS
  <1>4. x # Free
    BY DEF Childless
  <1>5. IsTree(t2) /\ t2[i] = x /\ \A j \in Ino \ {i} : t2[j] = t0[j]
    BY <1>2, <1>3, <1>4, SetNodeIs
  <1>6. d # i
    BY <1>2 DEF IsDir, Kind, Free
  <1>7. t2[d] = t0[d] /\ IsDir(t2, d) /\ Children(t2, d) = Children(t0, d) /\ Ents(t2, d) = Ents(t0, d)
    BY <1>5, <1>6, ChildrenOf DEF Ents
  <1>8. t1 = Attach(t2, d, n, i)
    BY <1>1, <1>3 DEF Create, SetNode
  <1>9. /\ IsTree(t1) /\ Children(t1, d) \subseteq Children(t2, d) \cup {i}
        /\ \A j \in Ino \ {d} : t1[j] = t2[j]
        /\ \A j \in Ino : t1[j].kind = t2[j].kind
        /\ t1[d] = DirNode(With(Ents(t2, d), n, i), t2[d].mode)
    BY <1>2, <1>4, <1>5, <1>7, <1>8, AttachIs
  <1>10. t1[i] = x /\ \A j \in Ino \ {d, i} : t1[j] = t0[j]
    BY <1>2, <1>5, <1>6, <1>9
  <1>11. IsDir(t1, d) /\ t1[d].mode = t0[d].mode
    BY <1>7, <1>9 DEF IsDir, Kind, DirNode
  <1>12. Children(t1, i) = {} /\ Children(t0, i) = {}
    <2>1. CASE x.kind = "dir"
      <3>1. t1[i].ents = <<>>
        BY <1>10, <2>1 DEF Childless, DirNode
      <3>2. Range(<<>>) = {}
        BY DEF Range
      <3> QED  BY <1>2, <3>1, <3>2 DEF Children, Ents, IsDir, Kind, Free
    <2>2. CASE x.kind # "dir"
      BY <1>2, <1>10, <2>2 DEF Children, IsDir, Kind, Free
    <2> QED  BY <2>1, <2>2
  <1> QED  BY <1>1, <1>2, <1>7, <1>9, <1>10, <1>11, <1>12

(* What a system call beneath the root does to the tree t0 whose nodes In  *)
(* are the root's: it makes nodes, which are the root's too, changes only  *)
(* the root's, and makes nothing of another kind.                          *)
Grown(t0, t1, In) == In \cup {i \in Ino : t0[i] = Free /\ t1[i] # Free}
Edit(t0, t1, In) ==
    /\ IsTree(t1) /\ Walled(t1, Grown(t0, t1, In))
    /\ \A i \in Ino : t0[i] # Free => /\ t1[i] # Free /\ t1[i].kind = t0[i].kind
                                      /\ i \notin In => t1[i] = t0[i]

(* The wall stays while the entries of one directory change, to names of   *)
(* its own side.                                                           *)
LEMMA WallStays ==
    ASSUME NEW t0, NEW In \in SUBSET Ino, Walled(t0, In), NEW t1, NEW d \in Ino, NEW W \in SUBSET Ino,
           IsDir(t1, Root), IsDir(t1, Top), Root \in W, Top \in W => Top = Root,
           \A i \in W : t1[i] # Free,
           \A i \in Children(t1, d) : d \in W <=> i \in W \ {Root},
           \A x \in Ino \ {d} : \A i \in Children(t1, x) : x \in W <=> i \in W \ {Root}
    PROVE  Walled(t1, W)
  BY DEF Walled

(* Changing nothing is an edit beneath the root.                           *)
LEMMA EditSame ==
    ASSUME NEW t0, IsTree(t0), NEW In \in SUBSET Ino, Walled(t0, In)
    PROVE  Edit(t0, t0, In)
  <1>1. Grown(t0, t0, In) = In
    BY DEF Grown
  <1> QED  BY <1>1 DEF Edit

(* One edit beneath the root after another is one.                         *)
LEMMA EditThen ==
    ASSUME NEW t0, NEW In \in SUBSET Ino, \A i \in In : t0[i] # Free, NEW t1, Edit(t0, t1, In),
           NEW t2, Edit(t1, t2, Grown(t0, t1, In))
    PROVE  Edit(t0, t2, In) /\ Grown(t0, t2, In) = Grown(t1, t2, Grown(t0, t1, In))
  <1>1. Grown(t0, t2, In) = Grown(t1, t2, Grown(t0, t1, In))
    BY DEF Grown, Edit
  <1>2. \A i \in Ino : t0[i] # Free => /\ t2[i] # Free /\ t2[i].kind = t0[i].kind
                                       /\ i \notin In => t2[i] = t0[i]
    BY DEF Grown, Edit
  <1> QED  BY <1>1, <1>2 DEF Edit

(* What a wall is, as facts.                                               *)
LEMMA SidesOf ==
    ASSUME NEW t0, IsTree(t0), NEW In \in SUBSET Ino, Walled(t0, In)
    PROVE  /\ Root \in In /\ Root \in Ino /\ Top \in Ino /\ IsDir(t0, Root) /\ IsDir(t0, Top)
           /\ t0[Root] # Free /\ t0[Top] # Free
           /\ Top \in In => Top = Root
           /\ \A i \in In : t0[i] # Free
           /\ \A d \in Ino : \A i \in Children(t0, d) : d \in In <=> i \in In \ {Root}
  BY TreeAssumption DEF Walled, IsDir, Kind, Free

LEMMA EntsWalled ==
    ASSUME NEW t0, IsTree(t0), NEW In \in SUBSET Ino, Walled(t0, In), NEW d \in Ino,
           NEW t1, \A j \in Ino \ {d} : t1[j] = t0[j],
           \A j \in Ino : t1[j] = Free <=> t0[j] = Free,
           \A j \in Ino : t1[j].kind = t0[j].kind,
           \A i \in Children(t1, d) : d \in In <=> i \in In \ {Root}
    PROVE  Walled(t1, In)
  <1>1. \A x \in Ino \ {d} : Children(t1, x) = Children(t0, x)
    BY ChildrenOf
  <1>2. IsDir(t1, Root) /\ IsDir(t1, Top)
    BY SidesOf DEF IsDir, Kind
  <1> QED  BY <1>1, <1>2, SidesOf, WallStays

(* Such a change on the root's side is an edit beneath the root.           *)
LEMMA EntsEdited ==
    ASSUME NEW t0, IsTree(t0), NEW In \in SUBSET Ino, Walled(t0, In), NEW d \in In,
           NEW t1, IsTree(t1), \A j \in Ino \ {d} : t1[j] = t0[j],
           \A j \in Ino : t1[j] = Free <=> t0[j] = Free,
           \A j \in Ino : t1[j].kind = t0[j].kind,
           Children(t1, d) \subseteq In \ {Root}
    PROVE  Edit(t0, t1, In) /\ Grown(t0, t1, In) = In
  <1>1. Walled(t1, In)
    BY EntsWalled
  <1>2. Grown(t0, t1, In) = In
    BY DEF Grown
  <1> QED  BY <1>1, <1>2 DEF Edit

(* A name made beneath the root, and one removed.                          *)
LEMMA AttachEdit ==
    ASSUME NEW t0, IsTree(t0), NEW In \in SUBSET Ino, Walled(t0, In), NEW d \in In, IsDir(t0, d),
           NEW n, NEW i \in In \ {Root}, NEW t1, t1 = Attach(t0, d, n, i)
    PROVE  Edit(t0, t1, In) /\ Grown(t0, t1, In) = In
  <1>1. t0[i] # Free /\ Children(t0, d) \subseteq In \ {Root}
    BY SidesOf
  <1>2. /\ IsTree(t1) /\ Children(t1, d) \subseteq Children(t0, d) \cup {i}
        /\ \A j \in Ino \ {d} : t1[j] = t0[j]
        /\ \A j \in Ino : t1[j] = Free <=> t0[j] = Free
        /\ \A j \in Ino : t1[j].kind = t0[j].kind
    BY <1>1, AttachIs
  <1> QED  BY <1>1, <1>2, EntsEdited

LEMMA DetachEdit ==
    ASSUME NEW t0, IsTree(t0), NEW In \in SUBSET Ino, Walled(t0, In), NEW d \in In, IsDir(t0, d),
           NEW n, NEW t1, t1 = Detach(t0, d, n)
    PROVE  Edit(t0, t1, In) /\ Grown(t0, t1, In) = In
  <1>1. Children(t0, d) \subseteq In \ {Root}
    BY SidesOf
  <1>2. /\ IsTree(t1) /\ Children(t1, d) \subseteq Children(t0, d)
        /\ \A j \in Ino \ {d} : t1[j] = t0[j]
        /\ \A j \in Ino : t1[j] = Free <=> t0[j] = Free
        /\ \A j \in Ino : t1[j].kind = t0[j].kind
    <2>1. d \in Ino
      OBVIOUS
    <2>2. /\ IsTree(t1) /\ Children(t1, d) \subseteq Children(t0, d)
          /\ \A j \in Ino \ {d} : t1[j] = t0[j]
          /\ \A j \in Ino : t1[j] = Free <=> t0[j] = Free
          /\ \A j \in Ino : t1[j].kind = t0[j].kind
      BY <2>1, DetachIs
    <2> QED  BY <2>2
  <1> QED  BY <1>1, <1>2, EntsEdited

(* A node is given other contents or another mode.                         *)
LEMMA NodeEdit ==
    ASSUME NEW t0, IsTree(t0), NEW In \in SUBSET Ino, Walled(t0, In), NEW i \in In,
           NEW x, IsNode(t0, x), x.kind = t0[i].kind, x.kind = "dir" => x.ents = Ents(t0, i),
           NEW t1, t1 = SetNode(t0, i, x)
    PROVE  Edit(t0, t1, In) /\ Grown(t0, t1, In) = In
  <1>1. t0[i] # Free /\ IsNode(t0, t0[i]) /\ Children(t0, i) \subseteq In \ {Root}
    BY SidesOf DEF IsTree
  <1>2. x # Free
    BY <1>1, KindIs DEF Free
  <1>3. IsTree(t1) /\ t1[i] = x /\ \A j \in Ino \ {i} : t1[j] = t0[j]
    BY <1>2, SetNodeIs
  <1>4. Children(t1, i) = Children(t0, i)
    BY <1>3 DEF Children, IsDir, Kind, Ents
  <1>5. \A j \in Ino : (t1[j] = Free <=> t0[j] = Free) /\ t1[j].kind = t0[j].kind
    BY <1>1, <1>2, <1>3
  <1> QED  BY <1>1, <1>3, <1>4, <1>5, EntsEdited

(* A node made on either side of the wall is on that side.                 *)
LEMMA CreateWalled ==
    ASSUME NEW t0, IsTree(t0), NEW In \in SUBSET Ino, Walled(t0, In), NEW d \in Ino, IsDir(t0, d),
           FreeInos(t0) # {}, NEW n, NEW x, IsNode(t0, x), Childless(x),
           NEW t1, t1 = Create(t0, d, n, x),
           NEW W, W = IF d \in In THEN In \cup {Fresh(t0)} ELSE In
    PROVE  IsTree(t1) /\ Walled(t1, W)
  <1>1. PICK i : i = Fresh(t0)
    OBVIOUS
  <1>2. /\ i \in Ino /\ t0[i] = Free /\ IsTree(t1)
        /\ t1[i] = x /\ Children(t1, i) = {} /\ Children(t0, i) = {}
        /\ Children(t1, d) \subseteq Children(t0, d) \cup {i}
        /\ IsDir(t1, d) /\ \A j \in Ino \ {d, i} : t1[j] = t0[j]
    BY <1>1, CreateIs
  <1>3. /\ i \notin In /\ i # Root /\ i # Top /\ i # d /\ x # Free
        /\ \A c \in Ino : i \notin Children(t0, c)
    BY <1>2, SidesOf, ChildrenAre DEF IsDir, Kind, Free, Childless
  <1>4. W \in SUBSET Ino /\ Root \in W /\ (Top \in W => Top = Root)
    BY <1>1, <1>2, <1>3, SidesOf
  <1>5. IsDir(t1, Root) /\ IsDir(t1, Top)
    <2>1. \A r \in Ino : IsDir(t0, r) /\ r # i => IsDir(t1, r)
      BY <1>2, ChildrenOf
    <2> QED  BY <1>3, <2>1, SidesOf
  <1>6. \A j \in W : t1[j] # Free
    <2>1. t1[d] # Free
      BY <1>2 DEF IsDir, Kind, Free
    <2> QED  BY <1>1, <1>2, <1>3, <2>1, SidesOf
  <1>7. \A c \in Children(t1, d) : d \in W <=> c \in W \ {Root}
    BY <1>1, <1>2, <1>3, SidesOf
  <1>8. \A y \in Ino \ {d} : \A c \in Children(t1, y) : y \in W <=> c \in W \ {Root}
    <2>1. \A y \in Ino \ {d} : Children(t1, y) = Children(t0, y)
      BY <1>2, ChildrenOf
    <2>2. \A y \in Ino \ {d} : \A c \in Children(t0, y) : y # i /\ c # i
      BY <1>2, <1>3
    <2> QED  BY <1>1, <2>1, <2>2, SidesOf
  <1> QED  BY <1>2, <1>4, <1>5, <1>6, <1>7, <1>8, WallStays

(* A node made beneath the root is an edit beneath it.                     *)
LEMMA CreateEdit ==
    ASSUME NEW t0, IsTree(t0), NEW In \in SUBSET Ino, Walled(t0, In), NEW d \in In, IsDir(t0, d),
           FreeInos(t0) # {}, NEW n, NEW x, IsNode(t0, x), Childless(x),
           NEW t1, t1 = Create(t0, d, n, x)
    PROVE  Edit(t0, t1, In) /\ Fresh(t0) \in Grown(t0, t1, In) /\ t1[Fresh(t0)] = x
  <1>1. PICK i : i = Fresh(t0)
    OBVIOUS
  <1>2. /\ i \in Ino /\ t0[i] = Free /\ IsTree(t1) /\ t1[i] = x
        /\ IsDir(t1, d) /\ \A j \in Ino \ {d, i} : t1[j] = t0[j]
    BY <1>1, CreateIs
  <1>3. x # Free /\ t1[d] # Free /\ t0[d] # Free /\ t1[d].kind = t0[d].kind
    BY <1>2 DEF Childless, IsDir, Kind, Free
  <1>4. Grown(t0, t1, In) = In \cup {i}
    BY <1>2, <1>3 DEF Grown
  <1>5. Walled(t1, Grown(t0, t1, In))
    BY <1>1, <1>4, CreateWalled
  <1> QED  BY <1>1, <1>2, <1>3, <1>4, <1>5 DEF Edit

(* What is gone from a tree when nothing names it and nothing holds it.    *)
Kept(t1, W) == {i \in W : t1[i] # Free}

(* Nothing that is named or held goes.                                     *)
LEMMA ReapTree ==
    ASSUME NEW t1, IsTree(t1), NEW open \in SUBSET Ino, NEW t2, t2 = Reap(t1, open)
    PROVE  /\ IsTree(t2)
           /\ \A i \in Ino : t2[i] \in {t1[i], Free}
           /\ \A i \in open \cup {Top, Root} : t2[i] = t1[i]
           /\ \A d \in Ino : \A i \in Children(t1, d) : i \in Ino /\ t2[i] = t1[i] /\ t2[i] # Free
           /\ \A d \in Ino : \A i \in Children(t2, d) :
                 i \in Children(t1, d) /\ t2[d] = t1[d] /\ t2[d] # Free
  <1> DEFINE U     == UNION {Children(t1, d) : d \in Ino}
             named == U \cup {Top, Root} \cup open
  <1>2. t2 = [i \in Ino |-> IF i \in named THEN t1[i] ELSE Free]
    BY DEF Reap
  <1> HIDE DEF U, named
  <1>3. \A i \in Ino : t2[i] = IF i \in named THEN t1[i] ELSE Free
    BY <1>2
  <1>4. \A i \in open \cup {Top, Root} : i \in named /\ t2[i] = t1[i]
    <2>1. open \cup {Top, Root} \subseteq Ino
      BY TreeAssumption
    <2>2. open \cup {Top, Root} \subseteq named
      BY DEF named
    <2> QED  BY <1>3, <2>1, <2>2
  <1>5. \A d \in Ino : \A i \in Children(t1, d) : i \in Ino /\ i \in named /\ t2[i] = t1[i] /\ t2[i] # Free
    <2> TAKE d \in Ino
    <2> TAKE i \in Children(t1, d)
    <2>1. i \in Ino /\ t1[i] # Free
      BY ChildrenAre
    <2>2. i \in named
      BY DEF U, named
    <2> QED  BY <1>3, <2>1, <2>2
  <1>6. ASSUME NEW i \in Ino  PROVE IsNode(t2, t2[i])
    <2>1. CASE i \notin named
      BY <1>3, <2>1 DEF IsNode
    <2>2. CASE i \in named
      <3>1. t2[i] = t1[i] /\ IsNode(t1, t1[i])
        BY <1>3, <2>2 DEF IsTree
      <3>2. CASE t1[i].kind = "dir"
        <4>1. t1[i] = DirNode(t1[i].ents, t1[i].mode) /\ IsEnts(t1, t1[i].ents)
          BY <3>1, <3>2, KindIs
        <4>2. \A n \in DOMAIN t1[i].ents : t1[i].ents[n] \in Children(t1, i)
          BY <3>2 DEF Children, IsDir, Kind, Ents, Range
        <4>3. IsEnts(t2, t1[i].ents)
          BY <1>5, <4>1, <4>2 DEF IsEnts
        <4> QED  BY <3>1, <3>2, <4>1, <4>3 DEF IsNode
      <3>3. CASE t1[i].kind # "dir"
        BY <3>1, <3>3 DEF IsNode
      <3> QED  BY <3>2, <3>3
    <2> QED  BY <2>1, <2>2
  <1>7. IsTree(t2)
    <2>1. t2 = [i \in Ino |-> t2[i]]
      BY <1>2
    <2> QED  BY <1>6, <2>1 DEF IsTree
  <1>8. \A d \in Ino : \A i \in Children(t2, d) : i \in Children(t1, d) /\ t2[d] = t1[d] /\ t2[d] # Free
    <2>1. \A d \in Ino : d \notin named => Children(t2, d) = {}
      BY <1>3 DEF Children, IsDir, Kind, Free
    <2>2. \A d \in Ino : d \in named => Children(t2, d) = Children(t1, d) /\ t2[d] = t1[d]
      BY <1>3, ChildrenOf
    <2>3. \A d \in Ino : Children(t2, d) # {} => t2[d] # Free
      BY DEF Children, IsDir, Kind, Free
    <2> QED  BY <2>1, <2>2, <2>3
  <1>11. \A i \in Ino : t2[i] \in {t1[i], Free}
    BY <1>3
  <1> QED  BY <1>4, <1>5, <1>7, <1>8, <1>11

(* And the wall stays around the rest.                                     *)
LEMMA ReapIs ==
    ASSUME NEW t1, IsTree(t1), NEW W \in SUBSET Ino, Walled(t1, W), NEW open \in SUBSET W,
           NEW t2, t2 = Reap(t1, open)
    PROVE  /\ IsTree(t2) /\ Walled(t2, Kept(t2, W)) /\ open \subseteq Kept(t2, W)
           /\ \A i \in Ino : t2[i] \in {t1[i], Free}
           /\ \A i \in open \cup {Top, Root} : t2[i] = t1[i]
           /\ \A d \in Ino : \A i \in Children(t1, d) : t2[i] = t1[i]
  <1>1. open \in SUBSET Ino
    OBVIOUS
  <1>2. /\ IsTree(t2)
        /\ \A i \in Ino : t2[i] \in {t1[i], Free}
        /\ \A i \in open \cup {Top, Root} : t2[i] = t1[i]
        /\ \A d \in Ino : \A i \in Children(t1, d) : i \in Ino /\ t2[i] = t1[i] /\ t2[i] # Free
        /\ \A d \in Ino : \A i \in Children(t2, d) :
              i \in Children(t1, d) /\ t2[d] = t1[d] /\ t2[d] # Free
    BY <1>1, ReapTree
  <1>9. Walled(t2, Kept(t2, W))
    <2>1. /\ Root \in Ino /\ Top \in Ino /\ t2[Root] = t1[Root] /\ t2[Top] = t1[Top]
          /\ t1[Root] # Free /\ t1[Top] # Free /\ IsDir(t2, Root) /\ IsDir(t2, Top) /\ Root \in W
      BY <1>2, SidesOf, ChildrenOf
    <2>2. Root \in Kept(t2, W) /\ (Top \in Kept(t2, W) => Top = Root)
      BY <2>1, SidesOf DEF Kept
    <2>3. ASSUME NEW d \in Ino, NEW i \in Children(t2, d)
          PROVE  d \in Kept(t2, W) <=> i \in Kept(t2, W) \ {Root}
      <3>1. i \in Children(t1, d) /\ t2[d] # Free /\ t2[i] # Free /\ i \in Ino
        BY <1>2
      <3>2. d \in W <=> i \in W \ {Root}
        BY <3>1, SidesOf
      <3> QED  BY <3>1, <3>2 DEF Kept
    <2> QED  BY <2>1, <2>2, <2>3 DEF Walled, Kept
  <1>10. open \subseteq Kept(t2, W)
    BY <1>2, SidesOf DEF Kept
  <1> QED  BY <1>2, <1>9, <1>10

(* What a system call that changes nothing answers with.                   *)
Tells(t0, In, r) ==
    /\ r.t = t0 /\ r.ino \in In \cup {NoIno}
    /\ r.err = "ok" => r.ino \in In

(* A path is made of its parts, and is one without its tail.               *)
LEMMA PathIs ==
    ASSUME NEW x \in BOOLEAN, NEW c \in Seq(Comps), NEW e \in {"", "/", "/."}
    PROVE  IsPath(Path(x, c, e)) /\ Path(x, c, e).comps = c
  <1>1. PICK q : q = Path(x, c, e)
    OBVIOUS
  <1>2. q = Path(q.abs, q.comps, q.tail) /\ q.abs = x /\ q.comps = c /\ q.tail = e
    <2>1. q = [abs |-> x, comps |-> c, tail |-> e]
      BY <1>1 DEF Path
    <2> QED  BY <2>1 DEF Path
  <1> QED  BY <1>1, <1>2, Zenon DEF IsPath

LEMMA PathsAre ==
    ASSUME NEW p, IsPath(p)
    PROVE  IsPath(NoTail(p)) /\ NoTail(p).comps = p.comps
  <1>1. /\ p = [abs |-> p.abs, comps |-> p.comps, tail |-> p.tail]
        /\ p.abs \in BOOLEAN /\ p.comps \in Seq(Comps)
    BY Zenon DEF IsPath, Path
  <1>2. NoTail(p) = [abs |-> p.abs, comps |-> p.comps, tail |-> ""]
    <2>1. p = [abs |-> p.abs, comps |-> p.comps, tail |-> p.tail]
      BY <1>1
    <2>2. PICK q : q = [p EXCEPT !.tail = ""]
      OBVIOUS
    <2>3. q = [abs |-> p.abs, comps |-> p.comps, tail |-> ""]
      BY <2>1, <2>2
    <2> QED  BY <2>2, <2>3 DEF NoTail
  <1>3. NoTail(p) = Path(p.abs, p.comps, "")
    BY <1>2 DEF Path
  <1> QED  BY <1>1, <1>3, PathIs

(* A name looked up beneath the root leads to what is the root's.          *)
LEMMA NamedStays ==
    ASSUME NEW t0, IsTree(t0), NEW In \in SUBSET Ino, Walled(t0, In), NEW p, IsPath(p)
    PROVE  LookIn(t0, In, Named(t0, TRUE, p))
  BY PathsAre, LookStays DEF Named

(* An answer made of such a look, and one that is an error.                *)
LEMMA AnswerIs ==
    ASSUME NEW t0, NEW In \in SUBSET Ino, NEW l, LookIn(t0, In, l), NEW r, r = Answer(t0, l)
    PROVE  Tells(t0, In, r)
  <1>1. l.ino \in In /\ l.is # "ok"
    BY DEF LookIn, Outcomes
  <1>2. CASE Found(l)
    <2>1. r = [err |-> "ok", t |-> t0, ino |-> l.ino]
      BY <1>2 DEF Answer, Ans
    <2> QED  BY <1>1, <2>1 DEF Tells
  <1>3. CASE ~Found(l)
    <2>1. r = [err |-> ErrorOf(l), t |-> t0, ino |-> NoIno]
      BY <1>3 DEF Answer, Ans, Fail
    <2>2. ErrorOf(l) # "ok"
      BY <1>1 DEF ErrorOf
    <2> QED  BY <2>1, <2>2 DEF Tells
  <1> QED  BY <1>2, <1>3

LEMMA FailIs ==
    ASSUME NEW t0, NEW In, NEW e, e # "ok", NEW r, r = Fail(e, t0)
    PROVE  Tells(t0, In, r) /\ r.err # "ok"
  <1>1. r = [err |-> e, t |-> t0, ino |-> NoIno]
    BY DEF Fail, Ans
  <1> QED  BY <1>1 DEF Tells

(* The calls that change nothing tell only of what is the root's.          *)
LEMMA StatTells ==
    ASSUME NEW t0, IsTree(t0), NEW In \in SUBSET Ino, Walled(t0, In), NEW p, IsPath(p)
    PROVE  Tells(t0, In, Stat(t0, TRUE, p))
  BY LookStays, AnswerIs DEF Stat

LEMMA LstatTells ==
    ASSUME NEW t0, IsTree(t0), NEW In \in SUBSET Ino, Walled(t0, In), NEW p, IsPath(p)
    PROVE  Tells(t0, In, Lstat(t0, TRUE, p))
  <1> DEFINE r == Lstat(t0, TRUE, p)
             q == Answer(t0, Look(t0, TRUE, p, FALSE))
  <1>1. r = Fail("NotADirectory", t0) \/ r = q
    BY Zenon DEF Lstat
  <1>2. Tells(t0, In, q)
    BY LookStays, AnswerIs
  <1> HIDE DEF r, q
  <1>3. Tells(t0, In, r)
    BY <1>1, <1>2, FailIs
  <1> QED  BY <1>3 DEF r

LEMMA ReadLinkTells ==
    ASSUME NEW t0, IsTree(t0), NEW In \in SUBSET Ino, Walled(t0, In), NEW p, IsPath(p)
    PROVE  LET r == ReadLink(t0, TRUE, p)
           IN  Tells(t0, In, r) /\ (r.err = "ok" => Kind(t0, r.ino) = "link")
  <1> DEFINE r == ReadLink(t0, TRUE, p)
             q == Answer(t0, Look(t0, TRUE, p, FALSE))
  <1>1. r = IF q.err = "ok" /\ Kind(t0, q.ino) # "link" THEN Fail("InvalidInput", t0) ELSE q
    BY DEF ReadLink
  <1>2. Tells(t0, In, q)
    BY LookStays, AnswerIs
  <1> HIDE DEF r, q
  <1>3. Tells(t0, In, r) /\ (r.err = "ok" => Kind(t0, r.ino) = "link")
    BY <1>1, <1>2, FailIs
  <1> QED  BY <1>3 DEF r

LEMMA OpenTells ==
    ASSUME NEW t0, IsTree(t0), NEW In \in SUBSET Ino, Walled(t0, In), NEW p, IsPath(p), NEW follow
    PROVE  /\ Tells(t0, In, OpenRead(t0, TRUE, p, follow))
           /\ Tells(t0, In, OpenDir(t0, TRUE, p, follow))
           /\ LET r == OpenDir(t0, TRUE, p, follow) IN r.err = "ok" => IsDir(t0, r.ino)
  <1> DEFINE q == Answer(t0, Look(t0, TRUE, p, follow))
             r == OpenRead(t0, TRUE, p, follow)
             d == OpenDir(t0, TRUE, p, follow)
  <1>1. Tells(t0, In, q)
    BY LookStays, AnswerIs
  <1>2. r \in {q, Fail("FilesystemLoop", t0), Fail("PermissionDenied", t0)}
    BY DEF OpenRead
  <1> HIDE DEF q
  <1>3. Tells(t0, In, r)
    BY <1>1, <1>2, FailIs
  <1>4. d = IF r.err = "FilesystemLoop" \/ (r.err = "ok" /\ ~IsDir(t0, r.ino))
            THEN Fail("NotADirectory", t0) ELSE r
    BY DEF OpenDir
  <1> HIDE DEF r, d
  <1>5. Tells(t0, In, d) /\ (d.err = "ok" => IsDir(t0, d.ino))
    BY <1>3, <1>4, FailIs
  <1> QED  BY <1>3, <1>5 DEF r, d

(* What a system call that may change the tree answers with.               *)
Does(t0, In, r) ==
    /\ Edit(t0, r.t, In)
    /\ r.ino \in Grown(t0, r.t, In) \cup {NoIno}
    /\ r.err = "ok" => r.ino \in Grown(t0, r.t, In)

(* To tell is to do nothing to the tree.                                   *)
LEMMA TellsDoes ==
    ASSUME NEW t0, IsTree(t0), NEW In \in SUBSET Ino, Walled(t0, In), NEW r, Tells(t0, In, r)
    PROVE  Does(t0, In, r)
  <1>1. Edit(t0, r.t, In)
    BY EditSame DEF Tells
  <1>2. In \subseteq Grown(t0, r.t, In)
    BY DEF Grown
  <1> QED  BY <1>1, <1>2 DEF Tells, Does

LEMMA FailDoes ==
    ASSUME NEW t0, IsTree(t0), NEW In \in SUBSET Ino, Walled(t0, In), NEW e, e # "ok"
    PROVE  Does(t0, In, Fail(e, t0)) /\ Fail(e, t0).err # "ok"
  BY FailIs, TellsDoes

(* A node made where a look beneath the root found none.                   *)
LEMMA MakeDoes ==
    ASSUME NEW t0, IsTree(t0), NEW In \in SUBSET Ino, Walled(t0, In), NEW l, LookIn(t0, In, l),
           NEW x, IsNode(t0, x), Childless(x)
    PROVE  LET r == MakeAt(t0, l, x)
           IN  Does(t0, In, r) /\ (r.err = "ok" => r.t[r.ino] = x)
  <1> DEFINE r == MakeAt(t0, l, x)
  <1>1. CASE FreeInos(t0) = {}
    <2>1. r = Fail("StorageFull", t0)
      BY <1>1 DEF MakeAt
    <2> HIDE DEF r
    <2>2. Does(t0, In, r) /\ r.err # "ok"
      BY <2>1, FailDoes
    <2> QED  BY <2>2 DEF r
  <1>2. CASE FreeInos(t0) # {}
    <2>1. PICK d, n, t1 : d = l.dir /\ n = l.name /\ t1 = Create(t0, d, n, x)
      OBVIOUS
    <2>6. d \in In /\ IsDir(t0, d)
      BY <2>1 DEF LookIn
    <2>2. Edit(t0, t1, In) /\ Fresh(t0) \in Grown(t0, t1, In) /\ t1[Fresh(t0)] = x
      BY <1>2, <2>1, <2>6, CreateEdit
    <2>3. r = [err |-> "ok", t |-> t1, ino |-> Fresh(t0)]
      BY <1>2, <2>1 DEF MakeAt, Ans
    <2> HIDE DEF r
    <2>4. r.err = "ok" /\ r.t = t1 /\ r.ino = Fresh(t0)
      BY <2>3
    <2>5. Does(t0, In, r) /\ r.t[r.ino] = x
      BY <2>2, <2>4 DEF Does
    <2> QED  BY <2>5 DEF r
  <1> QED  BY <1>1, <1>2

(* What the calls make are nodes without children.                         *)
LEMMA NodesAre ==
    ASSUME NEW t0
    PROVE  /\ \A d, m : IsNode(t0, FileNode(d, m)) /\ Childless(FileNode(d, m))
                        /\ FileNode(d, m).kind = "file"
           /\ \A m : IsNode(t0, DirNode(<<>>, m)) /\ Childless(DirNode(<<>>, m))
           /\ \A p : IsPath(p) => IsNode(t0, LinkNode(p)) /\ Childless(LinkNode(p))
  <1>1. ASSUME NEW d, NEW m
        PROVE  IsNode(t0, FileNode(d, m)) /\ Childless(FileNode(d, m)) /\ FileNode(d, m).kind = "file"
    <2>1. PICK x : x = FileNode(d, m)
      OBVIOUS
    <2>2. x.kind = "file" /\ x = FileNode(x.data, x.mode) /\ x # Free
      BY <2>1 DEF FileNode, Free
    <2> QED  BY <2>1, <2>2 DEF IsNode, Childless
  <1>2. ASSUME NEW m  PROVE IsNode(t0, DirNode(<<>>, m)) /\ Childless(DirNode(<<>>, m))
    <2>1. PICK x : x = DirNode(<<>>, m)
      OBVIOUS
    <2>2. x.kind = "dir" /\ x.ents = <<>> /\ x.mode = m /\ x # Free
      BY <2>1 DEF DirNode, Free
    <2>3. IsEnts(t0, <<>>)
      BY DEF IsEnts
    <2> QED  BY <2>1, <2>2, <2>3 DEF IsNode, Childless
  <1>3. ASSUME NEW p, IsPath(p)  PROVE IsNode(t0, LinkNode(p)) /\ Childless(LinkNode(p))
    <2>1. PICK x : x = LinkNode(p)
      OBVIOUS
    <2>2. x.kind = "link" /\ x.to = p /\ x # Free
      BY <2>1 DEF LinkNode, Free
    <2> QED  BY <1>3, <2>1, <2>2 DEF IsNode, Childless
  <1> QED  BY <1>1, <1>2, <1>3

(* The calls that make files.                                              *)
LEMMA CreateNewDoes ==
    ASSUME NEW t0, IsTree(t0), NEW In \in SUBSET Ino, Walled(t0, In), NEW p, IsPath(p), NEW mode
    PROVE  LET r == CreateNew(t0, TRUE, p, mode)
           IN  Does(t0, In, r) /\ (r.err = "ok" => r.t[r.ino] = FileNode("empty", mode \ Umask))
  <1> DEFINE r == CreateNew(t0, TRUE, p, mode)
             l == Named(t0, TRUE, p)
             x == FileNode("empty", mode \ Umask)
  <1>1. LookIn(t0, In, l) /\ l.is # "ok"
    BY NamedStays DEF LookIn, Outcomes
  <1>2. (\E e : e # "ok" /\ r = Fail(e, t0)) \/ r = MakeAt(t0, l, x)
    <2>1. r \in {Fail("InvalidInput", t0), Fail("NotFound", t0), Fail("IsADirectory", t0),
                 Fail("AlreadyExists", t0), MakeAt(t0, l, x), Fail(l.is, t0)}
      BY Zenon DEF CreateNew
    <2> HIDE DEF r, l, x
    <2> QED  BY <1>1, <2>1
  <1>3. IsNode(t0, x) /\ Childless(x)
    BY NodesAre
  <1> HIDE DEF r, l, x
  <1>4. Does(t0, In, r) /\ (r.err = "ok" => r.t[r.ino] = x)
    BY <1>1, <1>2, <1>3, MakeDoes, FailDoes
  <1> QED  BY <1>4 DEF r, x

(* The contents of a file, or the mode of a file or directory, are set.    *)
SetData(t0, i, d) == [t0 EXCEPT ![i].data = d]
SetMode(t0, i, m) == [t0 EXCEPT ![i].mode = m]

(* Each writes over one node, and leaves it what it is.                    *)
LEMMA DataIs ==
    ASSUME NEW t0, IsTree(t0), NEW i \in Ino, Kind(t0, i) = "file", NEW d
    PROVE  \E x : /\ SetData(t0, i, d) = SetNode(t0, i, x) /\ IsNode(t0, x)
                  /\ x = FileNode(d, t0[i].mode) /\ x.kind = "file" /\ x.mode = t0[i].mode
  <1>1. IsNode(t0, t0[i]) /\ t0[i].kind = "file"
    BY DEF IsTree, Kind
  <1>2. t0[i] = FileNode(t0[i].data, t0[i].mode)
    BY <1>1, KindIs
  <1>3. PICK y : y = t0[i]
    OBVIOUS
  <1>4. PICK x : x = [y EXCEPT !.data = d]
    OBVIOUS
  <1>5. x = FileNode(d, y.mode) /\ x.mode = y.mode
    <2>1. y = [kind |-> "file", data |-> y.data, mode |-> y.mode]
      BY <1>2, <1>3 DEF FileNode
    <2>2. x = [kind |-> "file", data |-> d, mode |-> y.mode]
      BY <1>4, <2>1
    <2> QED  BY <2>2 DEF FileNode
  <1>6. SetData(t0, i, d) = SetNode(t0, i, x)
    BY <1>3, <1>4 DEF SetData, SetNode
  <1>7. IsNode(t0, x) /\ x.kind = "file"
    BY <1>5, NodesAre
  <1> QED  BY <1>3, <1>5, <1>6, <1>7

LEMMA ModeIs ==
    ASSUME NEW t0, IsTree(t0), NEW i \in Ino, Kind(t0, i) \in {"file", "dir"}, NEW m
    PROVE  \E x : /\ SetMode(t0, i, m) = SetNode(t0, i, x) /\ IsNode(t0, x)
                  /\ x.kind = t0[i].kind /\ x.mode = m
                  /\ x.kind = "dir" => x.ents = Ents(t0, i)
  <1>1. IsNode(t0, t0[i]) /\ t0[i].kind \in {"file", "dir"}
    BY DEF IsTree, Kind
  <1>3. PICK y : y = t0[i]
    OBVIOUS
  <1>4. PICK x : x = [y EXCEPT !.mode = m]
    OBVIOUS
  <1>5. SetMode(t0, i, m) = SetNode(t0, i, x)
    BY <1>3, <1>4 DEF SetMode, SetNode
  <1>6. CASE y.kind = "file"
    <2>1. y = [kind |-> "file", data |-> y.data, mode |-> y.mode]
      BY <1>1, <1>3, <1>6, KindIs DEF FileNode
    <2>2. x = [kind |-> "file", data |-> y.data, mode |-> m]
      BY <1>4, <2>1
    <2>3. x = FileNode(y.data, m) /\ x.mode = m
      BY <2>2 DEF FileNode
    <2>4. IsNode(t0, x) /\ x.kind = "file"
      BY <2>3, NodesAre
    <2> QED  BY <1>3, <1>5, <1>6, <2>3, <2>4
  <1>7. CASE y.kind = "dir"
    <2>1. y = DirNode(y.ents, y.mode) /\ IsEnts(t0, y.ents)
      BY <1>1, <1>3, <1>7, KindIs
    <2>2. y = [kind |-> "dir", ents |-> y.ents, mode |-> y.mode]
      BY <2>1 DEF DirNode
    <2>3. x = [kind |-> "dir", ents |-> y.ents, mode |-> m]
      BY <1>4, <2>2
    <2>4. x = DirNode(x.ents, x.mode) /\ x.kind = "dir" /\ x.ents = y.ents /\ x.mode = m
      BY <2>3 DEF DirNode
    <2>5. IsNode(t0, x)
      BY <2>1, <2>4 DEF IsNode
    <2>6. x.ents = Ents(t0, i)
      BY <1>3, <2>4 DEF Ents
    <2> QED  BY <1>3, <1>5, <1>7, <2>4, <2>5, <2>6
  <1> QED  BY <1>1, <1>3, <1>6, <1>7

(* Beneath the root, of a node that is the root's, each is an edit.        *)
LEMMA DataEdit ==
    ASSUME NEW t0, IsTree(t0), NEW In \in SUBSET Ino, Walled(t0, In), NEW i \in In,
           Kind(t0, i) = "file", NEW d, NEW t1, t1 = SetData(t0, i, d)
    PROVE  Edit(t0, t1, In) /\ Grown(t0, t1, In) = In
  <1>1. PICK x : t1 = SetNode(t0, i, x) /\ IsNode(t0, x) /\ x.kind = "file"
    BY DataIs
  <1> QED  BY <1>1, NodeEdit DEF Kind

LEMMA ModeEdit ==
    ASSUME NEW t0, IsTree(t0), NEW In \in SUBSET Ino, Walled(t0, In), NEW i \in In,
           Kind(t0, i) \in {"file", "dir"}, NEW m, NEW t1, t1 = SetMode(t0, i, m)
    PROVE  Edit(t0, t1, In) /\ Grown(t0, t1, In) = In
  <1>1. PICK x : /\ t1 = SetNode(t0, i, x) /\ IsNode(t0, x) /\ x.kind = t0[i].kind
                 /\ x.kind = "dir" => x.ents = Ents(t0, i)
    BY ModeIs
  <1> QED  BY <1>1, NodeEdit

(* An edit beneath the root, told.                                         *)
LEMMA DoneDoes ==
    ASSUME NEW t0, NEW In \in SUBSET Ino, NEW t1, Edit(t0, t1, In), NEW i \in In,
           NEW r, r = Ans("ok", t1, i)
    PROVE  Does(t0, In, r)
  <1>1. r.err = "ok" /\ r.t = t1 /\ r.ino = i
    BY DEF Ans
  <1>2. i \in Grown(t0, t1, In)
    BY DEF Grown
  <1> QED  BY <1>1, <1>2 DEF Does

(* Opening to write makes, empties or opens what is the root's.            *)
LEMMA OpenWriteDoes ==
    ASSUME NEW t0, IsTree(t0), NEW In \in SUBSET Ino, Walled(t0, In), NEW p, IsPath(p), NEW flags
    PROVE  Does(t0, In, OpenWrite(t0, TRUE, p, flags))
  <1> DEFINE r == OpenWrite(t0, TRUE, p, flags)
             q == IF "create" \in flags THEN NoTail(p) ELSE p
             l == Look(t0, TRUE, q, TRUE)
             m == {"owner", "others"}
             x == FileNode("empty", m \ Umask)
             u == IF Kind(t0, l.ino) = "file" /\ "truncate" \in flags
                  THEN SetData(t0, l.ino, "empty") ELSE t0
  <1>1. IsPath(q)
    BY PathsAre
  <1>2. LookIn(t0, In, l) /\ l.is # "ok" /\ ErrorOf(l) # "ok"
    BY <1>1, LookStays DEF LookIn, Outcomes, ErrorOf
  <1>3. r \in {CreateNew(t0, TRUE, p, m), Fail("InvalidInput", t0), Fail("NotFound", t0),
               Fail("IsADirectory", t0), Fail("PermissionDenied", t0), Ans("ok", u, l.ino),
               MakeAt(t0, l, x), Fail(ErrorOf(l), t0)}
    BY Zenon DEF OpenWrite, SetData
  <1>4. Edit(t0, u, In) /\ l.ino \in In
    BY <1>2, DataEdit, EditSame DEF LookIn
  <1>5. IsNode(t0, x) /\ Childless(x)
    BY NodesAre
  <1>6. Does(t0, In, MakeAt(t0, l, x)) /\ Does(t0, In, CreateNew(t0, TRUE, p, m))
    BY <1>2, <1>5, MakeDoes, CreateNewDoes
  <1>7. Does(t0, In, Ans("ok", u, l.ino))
    BY <1>4, DoneDoes
  <1>8. Does(t0, In, Fail(ErrorOf(l), t0))
    BY <1>2, FailDoes
  <1> HIDE DEF r, l, u, x, m
  <1>9. Does(t0, In, r)
    BY <1>3, <1>6, <1>7, <1>8, FailDoes
  <1> QED  BY <1>9 DEF r

(* Directories and links are made beneath the root.                        *)
LEMMA MkdirDoes ==
    ASSUME NEW t0, IsTree(t0), NEW In \in SUBSET Ino, Walled(t0, In), NEW p, IsPath(p), NEW mode
    PROVE  Does(t0, In, Mkdir(t0, TRUE, p, mode))
  <1> DEFINE r == Mkdir(t0, TRUE, p, mode)
             l == Named(t0, TRUE, p)
             x == DirNode(<<>>, mode \ Umask)
  <1>1. LookIn(t0, In, l) /\ l.is # "ok"
    BY NamedStays DEF LookIn, Outcomes
  <1>2. r \in {Fail("AlreadyExists", t0), Fail("NotFound", t0), MakeAt(t0, l, x), Fail(l.is, t0)}
    BY Zenon DEF Mkdir
  <1>3. IsNode(t0, x) /\ Childless(x)
    BY NodesAre
  <1>4. Does(t0, In, MakeAt(t0, l, x)) /\ Does(t0, In, Fail(l.is, t0))
    BY <1>1, <1>3, MakeDoes, FailDoes
  <1> HIDE DEF r, l, x
  <1>5. Does(t0, In, r)
    BY <1>2, <1>4, FailDoes
  <1> QED  BY <1>5 DEF r

LEMMA SymlinkDoes ==
    ASSUME NEW t0, IsTree(t0), NEW In \in SUBSET Ino, Walled(t0, In), NEW p, IsPath(p),
           NEW contents, IsPath(contents)
    PROVE  Does(t0, In, Symlink(t0, TRUE, contents, p))
  <1> DEFINE r == Symlink(t0, TRUE, contents, p)
             l == Named(t0, TRUE, p)
             x == LinkNode(contents)
  <1>1. LookIn(t0, In, l) /\ l.is # "ok"
    BY NamedStays DEF LookIn, Outcomes
  <1>2. r \in {Fail("AlreadyExists", t0), Fail("NotFound", t0), MakeAt(t0, l, x), Fail(l.is, t0)}
    BY Zenon DEF Symlink
  <1>3. IsNode(t0, x) /\ Childless(x)
    BY NodesAre
  <1>4. Does(t0, In, MakeAt(t0, l, x)) /\ Does(t0, In, Fail(l.is, t0))
    BY <1>1, <1>3, MakeDoes, FailDoes
  <1> HIDE DEF r, l, x
  <1>5. Does(t0, In, r)
    BY <1>2, <1>4, FailDoes
  <1> QED  BY <1>5 DEF r

(* What a look beneath the root found is removed from its directory.       *)
LEMMA RemoveDoes ==
    ASSUME NEW t0, IsTree(t0), NEW In \in SUBSET Ino, Walled(t0, In), NEW l, LookIn(t0, In, l)
    PROVE  Does(t0, In, Ans("ok", Detach(t0, l.dir, l.name), l.ino))
  <1>1. PICK d, n, t1 : d = l.dir /\ n = l.name /\ t1 = Detach(t0, d, n)
    OBVIOUS
  <1>2. d \in In /\ IsDir(t0, d) /\ l.ino \in In
    BY <1>1 DEF LookIn
  <1>3. Edit(t0, t1, In)
    BY <1>1, <1>2, DetachEdit
  <1>4. Does(t0, In, Ans("ok", t1, l.ino))
    BY <1>2, <1>3, DoneDoes
  <1> QED  BY <1>1, <1>4

LEMMA UnlinkDoes ==
    ASSUME NEW t0, IsTree(t0), NEW In \in SUBSET Ino, Walled(t0, In), NEW p, IsPath(p)
    PROVE  Does(t0, In, Unlink(t0, TRUE, p))
  <1> DEFINE r == Unlink(t0, TRUE, p)
             l == Named(t0, TRUE, p)
             o == Ans("ok", Detach(t0, l.dir, l.name), l.ino)
  <1>1. LookIn(t0, In, l) /\ ErrorOf(l) # "ok"
    BY NamedStays DEF LookIn, Outcomes, ErrorOf
  <1>2. r \in {Fail(ErrorOf(l), t0), Fail("IsADirectory", t0), Fail("NotADirectory", t0), o}
    BY Zenon DEF Unlink
  <1>3. Does(t0, In, o) /\ Does(t0, In, Fail(ErrorOf(l), t0))
    BY <1>1, RemoveDoes, FailDoes
  <1> HIDE DEF r, l, o
  <1>4. Does(t0, In, r)
    BY <1>2, <1>3, FailDoes
  <1> QED  BY <1>4 DEF r

LEMMA RmdirDoes ==
    ASSUME NEW t0, IsTree(t0), NEW In \in SUBSET Ino, Walled(t0, In), NEW p, IsPath(p)
    PROVE  Does(t0, In, Rmdir(t0, TRUE, p))
  <1> DEFINE r == Rmdir(t0, TRUE, p)
             l == Named(t0, TRUE, p)
             o == Ans("ok", Detach(t0, l.dir, l.name), l.ino)
  <1>1. LookIn(t0, In, l) /\ ErrorOf(l) # "ok"
    BY NamedStays DEF LookIn, Outcomes, ErrorOf
  <1>2. r \in {Fail(ErrorOf(l), t0), Fail("InvalidInput", t0), Fail("NotADirectory", t0),
               Fail("DirectoryNotEmpty", t0), o}
    BY Zenon DEF Rmdir
  <1>3. Does(t0, In, o) /\ Does(t0, In, Fail(ErrorOf(l), t0))
    BY <1>1, RemoveDoes, FailDoes
  <1> HIDE DEF r, l, o
  <1>4. Does(t0, In, r)
    BY <1>2, <1>3, FailDoes
  <1> QED  BY <1>4 DEF r

(* Both names of a hard link, or of a rename, are the root's.              *)
LEMMA HardLinkDoes ==
    ASSUME NEW t0, IsTree(t0), NEW In \in SUBSET Ino, Walled(t0, In), NEW p, IsPath(p),
           NEW q, IsPath(q)
    PROVE  Does(t0, In, HardLink(t0, TRUE, p, q))
  <1> DEFINE r == HardLink(t0, TRUE, p, q)
             s == Named(t0, TRUE, p)
             d == Named(t0, TRUE, q)
             o == Ans("ok", Attach(t0, d.dir, d.name, s.ino), s.ino)
  <1>1. LookIn(t0, In, s) /\ ErrorOf(s) # "ok" /\ LookIn(t0, In, d) /\ d.is # "ok"
    BY NamedStays DEF LookIn, Outcomes, ErrorOf
  <1>2. \/ r \in {Fail(ErrorOf(s), t0), Fail("NotADirectory", t0), Fail("AlreadyExists", t0),
                  Fail(d.is, t0), Fail("PermissionDenied", t0)}
        \/ r = o /\ ~IsDir(t0, s.ino)
    BY Zenon DEF HardLink
  <1>3. ASSUME ~IsDir(t0, s.ino)  PROVE Does(t0, In, o)
    <2>1. PICK c, n, i, t1 : c = d.dir /\ n = d.name /\ i = s.ino /\ t1 = Attach(t0, c, n, i)
      OBVIOUS
    <2> HIDE DEF s, d
    <2>2. c \in In /\ IsDir(t0, c) /\ i \in In /\ i # Root
      <3>1. IsDir(t0, Root)
        BY SidesOf
      <3> QED  BY <1>1, <1>3, <2>1, <3>1 DEF LookIn
    <2>3. Edit(t0, t1, In)
      BY <2>1, <2>2, AttachEdit
    <2>4. Does(t0, In, Ans("ok", t1, i))
      BY <2>2, <2>3, DoneDoes
    <2> QED  BY <2>1, <2>4
  <1>4. Does(t0, In, Fail(ErrorOf(s), t0)) /\ Does(t0, In, Fail(d.is, t0))
    BY <1>1, FailDoes
  <1> HIDE DEF r, s, d, o
  <1>5. Does(t0, In, r)
    BY <1>2, <1>3, <1>4, FailDoes
  <1> QED  BY <1>5 DEF r

LEMMA RenameDoes ==
    ASSUME NEW t0, IsTree(t0), NEW In \in SUBSET Ino, Walled(t0, In), NEW p, IsPath(p),
           NEW q, IsPath(q)
    PROVE  Does(t0, In, Rename(t0, TRUE, p, q))
  <1> DEFINE r == Rename(t0, TRUE, p, q)
             s == Named(t0, TRUE, p)
             d == Named(t0, TRUE, q)
             o == Ans("ok", Attach(Detach(t0, s.dir, s.name), d.dir, d.name, s.ino), s.ino)
  <1>1. LookIn(t0, In, s) /\ ErrorOf(s) # "ok" /\ LookIn(t0, In, d) /\ d.is # "ok"
    BY NamedStays DEF LookIn, Outcomes, ErrorOf
  <1>2. \/ r \in {Fail(ErrorOf(s), t0), Fail(d.is, t0), Fail("ResourceBusy", t0),
                  Fail("NotADirectory", t0), Fail("InvalidInput", t0), Fail("IsADirectory", t0),
                  Fail("DirectoryNotEmpty", t0), Ans("ok", t0, s.ino)}
        \/ r = o /\ Found(s) /\ s.name # ""
    BY Zenon DEF Rename
  <1>3. ASSUME Found(s), s.name # ""  PROVE Does(t0, In, o)
    <2>1. PICK b0, m, c, n, i, t1, t2 :
             /\ b0 = s.dir /\ m = s.name /\ c = d.dir /\ n = d.name /\ i = s.ino
             /\ t1 = Detach(t0, b0, m) /\ t2 = Attach(t1, c, n, i)
      OBVIOUS
    <2> HIDE DEF s, d
    <2>2. /\ b0 \in In /\ IsDir(t0, b0) /\ c \in In /\ IsDir(t0, c) /\ i \in In /\ i # Root
      BY <1>1, <1>3, <2>1 DEF LookIn
    <2>3. Edit(t0, t1, In) /\ Grown(t0, t1, In) = In
      BY <2>1, <2>2, DetachEdit
    <2>4. IsTree(t1) /\ Walled(t1, In) /\ IsDir(t1, c)
      BY <2>2, <2>3, SidesOf DEF Edit, IsDir, Kind
    <2>5. Edit(t1, t2, In)
      BY <2>1, <2>2, <2>4, AttachEdit
    <2>6. Edit(t0, t2, In)
      <3>1. Edit(t1, t2, Grown(t0, t1, In)) /\ \A x \in In : t0[x] # Free
        BY <2>3, <2>5, SidesOf
      <3> QED  BY <2>3, <3>1, EditThen
    <2>7. Does(t0, In, Ans("ok", t2, i))
      BY <2>2, <2>6, DoneDoes
    <2> QED  BY <2>1, <2>7
  <1>4. /\ Does(t0, In, Fail(ErrorOf(s), t0)) /\ Does(t0, In, Fail(d.is, t0))
        /\ Does(t0, In, Ans("ok", t0, s.ino))
    BY <1>1, FailDoes, EditSame, DoneDoes DEF LookIn
  <1> HIDE DEF r, s, d, o
  <1>5. Does(t0, In, r)
    BY <1>2, <1>3, <1>4, FailDoes
  <1> QED  BY <1>5 DEF r

-----------------------------------------------------------------------------
(* What a step of a call leaves standing.                                  *)

(* Of an edit beneath the root, once what nobody names is gone, the wall   *)
(* still stands, and everything outside is as it was.                      *)
LEMMA EditKeeps ==
    ASSUME NEW t0, IsTree(t0), NEW In \in SUBSET Ino, Walled(t0, In), NEW t1, Edit(t0, t1, In),
           NEW open \in SUBSET Grown(t0, t1, In), NEW t2, t2 = Reap(t1, open)
    PROVE  /\ IsTree(t2) /\ \E J \in SUBSET Ino : Walled(t2, J) /\ open \subseteq J
           /\ \A i \in open : t2[i] = t1[i]
           /\ \A i \in Outside(t0) : t2[i] = t0[i]
  <1>1. PICK W : W = Grown(t0, t1, In)
    OBVIOUS
  <1>2. W \in SUBSET Ino /\ IsTree(t1) /\ Walled(t1, W) /\ open \in SUBSET W
    BY <1>1 DEF Grown, Edit
  <1>3. /\ IsTree(t2) /\ Walled(t2, Kept(t2, W)) /\ open \subseteq Kept(t2, W)
        /\ \A i \in open \cup {Top, Root} : t2[i] = t1[i]
        /\ \A d \in Ino : \A i \in Children(t1, d) : t2[i] = t1[i]
    BY <1>2, ReapIs
  <1>4. Kept(t2, W) \in SUBSET Ino
    BY <1>2 DEF Kept
  <1>5. ASSUME NEW i \in Outside(t0)  PROVE t2[i] = t0[i]
    <2>1. /\ i \in Ino \ In /\ t0[i] # Free
          /\ i = Top \/ \E d \in Ino \ In : IsDir(t0, d) /\ i \in Children(t0, d)
      BY OutsideIs
    <2>2. t1[i] = t0[i]
      BY <2>1 DEF Edit
    <2>3. CASE i = Top
      BY <1>3, <2>2, <2>3
    <2>4. CASE \E d \in Ino \ In : IsDir(t0, d) /\ i \in Children(t0, d)
      <3>1. PICK d \in Ino \ In : IsDir(t0, d) /\ i \in Children(t0, d)
        BY <2>4
      <3>2. t1[d] = t0[d]
        BY <3>1 DEF Edit, IsDir, Kind, Free
      <3>3. i \in Children(t1, d)
        BY <3>1, <3>2, ChildrenOf
      <3> QED  BY <1>3, <2>2, <3>3
    <2> QED  BY <2>1, <2>3, <2>4
  <1> QED  BY <1>3, <1>4, <1>5

(* What was outside before an edit beneath the root is not among the nodes *)
(* inside after it.                                                        *)
LEMMA NotGrown ==
    ASSUME NEW t0, IsTree(t0), NEW In \in SUBSET Ino, Walled(t0, In), NEW t1
    PROVE  Grown(t0, t1, In) \cap Outside(t0) = {}
  <1> SUFFICES ASSUME NEW i \in Outside(t0), i \in Grown(t0, t1, In)  PROVE FALSE
    OBVIOUS
  <1>1. i \in Ino \ In /\ t0[i] # Free
    BY OutsideIs
  <1> QED  BY <1>1 DEF Grown

(* The open nodes are inside, of the kind the step at hand wants.          *)
Handles(s, d, m, k, e) == [src |-> s, dst |-> d, mode |-> m, link |-> k, err |-> e]
IsHandles(hh) == /\ hh = Handles(hh.src, hh.dst, hh.mode, hh.link, hh.err)
                 /\ IsPath(hh.link)
KindsAt(l, tree, hh) ==
    /\ l \in {"write.data", "append.data"} => hh.dst # NoIno
    /\ l \in {"copy_file.make", "copy_file.data", "copy_file.chmod"} => hh.src # NoIno
    /\ l \in {"copy_file.data", "copy_file.chmod", "copy_file.same"} =>
          hh.dst # NoIno /\ Kind(tree, hh.dst) = "file"
    /\ l = "copy_dir.chmod" => hh.dst # NoIno /\ IsDir(tree, hh.dst)
    /\ l = "rmtree.empty" => hh.src # NoIno /\ IsDir(tree, hh.src)

(* The tree is a tree, a wall stands around what is the root's with every  *)
(* open node inside it, and paths are paths.                               *)
Within == IsTree(t) /\ \E In \in SUBSET Ino : Walled(t, In) /\ Open(h) \subseteq In
Typed  == dir.comps \in Seq(Comps) /\ IsPath(a) /\ IsPath(b) /\ IsHandles(h)
FsInv  == /\ host \in Hosts /\ moves \in Nat
          /\ Confined => Within /\ Typed /\ KindsAt(pc, t, h)

Ready(In) == /\ FsInv /\ Confined
             /\ In \in SUBSET Ino /\ Walled(t, In) /\ Open(h) \subseteq In

(* What a step of the program's own does: it keeps the invariant, changes  *)
(* nothing outside, and an answer to a call in progress tells nothing of   *)
(* what is outside.                                                        *)
Safe == /\ host' = host /\ moves' = moves
        /\ Within' /\ Typed' /\ KindsAt(pc, t, h)'
        /\ \A i \in Outside(t) : t'[i] = t[i]
        /\ pc # "idle" /\ pc' = "idle" => result'.saw \cap Outside(t) = {}

(* The open nodes stay of their kinds when the tree's do.                  *)
LEMMA KindsStay ==
    ASSUME NEW l, NEW t1, NEW t2, NEW hh, KindsAt(l, t1, hh), \A i \in Open(hh) : t2[i].kind = t1[i].kind
    PROVE  KindsAt(l, t2, hh)
  <1>1. /\ hh.dst # NoIno => hh.dst \in Open(hh)
        /\ hh.src # NoIno => hh.src \in Open(hh)
    BY DEF Open
  <1> QED  BY <1>1 DEF KindsAt, IsDir, Kind

(* What a step finds, as facts.                                            *)
LEMMA ReadyIs ==
    ASSUME NEW In, Ready(In)
    PROVE  /\ IsTree(t) /\ In \in SUBSET Ino /\ Walled(t, In) /\ Open(h) \subseteq In /\ Confined
           /\ dir.comps \in Seq(Comps) /\ IsPath(a) /\ IsPath(b) /\ IsHandles(h)
           /\ KindsAt(pc, t, h)
  BY DEF Ready, FsInv, Within, Typed

LEMMA ConfinedIs ==
    ASSUME NEW In, Ready(In)
    PROVE  Confined = TRUE
  <1>1. Confined \in BOOLEAN
    BY FsAssumption DEF Ready, FsInv, Confined
  <1> QED  BY <1>1 DEF Ready

(* Going on to the next step.                                              *)
LEMMA GotoSafe ==
    ASSUME NEW In, Ready(In), NEW l, l # "idle", NEW tree, NEW hh, Goto(l, tree, hh),
           Edit(t, tree, In), IsHandles(hh), Open(hh) \subseteq Grown(t, tree, In),
           KindsAt(l, tree, hh)
    PROVE  Safe
  <1>1. /\ pc' = l /\ h' = hh /\ t' = Reap(tree, Open(hh)) /\ host' = host /\ moves' = moves
        /\ dir' = dir /\ a' = a /\ b' = b
    BY DEF Goto
  <1>2. /\ IsTree(t') /\ \E J \in SUBSET Ino : Walled(t', J) /\ Open(hh) \subseteq J
        /\ \A i \in Open(hh) : t'[i] = tree[i]
        /\ \A i \in Outside(t) : t'[i] = t[i]
    BY <1>1, ReadyIs, EditKeeps
  <1>3. KindsAt(l, t', hh)
    BY <1>2, KindsStay
  <1>4. Within' /\ Typed' /\ KindsAt(pc, t, h)'
    BY <1>1, <1>2, <1>3, ReadyIs DEF Within, Typed
  <1> QED  BY <1>1, <1>2, <1>4 DEF Safe

(* Answering.                                                              *)
LEMMA AnswersAtSafe ==
    ASSUME NEW In, Ready(In), NEW e, NEW tree, NEW S, NEW fault, AnswersAt(e, tree, S, fault),
           dir'.comps \in Seq(Comps), Edit(t, tree, In), S \subseteq Grown(t, tree, In)
    PROVE  Safe
  <1>1. /\ pc' = "idle" /\ h' = NoHandles /\ t' = Reap(tree, {}) /\ host' = host
        /\ moves' = moves /\ a' = a /\ b' = b /\ result'.saw = S
    BY DEF AnswersAt
  <1>2. /\ IsTree(t') /\ \E J \in SUBSET Ino : Walled(t', J) /\ {} \subseteq J
        /\ \A i \in Outside(t) : t'[i] = t[i]
    BY <1>1, ReadyIs, EditKeeps
  <1>3. Open(NoHandles) = {} /\ IsHandles(NoHandles) /\ KindsAt("idle", t', NoHandles)
    <2>1. IsPath(Nothing)
      BY EmptySeq, PathIs DEF Nothing
    <2>2. /\ NoHandles.src = NoIno /\ NoHandles.dst = NoIno /\ NoHandles.link = Nothing
          /\ NoHandles = Handles(NoIno, NoIno, {}, Nothing, "ok")
      BY DEF NoHandles, Handles
    <2>3. NoHandles.mode = {} /\ NoHandles.err = "ok"
      BY DEF NoHandles
    <2> QED  BY <2>1, <2>2, <2>3 DEF Open, IsHandles, KindsAt
  <1>4. Within' /\ Typed' /\ KindsAt(pc, t, h)'
    BY <1>1, <1>2, <1>3, ReadyIs DEF Within, Typed
  <1>5. S \cap Outside(t) = {}
    BY ReadyIs, NotGrown
  <1> QED  BY <1>1, <1>2, <1>4, <1>5 DEF Safe

LEMMA AnswersSafe ==
    ASSUME NEW In, Ready(In), NEW e, NEW tree, NEW S, NEW fault, Answers(e, tree, S, fault),
           Edit(t, tree, In), S \subseteq Grown(t, tree, In)
    PROVE  Safe
  <1>1. AnswersAt(e, tree, S, fault) /\ dir' = dir
    BY DEF Answers
  <1> QED  BY <1>1, ReadyIs, AnswersAtSafe

LEMMA LeaveSafe ==
    ASSUME NEW In, Ready(In), NEW e, NEW tree, Leave(e, tree), Edit(t, tree, In)
    PROVE  Safe
  <1>1. Answers(e, tree, {}, FALSE) /\ {} \subseteq Grown(t, tree, In)
    BY DEF Leave
  <1> QED  BY <1>1, AnswersSafe

(* An answer that leaves the tree alone.                                   *)
LEMMA LeftSafe ==
    ASSUME NEW In, Ready(In), NEW e, Leave(e, t)
    PROVE  Safe
  BY ReadyIs, EditSame, LeaveSafe

(* A system call's answer is passed on, or told.                           *)
LEMMA PassSafe ==
    ASSUME NEW In, Ready(In), NEW r, Pass(r), Edit(t, r.t, In)
    PROVE  Safe
  BY LeaveSafe DEF Pass

LEMMA TellSafe ==
    ASSUME NEW In, Ready(In), NEW r, Tell(r), Does(t, In, r)
    PROVE  Safe
  <1>1. Answers(r.err, r.t, {r.ino} \ {NoIno}, FALSE)
    BY DEF Tell
  <1>2. Edit(t, r.t, In) /\ {r.ino} \ {NoIno} \subseteq Grown(t, r.t, In)
    BY DEF Does
  <1> QED  BY <1>1, <1>2, AnswersSafe

(* Going on with the tree as it is and nothing more held open.             *)
LEMMA OnSafe ==
    ASSUME NEW In, Ready(In), NEW l, Goto(l, t, h),
           l \notin {"idle", "write.data", "append.data", "copy_file.make", "copy_file.data",
                     "copy_file.chmod", "copy_file.same", "copy_dir.chmod", "rmtree.empty"}
    PROVE  Safe
  <1>1. /\ Edit(t, t, In) /\ IsHandles(h) /\ Open(h) \subseteq Grown(t, t, In)
    BY ReadyIs, EditSame DEF Grown
  <1>2. l # "idle" /\ KindsAt(l, t, h)
    BY DEF KindsAt
  <1> QED  BY <1>1, <1>2, GotoSafe

(* The paths of the host are paths.                                        *)
LEMMA StrippedIs ==
    ASSUME NEW p, IsPath(p)
    PROVE  IsPath(SlashesStripped(p))
  BY PathsAre DEF SlashesStripped

LEMMA ParentOfPath ==
    ASSUME NEW p, IsPath(p)
    PROVE  Parent(p) \in Seq(Comps)
  <1>1. p.comps \in Seq(Comps)
    BY DEF IsPath
  <1>2. p.comps # <<>> => Front(p.comps) \in Seq(Comps)
    <2> SUFFICES ASSUME p.comps # <<>>  PROVE Front(p.comps) \in Seq(Comps)
      OBVIOUS
    <2>1. Len(p.comps) \in Nat /\ Len(p.comps) # 0
      BY <1>1, LenProperties, EmptySeq
    <2>2. 1 \in 1..(Len(p.comps) + 1) /\ Len(p.comps) - 1 \in 0..Len(p.comps)
      BY <2>1
    <2> QED  BY <1>1, <2>2, SubSeqProperties DEF Front
  <1> QED  BY <1>2, EmptySeq DEF Parent

(* The stat calls of a named path tell only of what is the root's.         *)
LEMMA AsNamedTells ==
    ASSUME NEW In, Ready(In), NEW p, IsPath(p)
    PROVE  /\ Tells(t, In, MetadataAsNamed(t, p))
           /\ Tells(t, In, MetadataFollowed(t, p))
  <1>1. Tells(t, In, Stat(t, TRUE, p)) /\ Tells(t, In, Lstat(t, TRUE, p))
    BY ReadyIs, StatTells, LstatTells
  <1>2. Confined = TRUE
    BY ConfinedIs
  <1> QED  BY <1>1, <1>2, Zenon DEF MetadataAsNamed, MetadataFollowed

-----------------------------------------------------------------------------
(* The steps of the calls, one lemma to an action.                         *)

(* read_file_at, stat_at, read_dir_at, readlink_at: the calls that only    *)
(* tell.                                                                   *)
LEMMA ReadFileSafe ==
    ASSUME NEW In, Ready(In), ReadFileAt
    PROVE  Safe
  <1>1. PICK r : r = OpenRead(t, TRUE, a, TRUE)
    OBVIOUS
  <1>2. Does(t, In, r)
    BY <1>1, ReadyIs, OpenTells, TellsDoes
  <1>3. Leave("IsADirectory", t) \/ Tell(r)
    BY <1>1, ConfinedIs DEF ReadFileAt
  <1> QED  BY <1>2, <1>3, LeftSafe, TellSafe

LEMMA StatSafe ==
    ASSUME NEW In, Ready(In), StatAt
    PROVE  Safe
  <1>1. Does(t, In, MetadataFollowed(t, a)) /\ Does(t, In, MetadataAsNamed(t, a))
    BY ReadyIs, AsNamedTells, TellsDoes
  <1> QED  BY <1>1, TellSafe DEF StatAt

LEMMA ReadDirSafe ==
    ASSUME NEW In, Ready(In), ReadDirAt
    PROVE  Safe
  <1>1. Does(t, In, OpenDir(t, TRUE, a, TRUE))
    BY ReadyIs, OpenTells, TellsDoes
  <1>2. Tell(OpenDir(t, TRUE, a, TRUE))
    BY ConfinedIs DEF ReadDirAt
  <1> QED  BY <1>1, <1>2, TellSafe

LEMMA ReadlinkSafe ==
    ASSUME NEW In, Ready(In), ReadlinkAt
    PROVE  Safe
  <1>1. Does(t, In, ReadLink(t, TRUE, a))
    BY ReadyIs, ReadLinkTells, TellsDoes
  <1>2. Tell(ReadLink(t, TRUE, a))
    BY ConfinedIs DEF ReadlinkAt
  <1> QED  BY <1>1, <1>2, TellSafe

(* open_at! of a file, and of a directory.                                 *)
LEMMA OpenReadSafe ==
    ASSUME NEW In, Ready(In), OpenReadAt
    PROVE  Safe
  <1>1. PICK f : f = (pc = "open")
    OBVIOUS
  <1>2. Does(t, In, OpenRead(t, TRUE, a, f))
    BY ReadyIs, OpenTells, TellsDoes
  <1>3. Tell(OpenRead(t, TRUE, a, f))
    BY <1>1, ConfinedIs DEF OpenReadAt
  <1> QED  BY <1>2, <1>3, TellSafe

LEMMA OpenDirSafe ==
    ASSUME NEW In, Ready(In), OpenDirAt
    PROVE  Safe
  <1>1. PICK r : r = OpenDir(t, Confined, a, pc = "open_dir")
    OBVIOUS
  <1>2. /\ AnswersAt(r.err, t, {}, FALSE)
        /\ dir' = IF r.err # "ok" THEN dir
                  ELSE [comps |-> (IF Confined THEN Base ELSE <<>>) \o a.comps, ino |-> r.ino]
    BY <1>1 DEF OpenDirAt
  <1>3. Base \o a.comps \in Seq(Comps)
    BY ReadyIs, FsAssumption, ConcatProperties DEF IsPath
  <1>4. dir' = dir \/ dir'.comps = Base \o a.comps
    BY <1>2, ConfinedIs
  <1>5. dir'.comps \in Seq(Comps)
    BY <1>3, <1>4, ReadyIs
  <1>6. Edit(t, t, In) /\ {} \subseteq Grown(t, t, In)
    BY ReadyIs, EditSame
  <1>7. PICK e, S, f : e = r.err /\ S = {} /\ f = FALSE
    OBVIOUS
  <1>8. AnswersAt(e, t, S, f) /\ S \subseteq Grown(t, t, In)
    BY <1>2, <1>6, <1>7
  <1> QED  BY <1>5, <1>6, <1>8, AnswersAtSafe

(* Holding what was just opened.                                           *)
LEMMA HeldIs ==
    ASSUME IsHandles(h), NEW i
    PROVE  /\ \A hh : hh = [h EXCEPT !.dst = i] =>
                 IsHandles(hh) /\ hh.dst = i /\ hh.src = h.src /\ Open(hh) \subseteq Open(h) \cup ({i} \ {NoIno})
           /\ \A hh : hh = [h EXCEPT !.src = i] =>
                 IsHandles(hh) /\ hh.src = i /\ Open(hh) \subseteq Open(h) \cup ({i} \ {NoIno})
  <1>1. h = Handles(h.src, h.dst, h.mode, h.link, h.err) /\ IsPath(h.link)
    BY DEF IsHandles
  <1>2. ASSUME NEW hh, hh = [h EXCEPT !.dst = i]
        PROVE  hh = Handles(h.src, i, h.mode, h.link, h.err)
    BY <1>1, <1>2 DEF Handles
  <1>3. ASSUME NEW hh, hh = [h EXCEPT !.src = i]
        PROVE  hh = Handles(i, h.dst, h.mode, h.link, h.err)
    BY <1>1, <1>3 DEF Handles
  <1>4. ASSUME NEW s, NEW d, NEW m, NEW k, NEW e, NEW hh, hh = Handles(s, d, m, k, e), IsPath(k)
        PROVE  IsHandles(hh) /\ Open(hh) = {s, d} \ {NoIno} /\ hh.src = s /\ hh.dst = d
    BY <1>4 DEF Handles, IsHandles, Open
  <1>5. ASSUME NEW hh, hh = [h EXCEPT !.dst = i]
        PROVE  IsHandles(hh) /\ hh.dst = i /\ hh.src = h.src /\ Open(hh) \subseteq Open(h) \cup ({i} \ {NoIno})
    BY <1>1, <1>2, <1>4, <1>5 DEF Open
  <1>6. ASSUME NEW hh, hh = [h EXCEPT !.src = i]
        PROVE  IsHandles(hh) /\ hh.src = i /\ Open(hh) \subseteq Open(h) \cup ({i} \ {NoIno})
    BY <1>1, <1>3, <1>4, <1>6 DEF Open
  <1> QED  BY <1>5, <1>6

(* What a step of create_dir_all does: it answers or goes on, with the tree *)
(* as it is or with one directory more, and holds open what it held.       *)
AllSteps == {"mkdir_all.name", "mkdir_all.climb", "mkdir_all.make", "mkdir_all.taken"}
Linked(hh) == IsHandles(hh) /\ Open(hh) = Open(h)

LEMMA LinkedIs ==
    ASSUME IsHandles(h), NEW p, IsPath(p), NEW e
    PROVE  /\ \A hh : hh = [h EXCEPT !.link = p] => Linked(hh)
           /\ \A hh : hh = [h EXCEPT !.err = e] => Linked(hh)
           /\ Linked(h)
  <1>1. h = Handles(h.src, h.dst, h.mode, h.link, h.err) /\ IsPath(h.link)
    BY DEF IsHandles
  <1>2. ASSUME NEW k, NEW x, NEW hh, hh = Handles(h.src, h.dst, h.mode, k, x), IsPath(k)
        PROVE  Linked(hh)
    BY <1>2 DEF Handles, IsHandles, Open, Linked
  <1>3. ASSUME NEW hh, hh = [h EXCEPT !.link = p]  PROVE Linked(hh)
    <2>1. hh = Handles(h.src, h.dst, h.mode, p, h.err)
      BY <1>1, <1>3 DEF Handles
    <2> QED  BY <1>2, <2>1
  <1>4. ASSUME NEW hh, hh = [h EXCEPT !.err = e]  PROVE Linked(hh)
    <2>1. hh = Handles(h.src, h.dst, h.mode, h.link, e)
      BY <1>1, <1>4 DEF Handles
    <2> QED  BY <1>1, <1>2, <2>1
  <1> QED  BY <1>1, <1>2, <1>3, <1>4

LEMMA ClimbsAre ==
    ASSUME NEW p, IsPath(p), NEW all, IsPath(all)
    PROVE  IsPath(UpFrom(p)) /\ IsPath(DownFrom(p, all))
  <1>1. /\ p.abs \in BOOLEAN /\ p.comps \in Seq(Comps)
        /\ all.abs \in BOOLEAN /\ all.comps \in Seq(Comps)
    BY DEF IsPath
  <1>2. PICK e : e = "" /\ e \in {"", "/", "/."}
    OBVIOUS
  <1>3. IsPath(UpFrom(p))
    <2>1. Parent(p) \in Seq(Comps)
      BY ParentOfPath
    <2>2. IsPath(Path(p.abs, Parent(p), e))
      BY <1>1, <1>2, <2>1, PathIs
    <2> QED  BY <1>2, <2>2 DEF UpFrom
  <1>4. PICK n : n = Len(p.comps) + 1
    OBVIOUS
  <1>5. n \in Int /\ Len(all.comps) \in Nat
    BY <1>1, <1>4, LenProperties
  <1>6. ASSUME n >= Len(all.comps)  PROVE IsPath(DownFrom(p, all))
    <2>1. DownFrom(p, all) = all
      BY <1>4, <1>6, Zenon DEF DownFrom
    <2> QED  BY <2>1
  <1>7. ASSUME ~(n >= Len(all.comps))  PROVE IsPath(DownFrom(p, all))
    <2>1. PICK c : c = all.comps
      OBVIOUS
    <2>2. \A i \in 1..n : i \in 1..Len(c)
      BY <1>5, <1>7, <2>1
    <2>3. \A i \in 1..n : c[i] \in Comps
      BY <1>1, <2>1, <2>2, ElementOfSeq
    <2>4. SubSeq(c, 1, n) \in Seq(Comps)
      BY <1>5, <2>3, SubSeqProperties
    <2>5. IsPath(Path(all.abs, SubSeq(c, 1, n), e))
      BY <1>1, <1>2, <2>4, PathIs
    <2>6. DownFrom(p, all) = Path(all.abs, SubSeq(c, 1, n), e)
      BY <1>2, <1>4, <1>7, <2>1, Zenon DEF DownFrom
    <2> QED  BY <2>5, <2>6
  <1> QED  BY <1>3, <1>6, <1>7

LEMMA MakeNextIs ==
    ASSUME IsPath(a), IsHandles(h), NEW x, MakeNext(x)
    PROVE  Leave("ok", x) \/ \E hh : Linked(hh) /\ Goto("mkdir_all.make", x, hh)
  <1>1. PICK all, p, hh : /\ all = SlashesStripped(a) /\ p = DownFrom(h.link, all)
                          /\ hh = [h EXCEPT !.link = p]
    OBVIOUS
  <1>2. Leave("ok", x) \/ Goto("mkdir_all.make", x, hh)
    BY <1>1 DEF MakeNext
  <1>3. IsPath(p)
    <2>1. IsPath(all) /\ IsPath(h.link)
      BY <1>1, StrippedIs DEF IsHandles
    <2> QED  BY <1>1, <2>1, ClimbsAre
  <1>4. Linked(hh)
    BY <1>1, <1>3, LinkedIs
  <1> QED  BY <1>2, <1>4

LEMMA MakesAre ==
    ASSUME IsPath(a), IsHandles(h),
           CreateDirAllThere \/ CreateDirAllName \/ CreateDirAllMake \/ CreateDirAllTaken
    PROVE  \E x, e, l, hh :
              /\ x = t \/ x = Mkdir(t, Confined, h.link, {"owner", "others"}).t
              /\ l \in AllSteps /\ Linked(hh)
              /\ Leave(e, x) \/ Goto(l, x, hh)
  <1>1. /\ "mkdir_all.name" \in AllSteps /\ "mkdir_all.climb" \in AllSteps
        /\ "mkdir_all.make" \in AllSteps /\ "mkdir_all.taken" \in AllSteps
    BY DEF AllSteps
  <1>2. Linked(h) /\ IsPath(h.link) /\ IsPath(SlashesStripped(a))
    BY LinkedIs, StrippedIs DEF IsHandles
  <1>3. CASE CreateDirAllThere
    <2>1. Leave("ok", t) \/ Goto("mkdir_all.name", t, h)
      BY <1>3 DEF CreateDirAllThere
    <2> QED  BY <1>1, <1>2, <2>1
  <1>4. CASE CreateDirAllName
    <2>1. PICK e, hh : e = NewDirectoryName(t, a) /\ hh = [h EXCEPT !.link = SlashesStripped(a)]
      OBVIOUS
    <2>2. Goto("mkdir_all.climb", t, hh) \/ Leave(e, t)
      BY <1>4, <2>1 DEF CreateDirAllName
    <2>3. Linked(hh)
      BY <1>2, <2>1, LinkedIs
    <2> QED  BY <1>1, <2>2, <2>3
  <1>5. CASE CreateDirAllMake
    <2>1. PICK r : r = Mkdir(t, Confined, h.link, {"owner", "others"})
      OBVIOUS
    <2>2. PICK u, v : u = [h EXCEPT !.link = UpFrom(@)] /\ v = [h EXCEPT !.err = r.err]
      OBVIOUS
    <2>3. MakeNext(r.t) \/ Goto("mkdir_all.climb", t, u) \/ Goto("mkdir_all.taken", t, v)
      BY <1>5, <2>1, <2>2 DEF CreateDirAllMake
    <2>4. Linked(u) /\ Linked(v)
      <3>1. IsPath(UpFrom(h.link))
        BY <1>2, ClimbsAre
      <3>2. u = [h EXCEPT !.link = UpFrom(h.link)]
        BY <2>2
      <3> QED  BY <2>2, <3>1, <3>2, LinkedIs
    <2>5. ASSUME MakeNext(r.t)
          PROVE  Leave("ok", r.t) \/ \E hh : Linked(hh) /\ Goto("mkdir_all.make", r.t, hh)
      BY <2>5, MakeNextIs
    <2> QED  BY <1>1, <2>1, <2>3, <2>4, <2>5
  <1>6. CASE CreateDirAllTaken
    <2>1. PICK e : e = h.err
      OBVIOUS
    <2>2. MakeNext(t) \/ Leave(e, t)
      BY <1>6, <2>1 DEF CreateDirAllTaken
    <2>3. ASSUME MakeNext(t)
          PROVE  Leave("ok", t) \/ \E hh : Linked(hh) /\ Goto("mkdir_all.make", t, hh)
      BY <2>3, MakeNextIs
    <2> QED  BY <1>1, <1>2, <2>2, <2>3
  <1> QED  BY <1>3, <1>4, <1>5, <1>6

(* Going on to write into what a call opened or made.                      *)
LEMMA MadeSafe ==
    ASSUME NEW In, Ready(In), NEW l \in {"write.data", "append.data", "copy_file.data"},
           NEW r, Does(t, In, r), r.err = "ok",
           l = "copy_file.data" => Kind(r.t, r.ino) = "file" /\ h.src # NoIno,
           Goto(l, r.t, [h EXCEPT !.dst = r.ino])
    PROVE  Safe
  <1>1. PICK i, hh : i = r.ino /\ hh = [h EXCEPT !.dst = i]
    OBVIOUS
  <1>2. IsHandles(hh) /\ hh.dst = r.ino /\ hh.src = h.src /\ Open(hh) \subseteq Open(h) \cup ({r.ino} \ {NoIno})
    <2>1. IsHandles(h)
      BY ReadyIs
    <2>2. \A x : x = [h EXCEPT !.dst = i] =>
             IsHandles(x) /\ x.dst = i /\ x.src = h.src /\ Open(x) \subseteq Open(h) \cup ({i} \ {NoIno})
      BY <2>1, HeldIs
    <2>3. IsHandles(hh) /\ hh.dst = i /\ hh.src = h.src /\ Open(hh) \subseteq Open(h) \cup ({i} \ {NoIno})
      BY <1>1, <2>2, Zenon
    <2> QED  BY <1>1, <2>3
  <1>3. Edit(t, r.t, In) /\ r.ino \in Grown(t, r.t, In)
    BY DEF Does
  <1>4. Open(hh) \subseteq Grown(t, r.t, In) /\ r.ino # NoIno
    <2>1. In \in SUBSET Ino /\ Open(h) \subseteq In
      BY ReadyIs
    <2> QED  BY <1>2, <1>3, <2>1, NoInoAssumption DEF Grown
  <1>5. KindsAt(l, r.t, hh)
    BY <1>2, <1>4 DEF KindsAt
  <1>6. Goto(l, r.t, hh) /\ l # "idle"
    BY <1>1
  <1> QED  BY <1>2, <1>3, <1>4, <1>5, <1>6, GotoSafe

(* write_file_at and the writers: what they opened is written in place.    *)
LEMMA WriteOpenSafe ==
    ASSUME NEW In, Ready(In), WriteOpen
    PROVE  Safe
  <1>1. PICK e, r : /\ e = RefuseDirectoryName(t, a)
                    /\ r = OpenWrite(t, TRUE, a, {"create", "truncate"})
    OBVIOUS
  <1>2. Does(t, In, r)
    BY <1>1, ReadyIs, OpenWriteDoes
  <1>3. \/ Leave(e, t)
        \/ Pass(r)
        \/ r.err = "ok" /\ Goto("write.data", r.t, [h EXCEPT !.dst = r.ino])
    BY <1>1, ConfinedIs DEF WriteOpen
  <1> QED  BY <1>2, <1>3, LeftSafe, PassSafe, MadeSafe DEF Does

LEMMA OpenWriteSafe ==
    ASSUME NEW In, Ready(In), OpenWriteAt
    PROVE  Safe
  <1>1. PICK flags : flags = WriteFlags[pc]
    OBVIOUS
  <1>2. PICK e, r : /\ e = IF IsDirAnswer(MetadataFollowed(t, a)) THEN "IsADirectory"
                           ELSE "NotADirectory"
                    /\ r = OpenWrite(t, TRUE, a, flags)
    OBVIOUS
  <1>3. Does(t, In, r)
    BY <1>2, ReadyIs, OpenWriteDoes
  <1>4. \/ Leave(e, t)
        \/ Pass(r)
        \/ r.err = "ok" /\ Goto("append.data", r.t, [h EXCEPT !.dst = r.ino])
        \/ Tell(r)
    BY <1>1, <1>2, ConfinedIs, Zenon DEF OpenWriteAt
  <1> QED  BY <1>3, <1>4, LeftSafe, PassSafe, MadeSafe, TellSafe DEF Does

(* The open node is written in place.                                      *)
LEMMA HeldIn ==
    ASSUME NEW In, Ready(In)
    PROVE  /\ h.dst # NoIno => h.dst \in In
           /\ h.src # NoIno => h.src \in In
  BY ReadyIs DEF Open

LEMMA PutEdit ==
    ASSUME NEW In, Ready(In), h.dst # NoIno, NEW d
    PROVE  Edit(t, Put(d), In)
  <1>1. PICK t1 : t1 = SetData(t, h.dst, d)
    OBVIOUS
  <1>2. CASE Kind(t, h.dst) = "file"
    <2>1. Edit(t, t1, In)
      BY <1>1, <1>2, ReadyIs, HeldIn, DataEdit
    <2> QED  BY <1>1, <1>2, <2>1 DEF Put, SetData
  <1>3. CASE Kind(t, h.dst) # "file"
    BY <1>3, ReadyIs, EditSame DEF Put
  <1> QED  BY <1>2, <1>3

LEMMA PutSafe ==
    ASSUME NEW In, Ready(In), WriteData \/ AppendData
    PROVE  Safe
  <1>1. h.dst # NoIno
    BY ReadyIs DEF KindsAt, WriteData, AppendData
  <1>2. PICK e, d, f : Answers(e, Put(d), {}, f)
    BY DEF WriteData, AppendData, Leave
  <1>3. Edit(t, Put(d), In) /\ {} \subseteq Grown(t, Put(d), In)
    BY <1>1, PutEdit
  <1> QED  BY <1>2, <1>3, AnswersSafe

(* create_dir_at, create_dir_all_at, remove_dir_at, unlink_file_at.        *)
LEMMA CreateDirSafe ==
    ASSUME NEW In, Ready(In), CreateDirName \/ CreateDirMake
    PROVE  Safe
  <1>1. CASE CreateDirName
    <2>1. PICK e : e = NewDirectoryName(t, a)
      OBVIOUS
    <2>2. Goto("mkdir.make", t, h) \/ Leave(e, t)
      BY <1>1, <2>1 DEF CreateDirName
    <2> QED  BY <2>2, LeftSafe, OnSafe
  <1>2. CASE CreateDirMake
    <2>1. PICK r : r = Mkdir(t, TRUE, SlashesStripped(a), {"owner", "others"})
      OBVIOUS
    <2>2. Does(t, In, r)
      BY <2>1, ReadyIs, StrippedIs, MkdirDoes
    <2>3. Pass(r)
      BY <1>2, <2>1, ConfinedIs DEF CreateDirMake
    <2> QED  BY <2>2, <2>3, PassSafe DEF Does
  <1> QED  BY <1>1, <1>2

LEMMA CreateDirAllSafe ==
    ASSUME NEW In, Ready(In),
           CreateDirAllThere \/ CreateDirAllName \/ CreateDirAllMake \/ CreateDirAllTaken
    PROVE  Safe
  <1>1. PICK x, e, l, hh : /\ x = t \/ x = Mkdir(t, Confined, h.link, {"owner", "others"}).t
                           /\ l \in AllSteps /\ Linked(hh)
                           /\ Leave(e, x) \/ Goto(l, x, hh)
    BY ReadyIs, MakesAre
  <1>2. Edit(t, x, In)
    <2>1. PICK r : r = Mkdir(t, TRUE, h.link, {"owner", "others"})
      OBVIOUS
    <2>2. Does(t, In, r)
      BY <2>1, ReadyIs, MkdirDoes DEF IsHandles
    <2>3. x = t \/ x = r.t
      BY <1>1, <2>1, ConfinedIs
    <2> QED  BY <2>2, <2>3, ReadyIs, EditSame DEF Does
  <1>3. CASE Leave(e, x)
    BY <1>2, <1>3, LeaveSafe
  <1>4. CASE Goto(l, x, hh)
    <2>1. IsHandles(hh) /\ Open(hh) \subseteq Grown(t, x, In)
      BY <1>1, ReadyIs DEF Linked, Grown
    <2>2. l # "idle" /\ KindsAt(l, x, hh)
      BY <1>1 DEF AllSteps, KindsAt
    <2> QED  BY <1>2, <1>4, <2>1, <2>2, GotoSafe
  <1> QED  BY <1>1, <1>3, <1>4

LEMMA RemoveDirSafe ==
    ASSUME NEW In, Ready(In), RemoveDirName \/ RemoveDirRemove
    PROVE  Safe
  <1>1. CASE RemoveDirName
    <2>1. PICK e : e = ExistingDirectoryName(t, a)
      OBVIOUS
    <2>2. Goto("rmdir.remove", t, h) \/ Leave(e, t)
      BY <1>1, <2>1 DEF RemoveDirName
    <2> QED  BY <2>2, LeftSafe, OnSafe
  <1>2. CASE RemoveDirRemove
    <2>1. PICK r : r = Rmdir(t, TRUE, SlashesStripped(a))
      OBVIOUS
    <2>2. Does(t, In, r)
      BY <2>1, ReadyIs, StrippedIs, RmdirDoes
    <2>3. Pass(r)
      BY <1>2, <2>1, ConfinedIs DEF RemoveDirRemove
    <2> QED  BY <2>2, <2>3, PassSafe DEF Does
  <1> QED  BY <1>1, <1>2

LEMMA UnlinkSafe ==
    ASSUME NEW In, Ready(In), UnlinkAt
    PROVE  Safe
  <1>1. PICK r : r = Unlink(t, TRUE, a)
    OBVIOUS
  <1>2. Does(t, In, r)
    BY <1>1, ReadyIs, UnlinkDoes
  <1>3. Pass(r)
    BY <1>1, ConfinedIs DEF UnlinkAt
  <1> QED  BY <1>2, <1>3, PassSafe DEF Does

(* remove_dir_all: its name, its directory held open, and each entry       *)
(* below.                                                                  *)
LEMMA RemoveTreeNameSafe ==
    ASSUME NEW In, Ready(In), RemoveDirAllName
    PROVE  Safe
  <1>1. PICK e : e = ExistingDirectoryName(t, a)
    OBVIOUS
  <1>2. Goto("rmtree.open", t, h) \/ Leave(e, t) \/ Leave("Unsupported", t)
    BY <1>1 DEF RemoveDirAllName
  <1> QED  BY <1>2, LeftSafe, OnSafe

LEMMA RemoveTreeOpenSafe ==
    ASSUME NEW In, Ready(In), RemoveTreeOpen
    PROVE  Safe
  <1>1. PICK p, l, e, r : /\ p = SlashesStripped(a) /\ l = Named(t, TRUE, p)
                          /\ e = ErrorOf(l) /\ r = Unlink(t, TRUE, p)
    OBVIOUS
  <1>2. IsPath(p) /\ LookIn(t, In, l) /\ Does(t, In, r)
    BY <1>1, ReadyIs, StrippedIs, NamedStays, UnlinkDoes
  <1>3. \/ Leave(e, t) \/ Leave("NotADirectory", t) \/ Pass(r)
        \/ IsDir(t, l.ino) /\ Goto("rmtree.empty", t, [h EXCEPT !.src = l.ino])
    BY <1>1, ConfinedIs DEF RemoveTreeOpen
  <1>4. ASSUME IsDir(t, l.ino), Goto("rmtree.empty", t, [h EXCEPT !.src = l.ino])  PROVE Safe
    <2>1. PICK i, hh : i = l.ino /\ hh = [h EXCEPT !.src = i]
      OBVIOUS
    <2>2. IsHandles(h) /\ In \in SUBSET Ino /\ Open(h) \subseteq In /\ i \in In
      BY <1>2, <2>1, ReadyIs DEF LookIn
    <2>3. \A x : x = [h EXCEPT !.src = i] =>
             IsHandles(x) /\ x.src = i /\ Open(x) \subseteq Open(h) \cup ({i} \ {NoIno})
      BY <2>2, HeldIs
    <2>4. IsHandles(hh) /\ hh.src = i /\ Open(hh) \subseteq Open(h) \cup ({i} \ {NoIno})
      BY <2>1, <2>3, Zenon
    <2>5. Edit(t, t, In) /\ Open(hh) \subseteq Grown(t, t, In)
      BY <2>2, <2>4, ReadyIs, EditSame DEF Grown
    <2>6. KindsAt("rmtree.empty", t, hh)
      BY <1>4, <2>1, <2>2, <2>4, NoInoAssumption DEF KindsAt
    <2>7. Goto("rmtree.empty", t, hh)
      BY <1>4, <2>1
    <2> QED  BY <2>4, <2>5, <2>6, <2>7, GotoSafe
  <1> QED  BY <1>2, <1>3, <1>4, LeftSafe, PassSafe DEF Does

(* Whatever is below the directory held open is inside.                    *)
LEMMA RemoveTreeEntrySafe ==
    ASSUME NEW In, Ready(In), RemoveTreeEntry
    PROVE  Safe
  <1>1. PICK d, n : /\ d \in Below(t, h.src) /\ IsDir(t, d)
                    /\ Goto("rmtree.empty", Detach(t, d, n), h)
    BY DEF RemoveTreeEntry
  <1>2. h.src # NoIno /\ IsDir(t, h.src)
    BY ReadyIs DEF KindsAt, RemoveTreeEntry
  <1>3. h.src \in In /\ h.src \in Ino
    BY <1>2, HeldIn, ReadyIs
  <1>4. d \in In
    BY <1>1, <1>3, ReadyIs, BelowStays
  <1>5. PICK t1 : t1 = Detach(t, d, n)
    OBVIOUS
  <1>6. Edit(t, t1, In) /\ Grown(t, t1, In) = In
    BY <1>1, <1>4, <1>5, ReadyIs, DetachEdit
  <1>7. IsDir(t1, h.src)
    BY <1>2, <1>3, <1>6 DEF Edit, IsDir, Kind, Free
  <1>8. KindsAt("rmtree.empty", t1, h)
    BY <1>2, <1>7 DEF KindsAt
  <1>9. Goto("rmtree.empty", t1, h) /\ IsHandles(h) /\ Open(h) \subseteq Grown(t, t1, In)
    BY <1>1, <1>5, <1>6, ReadyIs
  <1> QED  BY <1>6, <1>8, <1>9, GotoSafe

LEMMA RemoveTreeFailsSafe ==
    ASSUME NEW In, Ready(In), RemoveTreeFails
    PROVE  Safe
  <1>1. PICK e, S, f : e = "PermissionDenied" /\ S = {} /\ f = TRUE
    OBVIOUS
  <1>2. Answers(e, t, S, f)
    BY <1>1 DEF RemoveTreeFails
  <1>3. Edit(t, t, In) /\ S \subseteq Grown(t, t, In)
    BY <1>1, ReadyIs, EditSame
  <1> QED  BY <1>2, <1>3, AnswersSafe

(* And the directory itself.                                               *)
LEMMA RemoveTreeLastSafe ==
    ASSUME NEW In, Ready(In), RemoveTreeLast
    PROVE  Safe
  <1>1. PICK r : r = Rmdir(t, TRUE, SlashesStripped(a))
    OBVIOUS
  <1>2. Does(t, In, r)
    BY <1>1, ReadyIs, StrippedIs, RmdirDoes
  <1>3. Pass(r)
    BY <1>1, ConfinedIs DEF RemoveTreeLast
  <1> QED  BY <1>2, <1>3, PassSafe DEF Does

(* rename_at and link_at: the check of what a moved link leads to.         *)
LEMMA MoveStartSafe ==
    ASSUME NEW In, Ready(In), RenameAt \/ LinkAt \/ StayKind
    PROVE  Safe
  <1>1. PICK e : e = RenamedSource(t, a, b)
    OBVIOUS
  <1>2. \/ \E l \in {"stay.kind", "stay.read", "move"} : Goto(l, t, h)
        \/ Leave(e, t) \/ Leave("NotADirectory", t)
    BY <1>1 DEF RenameAt, LinkAt, StayKind, MoveNow
  <1> QED  BY <1>2, LeftSafe, OnSafe

LEMMA StayReadSafe ==
    ASSUME NEW In, Ready(In), StayRead
    PROVE  Safe
  <1>1. PICK r : r = ReadLink(t, TRUE, a)
    OBVIOUS
  <1>2. Tells(t, In, r) /\ (r.err = "ok" => Kind(t, r.ino) = "link")
    BY <1>1, ReadyIs, ReadLinkTells
  <1>3. \/ Pass(r)
        \/ Goto("move", t, h)
        \/ r.err = "ok" /\ Goto("stay.aim", t, [h EXCEPT !.link = t[r.ino].to])
    BY <1>1 DEF StayRead
  <1>4. ASSUME r.err = "ok", Goto("stay.aim", t, [h EXCEPT !.link = t[r.ino].to])  PROVE Safe
    <2>1. PICK k, hh : k = t[r.ino].to /\ hh = [h EXCEPT !.link = k]
      OBVIOUS
    <2>2. IsPath(k)
      <3>1. r.ino \in Ino /\ t[r.ino].kind = "link"
        BY <1>2, <1>4, ReadyIs DEF Tells, Kind
      <3>2. IsNode(t, t[r.ino])
        BY <3>1, ReadyIs DEF IsTree
      <3> QED  BY <2>1, <3>1, <3>2, KindIs
    <2>3. h = Handles(h.src, h.dst, h.mode, h.link, h.err)
      BY ReadyIs DEF IsHandles
    <2>4. hh = Handles(h.src, h.dst, h.mode, k, h.err)
      BY <2>1, <2>3 DEF Handles
    <2>5. hh.src = h.src /\ hh.dst = h.dst /\ hh.mode = h.mode /\ hh.link = k /\ hh.err = h.err
      BY <2>4 DEF Handles
    <2>6. IsHandles(hh) /\ Open(hh) = Open(h)
      BY <2>2, <2>4, <2>5 DEF IsHandles, Open
    <2>7. Edit(t, t, In) /\ Open(hh) \subseteq Grown(t, t, In)
      BY <2>6, ReadyIs, EditSame DEF Grown
    <2>8. Goto("stay.aim", t, hh) /\ KindsAt("stay.aim", t, hh)
      BY <1>4, <2>1 DEF KindsAt
    <2> QED  BY <2>6, <2>7, <2>8, GotoSafe
  <1>5. Does(t, In, r)
    BY <1>2, ReadyIs, TellsDoes
  <1> QED  BY <1>3, <1>4, <1>5, OnSafe, PassSafe DEF Does

(* Then the move itself.                                                   *)
LEMMA StayAimSafe ==
    ASSUME NEW In, Ready(In), StayAim
    PROVE  Safe
  <1>1. Goto("move", t, h) \/ Leave("PermissionDenied", t)
    BY DEF StayAim
  <1> QED  BY <1>1, LeftSafe, OnSafe

LEMMA MoveSafe ==
    ASSUME NEW In, Ready(In), Move
    PROVE  Safe
  <1>1. PICK r, s : r = Rename(t, TRUE, a, b) /\ s = HardLink(t, TRUE, a, b)
    OBVIOUS
  <1>2. Does(t, In, r) /\ Does(t, In, s)
    BY <1>1, ReadyIs, RenameDoes, HardLinkDoes
  <1>3. Pass(r) \/ Pass(s)
    BY <1>1, ConfinedIs DEF Move
  <1> QED  BY <1>2, <1>3, PassSafe DEF Does

(* symlink_at.                                                             *)
LEMMA SymlinkSafe ==
    ASSUME NEW In, Ready(In), SymlinkCheck \/ SymlinkMake
    PROVE  Safe
  <1>1. CASE SymlinkCheck
    <2>1. PICK e, x : e = RefuseDirectoryName(t, a) /\ x = TargetInside(t, a, b)
      OBVIOUS
    <2>2. Leave("NotFound", t) \/ Leave(e, t) \/ Leave(x, t) \/ Goto("symlink.make", t, h)
      BY <1>1, <2>1 DEF SymlinkCheck
    <2> QED  BY <2>2, LeftSafe, OnSafe
  <1>2. CASE SymlinkMake
    <2>1. PICK r : r = Symlink(t, TRUE, b, a)
      OBVIOUS
    <2>2. Does(t, In, r)
      BY <2>1, ReadyIs, SymlinkDoes
    <2>3. Pass(r)
      BY <1>2, <2>1, ConfinedIs DEF SymlinkMake
    <2> QED  BY <2>2, <2>3, PassSafe DEF Does
  <1> QED  BY <1>1, <1>2

(* copy_file: between the nodes it holds.                                  *)
LEMMA CopyFileOpenSafe ==
    ASSUME NEW In, Ready(In), CopyFileOpen
    PROVE  Safe
  <1>1. PICK e, r : e = RefuseDirectoryName(t, b) /\ r = OpenRead(t, TRUE, a, TRUE)
    OBVIOUS
  <1>2. Tells(t, In, r)
    BY <1>1, ReadyIs, OpenTells
  <1>3. PICK m : m = CopyMode(t[r.ino].mode)
    OBVIOUS
  <1>4. \/ Leave(e, t) \/ Pass(r) \/ Leave("IsADirectory", t) \/ Leave("InvalidInput", t)
        \/ r.err = "ok" /\ Goto("copy_file.make", t, [h EXCEPT !.src = r.ino, !.mode = m])
    BY <1>1, <1>3, ConfinedIs DEF CopyFileOpen
  <1>5. ASSUME r.err = "ok", Goto("copy_file.make", t, [h EXCEPT !.src = r.ino, !.mode = m])
        PROVE  Safe
    <2>1. PICK i, hh : i = r.ino /\ hh = [h EXCEPT !.src = i, !.mode = m]
      OBVIOUS
    <2>2. h = Handles(h.src, h.dst, h.mode, h.link, h.err) /\ IsPath(h.link)
      BY ReadyIs DEF IsHandles
    <2>3. hh = Handles(i, h.dst, m, h.link, h.err)
      BY <2>1, <2>2 DEF Handles
    <2>4. hh.src = i /\ hh.dst = h.dst /\ hh.mode = m /\ hh.link = h.link /\ hh.err = h.err
      BY <2>3 DEF Handles
    <2>5. IsHandles(hh) /\ Open(hh) \subseteq Open(h) \cup {i}
      BY <2>2, <2>3, <2>4 DEF IsHandles, Open
    <2>6. i \in In /\ In \in SUBSET Ino /\ Open(h) \subseteq In
      BY <1>2, <1>5, <2>1, ReadyIs DEF Tells
    <2>7. Edit(t, t, In) /\ Open(hh) \subseteq Grown(t, t, In)
      BY <2>5, <2>6, ReadyIs, EditSame DEF Grown
    <2>8. KindsAt("copy_file.make", t, hh)
      BY <2>4, <2>6, NoInoAssumption DEF KindsAt
    <2>9. Goto("copy_file.make", t, hh)
      BY <1>5, <2>1
    <2> QED  BY <2>5, <2>7, <2>8, <2>9, GotoSafe
  <1>6. Does(t, In, r)
    BY <1>2, ReadyIs, TellsDoes
  <1> QED  BY <1>4, <1>5, <1>6, LeftSafe, PassSafe DEF Does

LEMMA CopyFileMakeSafe ==
    ASSUME NEW In, Ready(In), CopyFileMake
    PROVE  Safe
  <1>1. PICK m, r : m = h.mode /\ r = CreateNew(t, TRUE, b, m)
    OBVIOUS
  <1>2. Does(t, In, r) /\ (r.err = "ok" => r.t[r.ino] = FileNode("empty", m \ Umask))
    <2>1. IsTree(t) /\ In \in SUBSET Ino /\ Walled(t, In) /\ IsPath(b)
      BY ReadyIs
    <2>2. LET q == CreateNew(t, TRUE, b, m)
          IN  Does(t, In, q) /\ (q.err = "ok" => q.t[q.ino] = FileNode("empty", m \ Umask))
      BY <2>1, CreateNewDoes, Zenon
    <2> QED  BY <1>1, <2>2, Zenon
  <1>3. r.err = "ok" => Kind(r.t, r.ino) = "file"
    BY <1>2 DEF Kind, FileNode
  <1>4. PICK e : e = IF Confined /\ r.err = "IsADirectory" THEN "AlreadyExists" ELSE r.err
    OBVIOUS
  <1>5. \/ e = "ok" /\ Goto("copy_file.data", r.t, [h EXCEPT !.dst = r.ino])
        \/ Leave(e, t)
    BY <1>1, <1>4, ConfinedIs DEF CopyFileMake
  <1>6. e = "ok" => r.err = "ok"
    BY <1>4
  <1>7. h.src # NoIno
    BY ReadyIs DEF KindsAt, CopyFileMake
  <1> QED  BY <1>2, <1>3, <1>5, <1>6, <1>7, LeftSafe, MadeSafe

(* A step that fails: nothing is closed.                                   *)
LEMMA FailsSafe ==
    ASSUME NEW In, Ready(In), NEW l, l # "idle", pc' = l, Edit(t, t', In), IsHandles(h'),
           Open(h') = Open(h), KindsAt(l, t', h'),
           UNCHANGED <<host, dir, a, b, moves>>
    PROVE  Safe
  <1>1. IsTree(t') /\ Walled(t', Grown(t, t', In)) /\ Grown(t, t', In) \in SUBSET Ino
    BY ReadyIs DEF Edit, Grown
  <1>2. Open(h') \subseteq Grown(t, t', In)
    BY ReadyIs DEF Grown
  <1>3. Within' /\ Typed' /\ KindsAt(pc, t, h)'
    BY <1>1, <1>2, ReadyIs DEF Within, Typed
  <1>4. ASSUME NEW i \in Outside(t)  PROVE t'[i] = t[i]
    BY ReadyIs, OutsideIs DEF Edit
  <1> QED  BY <1>3, <1>4 DEF Safe

LEMMA CopyFileDataSafe ==
    ASSUME NEW In, Ready(In), CopyFileData
    PROVE  Safe
  <1>1. h.dst \in In /\ h.src # NoIno /\ h.dst # NoIno /\ Kind(t, h.dst) = "file"
    BY ReadyIs, HeldIn DEF KindsAt, CopyFileData
  <1>2. PICK d, t1, t2 : /\ d = t[h.src].data
                         /\ t1 = SetData(t, h.dst, d) /\ t2 = SetData(t, h.dst, "part")
    OBVIOUS
  <1>3. /\ Edit(t, t1, In) /\ Grown(t, t1, In) = In
        /\ Edit(t, t2, In) /\ Grown(t, t2, In) = In
    BY <1>1, <1>2, ReadyIs, DataEdit
  <1>4. Kind(t1, h.dst) = "file" /\ Kind(t2, h.dst) = "file"
    <2>1. h.dst \in Ino /\ t[h.dst] # Free
      BY <1>1, ReadyIs DEF Kind, Free
    <2> QED  BY <1>1, <1>3, <2>1 DEF Edit, Kind
  <1>5. \/ Goto("copy_file.chmod", t1, h)
        \/ CopyFails /\ t' = t2
    BY <1>2 DEF CopyFileData, SetData
  <1>6. CASE Goto("copy_file.chmod", t1, h)
    <2>1. KindsAt("copy_file.chmod", t1, h) /\ IsHandles(h) /\ Open(h) \subseteq Grown(t, t1, In)
      BY <1>1, <1>3, <1>4, ReadyIs DEF KindsAt
    <2> QED  BY <1>3, <1>6, <2>1, GotoSafe
  <1>7. CASE CopyFails /\ t' = t2
    <2>1. pc' = "copy_file.same" /\ h' = h /\ UNCHANGED <<host, dir, a, b, moves>>
      BY <1>7 DEF CopyFails
    <2>2. KindsAt("copy_file.same", t', h') /\ IsHandles(h') /\ Open(h') = Open(h)
      BY <1>1, <1>4, <1>7, <2>1, ReadyIs DEF KindsAt
    <2>3. Edit(t, t', In)
      BY <1>3, <1>7
    <2> QED  BY <2>1, <2>2, <2>3, FailsSafe
  <1> QED  BY <1>5, <1>6, <1>7

LEMMA CopyFileChmodSafe ==
    ASSUME NEW In, Ready(In), CopyFileChmod
    PROVE  Safe
  <1>1. h.dst \in In /\ h.src \in In /\ h.dst # NoIno /\ Kind(t, h.dst) = "file"
    BY ReadyIs, HeldIn DEF KindsAt, CopyFileChmod
  <1>2. PICK t1 : t1 = SetMode(t, h.dst, h.mode)
    OBVIOUS
  <1>3. Edit(t, t1, In) /\ Grown(t, t1, In) = In
    BY <1>1, <1>2, ReadyIs, ModeEdit
  <1>4. \/ Answers("ok", t1, {h.src}, FALSE)
        \/ CopyFails /\ t' = t
    BY <1>2 DEF CopyFileChmod, SetMode
  <1>5. CASE Answers("ok", t1, {h.src}, FALSE)
    BY <1>1, <1>3, <1>5, AnswersSafe
  <1>6. CASE CopyFails /\ t' = t
    <2>1. pc' = "copy_file.same" /\ h' = h /\ UNCHANGED <<host, dir, a, b, moves>>
      BY <1>6 DEF CopyFails
    <2>2. KindsAt("copy_file.same", t', h') /\ IsHandles(h') /\ Open(h') = Open(h)
      BY <1>1, <1>6, <2>1, ReadyIs DEF KindsAt
    <2>3. Edit(t, t', In)
      BY <1>6, ReadyIs, EditSame
    <2> QED  BY <2>1, <2>2, <2>3, FailsSafe
  <1> QED  BY <1>4, <1>5, <1>6

LEMMA CopyFileEndSafe ==
    ASSUME NEW In, Ready(In), CopyFileSame \/ CopyFileRemove
    PROVE  Safe
  <1>1. PICK r : r = Unlink(t, TRUE, b)
    OBVIOUS
  <1>2. Does(t, In, r)
    BY <1>1, ReadyIs, UnlinkDoes
  <1>3. Goto("copy_file.remove", t, h) \/ Leave("StorageFull", t) \/ Leave("StorageFull", r.t)
    BY <1>1, ConfinedIs DEF CopyFileSame, CopyFileRemove
  <1> QED  BY <1>2, <1>3, LeftSafe, LeaveSafe, OnSafe DEF Does

(* copy_dir: the directory it made and opened.                             *)
LEMMA CopyDirStatSafe ==
    ASSUME NEW In, Ready(In), CopyDirStat
    PROVE  Safe
  <1>1. PICK r : r = MetadataAsNamed(t, a)
    OBVIOUS
  <1>2. Does(t, In, r)
    BY <1>1, ReadyIs, AsNamedTells, TellsDoes
  <1>3. PICK m : m = CopyDirMode(t[r.ino].mode)
    OBVIOUS
  <1>4. \/ Pass(r) \/ Leave("NotADirectory", t)
        \/ Goto("copy_dir.name", t, [h EXCEPT !.mode = m])
    BY <1>1, <1>3 DEF CopyDirStat
  <1>5. ASSUME Goto("copy_dir.name", t, [h EXCEPT !.mode = m])  PROVE Safe
    <2>1. PICK hh : hh = [h EXCEPT !.mode = m]
      OBVIOUS
    <2>2. h = Handles(h.src, h.dst, h.mode, h.link, h.err) /\ IsPath(h.link)
      BY ReadyIs DEF IsHandles
    <2>3. hh = Handles(h.src, h.dst, m, h.link, h.err)
      BY <2>1, <2>2 DEF Handles
    <2>4. hh.src = h.src /\ hh.dst = h.dst /\ hh.mode = m /\ hh.link = h.link /\ hh.err = h.err
      BY <2>3 DEF Handles
    <2>5. IsHandles(hh) /\ Open(hh) = Open(h)
      BY <2>2, <2>3, <2>4 DEF IsHandles, Open
    <2>6. Edit(t, t, In) /\ Open(hh) \subseteq Grown(t, t, In)
      BY <2>5, ReadyIs, EditSame DEF Grown
    <2>7. KindsAt("copy_dir.name", t, hh) /\ Goto("copy_dir.name", t, hh)
      BY <1>5, <2>1 DEF KindsAt
    <2> QED  BY <2>5, <2>6, <2>7, GotoSafe
  <1> QED  BY <1>2, <1>4, <1>5, LeftSafe, PassSafe DEF Does

LEMMA CopyDirMakeSafe ==
    ASSUME NEW In, Ready(In), CopyDirName \/ CopyDirMake
    PROVE  Safe
  <1>1. CASE CopyDirName
    <2>1. PICK e : e = NewDirectoryName(t, b)
      OBVIOUS
    <2>2. Goto("copy_dir.make", t, h) \/ Leave(e, t)
      BY <1>1, <2>1 DEF CopyDirName
    <2> QED  BY <2>2, LeftSafe, OnSafe
  <1>2. CASE CopyDirMake
    <2>1. PICK r : r = Mkdir(t, TRUE, SlashesStripped(b), {"owner"})
      OBVIOUS
    <2>2. Does(t, In, r)
      BY <2>1, ReadyIs, StrippedIs, MkdirDoes
    <2>3. Goto("copy_dir.open", r.t, h) \/ Pass(r)
      BY <1>2, <2>1, ConfinedIs DEF CopyDirMake
    <2>4. CASE Goto("copy_dir.open", r.t, h)
      <3>1. /\ Edit(t, r.t, In) /\ IsHandles(h) /\ Open(h) \subseteq Grown(t, r.t, In)
        BY <2>2, ReadyIs DEF Does, Grown
      <3>2. KindsAt("copy_dir.open", r.t, h)
        BY DEF KindsAt
      <3> QED  BY <2>4, <3>1, <3>2, GotoSafe
    <2> QED  BY <2>2, <2>3, <2>4, PassSafe DEF Does
  <1> QED  BY <1>1, <1>2

LEMMA CopyDirOpenSafe ==
    ASSUME NEW In, Ready(In), CopyDirOpen
    PROVE  Safe
  <1>1. PICK r : r = OpenDir(t, TRUE, SlashesStripped(b), FALSE)
    OBVIOUS
  <1>2. Tells(t, In, r) /\ (r.err = "ok" => IsDir(t, r.ino))
    BY <1>1, ReadyIs, StrippedIs, OpenTells
  <1>3. PICK i, e, hh, gg : /\ i = r.ino /\ hh = [h EXCEPT !.dst = i]
                            /\ e = r.err /\ gg = [h EXCEPT !.err = e]
    OBVIOUS
  <1>4. h = Handles(h.src, h.dst, h.mode, h.link, h.err) /\ IsPath(h.link)
    BY ReadyIs DEF IsHandles
  <1>5. /\ hh = Handles(h.src, i, h.mode, h.link, h.err)
        /\ gg = Handles(h.src, h.dst, h.mode, h.link, e)
    BY <1>3, <1>4 DEF Handles
  <1>6. /\ hh.src = h.src /\ hh.dst = i /\ hh.mode = h.mode /\ hh.link = h.link /\ hh.err = h.err
        /\ gg.src = h.src /\ gg.dst = h.dst /\ gg.mode = h.mode /\ gg.link = h.link /\ gg.err = e
    BY <1>5 DEF Handles
  <1>7. /\ IsHandles(hh) /\ Open(hh) \subseteq Open(h) \cup {i}
        /\ IsHandles(gg) /\ Open(gg) = Open(h)
    BY <1>4, <1>5, <1>6 DEF IsHandles, Open
  <1>8. In \in SUBSET Ino /\ Open(h) \subseteq In /\ Edit(t, t, In) /\ In \subseteq Grown(t, t, In)
    BY ReadyIs, EditSame DEF Grown
  <1>9. \/ r.err = "ok" /\ Goto("copy_dir.chmod", t, hh)
        \/ Goto("copy_dir.remove", t, gg)
    BY <1>1, <1>3, ConfinedIs DEF CopyDirOpen
  <1>10. CASE r.err = "ok" /\ Goto("copy_dir.chmod", t, hh)
    <2>1. i \in In /\ IsDir(t, i) /\ i # NoIno
      BY <1>2, <1>3, <1>8, <1>10, NoInoAssumption DEF Tells
    <2>2. KindsAt("copy_dir.chmod", t, hh) /\ Open(hh) \subseteq Grown(t, t, In)
      BY <1>6, <1>7, <1>8, <2>1 DEF KindsAt
    <2> QED  BY <1>7, <1>8, <1>10, <2>2, GotoSafe
  <1>11. CASE Goto("copy_dir.remove", t, gg)
    <2>1. KindsAt("copy_dir.remove", t, gg) /\ Open(gg) \subseteq Grown(t, t, In)
      BY <1>7, <1>8 DEF KindsAt
    <2> QED  BY <1>7, <1>8, <1>11, <2>1, GotoSafe
  <1> QED  BY <1>9, <1>10, <1>11

LEMMA CopyDirChmodSafe ==
    ASSUME NEW In, Ready(In), CopyDirChmod
    PROVE  Safe
  <1>1. h.dst \in In /\ IsDir(t, h.dst)
    BY ReadyIs, HeldIn DEF KindsAt, CopyDirChmod
  <1>2. PICK t1, gg : t1 = SetMode(t, h.dst, h.mode) /\ gg = [h EXCEPT !.err = "StorageFull"]
    OBVIOUS
  <1>3. Edit(t, t1, In)
    BY <1>1, <1>2, ReadyIs, ModeEdit DEF IsDir
  <1>4. \/ Leave("ok", t1)
        \/ /\ pc' = "copy_dir.remove" /\ h' = gg
           /\ UNCHANGED <<host, t, dir, a, b, moves>>
    BY <1>2 DEF CopyDirChmod, SetMode
  <1>5. CASE Leave("ok", t1)
    BY <1>3, <1>5, LeaveSafe
  <1>6. CASE /\ pc' = "copy_dir.remove" /\ h' = gg
             /\ UNCHANGED <<host, t, dir, a, b, moves>>
    <2>1. h = Handles(h.src, h.dst, h.mode, h.link, h.err) /\ IsPath(h.link)
      BY ReadyIs DEF IsHandles
    <2>2. gg = Handles(h.src, h.dst, h.mode, h.link, "StorageFull")
      BY <1>2, <2>1 DEF Handles
    <2>3. /\ gg.src = h.src /\ gg.dst = h.dst /\ gg.mode = h.mode /\ gg.link = h.link
          /\ gg.err = "StorageFull"
      BY <2>2 DEF Handles
    <2>4. IsHandles(gg) /\ Open(gg) = Open(h)
      BY <2>1, <2>2, <2>3 DEF IsHandles, Open
    <2>5. KindsAt("copy_dir.remove", t', h')
      BY DEF KindsAt
    <2>6. Edit(t, t', In)
      BY <1>6, ReadyIs, EditSame
    <2> QED  BY <1>6, <2>4, <2>5, <2>6, FailsSafe
  <1> QED  BY <1>4, <1>5, <1>6

LEMMA CopyDirRemoveSafe ==
    ASSUME NEW In, Ready(In), CopyDirRemove
    PROVE  Safe
  <1>1. PICK e, r : e = h.err /\ r = Rmdir(t, TRUE, SlashesStripped(b))
    OBVIOUS
  <1>2. Does(t, In, r)
    BY <1>1, ReadyIs, StrippedIs, RmdirDoes
  <1>3. Leave(e, r.t)
    BY <1>1, ConfinedIs DEF CopyDirRemove
  <1> QED  BY <1>2, <1>3, LeaveSafe DEF Does

(* So is every step of a call.                                             *)
LEMMA BodySafe ==
    ASSUME NEW In, Ready(In), Body
    PROVE  Safe
  BY ReadFileSafe, StatSafe, ReadDirSafe, ReadlinkSafe, OpenReadSafe, OpenDirSafe, WriteOpenSafe,
     OpenWriteSafe, PutSafe, CreateDirSafe, CreateDirAllSafe, RemoveDirSafe, UnlinkSafe,
     RemoveTreeNameSafe, RemoveTreeOpenSafe, RemoveTreeEntrySafe, RemoveTreeFailsSafe,
     RemoveTreeLastSafe,
     MoveStartSafe, StayReadSafe, StayAimSafe, MoveSafe, SymlinkSafe, CopyFileOpenSafe,
     CopyFileMakeSafe, CopyFileDataSafe, CopyFileChmodSafe, CopyFileEndSafe, CopyDirStatSafe,
     CopyDirMakeSafe, CopyDirOpenSafe, CopyDirChmodSafe, CopyDirRemoveSafe
  DEF Body

-----------------------------------------------------------------------------
(* The start of a call, and other programs.                                *)

(* What the scene of the running host holds.                               *)
LEMMA SceneIs ==
    ASSUME host \in Hosts
    PROVE  /\ \A c \in Scene.calls : c.op \in Ops /\ IsPath(c.a) /\ IsPath(c.b)
           /\ \A t0 \in Scene.trees : IsTree(t0) /\ OneName(t0) /\ Walled(t0, Below(t0, Root))
           /\ Scene.dirs \subseteq Ino /\ Scene.max \in Nat /\ Scene.moves \in Nat
  <1>1. host.scene \in DOMAIN Scenes
    BY FsAssumption
  <1>2. Scene \in Range(Scenes)
    BY <1>1 DEF Scene, Range
  <1> QED  BY <1>2, FsAssumption

(* What is left of a path once its start is found to be the root.          *)
LEMMA BeneathIs ==
    ASSUME NEW p, IsPath(p), NEW k \in 0..Len(p.comps)
    PROVE  IsPath(Path(FALSE, SubSeq(p.comps, k + 1, Len(p.comps)), p.tail))
  <1>1. p.comps \in Seq(Comps) /\ p.tail \in {"", "/", "/."} /\ Len(p.comps) \in Nat
    BY LenProperties DEF IsPath
  <1>2. PICK c, n : c = p.comps /\ n = Len(c)
    OBVIOUS
  <1>3. n \in Nat /\ k \in 0..n
    BY <1>1, <1>2
  <1>4. k + 1 \in Int /\ n \in Int /\ \A i \in (k + 1)..n : i \in 1..n
    BY <1>3
  <1>5. \A i \in (k + 1)..n : c[i] \in Comps
    BY <1>1, <1>2, <1>4, ElementOfSeq
  <1>6. SubSeq(c, k + 1, n) \in Seq(Comps)
    BY <1>4, <1>5, SubSeqProperties
  <1>7. FALSE \in BOOLEAN
    OBVIOUS
  <1> QED  BY <1>1, <1>2, <1>6, <1>7, PathIs, Zenon

LEMMA RelativeIs ==
    ASSUME NEW t0, NEW p, IsPath(p)
    PROVE  IsPath(RelativeToRoot(t0, p).path)
  <1> DEFINE beneath(k) == [err  |-> "ok",
                            path |-> Path(FALSE, SubSeq(p.comps, k + 1, Len(p.comps)), p.tail)]
             ends == AliasEnds(t0, Canonical(t0, Base).ino, p.comps)
             j    == CHOOSE k \in ends : \A i \in ends : k <= i
             r    == RelativeToRoot(t0, p)
  <1>1. p.comps \in Seq(Comps) /\ Len(p.comps) \in Nat /\ Len(Base) \in Nat
    BY FsAssumption, LenProperties DEF IsPath
  <1>2. ends # {} => j \in 0..Len(p.comps)
    <2>1. ends \subseteq 0..Len(p.comps)
      BY Zenon DEF AliasEnds
    <2> HIDE DEF ends
    <2>2. ends \in SUBSET Nat
      BY <1>1, <2>1
    <2>3. ends # {} => \E k \in ends : \A i \in ends : k <= i
      BY <2>2, LeastNumber
    <2> QED  BY <2>1, <2>3
  <1>3. IsPrefix(Base, p.comps) => Len(Base) \in 0..Len(p.comps)
    BY <1>1 DEF IsPrefix
  <1>4. \A k \in 0..Len(p.comps) : IsPath(beneath(k).path)
    BY BeneathIs
  <1>5. \/ IsPrefix(Base, p.comps) /\ r = beneath(Len(Base))
        \/ ends # {} /\ r = beneath(j)
        \/ \E e : r = [err |-> e, path |-> p]
    BY DEF RelativeToRoot
  <1> HIDE DEF r, ends, j, beneath
  <1>6. IsPath(r.path)
    BY <1>2, <1>3, <1>4, <1>5
  <1> QED  BY <1>6 DEF r

(* A path resolved is a path.                                              *)
LEMMA ResolveIs ==
    ASSUME dir.comps \in Seq(Comps), NEW p, IsPath(p)
    PROVE  IsPath(Resolve(t, p).path)
  <1>1. PICK q : q = Candidate(p)
    OBVIOUS
  <1>2. IsPath(q)
    <2>1. p.comps \in Seq(Comps) /\ p.tail \in {"", "/", "/."}
      BY DEF IsPath
    <2>2. dir.comps \o p.comps \in Seq(Comps)
      BY <2>1, ConcatProperties
    <2>3. IsPath(Path(TRUE, dir.comps \o p.comps, p.tail))
      BY <2>1, <2>2, PathIs
    <2> QED  BY <1>1, <2>3 DEF Candidate
  <1>3. Resolve(t, p) \in {[err |-> "NotFound", path |-> p], RelativeToRoot(t, q),
                           [err |-> "ok", path |-> q]}
    BY <1>1, Zenon DEF Resolve
  <1>4. IsPath(RelativeToRoot(t, q).path)
    BY <1>2, RelativeIs
  <1>5. [err |-> "NotFound", path |-> p].path = p /\ [err |-> "ok", path |-> q].path = q
    OBVIOUS
  <1> QED  BY <1>2, <1>3, <1>4, <1>5, Zenon

(* A call starts with its paths resolved, and touches nothing.             *)
LEMMA StartKeeps ==
    ASSUME NEW In, Ready(In), NEW c \in Scene.calls, Start(c)
    PROVE  Within' /\ Typed' /\ KindsAt(pc, t, h)'
  <1>1. PICK x, y : x = Resolve(t, c.a).path /\ y = Second(c).path
    OBVIOUS
  <1>2. host \in Hosts
    BY DEF Ready, FsInv
  <1>3. c.op \in Ops /\ IsPath(c.a) /\ IsPath(c.b)
    BY <1>2, SceneIs
  <1>4. IsPath(x)
    BY <1>1, <1>3, ReadyIs, ResolveIs
  <1>5. IsPath(y)
    <2>1. Second(c) \in {Resolve(t, c.b), [err |-> "ok", path |-> c.b]}
      BY Zenon DEF Second
    <2>2. IsPath(Resolve(t, c.b).path)
      BY <1>3, ReadyIs, ResolveIs
    <2>3. [err |-> "ok", path |-> c.b].path = c.b
      OBVIOUS
    <2>4. IsPath(Second(c).path)
      BY <1>3, <2>1, <2>2, <2>3, Zenon
    <2> QED  BY <1>1, <2>4
  <1>6. /\ t' = t /\ h' = h /\ dir' = dir
        /\ a' \in {a, x} /\ b' \in {b, y} /\ pc' \in {pc, c.op}
    BY <1>1 DEF Start
  <1>7. KindsAt(c.op, t, h)
    BY <1>3 DEF KindsAt, Ops
  <1>8. KindsAt(pc', t, h)
    BY <1>6, <1>7, ReadyIs
  <1>9. Within
    BY DEF Ready, FsInv
  <1>10. Within' /\ Typed'
    BY <1>4, <1>5, <1>6, <1>9, ReadyIs DEF Within, Typed
  <1> QED  BY <1>6, <1>8, <1>10

(* Two names of one directory exchanged: both are on its side of the wall. *)
LEMMA ExchangeKeeps ==
    ASSUME NEW In, Ready(In), Exchange
    PROVE  Within' /\ Typed' /\ KindsAt(pc, t, h)'
  <1>1. PICK d, m, n :
           /\ d \in Scene.dirs /\ IsDir(t, d) /\ m \in DOMAIN Ents(t, d) /\ n \in DOMAIN Ents(t, d)
           /\ t' = Attach(Attach(t, d, m, Ents(t, d)[n]), d, n, Ents(t, d)[m])
    BY DEF Exchange
  <1>2. host \in Hosts /\ UNCHANGED <<host, dir, pc, a, b, h>>
    BY DEF Ready, FsInv, Exchange, Moved
  <1>3. d \in Ino /\ IsTree(t) /\ In \in SUBSET Ino /\ Walled(t, In)
    BY <1>1, <1>2, SceneIs, ReadyIs
  <1>4. PICK i, j, t1 : i = Ents(t, d)[n] /\ j = Ents(t, d)[m] /\ t1 = Attach(t, d, m, i)
    OBVIOUS
  <1>5. i \in Ino /\ j \in Ino /\ t[i] # Free /\ t[j] # Free /\ i \in Children(t, d) /\ j \in Children(t, d)
    BY <1>1, <1>3, <1>4, EntryIs
  <1>6. /\ IsTree(t1) /\ Children(t1, d) \subseteq Children(t, d) \cup {i}
        /\ \A k \in Ino \ {d} : t1[k] = t[k]
        /\ \A k \in Ino : t1[k] = Free <=> t[k] = Free
        /\ \A k \in Ino : t1[k].kind = t[k].kind
    BY <1>1, <1>3, <1>4, <1>5, AttachIs
  <1>7. t' = Attach(t1, d, n, j) /\ IsDir(t1, d) /\ t1[j] # Free
    BY <1>1, <1>3, <1>4, <1>5, <1>6 DEF IsDir, Kind
  <1>8. PICK t2 : t2 = t'
    OBVIOUS
  <1>9. /\ IsTree(t2) /\ Children(t2, d) \subseteq Children(t1, d) \cup {j}
        /\ \A k \in Ino \ {d} : t2[k] = t1[k]
        /\ \A k \in Ino : t2[k] = Free <=> t1[k] = Free
        /\ \A k \in Ino : t2[k].kind = t1[k].kind
    BY <1>3, <1>5, <1>6, <1>7, <1>8, AttachIs
  <1>10. Walled(t2, In)
    <2>1. /\ \A k \in Ino \ {d} : t2[k] = t[k]
          /\ \A k \in Ino : t2[k] = Free <=> t[k] = Free
          /\ \A k \in Ino : t2[k].kind = t[k].kind
          /\ Children(t2, d) \subseteq Children(t, d)
      BY <1>5, <1>6, <1>9
    <2>2. \A k \in Children(t2, d) : d \in In <=> k \in In \ {Root}
      BY <1>3, <2>1, SidesOf
    <2> QED  BY <1>3, <2>1, <2>2, EntsWalled
  <1>11. Within' /\ Typed'
    BY <1>2, <1>3, <1>8, <1>9, <1>10, ReadyIs DEF Within, Typed
  <1>12. \A k \in Open(h) : t2[k].kind = t[k].kind
    BY <1>3, <1>6, <1>9, ReadyIs
  <1>13. KindsAt(pc, t2, h)
    BY <1>12, KindsStay, ReadyIs
  <1> QED  BY <1>2, <1>8, <1>11, <1>13

(* A file put in the place of another, on either side.                     *)
LEMMA ReplaceKeeps ==
    ASSUME NEW In, Ready(In), Replace
    PROVE  Within' /\ Typed' /\ KindsAt(pc, t, h)'
  <1>1. PICK x : x = FileNode("theirs", {"owner"})
    OBVIOUS
  <1>2. PICK d, n : d \in Scene.dirs /\ IsDir(t, d) /\ t' = Reap(Create(t, d, n, x), Open(h))
    BY <1>1 DEF Replace
  <1>3. host \in Hosts /\ UNCHANGED <<host, dir, pc, a, b, h>> /\ FreeInos(t) # {}
    BY DEF Ready, FsInv, Replace, Moved
  <1>4. /\ d \in Ino /\ IsTree(t) /\ In \in SUBSET Ino /\ Walled(t, In)
        /\ IsNode(t, x) /\ Childless(x)
    BY <1>1, <1>2, <1>3, SceneIs, ReadyIs, NodesAre
  <1>5. PICK t1, W : /\ t1 = Create(t, d, n, x)
                     /\ W = IF d \in In THEN In \cup {Fresh(t)} ELSE In
    OBVIOUS
  <1>6. IsTree(t1) /\ Walled(t1, W)
    BY <1>2, <1>3, <1>4, <1>5, CreateWalled
  <1>7. Fresh(t) \in Ino /\ t[Fresh(t)] = Free
    BY <1>3, <1>4, FreshIs
  <1>8. W \in SUBSET Ino /\ Open(h) \in SUBSET W /\ Open(h) \subseteq In
    BY <1>4, <1>5, <1>7, ReadyIs
  <1>9. PICK t2 : t2 = t' /\ t2 = Reap(t1, Open(h))
    BY <1>2, <1>5
  <1>10. /\ IsTree(t2) /\ Walled(t2, Kept(t2, W)) /\ Open(h) \subseteq Kept(t2, W)
         /\ \A k \in Open(h) \cup {Top, Root} : t2[k] = t1[k]
    BY <1>6, <1>8, <1>9, ReapIs
  <1>11. Kept(t2, W) \in SUBSET Ino
    BY <1>8 DEF Kept
  <1>12. Within' /\ Typed'
    BY <1>3, <1>9, <1>10, <1>11, ReadyIs DEF Within, Typed
  <1>13. ASSUME NEW k \in Open(h)  PROVE t2[k].kind = t[k].kind
    <2>1. k \in In /\ t[k] # Free /\ k \in Ino /\ k # Fresh(t)
      BY <1>4, <1>7, <1>8, SidesOf
    <2>2. IsDir(t1, d) /\ \A i \in Ino \ {d, Fresh(t)} : t1[i] = t[i]
      BY <1>2, <1>3, <1>4, <1>5, CreateIs
    <2>3. t1[k].kind = t[k].kind
      BY <1>2, <2>1, <2>2 DEF IsDir, Kind
    <2> QED  BY <1>10, <2>3
  <1>14. KindsAt(pc, t2, h)
    BY <1>13, KindsStay, ReadyIs
  <1> QED  BY <1>3, <1>9, <1>12, <1>14

(* A step of the program's own leaves both counts alone once its call has  *)
(* started.                                                                *)
LEMMA Frames ==
    ASSUME NEW e, NEW x
    PROVE  /\ \A l, hh : Goto(l, x, hh) => host' = host /\ moves' = moves /\ calls' = calls
           /\ \A S, f : AnswersAt(e, x, S, f) => host' = host /\ moves' = moves /\ calls' = calls
           /\ \A S, f : Answers(e, x, S, f) => host' = host /\ moves' = moves /\ calls' = calls
           /\ Leave(e, x) => host' = host /\ moves' = moves /\ calls' = calls
           /\ Pass(x) => host' = host /\ moves' = moves /\ calls' = calls
           /\ Tell(x) => host' = host /\ moves' = moves /\ calls' = calls
  BY DEF Goto, AnswersAt, Answers, Leave, Pass, Tell

LEMMA BodyFrame ==
    ASSUME Body
    PROVE  host' = host /\ moves' = moves /\ calls' = calls
  <1>1. CASE ReadFileAt \/ StatAt \/ ReadDirAt \/ ReadlinkAt \/ OpenReadAt \/ OpenDirAt
    BY <1>1, Frames DEF ReadFileAt, StatAt, ReadDirAt, ReadlinkAt, OpenReadAt, OpenDirAt
  <1>2. CASE WriteOpen \/ WriteData \/ OpenWriteAt \/ AppendData
    BY <1>2, Frames DEF WriteOpen, WriteData, OpenWriteAt, AppendData
  <1>3. CASE CreateDirName \/ CreateDirMake
             \/ CreateDirAllThere \/ CreateDirAllName \/ CreateDirAllMake \/ CreateDirAllTaken
    BY <1>3, Frames DEF CreateDirName, CreateDirMake, CreateDirAllThere, CreateDirAllName,
                        CreateDirAllMake, CreateDirAllTaken, MakeNext
  <1>4. CASE RemoveDirName \/ RemoveDirRemove \/ RemoveDirAllName \/ UnlinkAt
    BY <1>4, Frames DEF RemoveDirName, RemoveDirRemove, RemoveDirAllName, UnlinkAt
  <1>5. CASE RemoveTreeOpen \/ RemoveTreeEntry \/ RemoveTreeFails \/ RemoveTreeLast
    BY <1>5, Frames DEF RemoveTreeOpen, RemoveTreeEntry, RemoveTreeFails, RemoveTreeLast
  <1>6. CASE RenameAt \/ LinkAt \/ StayKind \/ StayRead \/ StayAim \/ Move
    BY <1>6, Frames DEF RenameAt, LinkAt, StayKind, StayRead, StayAim, Move
  <1>7. CASE SymlinkCheck \/ SymlinkMake
    BY <1>7, Frames DEF SymlinkCheck, SymlinkMake
  <1>8. CASE CopyFileOpen \/ CopyFileMake \/ CopyFileData \/ CopyFileChmod
             \/ CopyFileSame \/ CopyFileRemove
    BY <1>8, Frames DEF CopyFileOpen, CopyFileMake, CopyFileData, CopyFileChmod, CopyFails,
                        CopyFileSame, CopyFileRemove
  <1>9. CASE CopyDirStat \/ CopyDirName \/ CopyDirMake \/ CopyDirOpen \/ CopyDirChmod
             \/ CopyDirRemove
    BY <1>9, Frames DEF CopyDirStat, CopyDirName, CopyDirMake, CopyDirOpen, CopyDirChmod,
                        CopyDirRemove
  <1> QED  BY <1>1, <1>2, <1>3, <1>4, <1>5, <1>6, <1>7, <1>8, <1>9 DEF Body

-----------------------------------------------------------------------------
(* The invariant, and confinement.                                         *)

(* The invariant holds at the start,                                       *)
LEMMA StartsWithin ==
    ASSUME Init
    PROVE  FsInv
  <1>1. host \in Hosts /\ moves = 0
    BY DEF Init
  <1>2. IsTree(t) /\ Walled(t, Below(t, Root))
    BY <1>1, SceneIs DEF Init
  <1>3. Below(t, Root) \in SUBSET Ino
    BY <1>2, BelowIs, TreeAssumption
  <1>4. Open(NoHandles) = {} /\ IsHandles(NoHandles) /\ IsPath(Nothing)
    <2>1. IsPath(Nothing)
      BY EmptySeq, PathIs DEF Nothing
    <2>2. /\ NoHandles.src = NoIno /\ NoHandles.dst = NoIno /\ NoHandles.link = Nothing
          /\ NoHandles.mode = {} /\ NoHandles.err = "ok"
          /\ NoHandles = Handles(NoIno, NoIno, {}, Nothing, "ok")
      BY DEF NoHandles, Handles
    <2> QED  BY <2>1, <2>2 DEF Open, IsHandles
  <1>5. pc = "idle" /\ h = NoHandles /\ a = Nothing /\ b = Nothing
    BY DEF Init
  <1>6. RootPath \in Seq(Comps)
    BY FsAssumption, EmptySeq DEF RootPath
  <1>7. dir.comps = RootPath
    BY DEF Init
  <1>8. Within /\ Typed /\ KindsAt(pc, t, h)
    BY <1>2, <1>3, <1>4, <1>5, <1>6, <1>7 DEF Within, Typed, KindsAt
  <1> QED  BY <1>1, <1>8 DEF FsInv

(* While it is confined there is a wall to stay within.                    *)
LEMMA WallThere ==
    ASSUME FsInv, Confined
    PROVE  \E In : Ready(In)
  BY DEF FsInv, Ready, Within

(* and every step keeps it.                                                *)
LEMMA StepsWithin ==
    ASSUME FsInv, [Next]_vars
    PROVE  FsInv'
  <1>1. CASE Body
    <2>1. host' = host /\ moves' = moves
      BY <1>1, BodyFrame
    <2>2. Confined => Within' /\ Typed' /\ KindsAt(pc, t, h)'
      BY <1>1, WallThere, BodySafe DEF Safe
    <2> QED  BY <2>1, <2>2 DEF FsInv, Confined
  <1>2. CASE \E c \in Scene.calls : Start(c)
    <2>1. PICK c \in Scene.calls : Start(c)
      BY <1>2
    <2>2. host' = host /\ moves' = moves
      BY <2>1 DEF Start
    <2>3. Confined => Within' /\ Typed' /\ KindsAt(pc, t, h)'
      BY <2>1, WallThere, StartKeeps
    <2> QED  BY <2>2, <2>3 DEF FsInv, Confined
  <1>3. CASE Others
    <2>1. host' = host /\ moves' = moves + 1
      BY <1>3 DEF Others, Exchange, Replace, Moved
    <2>2. Confined => Within' /\ Typed' /\ KindsAt(pc, t, h)'
      BY <1>3, WallThere, ExchangeKeeps, ReplaceKeeps DEF Others
    <2>3. moves' \in Nat
      BY <2>1 DEF FsInv
    <2> QED  BY <2>1, <2>2, <2>3 DEF FsInv, Confined
  <1>4. CASE UNCHANGED vars
    BY <1>4 DEF vars, FsInv, Confined, Within, Typed
  <1> QED  BY <1>1, <1>2, <1>3, <1>4 DEF Next

(* While the host is confined, a wall stands between what is the root's    *)
(* and the rest: no name leads across it but the root's own, and every     *)
(* node a call holds open is inside (fs-confined, and lib.rs:53-63).       *)
THEOREM WallStands == Spec => []FsInv
  <1>1. Init => FsInv
    BY StartsWithin
  <1>2. FsInv /\ [Next]_vars => FsInv'
    BY StepsWithin
  <1> QED  BY <1>1, <1>2, PTL DEF Spec

(* A step of the program's own under the invariant.                        *)
LEMMA OwnSteps ==
    ASSUME FsInv, Next, Confined, moves' = moves
    PROVE  /\ \A i \in Outside(t) : t'[i] = t[i]
           /\ pc # "idle" /\ pc' = "idle" => result'.saw \cap Outside(t) = {}
  <1>1. CASE Body
    BY <1>1, WallThere, BodySafe DEF Safe
  <1>2. CASE \E c \in Scene.calls : Start(c)
    BY <1>2 DEF Start
  <1>3. CASE Others
    <2>1. moves' = moves + 1 /\ moves \in Nat
      BY <1>3 DEF Others, Exchange, Replace, Moved, FsInv
    <2>2. moves' # moves
      BY <2>1
    <2> QED  BY <2>2
  <1> QED  BY <1>1, <1>2, <1>3 DEF Next

(* A confined call changes nothing outside the root, for every tree, path, *)
(* umask and interleaving with other programs (lib.rs:53-63, copy.rs:9-10).*)
THEOREM WritesStayInside == Spec => ConfinedWritesInside
  <1>1. FsInv /\ [Next]_vars =>
           [Confined /\ AppStep => \A i \in Outside(t) : t'[i] = t[i]]_vars
    BY OwnSteps DEF AppStep
  <1> QED  BY <1>1, WallStands, PTL DEF Spec, ConfinedWritesInside

(* A confined call tells nothing of a node outside the root (lib.rs:53-59, *)
(* 216-219).                                                               *)
THEOREM ReadsStayInside == Spec => ConfinedReadsInside
  <1>1. FsInv /\ [Next]_vars =>
           [(Confined /\ AppStep /\ pc # "idle" /\ pc' = "idle")
              => result'.saw \cap Outside(t) = {}]_vars
    BY OwnSteps DEF AppStep
  <1> QED  BY <1>1, WallStands, PTL DEF Spec, ConfinedReadsInside

-----------------------------------------------------------------------------
(* The tree stays a tree, on either host and under every exchange.         *)

(* Directory d has the name n, for node i.                                 *)
Has(t0, d, n, i) == d \in Ino /\ IsDir(t0, d) /\ n \in DOMAIN Ents(t0, d) /\ Ents(t0, d)[n] = i
Single(t0) ==
    \A d, n, c, m, i : Has(t0, d, n, i) /\ Has(t0, c, m, i) /\ IsDir(t0, i) => d = c /\ n = m
Shape(t0) == IsTree(t0) /\ Single(t0) /\ IsDir(t0, Top) /\ IsDir(t0, Root)

(* That is what a directory with one name is.                              *)
LEMMA SingleIs ==
    ASSUME NEW t0
    PROVE  OneName(t0) <=> Single(t0)
  <1>1. ASSUME OneName(t0), NEW d, NEW n, NEW c, NEW m, NEW i,
               Has(t0, d, n, i), Has(t0, c, m, i), IsDir(t0, i)
        PROVE  d = c /\ n = m
    BY <1>1 DEF OneName, Has
  <1>2. ASSUME Single(t0), NEW c \in Ino, NEW d \in Ino, IsDir(t0, c), IsDir(t0, d),
               NEW m \in DOMAIN Ents(t0, c), NEW n \in DOMAIN Ents(t0, d),
               Ents(t0, c)[m] = Ents(t0, d)[n], IsDir(t0, Ents(t0, c)[m])
        PROVE  c = d /\ m = n
    <2>1. PICK i : i = Ents(t0, c)[m]
      OBVIOUS
    <2>2. Has(t0, c, m, i) /\ Has(t0, d, n, i) /\ IsDir(t0, i)
      BY <1>2, <2>1 DEF Has
    <2> QED  BY <1>2, <2>2 DEF Single
  <1>3. OneName(t0) => Single(t0)
    BY <1>1 DEF Single
  <1>4. Single(t0) => OneName(t0)
    BY <1>2 DEF OneName
  <1> QED  BY <1>3, <1>4

(* What is named is a node.                                                *)
LEMMA HasIs ==
    ASSUME NEW t0, IsTree(t0), NEW d, NEW n, NEW i, Has(t0, d, n, i)
    PROVE  d \in Ino /\ IsDir(t0, d) /\ i \in Ino /\ t0[i] # Free /\ i \in Children(t0, d)
  BY EntryIs DEF Has

(* A walk of either backend is at a directory, or at what its last name    *)
(* names.                                                                  *)
At(t0, s) ==
    /\ IsWalk(t0, s) /\ IsDir(t0, s.dir) /\ t0[s.at] # Free
    /\ s.out \in {"go", "found"} => (s.name = "" /\ IsDir(t0, s.at)) \/ Has(t0, s.dir, s.name, s.at)
    /\ s.out = "absent" => \A i : ~Has(t0, s.dir, s.name, i)
Fewer(r, s) == Hops(r) < Hops(s) \/ (Hops(r) = Hops(s) /\ Left(r) < Left(s))
Onto(t0, s, r) == IsWalk(t0, r) /\ Fewer(r, s) /\ (At(t0, s) => At(t0, r))

(* A directory is a node.                                                  *)
LEMMA DirIsNode == \A t0, i : IsDir(t0, i) => t0[i] # Free
  BY DEF IsDir, Kind, Free

(* One name of a walk is followed to such a place.                         *)
LEMMA NameGoes ==
    ASSUME NEW t0, Shape(t0), NEW s, IsWalk(t0, s), s.out = "go", s.todo # <<>>,
           NEW follow, NEW beneath
    PROVE  LET r == WalkName(t0, s, follow, beneath) IN Onto(t0, s, r)
  <1> DEFINE r    == WalkName(t0, s, follow, beneath)
             n    == Head(s.todo)
             rest == Tail(s.todo)
             i    == Ents(t0, s.at)[n]
             node == t0[i]
             last == rest = <<>>
             W(o, x, td, hp, dr, nm) ==
               [out |-> o, at |-> x, todo |-> td, hops |-> hp, dir |-> dr, name |-> nm]
  <1>1. /\ s.at \in Ino /\ IsDir(t0, s.at) /\ s.todo \in Seq(Comps) /\ s.hops \in 0..MaxHops
        /\ s.dir \in Ino /\ IsWalk(t0, s)
        /\ s = W(s.out, s.at, s.todo, s.hops, s.dir, s.name)
    BY DEF IsWalk
  <1>2. n \in Comps /\ rest \in Seq(Comps) /\ Len(rest) = Len(s.todo) - 1
    BY <1>1, HeadTailProperties
  <1>3. IsTree(t0) /\ Top \in Ino /\ IsDir(t0, Top) /\ MaxHops \in Nat
    BY TreeAssumption DEF Shape
  <1>4. Len(s.todo) \in Nat /\ Len(rest) \in Nat /\ s.hops \in Nat
    BY <1>1, <1>2, MeasuresAre, LenProperties
  <1>5. n \in DOMAIN Ents(t0, s.at) =>
          i \in Ino /\ node # Free /\ IsNode(t0, node) /\ Has(t0, s.at, n, i)
    BY <1>1, <1>3, EntryIs DEF Has
  <1>6. r = IF n \notin DOMAIN Ents(t0, s.at)
            THEN [s EXCEPT !.out = IF last THEN "absent" ELSE "NotFound", !.dir = s.at, !.name = n]
            ELSE IF node.kind = "link" /\ (~last \/ follow)
            THEN IF node.to.abs /\ beneath THEN [s EXCEPT !.out = "PermissionDenied"]
                 ELSE IF s.hops = MaxHops THEN [s EXCEPT !.out = "FilesystemLoop"]
                 ELSE [s EXCEPT !.at   = IF node.to.abs THEN Top ELSE s.at,
                                !.todo = node.to.comps \o rest,
                                !.name = "",
                                !.hops = s.hops + 1]
            ELSE IF node.kind # "dir" /\ ~last
            THEN [s EXCEPT !.out = "NotADirectory"]
            ELSE [s EXCEPT !.dir = s.at, !.name = n, !.at = i, !.todo = rest,
                           !.out = IF node.kind = "dir" THEN "go" ELSE "found"]
    BY Zenon DEF WalkName
  <1>7. n \notin DOMAIN Ents(t0, s.at) => \A x : ~Has(t0, s.at, n, x)
    BY DEF Has
  <1> HIDE DEF r, n, rest, i, node, last
  <1> SUFFICES Onto(t0, s, r)
    BY DEF r
  <1>8. \A e \in {"PermissionDenied", "FilesystemLoop", "NotADirectory"} :
           r = [s EXCEPT !.out = e] => Onto(t0, s, r)
    <2> TAKE e \in {"PermissionDenied", "FilesystemLoop", "NotADirectory"}
    <2> HAVE r = [s EXCEPT !.out = e]
    <2>1. r = W(e, s.at, s.todo, s.hops, s.dir, s.name)
      BY <1>1
    <2>2. IsWalk(t0, r)
      BY <1>1, <2>1 DEF IsWalk, Outcomes
    <2>3. Fewer(r, s)
      BY <1>3, <1>4, <2>1 DEF Fewer, Hops, Left
    <2> QED  BY <1>1, <2>1, <2>2, <2>3 DEF At, Onto
  <1>9. CASE n \notin DOMAIN Ents(t0, s.at)
    <2>1. r = W(IF last THEN "absent" ELSE "NotFound", s.at, s.todo, s.hops, s.at, n)
      <3>1. r = [s EXCEPT !.out = IF last THEN "absent" ELSE "NotFound", !.dir = s.at, !.name = n]
        BY <1>6, <1>9
      <3> QED  BY <1>1, <3>1
    <2>2. IsWalk(t0, r)
      BY <1>1, <1>2, <2>1 DEF IsWalk, Outcomes
    <2>3. Fewer(r, s)
      BY <1>3, <1>4, <2>1 DEF Fewer, Hops, Left
    <2> QED  BY <1>1, <1>7, <1>9, <2>1, <2>2, <2>3 DEF At, Onto
  <1>10. CASE n \in DOMAIN Ents(t0, s.at) /\ node.kind = "link" /\ (~last \/ follow)
    <2>1. node.to.comps \in Seq(Comps)
      BY <1>5, <1>10, KindIs DEF IsPath
    <2>2. CASE node.to.abs /\ beneath
      BY <1>6, <1>8, <1>10, <2>2
    <2>3. CASE ~(node.to.abs /\ beneath) /\ s.hops = MaxHops
      BY <1>6, <1>8, <1>10, <2>3
    <2>4. CASE ~(node.to.abs /\ beneath) /\ s.hops # MaxHops
      <3>1. PICK x : x = IF node.to.abs THEN Top ELSE s.at
        OBVIOUS
      <3>2. x \in Ino /\ IsDir(t0, x)
        BY <1>1, <1>3, <3>1
      <3>3. r = W(s.out, x, node.to.comps \o rest, s.hops + 1, s.dir, "")
        <4>1. r = [s EXCEPT !.at = x, !.todo = node.to.comps \o rest, !.name = "", !.hops = s.hops + 1]
          BY <1>6, <1>10, <2>4, <3>1
        <4> QED  BY <1>1, <4>1
      <3>8. r.hops = s.hops + 1
        BY <3>3
      <3>4. s.hops + 1 \in 0..MaxHops
        BY <1>1, <1>3, <2>4
      <3>5. node.to.comps \o rest \in Seq(Comps)
        BY <1>2, <2>1, ConcatProperties
      <3>6. IsWalk(t0, r)
        BY <1>1, <3>2, <3>3, <3>4, <3>5 DEF IsWalk, Outcomes
      <3>7. Fewer(r, s)
        BY <1>3, <1>4, <3>8 DEF Fewer, Hops
      <3>9. t0[x] # Free
        BY <3>2, DirIsNode
      <3> QED  BY <1>1, <3>2, <3>3, <3>6, <3>7, <3>9 DEF At, Onto
    <2> QED  BY <2>2, <2>3, <2>4
  <1>11. CASE /\ n \in DOMAIN Ents(t0, s.at) /\ ~(node.kind = "link" /\ (~last \/ follow))
              /\ node.kind # "dir" /\ ~last
    BY <1>6, <1>8, <1>11
  <1>12. CASE /\ n \in DOMAIN Ents(t0, s.at) /\ ~(node.kind = "link" /\ (~last \/ follow))
              /\ ~(node.kind # "dir" /\ ~last)
    <2>1. node.kind = "dir" => IsDir(t0, i)
      BY DEF node, IsDir, Kind
    <2>2. r = W(IF node.kind = "dir" THEN "go" ELSE "found", i, rest, s.hops, s.at, n)
      <3>1. r = [s EXCEPT !.dir = s.at, !.name = n, !.at = i, !.todo = rest,
                            !.out = IF node.kind = "dir" THEN "go" ELSE "found"]
        BY <1>6, <1>12
      <3> QED  BY <1>1, <3>1
    <2>3. IsWalk(t0, r)
      BY <1>1, <1>2, <1>5, <1>12, <2>1, <2>2 DEF IsWalk, Outcomes
    <2>4. Fewer(r, s)
      <3>1. Hops(r) = Hops(s) /\ r.todo = rest
        BY <2>2 DEF Hops
      <3>2. Left(r) < Left(s)
        BY <1>2, <1>4, <3>1 DEF Left
      <3> QED  BY <3>1, <3>2 DEF Fewer
    <2>5. t0[i] # Free
      BY <1>5, <1>12 DEF node
    <2> QED  BY <1>1, <1>5, <1>12, <2>2, <2>3, <2>4, <2>5 DEF At, Onto
  <1> QED  BY <1>9, <1>10, <1>11, <1>12

(* And so is each step of a walk.                                          *)
LEMMA WalkGoes ==
    ASSUME NEW t0, Shape(t0), NEW s, IsWalk(t0, s), s.out = "go", NEW base, NEW follow, NEW beneath
    PROVE  LET r == WalkStep(t0, s, base, follow, beneath) IN Onto(t0, s, r)
  <1> DEFINE r == WalkStep(t0, s, base, follow, beneath)
             W(o, x, td, hp, dr, nm) ==
               [out |-> o, at |-> x, todo |-> td, hops |-> hp, dir |-> dr, name |-> nm]
  <1>1. /\ s.at \in Ino /\ IsDir(t0, s.at) /\ s.todo \in Seq(Comps) /\ s.dir \in Ino
        /\ IsWalk(t0, s) /\ s.hops \in 0..MaxHops
        /\ s = W(s.out, s.at, s.todo, s.hops, s.dir, s.name)
    BY DEF IsWalk
  <1>2. Len(s.todo) \in Nat /\ s.hops \in Nat
    BY <1>1, MeasuresAre
  <1>3. IsTree(t0) /\ MaxHops \in Nat
    BY TreeAssumption DEF Shape
  <1> HIDE DEF r
  <1> SUFFICES Onto(t0, s, r)
    BY DEF r
  <1>4. CASE s.todo = <<>>
    <2>1. r = [s EXCEPT !.out = "found"]
      BY <1>4, Zenon DEF r, WalkStep
    <2>2. r = W("found", s.at, s.todo, s.hops, s.dir, s.name)
      BY <1>1, <2>1
    <2>3. IsWalk(t0, r)
      BY <1>1, <2>2 DEF IsWalk, Outcomes
    <2>4. Fewer(r, s)
      BY <1>2, <1>3, <2>2 DEF Fewer, Hops, Left
    <2> QED  BY <2>2, <2>3, <2>4 DEF At, Onto
  <1>5. CASE s.todo # <<>> /\ Head(s.todo) = ".."
    <2>1. r = IF s.at = base /\ beneath THEN [s EXCEPT !.out = "PermissionDenied"]
              ELSE [s EXCEPT !.at   = IF s.at = base THEN s.at ELSE ParentOf(t0, s.at),
                             !.todo = Tail(s.todo), !.name = ""]
      BY <1>5, Zenon DEF r, WalkStep
    <2>2. Tail(s.todo) \in Seq(Comps) /\ Len(Tail(s.todo)) = Len(s.todo) - 1
      BY <1>1, <1>5, HeadTailProperties
    <2>3. CASE s.at = base /\ beneath
      <3>1. r = [s EXCEPT !.out = "PermissionDenied"]
        BY <2>1, <2>3
      <3>2. r = W("PermissionDenied", s.at, s.todo, s.hops, s.dir, s.name)
        BY <1>1, <3>1
      <3>3. IsWalk(t0, r)
        BY <1>1, <3>2 DEF IsWalk, Outcomes
      <3>4. Fewer(r, s)
        BY <1>2, <1>3, <3>2 DEF Fewer, Hops, Left
      <3> QED  BY <1>1, <3>2, <3>3, <3>4 DEF At, Onto
    <2>4. CASE ~(s.at = base /\ beneath)
      <3>1. PICK x : x = IF s.at = base THEN s.at ELSE ParentOf(t0, s.at)
        OBVIOUS
      <3>2. x \in Ino /\ IsDir(t0, x)
        BY <1>1, <1>3, <3>1, ParentIs
      <3>3. r = W(s.out, x, Tail(s.todo), s.hops, s.dir, "")
        <4>1. r = [s EXCEPT !.at = x, !.todo = Tail(s.todo), !.name = ""]
          BY <2>1, <2>4, <3>1
        <4> QED  BY <1>1, <4>1
      <3>4. IsWalk(t0, r)
        BY <1>1, <2>2, <3>2, <3>3 DEF IsWalk, Outcomes
      <3>5. Fewer(r, s)
        <4>1. r.hops = s.hops /\ r.out = s.out /\ Len(r.todo) = Len(s.todo) - 1
          BY <2>2, <3>3
        <4> QED  BY <1>2, <1>3, <4>1 DEF Fewer, Hops, Left
      <3>6. t0[x] # Free
        BY <3>2, DirIsNode
      <3> QED  BY <1>1, <3>2, <3>3, <3>4, <3>5, <3>6 DEF At, Onto
    <2> QED  BY <2>3, <2>4
  <1>6. CASE s.todo # <<>> /\ Head(s.todo) # ".."
    <2>1. r = WalkName(t0, s, follow, beneath)
      BY <1>6, Zenon DEF r, WalkStep
    <2> QED  BY <1>6, <2>1, NameGoes
  <1> QED  BY <1>4, <1>5, <1>6

(* A walk ends, and at such a place.                                       *)
LEMMA WalkEnds ==
    ASSUME NEW t0, Shape(t0), NEW p, IsPath(p), NEW base \in Ino, IsDir(t0, base),
           NEW follow, NEW beneath
    PROVE  LET q == WalkFrom(t0, base, base, p, follow, beneath)
           IN  At(t0, q) /\ q.out # "go"
  <1> DEFINE D    == Walks(t0)
             done == {s \in D : s.out # "go"}
             step == [s \in D |-> IF s.out # "go" THEN s ELSE WalkStep(t0, s, base, follow, beneath)]
             Is(g) == g = [s \in D |-> IF s.out # "go" THEN s
                                       ELSE g[WalkStep(t0, s, base, follow, beneath)]]
             F    == CHOOSE g : Is(g)
             m    == [s \in D |-> Hops(s)]
             n    == [s \in D |-> Left(s)]
             S    == {s \in D : At(t0, s)}
             x    == StartWalk(base, p.comps)
  <1>1. \A s \in D \ done : step[s] \in D /\ Onto(t0, s, step[s])
    <2> TAKE s \in D \ done
    <2>1. step[s] = WalkStep(t0, s, base, follow, beneath)
      OBVIOUS
    <2>2. Onto(t0, s, step[s])
      BY <2>1, WalkGoes, WalkIs
    <2> QED  BY <2>2, WalkIs DEF Onto
  <1>2. step \in [D -> D]
    BY <1>1
  <1>3. \A g : Loop(g, D, done, step) => Is(g)
    <2> TAKE g
    <2> HAVE Loop(g, D, done, step)
    <2>1. g = [s \in D |-> IF s \in done THEN s ELSE g[step[s]]]
      BY DEF Loop
    <2>2. \A s \in D : g[s] = IF s.out # "go" THEN s ELSE g[WalkStep(t0, s, base, follow, beneath)]
      BY <2>1
    <2> QED  BY <2>1, <2>2
  <1>4. Is(F)
    <2>1. \E g : Is(g)
      BY <1>2, <1>3, LoopExists
    <2> QED  BY <2>1
  <1>5. Loop(F, D, done, step)
    <2> HIDE DEF F
    <2>1. \A s \in D : F[s] = IF s \in done THEN s ELSE F[step[s]]
      BY <1>4
    <2> QED  BY <1>4, <2>1 DEF Loop
  <1>6. m \in [D -> Nat] /\ n \in [D -> Nat]
    BY WalkIs, MeasuresAre
  <1>7. \A s \in D \ done : m[step[s]] < m[s] \/ (m[step[s]] = m[s] /\ n[step[s]] < n[s])
    BY <1>1 DEF Onto, Fewer
  <1>8. Keeps(S, D, done, step)
    BY <1>1 DEF Keeps, Onto
  <1>9. x \in S
    <2>1. x = [out |-> "go", at |-> base, todo |-> p.comps, hops |-> 0, dir |-> base, name |-> ""]
      BY DEF StartWalk
    <2> HIDE DEF x
    <2>2. /\ x.out = "go" /\ x.at = base /\ x.todo = p.comps /\ x.hops = 0 /\ x.dir = base
          /\ x.name = ""
          /\ x = [out |-> x.out, at |-> x.at, todo |-> x.todo, hops |-> x.hops, dir |-> x.dir,
                  name |-> x.name]
      BY <2>1
    <2>3. x.name \in Comps \cup {""} /\ x.out \in Outcomes
      BY <2>2 DEF Outcomes
    <2>7. MaxHops \in Nat
      BY TreeAssumption
    <2>8. p.comps \in Seq(Comps)
      BY DEF IsPath
    <2>4. 0 \in 0..MaxHops /\ p.comps \in Seq(Comps)
      BY <2>7, <2>8
    <2>5. IsWalk(t0, x)
      BY <2>2, <2>3, <2>4 DEF IsWalk
    <2>6. At(t0, x)
      <3>1. (x.name = "" /\ IsDir(t0, x.at)) /\ IsDir(t0, x.dir) /\ t0[x.at] # Free
        BY <2>2, DirIsNode
      <3>2. x.out # "absent"
        BY <2>2
      <3> QED  BY <2>5, <3>1, <3>2, Zenon DEF At
    <2> QED  BY <2>5, <2>6, WalkIs
  <1>10. F[x] \in S \cap done
    <2> HIDE DEF D, done, step, F, m, n, S, x
    <2> QED  BY <1>5, <1>6, <1>7, <1>8, <1>9, LoopEnds
  <1>11. WalkFrom(t0, base, base, p, follow, beneath) = F[x]
    BY DEF WalkFrom
  <1> QED  BY <1>10, <1>11

(* What a look answers: a directory, or what a name in one names; or the   *)
(* directory that lacks the last name.                                     *)
Sees(t0, l) ==
    /\ l.ino \in Ino /\ l.dir \in Ino /\ IsDir(t0, l.dir) /\ l.is \in Outcomes
    /\ t0[l.ino] # Free
    /\ Found(l) /\ (l.name # "" \/ ~IsDir(t0, l.ino)) => Has(t0, l.dir, l.name, l.ino)
    /\ l.is = "absent" => \A i : ~Has(t0, l.dir, l.name, i)

(* A look sees what there is, on either backend.                           *)
LEMMA LookSees ==
    ASSUME NEW t0, Shape(t0), NEW p, IsPath(p), NEW follow, NEW bn
    PROVE  Sees(t0, Look(t0, bn, p, follow))
  <1> DEFINE l == Look(t0, bn, p, follow)
  <1>1. Root \in Ino /\ Top \in Ino /\ IsDir(t0, Root) /\ IsDir(t0, Top) /\ IsTree(t0)
    BY TreeAssumption DEF Shape
  <1>2. CASE p.abs /\ bn
    <2>1. l = [is |-> "PermissionDenied", ino |-> Root, dir |-> Root, name |-> ""]
      BY <1>2 DEF Look
    <2> HIDE DEF l
    <2>2. l.ino = Root /\ l.dir = Root /\ l.is = "PermissionDenied"
      BY <2>1
    <2>3. t0[Root] # Free
      BY <1>1, DirIsNode
    <2>4. Sees(t0, l)
      BY <1>1, <2>2, <2>3 DEF Sees, Found, Outcomes
    <2> QED  BY <2>4 DEF l
  <1>3. CASE ~(p.abs /\ bn)
    <2> DEFINE base == IF bn THEN Root ELSE Top
               must == p.tail # ""
               q == WalkFrom(t0, base, base, p, follow \/ must, bn)
    <2>1. l = Ended(t0, q, must)
      BY <1>3 DEF Look
    <2>2. base \in Ino /\ IsDir(t0, base)
      BY <1>1
    <2> HIDE DEF base, must
    <2>3. At(t0, q) /\ q.out # "go"
      BY <2>2, WalkEnds
    <2> HIDE DEF q, l
    <2>4. /\ l.ino = q.at /\ l.dir = q.dir /\ l.name = q.name
          /\ l.is = IF q.out = "found" /\ must /\ ~IsDir(t0, q.at) THEN "NotADirectory" ELSE q.out
      BY <2>1 DEF Ended
    <2>5. IsWalk(t0, q) /\ q.at \in Ino /\ q.dir \in Ino /\ q.out \in Outcomes
      BY <2>3 DEF At, IsWalk
    <2>6. l.is \in Outcomes /\ l.is # "go"
      BY <2>3, <2>4, <2>5 DEF Outcomes
    <2>7. l.is = "found" => q.out = "found"
      BY <2>4
    <2>8. l.is = "absent" => q.out = "absent"
      BY <2>4
    <2>9. \A i : IsDir(t0, i) => t0[i] # Free
      BY DEF IsDir, Kind, Free
    <2>10. t0[l.ino] # Free
      BY <2>3, <2>4 DEF At
    <2>11. Found(l) /\ (l.name # "" \/ ~IsDir(t0, l.ino)) => Has(t0, l.dir, l.name, l.ino)
      BY <2>3, <2>4, <2>7 DEF At, Found
    <2>12. l.is = "absent" => \A i : ~Has(t0, l.dir, l.name, i)
      BY <2>3, <2>4, <2>8 DEF At
    <2>13. IsDir(t0, l.dir)
      BY <2>3, <2>4 DEF At
    <2>14. Sees(t0, l)
      BY <2>4, <2>5, <2>6, <2>10, <2>11, <2>12, <2>13 DEF Sees
    <2> QED  BY <2>14 DEF l
  <1> QED  BY <1>2, <1>3

LEMMA NamedSees ==
    ASSUME NEW t0, Shape(t0), NEW p, IsPath(p), NEW bn
    PROVE  Sees(t0, Named(t0, bn, p))
  BY PathsAre, LookSees DEF Named

-----------------------------------------------------------------------------
(* What a system call makes of a tree: one again, in which what was a node *)
(* is one of the same kind.                                                *)
Still(t0, t1) == \A i \in Ino : t0[i] # Free => t1[i] # Free /\ t1[i].kind = t0[i].kind
Turns(t0, t1) == Shape(t1) /\ Still(t0, t1)

LEMMA TurnsThen ==
    ASSUME NEW t0, NEW t1, Turns(t0, t1), NEW t2, Turns(t1, t2)
    PROVE  Turns(t0, t2)
  BY DEF Turns, Still

LEMMA TurnsSame ==
    ASSUME NEW t0, Shape(t0)
    PROVE  Turns(t0, t0)
  BY DEF Turns, Still

(* A directory goes on having one name as long as no edit names one anew.  *)
LEMMA NoNewName ==
    ASSUME NEW t0, Shape(t0), NEW t1, IsTree(t1), Still(t0, t1),
           \A d, n, i : Has(t1, d, n, i) => Has(t0, d, n, i) \/ ~IsDir(t1, i)
    PROVE  Turns(t0, t1)
  <1>1. IsTree(t0) /\ Top \in Ino /\ Root \in Ino
    BY TreeAssumption DEF Shape
  <1>2. IsDir(t1, Top) /\ IsDir(t1, Root)
    <2>1. IsDir(t0, Top) /\ IsDir(t0, Root)
      BY DEF Shape
    <2>2. t0[Top] # Free /\ t0[Root] # Free
      BY <2>1 DEF IsDir, Kind, Free
    <2> QED  BY <1>1, <2>1, <2>2 DEF Still, IsDir, Kind
  <1>3. ASSUME NEW d, NEW n, NEW c, NEW m, NEW i,
               Has(t1, d, n, i), Has(t1, c, m, i), IsDir(t1, i)
        PROVE  d = c /\ n = m
    <2>1. Has(t0, d, n, i) /\ Has(t0, c, m, i)
      BY <1>3
    <2>2. i \in Ino /\ t0[i] # Free
      BY <1>1, <2>1, HasIs
    <2>3. IsDir(t0, i)
      BY <1>3, <2>2 DEF Still, IsDir, Kind
    <2> QED  BY <2>1, <2>3 DEF Shape, Single
  <1> QED  BY <1>2, <1>3 DEF Turns, Shape, Single

(* The names after one is made, and after one is removed.                  *)
LEMMA AttachHas ==
    ASSUME NEW t0, IsTree(t0), NEW c \in Ino, IsDir(t0, c), NEW m, NEW j \in Ino, t0[j] # Free,
           NEW t1, t1 = Attach(t0, c, m, j)
    PROVE  /\ IsTree(t1) /\ Still(t0, t1)
           /\ \A d, n, i : Has(t1, d, n, i) <=>
                 \/ d = c /\ n = m /\ i = j
                 \/ Has(t0, d, n, i) /\ ~(d = c /\ n = m)
           /\ \A i \in Ino : t1[i].mode = t0[i].mode
  <1>1. /\ IsTree(t1) /\ \A i \in Ino \ {c} : t1[i] = t0[i]
        /\ \A i \in Ino : t1[i] = Free <=> t0[i] = Free
        /\ \A i \in Ino : t1[i].kind = t0[i].kind
        /\ t1[c] = DirNode(With(Ents(t0, c), m, j), t0[c].mode)
    BY AttachIs
  <1>2. PICK e, f : e = Ents(t0, c) /\ f = With(e, m, j)
    OBVIOUS
  <1>3. DOMAIN f = DOMAIN e \cup {m} /\ \A n \in DOMAIN f : f[n] = IF n = m THEN j ELSE e[n]
    BY <1>2 DEF With
  <1>4. Ents(t1, c) = f /\ IsDir(t1, c) /\ t1[c].mode = t0[c].mode
    BY <1>1, <1>2 DEF Ents, DirNode, IsDir, Kind
  <1>5. \A d \in Ino \ {c} : IsDir(t1, d) = IsDir(t0, d) /\ Ents(t1, d) = Ents(t0, d)
    BY <1>1 DEF IsDir, Kind, Ents
  <1>6. ASSUME NEW d, NEW n, NEW i
        PROVE  Has(t1, d, n, i) <=> \/ d = c /\ n = m /\ i = j
                                    \/ Has(t0, d, n, i) /\ ~(d = c /\ n = m)
    <2>1. CASE d = c
      BY <1>2, <1>3, <1>4, <2>1 DEF Has
    <2>2. CASE d # c
      BY <1>5, <2>2 DEF Has
    <2> QED  BY <2>1, <2>2
  <1>7. Still(t0, t1)
    BY <1>1 DEF Still
  <1> QED  BY <1>1, <1>4, <1>6, <1>7

LEMMA DetachHas ==
    ASSUME NEW t0, IsTree(t0), NEW c \in Ino, IsDir(t0, c), NEW m,
           NEW t1, t1 = Detach(t0, c, m)
    PROVE  /\ IsTree(t1) /\ Still(t0, t1)
           /\ \A d, n, i : Has(t1, d, n, i) <=> Has(t0, d, n, i) /\ ~(d = c /\ n = m)
           /\ \A i \in Ino : t1[i].mode = t0[i].mode
  <1>1. /\ IsTree(t1) /\ \A i \in Ino \ {c} : t1[i] = t0[i]
        /\ \A i \in Ino : t1[i] = Free <=> t0[i] = Free
        /\ \A i \in Ino : t1[i].kind = t0[i].kind
    BY DetachIs
  <1>2. PICK e, f : e = Ents(t0, c) /\ f = Restrict(e, DOMAIN e \ {m})
    OBVIOUS
  <1>3. DOMAIN f = DOMAIN e \ {m} /\ \A n \in DOMAIN f : f[n] = e[n]
    BY <1>2 DEF Restrict
  <1>4. Ents(t1, c) = f /\ IsDir(t1, c) /\ t1[c].mode = t0[c].mode
    <2>1. t1 = SetEnts(t0, c, f)
      BY <1>2 DEF Detach, Ents, SetEnts
    <2>2. IsEnts(t0, e)
      BY <1>2, EntsAre
    <2>3. IsEnts(t0, f)
      BY <1>2, <2>2, RemovedEntry
    <2>4. t1[c] = DirNode(f, t0[c].mode)
      BY <2>1, <2>3, EntsEdit
    <2> QED  BY <2>4 DEF Ents, DirNode, IsDir, Kind
  <1>5. \A d \in Ino \ {c} : IsDir(t1, d) = IsDir(t0, d) /\ Ents(t1, d) = Ents(t0, d)
    BY <1>1 DEF IsDir, Kind, Ents
  <1>6. ASSUME NEW d, NEW n, NEW i
        PROVE  Has(t1, d, n, i) <=> Has(t0, d, n, i) /\ ~(d = c /\ n = m)
    <2>1. CASE d = c
      BY <1>2, <1>3, <1>4, <2>1 DEF Has
    <2>2. CASE d # c
      BY <1>5, <2>2 DEF Has
    <2> QED  BY <2>1, <2>2
  <1>7. Still(t0, t1)
    BY <1>1 DEF Still
  <1> QED  BY <1>1, <1>4, <1>6, <1>7

(* A node written over by one of its kind, with the entries it had.        *)
LEMMA NodeTurns ==
    ASSUME NEW t0, Shape(t0), NEW j \in Ino, t0[j] # Free, NEW x, IsNode(t0, x),
           x.kind = t0[j].kind, x.kind = "dir" => x.ents = Ents(t0, j),
           NEW t1, t1 = SetNode(t0, j, x)
    PROVE  /\ Turns(t0, t1) /\ t1[j] = x /\ \A i \in Ino \ {j} : t1[i] = t0[i]
           /\ \A d, n, i : Has(t1, d, n, i) <=> Has(t0, d, n, i)
  <1>1. IsTree(t0) /\ IsNode(t0, t0[j])
    BY DEF Shape, IsTree
  <1>2. x # Free
    BY <1>1, KindIs DEF Free
  <1>3. IsTree(t1) /\ t1[j] = x /\ \A i \in Ino \ {j} : t1[i] = t0[i]
    BY <1>1, <1>2, SetNodeIs
  <1>4. Still(t0, t1)
    BY <1>2, <1>3 DEF Still
  <1>5. ASSUME NEW d, NEW n, NEW i  PROVE Has(t1, d, n, i) <=> Has(t0, d, n, i)
    <2>1. CASE d = j
      BY <1>3, <2>1 DEF Has, IsDir, Kind, Ents
    <2>2. CASE d # j
      BY <1>3, <2>2 DEF Has, IsDir, Kind, Ents
    <2> QED  BY <2>1, <2>2
  <1>6. Turns(t0, t1)
    BY <1>3, <1>4, <1>5, NoNewName
  <1> QED  BY <1>3, <1>5, <1>6

(* A node made under a name.                                               *)
LEMMA CreateTurns ==
    ASSUME NEW t0, Shape(t0), NEW c \in Ino, IsDir(t0, c), FreeInos(t0) # {}, NEW m,
           NEW x, IsNode(t0, x), Childless(x), NEW t1, t1 = Create(t0, c, m, x)
    PROVE  LET j == Fresh(t0)
           IN  /\ Turns(t0, t1) /\ j \in Ino /\ t0[j] = Free /\ t1[j] = x
               /\ \A d, n, i : Has(t1, d, n, i) <=>
                     \/ d = c /\ n = m /\ i = j
                     \/ Has(t0, d, n, i) /\ ~(d = c /\ n = m)
               /\ \A i \in Ino \ {c, j} : t1[i] = t0[i]
               /\ t1[c].mode = t0[c].mode
  <1>1. PICK j : j = Fresh(t0)
    OBVIOUS
  <1>2. PICK t2 : t2 = SetNode(t0, j, x)
    OBVIOUS
  <1>3. IsTree(t0) /\ j \in Ino /\ t0[j] = Free /\ x # Free
    BY <1>1, FreshIs DEF Shape, Childless
  <1>4. IsTree(t2) /\ t2[j] = x /\ \A i \in Ino \ {j} : t2[i] = t0[i]
    BY <1>2, <1>3, SetNodeIs
  <1>5. c # j /\ t2[c] = t0[c] /\ IsDir(t2, c) /\ t2[j] # Free
    BY <1>3, <1>4 DEF IsDir, Kind, Free
  <1>6. t1 = Attach(t2, c, m, j)
    BY <1>1, <1>2 DEF Create, SetNode
  <1>7. /\ IsTree(t1) /\ Still(t2, t1)
        /\ \A d, n, i : Has(t1, d, n, i) <=>
              \/ d = c /\ n = m /\ i = j
              \/ Has(t2, d, n, i) /\ ~(d = c /\ n = m)
    BY <1>3, <1>4, <1>5, <1>6, AttachHas
  <1>8. ASSUME NEW d, NEW n, NEW i  PROVE Has(t2, d, n, i) <=> Has(t0, d, n, i)
    <2>1. CASE d = j
      <3>1. ~Has(t0, d, n, i)
        BY <1>3, <2>1 DEF Has, IsDir, Kind, Free
      <3>2. x.kind = "dir" => x.ents = <<>>
        BY DEF Childless, DirNode
      <3>3. ~Has(t2, d, n, i)
        BY <1>4, <2>1, <3>2 DEF Has, IsDir, Kind, Ents
      <3> QED  BY <3>1, <3>3
    <2>2. CASE d # j
      BY <1>4, <2>2 DEF Has, IsDir, Kind, Ents
    <2> QED  BY <2>1, <2>2
  <1>9. Still(t0, t1)
    BY <1>3, <1>4, <1>7 DEF Still
  <1>10. /\ \A i \in Ino \ {c, j} : t1[i] = t0[i]
         /\ t1[c].mode = t0[c].mode /\ t1[j] = x
    <2>1. /\ \A i \in Ino \ {c} : t1[i] = t2[i]
          /\ t1[c] = DirNode(With(Ents(t2, c), m, j), t2[c].mode)
      BY <1>3, <1>4, <1>5, <1>6, AttachIs
    <2> QED  BY <1>3, <1>4, <1>5, <2>1 DEF DirNode
  <1>11. IsDir(t1, Top) /\ IsDir(t1, Root)
    <2>1. Top \in Ino /\ Root \in Ino /\ IsDir(t0, Top) /\ IsDir(t0, Root)
      BY TreeAssumption DEF Shape
    <2>2. t0[Top] # Free /\ t0[Root] # Free
      BY <2>1 DEF IsDir, Kind, Free
    <2> QED  BY <1>9, <2>1, <2>2 DEF Still, IsDir, Kind
  <1>12. ASSUME NEW d, NEW n, NEW b0, NEW k, NEW i,
                Has(t1, d, n, i), Has(t1, b0, k, i), IsDir(t1, i)
         PROVE  d = b0 /\ n = k
    <2>1. CASE i = j
      <3>1. \A u, v : ~Has(t0, u, v, i)
        BY <1>3, <2>1, HasIs
      <3> QED  BY <1>7, <1>8, <1>12, <3>1
    <2>2. CASE i # j
      <3>1. Has(t0, d, n, i) /\ Has(t0, b0, k, i)
        BY <1>7, <1>8, <1>12, <2>2
      <3>2. i \in Ino /\ t0[i] # Free
        BY <1>3, <3>1, HasIs
      <3>3. IsDir(t0, i)
        BY <1>9, <1>12, <3>2 DEF Still, IsDir, Kind
      <3> QED  BY <3>1, <3>3 DEF Shape, Single
    <2> QED  BY <2>1, <2>2
  <1>13. Turns(t0, t1)
    BY <1>7, <1>9, <1>11, <1>12 DEF Turns, Shape, Single
  <1> QED  BY <1>1, <1>3, <1>7, <1>8, <1>10, <1>13

(* What nobody names goes, and no name with it that leads anywhere.        *)
LEMMA ReapTurns ==
    ASSUME NEW t0, Shape(t0), NEW open \in SUBSET Ino, NEW t1, t1 = Reap(t0, open)
    PROVE  /\ Shape(t1) /\ \A i \in Ino : t1[i] \in {t0[i], Free}
           /\ \A i \in open \cup {Top, Root} : t1[i] = t0[i]
           /\ \A d, n, i : Has(t1, d, n, i) => Has(t0, d, n, i)
           /\ \A d, n, i : Has(t0, d, n, i) => t1[i] = t0[i]
  <1>1. IsTree(t0)
    BY DEF Shape
  <1>2. /\ IsTree(t1) /\ \A i \in Ino : t1[i] \in {t0[i], Free}
        /\ \A i \in open \cup {Top, Root} : t1[i] = t0[i]
        /\ \A d \in Ino : \A i \in Children(t0, d) : i \in Ino /\ t1[i] = t0[i] /\ t1[i] # Free
    BY <1>1, ReapTree
  <1>3. \A d \in Ino : IsDir(t1, d) => t1[d] = t0[d] /\ IsDir(t0, d)
    BY <1>2 DEF IsDir, Kind, Free
  <1>4. \A d, n, i : Has(t1, d, n, i) => Has(t0, d, n, i)
    BY <1>3 DEF Has, Ents
  <1>5. \A d, n, i : Has(t0, d, n, i) => t1[i] = t0[i] /\ i \in Ino
    BY <1>1, <1>2, HasIs
  <1>6. Single(t1)
    <2> SUFFICES ASSUME NEW d, NEW n, NEW c, NEW m, NEW i,
                        Has(t1, d, n, i), Has(t1, c, m, i), IsDir(t1, i)
                 PROVE  d = c /\ n = m
      BY DEF Single
    <2>1. Has(t0, d, n, i) /\ Has(t0, c, m, i)
      BY <1>4
    <2>2. IsDir(t0, i)
      BY <1>3, <1>5, <2>1
    <2> QED  BY <2>1, <2>2 DEF Shape, Single
  <1>7. IsDir(t1, Top) /\ IsDir(t1, Root)
    BY <1>2 DEF Shape, IsDir, Kind
  <1> QED  BY <1>2, <1>4, <1>5, <1>6, <1>7 DEF Shape

-----------------------------------------------------------------------------
(* What a system call of either backend answers with: a tree the old one   *)
(* turns to, and when it succeeds a node of it.                            *)
Acts(t0, r) ==
    /\ Turns(t0, r.t) /\ r.ino \in Ino \cup {NoIno}
    /\ r.err = "ok" => r.ino \in Ino /\ r.t[r.ino] # Free
Reads(t0, r) == Acts(t0, r) /\ r.t = t0

(* The only node it made, if it made one, is x.                            *)
Only(t0, r, x) ==
    /\ \A i \in Ino : t0[i] = Free /\ r.t[i] # Free => i = r.ino /\ r.t[i] = x
    /\ r.err = "ok" => r.t[r.ino] = x

LEMMA DoneActs ==
    ASSUME NEW t0, NEW t1, Turns(t0, t1), NEW i \in Ino, t1[i] # Free
    PROVE  Acts(t0, Ans("ok", t1, i))
  <1>1. PICK r : r = Ans("ok", t1, i)
    OBVIOUS
  <1>2. r.t = t1 /\ r.ino = i
    BY <1>1 DEF Ans
  <1> QED  BY <1>1, <1>2 DEF Acts

LEMMA FailReads ==
    ASSUME NEW t0, Shape(t0), NEW e, e # "ok"
    PROVE  Reads(t0, Fail(e, t0)) /\ Fail(e, t0).err # "ok"
  <1>1. PICK r : r = Fail(e, t0)
    OBVIOUS
  <1>2. r.t = t0 /\ r.ino = NoIno /\ r.err = e
    BY <1>1 DEF Ans, Fail
  <1> QED  BY <1>1, <1>2, TurnsSame DEF Acts, Reads

LEMMA AnswerReads ==
    ASSUME NEW t0, Shape(t0), NEW l, Sees(t0, l)
    PROVE  Reads(t0, Answer(t0, l))
  <1>1. l.is # "ok" /\ l.ino \in Ino
    BY DEF Sees, Outcomes
  <1>2. CASE Found(l)
    <2>1. Answer(t0, l) = Ans("ok", t0, l.ino) /\ t0[l.ino] # Free
      BY <1>2 DEF Answer, Sees
    <2>2. Ans("ok", t0, l.ino).t = t0
      BY DEF Ans
    <2> QED  BY <1>1, <2>1, <2>2, DoneActs, TurnsSame DEF Reads
  <1>3. CASE ~Found(l)
    <2>1. Answer(t0, l) = Fail(ErrorOf(l), t0) /\ ErrorOf(l) # "ok"
      BY <1>1, <1>3 DEF Answer, ErrorOf
    <2> QED  BY <2>1, FailReads
  <1> QED  BY <1>2, <1>3

(* The calls that change nothing.                                          *)
LEMMA StatReads ==
    ASSUME NEW t0, Shape(t0), NEW p, IsPath(p), NEW bn
    PROVE  Reads(t0, Stat(t0, bn, p))
  BY LookSees, AnswerReads DEF Stat

LEMMA LstatReads ==
    ASSUME NEW t0, Shape(t0), NEW p, IsPath(p), NEW bn
    PROVE  Reads(t0, Lstat(t0, bn, p))
  <1> DEFINE r == Lstat(t0, bn, p)
             q == Answer(t0, Look(t0, bn, p, FALSE))
  <1>1. r = Fail("NotADirectory", t0) \/ r = q
    BY Zenon DEF Lstat
  <1>2. Reads(t0, q)
    BY LookSees, AnswerReads
  <1> HIDE DEF r, q
  <1>3. Reads(t0, r)
    BY <1>1, <1>2, FailReads
  <1> QED  BY <1>3 DEF r

LEMMA ReadLinkReads ==
    ASSUME NEW t0, Shape(t0), NEW p, IsPath(p), NEW bn
    PROVE  LET r == ReadLink(t0, bn, p)
           IN  Reads(t0, r) /\ (r.err = "ok" => Kind(t0, r.ino) = "link")
  <1> DEFINE r == ReadLink(t0, bn, p)
             q == Answer(t0, Look(t0, bn, p, FALSE))
  <1>1. r = IF q.err = "ok" /\ Kind(t0, q.ino) # "link" THEN Fail("InvalidInput", t0) ELSE q
    BY DEF ReadLink
  <1>2. Reads(t0, q)
    BY LookSees, AnswerReads
  <1> HIDE DEF r, q
  <1>3. Reads(t0, r) /\ (r.err = "ok" => Kind(t0, r.ino) = "link")
    BY <1>1, <1>2, FailReads
  <1> QED  BY <1>3 DEF r

LEMMA OpenReads ==
    ASSUME NEW t0, Shape(t0), NEW p, IsPath(p), NEW follow, NEW bn
    PROVE  /\ Reads(t0, OpenRead(t0, bn, p, follow))
           /\ Reads(t0, OpenDir(t0, bn, p, follow))
           /\ LET r == OpenDir(t0, bn, p, follow) IN r.err = "ok" => IsDir(t0, r.ino)
  <1> DEFINE q == Answer(t0, Look(t0, bn, p, follow))
             r == OpenRead(t0, bn, p, follow)
             d == OpenDir(t0, bn, p, follow)
  <1>1. Reads(t0, q)
    BY LookSees, AnswerReads
  <1>2. r \in {q, Fail("FilesystemLoop", t0), Fail("PermissionDenied", t0)}
    BY DEF OpenRead
  <1> HIDE DEF q
  <1>3. Reads(t0, r)
    BY <1>1, <1>2, FailReads
  <1>4. d = IF r.err = "FilesystemLoop" \/ (r.err = "ok" /\ ~IsDir(t0, r.ino))
            THEN Fail("NotADirectory", t0) ELSE r
    BY DEF OpenDir
  <1> HIDE DEF r, d
  <1>5. Reads(t0, d) /\ (d.err = "ok" => IsDir(t0, d.ino))
    BY <1>3, <1>4, FailReads
  <1> QED  BY <1>3, <1>5 DEF r, d

(* The calls that make a node.                                             *)
LEMMA FailOnly ==
    ASSUME NEW t0, Shape(t0), NEW e, e # "ok", NEW x
    PROVE  Acts(t0, Fail(e, t0)) /\ Only(t0, Fail(e, t0), x)
  <1>1. PICK r : r = Fail(e, t0)
    OBVIOUS
  <1>2. Reads(t0, r) /\ r.err # "ok"
    BY <1>1, FailReads
  <1> QED  BY <1>1, <1>2 DEF Reads, Only

LEMMA MakeActs ==
    ASSUME NEW t0, Shape(t0), NEW l, Sees(t0, l), NEW x, IsNode(t0, x), Childless(x)
    PROVE  LET r == MakeAt(t0, l, x) IN Acts(t0, r) /\ Only(t0, r, x)
  <1> DEFINE r == MakeAt(t0, l, x)
  <1>1. CASE FreeInos(t0) = {}
    <2>1. r = Fail("StorageFull", t0)
      BY <1>1 DEF MakeAt
    <2> HIDE DEF r
    <2>2. Acts(t0, r) /\ Only(t0, r, x)
      BY <2>1, FailOnly
    <2> QED  BY <2>2 DEF r
  <1>2. CASE FreeInos(t0) # {}
    <2>1. PICK d, n, t1, j : d = l.dir /\ n = l.name /\ t1 = Create(t0, d, n, x) /\ j = Fresh(t0)
      OBVIOUS
    <2>2. d \in Ino /\ IsDir(t0, d)
      BY <2>1 DEF Sees
    <2>3. /\ Turns(t0, t1) /\ j \in Ino /\ t1[j] = x
          /\ \A i \in Ino \ {d, j} : t1[i] = t0[i]
      BY <1>2, <2>1, <2>2, CreateTurns
    <2>4. r = Ans("ok", t1, j)
      BY <1>2, <2>1 DEF MakeAt
    <2>5. x # Free /\ t0[d] # Free
      BY <2>2 DEF Childless, IsDir, Kind, Free
    <2> HIDE DEF r
    <2>6. Acts(t0, r)
      BY <2>3, <2>4, <2>5, DoneActs
    <2>7. r.t = t1 /\ r.ino = j
      BY <2>4 DEF Ans
    <2>8. Only(t0, r, x)
      BY <2>3, <2>5, <2>7 DEF Only
    <2> QED  BY <2>6, <2>8 DEF r
  <1> QED  BY <1>1, <1>2

LEMMA CreateNewActs ==
    ASSUME NEW t0, Shape(t0), NEW p, IsPath(p), NEW mode, NEW bn
    PROVE  LET r == CreateNew(t0, bn, p, mode)
           IN  Acts(t0, r) /\ Only(t0, r, FileNode("empty", mode \ Umask))
  <1> DEFINE r == CreateNew(t0, bn, p, mode)
             l == Named(t0, bn, p)
             x == FileNode("empty", mode \ Umask)
  <1>1. Sees(t0, l) /\ l.is # "ok"
    BY NamedSees DEF Sees, Outcomes
  <1>2. (\E e : e # "ok" /\ r = Fail(e, t0)) \/ r = MakeAt(t0, l, x)
    <2>1. r \in {Fail("InvalidInput", t0), Fail("NotFound", t0), Fail("IsADirectory", t0),
                 Fail("AlreadyExists", t0), MakeAt(t0, l, x), Fail(l.is, t0)}
      BY Zenon DEF CreateNew
    <2> HIDE DEF r, l, x
    <2> QED  BY <1>1, <2>1
  <1>3. IsNode(t0, x) /\ Childless(x)
    BY NodesAre
  <1> HIDE DEF r, l, x
  <1>4. Acts(t0, r) /\ Only(t0, r, x)
    BY <1>1, <1>2, <1>3, MakeActs, FailOnly
  <1> QED  BY <1>4 DEF r, x

LEMMA MkdirActs ==
    ASSUME NEW t0, Shape(t0), NEW p, IsPath(p), NEW mode, NEW bn
    PROVE  LET r == Mkdir(t0, bn, p, mode)
           IN  Acts(t0, r) /\ Only(t0, r, DirNode(<<>>, mode \ Umask))
  <1> DEFINE r == Mkdir(t0, bn, p, mode)
             l == Named(t0, bn, p)
             x == DirNode(<<>>, mode \ Umask)
  <1>1. Sees(t0, l) /\ l.is # "ok"
    BY NamedSees DEF Sees, Outcomes
  <1>2. r \in {Fail("AlreadyExists", t0), Fail("NotFound", t0), MakeAt(t0, l, x), Fail(l.is, t0)}
    BY Zenon DEF Mkdir
  <1>3. IsNode(t0, x) /\ Childless(x)
    BY NodesAre
  <1>4. Acts(t0, MakeAt(t0, l, x)) /\ Only(t0, MakeAt(t0, l, x), x)
    BY <1>1, <1>3, MakeActs
  <1> HIDE DEF r, l, x
  <1>5. Acts(t0, r) /\ Only(t0, r, x)
    BY <1>1, <1>2, <1>4, FailOnly
  <1> QED  BY <1>5 DEF r, x

LEMMA SymlinkActs ==
    ASSUME NEW t0, Shape(t0), NEW p, IsPath(p), NEW contents, IsPath(contents), NEW bn
    PROVE  Acts(t0, Symlink(t0, bn, contents, p))
  <1> DEFINE r == Symlink(t0, bn, contents, p)
             l == Named(t0, bn, p)
             x == LinkNode(contents)
  <1>1. Sees(t0, l) /\ l.is # "ok"
    BY NamedSees DEF Sees, Outcomes
  <1>2. r \in {Fail("AlreadyExists", t0), Fail("NotFound", t0), MakeAt(t0, l, x), Fail(l.is, t0)}
    BY Zenon DEF Symlink
  <1>3. IsNode(t0, x) /\ Childless(x)
    BY NodesAre
  <1>4. Acts(t0, MakeAt(t0, l, x))
    BY <1>1, <1>3, MakeActs
  <1> HIDE DEF r, l, x
  <1>5. Acts(t0, r)
    BY <1>1, <1>2, <1>4, FailOnly
  <1> QED  BY <1>5 DEF r

(* The contents of a file, or the mode of a file or directory, set.        *)
LEMMA DataTurns ==
    ASSUME NEW t0, Shape(t0), NEW i \in Ino, Kind(t0, i) = "file", NEW d,
           NEW t1, t1 = SetData(t0, i, d)
    PROVE  /\ Turns(t0, t1)
           /\ \A j \in Ino : /\ t1[j].kind = t0[j].kind /\ t1[j].mode = t0[j].mode
                             /\ t1[j] = Free <=> t0[j] = Free
  <1>1. IsTree(t0) /\ t0[i] # Free /\ t0[i].kind = "file"
    BY DEF Shape, Kind, Free
  <1>2. PICK x : /\ t1 = SetNode(t0, i, x) /\ IsNode(t0, x)
                 /\ x.kind = "file" /\ x.mode = t0[i].mode
    BY <1>1, DataIs
  <1>3. /\ Turns(t0, t1) /\ t1[i] = x /\ \A j \in Ino \ {i} : t1[j] = t0[j]
    BY <1>1, <1>2, NodeTurns
  <1>4. x # Free
    BY <1>2 DEF Free
  <1> QED  BY <1>1, <1>2, <1>3, <1>4

LEMMA ModeTurns ==
    ASSUME NEW t0, Shape(t0), NEW i \in Ino, Kind(t0, i) \in {"file", "dir"}, NEW m,
           NEW t1, t1 = SetMode(t0, i, m)
    PROVE  Turns(t0, t1) /\ \A j \in Ino : t1[j] = Free <=> t0[j] = Free
  <1>1. IsTree(t0) /\ t0[i] # Free
    BY DEF Shape, Kind, Free
  <1>2. PICK x : /\ t1 = SetNode(t0, i, x) /\ IsNode(t0, x) /\ x.kind = t0[i].kind
                 /\ x.kind = "dir" => x.ents = Ents(t0, i)
    BY <1>1, ModeIs
  <1>3. /\ Turns(t0, t1) /\ t1[i] = x /\ \A j \in Ino \ {i} : t1[j] = t0[j]
    BY <1>1, <1>2, NodeTurns
  <1>4. x # Free
    BY <1>2 DEF Kind, Free
  <1> QED  BY <1>1, <1>3, <1>4

(* A name removed.                                                         *)
LEMMA DetachTurns ==
    ASSUME NEW t0, Shape(t0), NEW c \in Ino, IsDir(t0, c), NEW m, NEW t1, t1 = Detach(t0, c, m)
    PROVE  Turns(t0, t1)
  <1>1. IsTree(t0)
    BY DEF Shape
  <1> QED  BY <1>1, DetachHas, NoNewName

(* A name added, of what is not a directory.                               *)
LEMMA AttachTurns ==
    ASSUME NEW t0, Shape(t0), NEW c \in Ino, IsDir(t0, c), NEW m, NEW j \in Ino, t0[j] # Free,
           ~IsDir(t0, j), NEW t1, t1 = Attach(t0, c, m, j)
    PROVE  Turns(t0, t1)
  <1>1. IsTree(t0)
    BY DEF Shape
  <1>2. /\ IsTree(t1) /\ Still(t0, t1)
        /\ \A d, n, i : Has(t1, d, n, i) <=>
              \/ d = c /\ n = m /\ i = j
              \/ Has(t0, d, n, i) /\ ~(d = c /\ n = m)
    BY <1>1, AttachHas
  <1>3. ~IsDir(t1, j)
    BY <1>2 DEF Still, IsDir, Kind
  <1> QED  BY <1>2, <1>3, NoNewName

(* A node moved from the one name to another.                              *)
LEMMA MoveTurns ==
    ASSUME NEW t0, Shape(t0), NEW b0, NEW m, NEW i, Has(t0, b0, m, i),
           NEW c \in Ino, IsDir(t0, c), NEW n,
           NEW t1, t1 = Detach(t0, b0, m), NEW t2, t2 = Attach(t1, c, n, i)
    PROVE  Turns(t0, t2) /\ t2[i] # Free
  <1>1. IsTree(t0) /\ b0 \in Ino /\ IsDir(t0, b0) /\ i \in Ino /\ t0[i] # Free
    BY HasIs DEF Shape
  <1>2. /\ Turns(t0, t1)
        /\ \A d, k, j : Has(t1, d, k, j) <=> Has(t0, d, k, j) /\ ~(d = b0 /\ k = m)
    BY <1>1, DetachHas, DetachTurns
  <1>3. IsTree(t1) /\ Shape(t1) /\ IsDir(t1, c) /\ t1[i] # Free
    <2>1. t0[c] # Free
      BY DEF IsDir, Kind, Free
    <2> QED  BY <1>1, <1>2, <2>1 DEF Turns, Shape, Still, IsDir, Kind
  <1>4. /\ IsTree(t2) /\ Still(t1, t2)
        /\ \A d, k, j : Has(t2, d, k, j) <=>
              \/ d = c /\ k = n /\ j = i
              \/ Has(t1, d, k, j) /\ ~(d = c /\ k = n)
    BY <1>1, <1>3, AttachHas
  <1>5. ASSUME NEW d, NEW k, NEW e, NEW l, NEW j, Has(t2, d, k, j), Has(t2, e, l, j), IsDir(t2, j)
        PROVE  d = e /\ k = l
    <2>1. CASE j = i
      <3>1. IsDir(t0, i)
        BY <1>1, <1>2, <1>3, <1>4, <1>5, <2>1 DEF Turns, Still, IsDir, Kind
      <3>2. \A x, y : ~Has(t1, x, y, i)
        BY <1>2, <3>1 DEF Shape, Single
      <3> QED  BY <1>4, <1>5, <2>1, <3>2
    <2>2. CASE j # i
      <3>1. Has(t1, d, k, j) /\ Has(t1, e, l, j)
        BY <1>4, <1>5, <2>2
      <3>2. j \in Ino /\ t1[j] # Free
        BY <1>3, <3>1, HasIs
      <3>3. IsDir(t1, j)
        BY <1>4, <1>5, <3>2 DEF Still, IsDir, Kind
      <3> QED  BY <1>3, <3>1, <3>3 DEF Shape, Single
    <2> QED  BY <2>1, <2>2
  <1>6. IsDir(t2, Top) /\ IsDir(t2, Root)
    <2>1. Top \in Ino /\ Root \in Ino /\ IsDir(t1, Top) /\ IsDir(t1, Root)
      BY <1>3, TreeAssumption DEF Shape
    <2>2. t1[Top] # Free /\ t1[Root] # Free
      BY <2>1 DEF IsDir, Kind, Free
    <2> QED  BY <1>4, <2>1, <2>2 DEF Still, IsDir, Kind
  <1>7. Turns(t1, t2)
    BY <1>4, <1>5, <1>6 DEF Turns, Shape, Single
  <1> QED  BY <1>1, <1>2, <1>3, <1>7, TurnsThen DEF Turns, Still

(* Opening to write gives what is not a directory.                         *)
LEMMA OpenWriteActs ==
    ASSUME NEW t0, Shape(t0), NEW p, IsPath(p), NEW flags, NEW bn
    PROVE  LET r == OpenWrite(t0, bn, p, flags)
           IN  Acts(t0, r) /\ (r.err = "ok" => ~IsDir(r.t, r.ino))
  <1> DEFINE r == OpenWrite(t0, bn, p, flags)
             q == IF "create" \in flags THEN NoTail(p) ELSE p
             l == Look(t0, bn, q, TRUE)
             m == {"owner", "others"}
             x == FileNode("empty", m \ Umask)
             u == IF Kind(t0, l.ino) = "file" /\ "truncate" \in flags
                  THEN SetData(t0, l.ino, "empty") ELSE t0
             o == Ans("ok", u, l.ino)
             Good(y) == Acts(t0, y) /\ (y.err = "ok" => ~IsDir(y.t, y.ino))
  <1>1. IsPath(q)
    BY PathsAre
  <1>2. Sees(t0, l) /\ ErrorOf(l) # "ok"
    <2>1. Sees(t0, l)
      BY <1>1, LookSees
    <2> HIDE DEF l
    <2> QED  BY <2>1 DEF Sees, Outcomes, ErrorOf
  <1>3. \/ r = CreateNew(t0, bn, p, m)
        \/ r = Fail("InvalidInput", t0) \/ r = Fail("NotFound", t0)
        \/ r = Fail("IsADirectory", t0) \/ r = Fail("PermissionDenied", t0)
        \/ r = MakeAt(t0, l, x) \/ r = Fail(ErrorOf(l), t0)
        \/ r = o /\ Found(l) /\ ~IsDir(t0, l.ino)
    <2> DEFINE excl   == "excl" \in flags
               slash  == "create" \in flags /\ p.tail # ""
               barred == /\ Found(l) /\ Kind(t0, l.ino) = "file"
                         /\ "owner" \notin t0[l.ino].mode
               makes  == l.is = "absent" /\ "create" \in flags
    <2>1. r = CASE excl -> CreateNew(t0, bn, p, m)
                [] slash -> Fail(IF bn THEN "InvalidInput" ELSE "NotFound", t0)
                [] Found(l) /\ IsDir(t0, l.ino) -> Fail("IsADirectory", t0)
                [] barred -> Fail("PermissionDenied", t0)
                [] Found(l) /\ ~IsDir(t0, l.ino) -> o
                [] makes -> MakeAt(t0, l, x)
                [] OTHER -> Fail(ErrorOf(l), t0)
      BY Zenon DEF OpenWrite, SetData
    <2> HIDE DEF r, l, x, m, o, excl, slash, barred, makes
    <2> QED  BY <2>1
  <1>4. ASSUME Found(l), ~IsDir(t0, l.ino)  PROVE Good(o)
    <2>1. PICK i : i = l.ino
      OBVIOUS
    <2> HIDE DEF l
    <2>2. i \in Ino /\ t0[i] # Free
      BY <1>2, <1>4, <2>1 DEF Sees
    <2>3. Turns(t0, u) /\ \A j \in Ino : u[j].kind = t0[j].kind /\ (u[j] = Free <=> t0[j] = Free)
      BY <2>1, <2>2, DataTurns, TurnsSame
    <2> HIDE DEF u
    <2>4. Acts(t0, Ans("ok", u, i))
      BY <2>2, <2>3, DoneActs
    <2>5. o.t = u /\ o.ino = i
      BY <2>1 DEF Ans
    <2>6. ~IsDir(u, i)
      BY <1>4, <2>1, <2>2, <2>3 DEF IsDir, Kind
    <2> QED  BY <2>1, <2>4, <2>5, <2>6
  <1>5. IsNode(t0, x) /\ Childless(x) /\ x.kind = "file"
    BY NodesAre
  <1>6. ASSUME NEW y, Acts(t0, y), Only(t0, y, x)  PROVE Good(y)
    <2>1. y.err = "ok" => y.t[y.ino].kind = "file"
      BY <1>5, <1>6 DEF Only
    <2> QED  BY <1>6, <2>1 DEF IsDir, Kind
  <1>7. Good(MakeAt(t0, l, x)) /\ Good(CreateNew(t0, bn, p, m))
    <2>1. /\ Acts(t0, MakeAt(t0, l, x)) /\ Only(t0, MakeAt(t0, l, x), x)
          /\ Acts(t0, CreateNew(t0, bn, p, m)) /\ Only(t0, CreateNew(t0, bn, p, m), x)
      BY <1>2, <1>5, MakeActs, CreateNewActs
    <2> HIDE DEF Good, x, m, l
    <2> QED  BY <1>6, <2>1
  <1>8. ASSUME NEW e, e # "ok"  PROVE Good(Fail(e, t0))
    BY <1>8, FailReads DEF Reads
  <1> HIDE DEF r, l, u, x, m, o, Good
  <1>9. Good(r)
    BY <1>2, <1>3, <1>4, <1>7, <1>8
  <1> QED  BY <1>9 DEF r, Good

(* The calls that remove or add a name.                                    *)
LEMMA RemoveActs ==
    ASSUME NEW t0, Shape(t0), NEW l, Sees(t0, l), Found(l)
    PROVE  Acts(t0, Ans("ok", Detach(t0, l.dir, l.name), l.ino))
  <1>1. PICK d, n, i, t1 : d = l.dir /\ n = l.name /\ i = l.ino /\ t1 = Detach(t0, d, n)
    OBVIOUS
  <1>2. d \in Ino /\ IsDir(t0, d) /\ i \in Ino /\ t0[i] # Free
    BY <1>1 DEF Sees
  <1>3. Turns(t0, t1)
    BY <1>1, <1>2, DetachTurns
  <1>4. t1[i] # Free
    BY <1>2, <1>3 DEF Turns, Still
  <1>5. Acts(t0, Ans("ok", t1, i))
    BY <1>2, <1>3, <1>4, DoneActs
  <1> QED  BY <1>1, <1>5

LEMMA UnlinkActs ==
    ASSUME NEW t0, Shape(t0), NEW p, IsPath(p), NEW bn
    PROVE  Acts(t0, Unlink(t0, bn, p))
  <1> DEFINE r == Unlink(t0, bn, p)
             l == Named(t0, bn, p)
             o == Ans("ok", Detach(t0, l.dir, l.name), l.ino)
  <1>1. Sees(t0, l) /\ ErrorOf(l) # "ok"
    BY NamedSees DEF Sees, Outcomes, ErrorOf
  <1>2. \/ r \in {Fail(ErrorOf(l), t0), Fail("IsADirectory", t0), Fail("NotADirectory", t0)}
        \/ r = o /\ Found(l)
    BY Zenon DEF Unlink
  <1>3. Found(l) => Acts(t0, o)
    BY <1>1, RemoveActs
  <1> HIDE DEF r, l, o
  <1>4. Acts(t0, r)
    BY <1>1, <1>2, <1>3, FailReads DEF Reads
  <1> QED  BY <1>4 DEF r

LEMMA RmdirActs ==
    ASSUME NEW t0, Shape(t0), NEW p, IsPath(p), NEW bn
    PROVE  Acts(t0, Rmdir(t0, bn, p))
  <1> DEFINE r == Rmdir(t0, bn, p)
             l == Named(t0, bn, p)
             o == Ans("ok", Detach(t0, l.dir, l.name), l.ino)
  <1>1. Sees(t0, l) /\ ErrorOf(l) # "ok"
    BY NamedSees DEF Sees, Outcomes, ErrorOf
  <1>2. \/ r \in {Fail(ErrorOf(l), t0), Fail("InvalidInput", t0), Fail("NotADirectory", t0),
                  Fail("DirectoryNotEmpty", t0)}
        \/ r = o /\ Found(l)
    BY Zenon DEF Rmdir
  <1>3. Found(l) => Acts(t0, o)
    BY <1>1, RemoveActs
  <1> HIDE DEF r, l, o
  <1>4. Acts(t0, r)
    BY <1>1, <1>2, <1>3, FailReads DEF Reads
  <1> QED  BY <1>4 DEF r

LEMMA HardLinkActs ==
    ASSUME NEW t0, Shape(t0), NEW p, IsPath(p), NEW q, IsPath(q), NEW bn
    PROVE  Acts(t0, HardLink(t0, bn, p, q))
  <1> DEFINE r == HardLink(t0, bn, p, q)
             s == Named(t0, bn, p)
             d == Named(t0, bn, q)
             o == Ans("ok", Attach(t0, d.dir, d.name, s.ino), s.ino)
  <1>1. Sees(t0, s) /\ ErrorOf(s) # "ok" /\ Sees(t0, d) /\ d.is # "ok"
    BY NamedSees DEF Sees, Outcomes, ErrorOf
  <1>2. \/ r \in {Fail(ErrorOf(s), t0), Fail("NotADirectory", t0), Fail("AlreadyExists", t0),
                  Fail(d.is, t0), Fail("PermissionDenied", t0)}
        \/ r = o /\ Found(s) /\ ~IsDir(t0, s.ino)
    BY Zenon DEF HardLink
  <1>3. ASSUME Found(s), ~IsDir(t0, s.ino)  PROVE Acts(t0, o)
    <2>1. PICK c, n, i, t1 : c = d.dir /\ n = d.name /\ i = s.ino /\ t1 = Attach(t0, c, n, i)
      OBVIOUS
    <2> HIDE DEF s, d
    <2>2. c \in Ino /\ IsDir(t0, c) /\ i \in Ino /\ t0[i] # Free /\ ~IsDir(t0, i)
      BY <1>1, <1>3, <2>1 DEF Sees
    <2>3. Turns(t0, t1)
      BY <2>1, <2>2, AttachTurns
    <2>4. t1[i] # Free
      BY <2>2, <2>3 DEF Turns, Still
    <2>5. Acts(t0, Ans("ok", t1, i))
      BY <2>2, <2>3, <2>4, DoneActs
    <2> QED  BY <2>1, <2>5
  <1> HIDE DEF r, s, d, o
  <1>4. Acts(t0, r)
    BY <1>1, <1>2, <1>3, FailReads DEF Reads
  <1> QED  BY <1>4 DEF r

LEMMA RenameActs ==
    ASSUME NEW t0, Shape(t0), NEW p, IsPath(p), NEW q, IsPath(q), NEW bn
    PROVE  Acts(t0, Rename(t0, bn, p, q))
  <1> DEFINE r == Rename(t0, bn, p, q)
             s == Named(t0, bn, p)
             d == Named(t0, bn, q)
             o == Ans("ok", Attach(Detach(t0, s.dir, s.name), d.dir, d.name, s.ino), s.ino)
  <1>1. Sees(t0, s) /\ ErrorOf(s) # "ok" /\ Sees(t0, d) /\ d.is # "ok"
    BY NamedSees DEF Sees, Outcomes, ErrorOf
  <1>2. \/ r \in {Fail(ErrorOf(s), t0), Fail(d.is, t0), Fail("ResourceBusy", t0),
                  Fail("NotADirectory", t0), Fail("InvalidInput", t0), Fail("IsADirectory", t0),
                  Fail("DirectoryNotEmpty", t0), Ans("ok", t0, s.ino)}
        \/ r = o /\ Found(s) /\ s.name # ""
    BY Zenon DEF Rename
  <1>3. ASSUME Found(s), s.name # ""  PROVE Acts(t0, o)
    <2>1. PICK b0, m, c, n, i, t1, t2 :
             /\ b0 = s.dir /\ m = s.name /\ c = d.dir /\ n = d.name /\ i = s.ino
             /\ t1 = Detach(t0, b0, m) /\ t2 = Attach(t1, c, n, i)
      OBVIOUS
    <2> HIDE DEF s, d
    <2>2. Has(t0, s.dir, s.name, s.ino)
      BY <1>1, <1>3, Zenon DEF Sees
    <2>3. Has(t0, b0, m, i) /\ c \in Ino /\ IsDir(t0, c) /\ i \in Ino
      BY <1>1, <2>1, <2>2 DEF Sees
    <2>4. Turns(t0, t2) /\ t2[i] # Free
      BY <2>1, <2>3, MoveTurns
    <2>5. Acts(t0, Ans("ok", t2, i))
      BY <2>3, <2>4, DoneActs
    <2> QED  BY <2>1, <2>5
  <1>4. Acts(t0, Ans("ok", t0, s.ino))
    <2> HIDE DEF s
    <2>1. s.ino \in Ino /\ t0[s.ino] # Free
      BY <1>1 DEF Sees
    <2> QED  BY <2>1, TurnsSame, DoneActs
  <1> HIDE DEF r, s, d, o
  <1>5. Acts(t0, r)
    BY <1>1, <1>2, <1>3, <1>4, FailReads DEF Reads
  <1> QED  BY <1>5 DEF r

-----------------------------------------------------------------------------
(* What holds of a run of either host: the types, and what a copy has made. *)

DirSteps  == {"copy_dir.name", "copy_dir.make", "copy_dir.open", "copy_dir.chmod",
              "copy_dir.remove"}
FileSteps == {"copy_file.data", "copy_file.chmod", "copy_file.same", "copy_file.remove"}

KindsIn(l, tree, hh) ==
    /\ KindsAt(l, tree, hh)
    /\ l \in {"write.data", "append.data"} => ~IsDir(tree, hh.dst)
    /\ l \in {"copy_file.make", "copy_file.data", "copy_file.chmod"} => Kind(tree, hh.src) = "file"

(* A file copy holds open all it has made; a directory copy's mode has the *)
(* owner's bits, and so covers whatever another program puts in the place  *)
(* of the directory it made; and neither has made anything more open.      *)
Copied(l, tree, hh, made) ==
    /\ l \in {"copy_file", "copy_dir", "copy_file.make", "copy_dir.name", "copy_dir.make"} =>
          made = {}
    /\ l \in FileSteps => made \subseteq Open(hh)
    /\ l \in DirSteps => "owner" \in hh.mode
    /\ l \in CopySteps => \A i \in made : tree[i] # Free => tree[i].mode \subseteq hh.mode

OpenIn(tree, hh) == \A i \in Open(hh) : i \in Ino /\ tree[i] # Free
Told(u, q, m, f, d) == [before |-> u, quiet |-> q, moved |-> m, injected |-> f, made |-> d]
IsHistory(x) == x = Told(x.before, x.quiet, x.moved, x.injected, x.made)
Holds(l, tree, hh, x) ==
    /\ Shape(tree) /\ IsHandles(hh) /\ OpenIn(tree, hh) /\ KindsIn(l, tree, hh)
    /\ IsHistory(x) /\ x.made \in SUBSET Ino /\ Copied(l, tree, hh, x.made)
Paths   == dir.comps \in Seq(Comps) /\ IsPath(a) /\ IsPath(b)
ErrIs   == result.err \in Tags \cup {"ok", "Other"}
TreeInv ==
    /\ host \in Hosts /\ calls \in 0..Scene.max /\ moves \in 0..Scene.moves
    /\ ErrIs /\ Paths /\ Holds(pc, t, h, w)

(* What a step does, of the program's own or not.                          *)
Fine == ErrIs' /\ Paths' /\ Holds(pc, t, h, w)'

(* What it finds, as facts.                                                *)
LEMMA FineIs ==
    ASSUME TreeInv
    PROVE  /\ ErrIs /\ Paths /\ dir.comps \in Seq(Comps) /\ IsPath(a) /\ IsPath(b)
           /\ Holds(pc, t, h, w) /\ Shape(t) /\ IsTree(t) /\ IsHandles(h) /\ OpenIn(t, h)
           /\ KindsIn(pc, t, h) /\ IsHistory(w) /\ w.made \in SUBSET Ino
           /\ Copied(pc, t, h, w.made) /\ host \in Hosts
  BY DEF TreeInv, Holds, Paths, Shape

(* A reference to what a tree has: it stays so in the tree it turns to.    *)
LEMMA OpenStays ==
    ASSUME NEW t1, NEW t2, NEW hh, OpenIn(t1, hh), NEW l, KindsIn(l, t1, hh),
           \A i \in Open(hh) : t2[i] # Free /\ t2[i].kind = t1[i].kind
    PROVE  OpenIn(t2, hh) /\ KindsIn(l, t2, hh)
  <1>1. /\ hh.dst # NoIno => hh.dst \in Open(hh)
        /\ hh.src # NoIno => hh.src \in Open(hh)
    BY DEF Open
  <1>2. KindsAt(l, t2, hh)
    BY KindsStay DEF KindsIn
  <1>3. OpenIn(t2, hh)
    BY DEF OpenIn
  <1>4. /\ l \in {"write.data", "append.data"} => hh.dst # NoIno
        /\ l \in {"copy_file.make", "copy_file.data", "copy_file.chmod"} => hh.src # NoIno
    BY DEF KindsIn, KindsAt
  <1> QED  BY <1>1, <1>2, <1>3, <1>4 DEF KindsIn, IsDir, Kind

(* What a copy has made goes, keeps its mode, or is, as a directory, in    *)
(* the place of one that went.                                             *)
LEMMA CopiedStays ==
    ASSUME NEW l, NEW t1, NEW hh, NEW made, Copied(l, t1, hh, made), NEW t2,
           \A i \in made : \/ t2[i] = Free
                           \/ t1[i] # Free /\ t2[i].mode = t1[i].mode
                           \/ i \notin Open(hh) /\ t2[i].mode = {"owner"}
    PROVE  Copied(l, t2, hh, made)
  <1>1. ASSUME l \in CopySteps, NEW i \in made, t2[i] # Free
        PROVE  t2[i].mode \subseteq hh.mode
    <2>1. t1[i] # Free => t1[i].mode \subseteq hh.mode
      BY <1>1 DEF Copied
    <2>2. CASE l \in FileSteps \cup {"copy_file.make", "copy_dir.name", "copy_dir.make"}
      BY <1>1, <2>1, <2>2 DEF Copied
    <2>3. CASE l \in DirSteps
      <3>1. {"owner"} \subseteq hh.mode
        BY <2>3 DEF Copied
      <3> QED  BY <1>1, <2>1, <3>1
    <2> QED  BY <1>1, <2>2, <2>3 DEF CopySteps, FileSteps, DirSteps
  <1> QED  BY <1>1 DEF Copied

(* The history after a step.                                               *)
LEMMA HistoryIs ==
    ASSUME IsHistory(w), NEW m, NEW f
    PROVE  /\ \A x : x = [w EXCEPT !.moved = FALSE, !.made = m] => IsHistory(x) /\ x.made = m
           /\ \A x : x = [w EXCEPT !.moved = FALSE, !.injected = f, !.made = m] =>
                        IsHistory(x) /\ x.made = m
           /\ \A x : x = [w EXCEPT !.moved = FALSE, !.injected = f] =>
                        IsHistory(x) /\ x.made = w.made
           /\ \A x : x = [w EXCEPT !.moved = TRUE, !.quiet = f] => IsHistory(x) /\ x.made = w.made
  <1>1. ASSUME NEW u, NEW q, NEW v, NEW g, NEW d, NEW x, x = Told(u, q, v, g, d)
        PROVE  IsHistory(x) /\ x.made = d
    BY <1>1 DEF Told, IsHistory
  <1>2. w = Told(w.before, w.quiet, w.moved, w.injected, w.made)
    BY DEF IsHistory
  <1>3. \A v, x : x = [w EXCEPT !.moved = v, !.made = m] => IsHistory(x) /\ x.made = m
    <2> TAKE v, x
    <2> HAVE x = [w EXCEPT !.moved = v, !.made = m]
    <2>1. x = Told(w.before, w.quiet, v, w.injected, m)
      BY <1>2 DEF Told
    <2> QED  BY <1>1, <2>1
  <1>4. \A v, x : x = [w EXCEPT !.moved = v, !.injected = f, !.made = m] => IsHistory(x) /\ x.made = m
    <2> TAKE v, x
    <2> HAVE x = [w EXCEPT !.moved = v, !.injected = f, !.made = m]
    <2>1. x = Told(w.before, w.quiet, v, f, m)
      BY <1>2 DEF Told
    <2> QED  BY <1>1, <2>1
  <1>5. \A v, x : x = [w EXCEPT !.moved = v, !.injected = f] => IsHistory(x) /\ x.made = w.made
    <2> TAKE v, x
    <2> HAVE x = [w EXCEPT !.moved = v, !.injected = f]
    <2>1. x = Told(w.before, w.quiet, v, f, w.made)
      BY <1>2 DEF Told
    <2> QED  BY <1>1, <2>1
  <1>6. \A v, x : x = [w EXCEPT !.moved = v, !.quiet = f] => IsHistory(x) /\ x.made = w.made
    <2> TAKE v, x
    <2> HAVE x = [w EXCEPT !.moved = v, !.quiet = f]
    <2>1. x = Told(w.before, f, v, w.injected, w.made)
      BY <1>2 DEF Told
    <2> QED  BY <1>1, <2>1
  <1> QED  BY <1>3, <1>4, <1>5, <1>6, Zenon

(* Going on to the next step.                                              *)
Made(tree) == w.made \cup (FreeInos(t) \ FreeInos(tree))

LEMMA GotoKeeps ==
    ASSUME TreeInv, NEW l, NEW tree, NEW hh, Goto(l, tree, hh), Turns(t, tree), IsHandles(hh),
           OpenIn(tree, hh), KindsIn(l, tree, hh), Copied(l, tree, hh, Made(tree))
    PROVE  Fine
  <1>1. PICK m : m = Made(tree)
    OBVIOUS
  <1>2. /\ pc' = l /\ h' = hh /\ t' = Reap(tree, Open(hh)) /\ dir' = dir /\ a' = a /\ b' = b
        /\ result' = result /\ w' = [w EXCEPT !.moved = FALSE, !.made = m]
    BY <1>1 DEF Goto, Made
  <1>3. IsHistory(w') /\ w'.made = m
    <2>1. PICK x : x = w'
      OBVIOUS
    <2>2. x = [w EXCEPT !.moved = FALSE, !.made = m]
      BY <1>2, <2>1
    <2>3. IsHistory(x) /\ x.made = m
      BY <2>2, FineIs, HistoryIs, Zenon
    <2> QED  BY <2>1, <2>3
  <1>4. m \in SUBSET Ino
    <2>1. w.made \in SUBSET Ino
      BY FineIs
    <2> QED  BY <1>1, <2>1 DEF Made, FreeInos
  <1>5. Open(hh) \in SUBSET Ino /\ Shape(tree)
    BY DEF OpenIn, Turns
  <1>6. PICK t2 : t2 = t'
    OBVIOUS
  <1>7. /\ Shape(t2) /\ \A i \in Ino : t2[i] \in {tree[i], Free}
        /\ \A i \in Open(hh) : t2[i] = tree[i]
    BY <1>2, <1>5, <1>6, ReapTurns
  <1>8. OpenIn(t2, hh) /\ KindsIn(l, t2, hh)
    BY <1>7, OpenStays DEF OpenIn
  <1>9. Copied(l, t2, hh, m)
    <2>1. \A i \in m : t2[i] = Free \/ (tree[i] # Free /\ t2[i].mode = tree[i].mode)
      BY <1>4, <1>7
    <2> QED  BY <1>1, <2>1, CopiedStays
  <1>10. Holds(l, t2, hh, w')
    BY <1>3, <1>4, <1>7, <1>8, <1>9 DEF Holds
  <1> QED  BY <1>2, <1>6, <1>10, FineIs DEF Fine, ErrIs, Paths

(* Answering.                                                              *)
LEMMA NoneOpen ==
    /\ IsHandles(NoHandles) /\ Open(NoHandles) = {}
    /\ \A tree, made : /\ OpenIn(tree, NoHandles) /\ KindsIn("idle", tree, NoHandles)
                       /\ Copied("idle", tree, NoHandles, made)
  <1>1. IsPath(Nothing)
    BY EmptySeq, PathIs DEF Nothing
  <1>2. /\ NoHandles.src = NoIno /\ NoHandles.dst = NoIno /\ NoHandles.link = Nothing
        /\ NoHandles = Handles(NoIno, NoIno, {}, Nothing, "ok")
    BY DEF NoHandles, Handles
  <1>3. NoHandles.mode = {} /\ NoHandles.err = "ok"
    BY DEF NoHandles
  <1>4. Open(NoHandles) = {} /\ IsHandles(NoHandles)
    BY <1>1, <1>2, <1>3 DEF Open, IsHandles
  <1>5. \A tree : KindsIn("idle", tree, NoHandles)
    BY DEF KindsIn, KindsAt
  <1>6. \A tree, made : Copied("idle", tree, NoHandles, made)
    BY DEF Copied, CopySteps, FileSteps, DirSteps
  <1> QED  BY <1>4, <1>5, <1>6 DEF OpenIn

LEMMA AnswersKeep ==
    ASSUME TreeInv, NEW e, NEW tree, NEW S, NEW fault, AnswersAt(e, tree, S, fault),
           dir'.comps \in Seq(Comps), Turns(t, tree)
    PROVE  Fine
  <1>1. PICK m, f : m = Made(tree) /\ f = (w.injected \/ fault)
    OBVIOUS
  <1>2. /\ pc' = "idle" /\ h' = NoHandles /\ t' = Reap(tree, {}) /\ a' = a /\ b' = b
        /\ result' = [op |-> call.op, err |-> IoErr(e), saw |-> S]
        /\ w' = [w EXCEPT !.moved = FALSE, !.injected = f, !.made = m]
    BY <1>1 DEF AnswersAt, Made
  <1>3. IsHistory(w') /\ w'.made = m
    <2>1. PICK x : x = w'
      OBVIOUS
    <2>2. x = [w EXCEPT !.moved = FALSE, !.injected = f, !.made = m]
      BY <1>2, <2>1
    <2>3. IsHistory(w)
      BY FineIs
    <2>4. \A y : y = [w EXCEPT !.moved = FALSE, !.injected = f, !.made = m] =>
                 IsHistory(y) /\ y.made = m
      BY <2>3, HistoryIs
    <2>5. IsHistory(x) /\ x.made = m
      BY <2>2, <2>4, Zenon
    <2> QED  BY <2>1, <2>5
  <1>4. m \in SUBSET Ino
    <2>1. w.made \in SUBSET Ino
      BY FineIs
    <2> QED  BY <1>1, <2>1 DEF Made, FreeInos
  <1>5. PICK t2 : t2 = t'
    OBVIOUS
  <1>6. Shape(t2)
    <2>1. {} \in SUBSET Ino /\ Shape(tree)
      BY DEF Turns
    <2> QED  BY <1>2, <1>5, <2>1, ReapTurns
  <1>7. Holds("idle", t2, NoHandles, w')
    BY <1>3, <1>4, <1>6, NoneOpen DEF Holds
  <1>8. ErrIs'
    <2>1. IoErr(e) \in Tags \cup {"ok", "Other"}
      BY DEF IoErr
    <2> QED  BY <1>2, <2>1 DEF ErrIs
  <1> QED  BY <1>2, <1>5, <1>7, <1>8, FineIs DEF Fine, Paths

LEMMA LeaveKeeps ==
    ASSUME TreeInv, NEW e, NEW tree, Leave(e, tree), Turns(t, tree)
    PROVE  Fine
  <1>1. AnswersAt(e, tree, {}, FALSE) /\ dir' = dir
    BY DEF Leave, Answers
  <1> QED  BY <1>1, FineIs, AnswersKeep

LEMMA LeftKeeps ==
    ASSUME TreeInv, NEW e, Leave(e, t)
    PROVE  Fine
  BY FineIs, TurnsSame, LeaveKeeps

(* A system call's answer is passed on, or told.                           *)
LEMMA PassKeeps ==
    ASSUME TreeInv, NEW r, Pass(r) \/ Tell(r), Acts(t, r)
    PROVE  Fine
  <1>1. PICK e, x, S : /\ e = r.err /\ x = r.t /\ (AnswersAt(e, x, S, FALSE) /\ dir' = dir)
    BY DEF Pass, Tell, Leave, Answers
  <1>2. Turns(t, x)
    BY <1>1 DEF Acts
  <1> QED  BY <1>1, <1>2, FineIs, AnswersKeep

(* Going on with the tree as it is and nothing more held open.             *)
LEMMA OnKeeps ==
    ASSUME TreeInv, NEW l, Goto(l, t, h), KindsIn(l, t, h), Copied(l, t, h, w.made)
    PROVE  Fine
  <1>1. Made(t) = w.made
    BY DEF Made
  <1> QED  BY <1>1, FineIs, TurnsSame, GotoKeeps

Plain == {"mkdir.make", "mkdir_all.name", "mkdir_all.climb", "mkdir_all.make", "mkdir_all.taken",
          "rmdir.remove", "rmtree.open", "stay.kind", "stay.read",
          "stay.aim", "move", "symlink.make"}
LEMMA PlainIs ==
    ASSUME NEW l \in Plain, NEW tree, NEW hh
    PROVE  KindsIn(l, tree, hh) /\ \A made : Copied(l, tree, hh, made)
  BY DEF Plain, KindsIn, KindsAt, Copied, CopySteps, FileSteps, DirSteps

LEMMA PlainKeeps ==
    ASSUME TreeInv, NEW l \in Plain, Goto(l, t, h)
    PROVE  Fine
  <1>1. KindsIn(l, t, h) /\ Copied(l, t, h, w.made)
    BY PlainIs
  <1> QED  BY <1>1, OnKeeps

(* The stat calls of a named path change nothing.                          *)
LEMMA AsNamedReads ==
    ASSUME NEW t0, Shape(t0), NEW p, IsPath(p)
    PROVE  Reads(t0, MetadataAsNamed(t0, p)) /\ Reads(t0, MetadataFollowed(t0, p))
  <1>1. /\ Reads(t0, Stat(t0, TRUE, p)) /\ Reads(t0, Stat(t0, Confined, p))
        /\ Reads(t0, Lstat(t0, Confined, p))
    BY StatReads, LstatReads
  <1> QED  BY <1>1, Zenon DEF MetadataAsNamed, MetadataFollowed

-----------------------------------------------------------------------------
(* The steps of the calls, on either host.                                 *)

(* The calls that only tell.                                               *)
LEMMA ReadingFine ==
    ASSUME TreeInv, ReadFileAt \/ StatAt \/ ReadDirAt \/ ReadlinkAt \/ OpenReadAt
    PROVE  Fine
  <1>1. PICK f : f = (pc = "open")
    OBVIOUS
  <1>2. /\ Acts(t, OpenRead(t, Confined, a, TRUE)) /\ Acts(t, OpenRead(t, Confined, a, f))
        /\ Acts(t, OpenDir(t, Confined, a, TRUE))
    BY FineIs, OpenReads DEF Reads
  <1>3. Acts(t, ReadLink(t, Confined, a))
    BY FineIs, ReadLinkReads DEF Reads
  <1>4. Acts(t, MetadataFollowed(t, a)) /\ Acts(t, MetadataAsNamed(t, a))
    BY FineIs, AsNamedReads DEF Reads
  <1>5. CASE ReadFileAt
    <2>1. PICK r : r = OpenRead(t, Confined, a, TRUE)
      OBVIOUS
    <2>2. Leave("IsADirectory", t) \/ Tell(r)
      BY <1>5, <2>1 DEF ReadFileAt
    <2> QED  BY <1>2, <2>1, <2>2, LeftKeeps, PassKeeps
  <1>6. CASE StatAt
    BY <1>4, <1>6, PassKeeps DEF StatAt
  <1>7. CASE ReadDirAt
    BY <1>2, <1>7, PassKeeps DEF ReadDirAt
  <1>8. CASE ReadlinkAt
    BY <1>3, <1>8, PassKeeps DEF ReadlinkAt
  <1>9. CASE OpenReadAt
    <2>1. Tell(OpenRead(t, Confined, a, f))
      BY <1>1, <1>9 DEF OpenReadAt
    <2> QED  BY <1>2, <2>1, PassKeeps
  <1> QED  BY <1>5, <1>6, <1>7, <1>8, <1>9

LEMMA OpenDirFine ==
    ASSUME TreeInv, OpenDirAt
    PROVE  Fine
  <1>1. PICK r : r = OpenDir(t, Confined, a, pc = "open_dir")
    OBVIOUS
  <1>2. /\ AnswersAt(r.err, t, {}, FALSE)
        /\ dir' = IF r.err # "ok" THEN dir
                  ELSE [comps |-> (IF Confined THEN Base ELSE <<>>) \o a.comps, ino |-> r.ino]
    BY <1>1 DEF OpenDirAt
  <1>3. PICK c : c = IF Confined THEN Base ELSE <<>>
    OBVIOUS
  <1>4. c \o a.comps \in Seq(Comps)
    <2>1. c \in Seq(Comps)
      BY <1>3, FsAssumption, EmptySeq
    <2> QED  BY <2>1, FineIs, ConcatProperties DEF IsPath
  <1>5. dir' = dir \/ dir'.comps = c \o a.comps
    BY <1>2, <1>3
  <1>6. dir'.comps \in Seq(Comps)
    BY <1>4, <1>5, FineIs
  <1>7. PICK e, S, f : e = r.err /\ S = {} /\ f = FALSE
    OBVIOUS
  <1>8. AnswersAt(e, t, S, f)
    BY <1>2, <1>7
  <1>9. Turns(t, t)
    BY FineIs, TurnsSame
  <1> QED  BY <1>6, <1>8, <1>9, AnswersKeep

(* Holding what was just opened.                                           *)
LEMMA MadeFine ==
    ASSUME TreeInv, NEW l \in {"write.data", "append.data"}, NEW r, Acts(t, r), r.err = "ok",
           ~IsDir(r.t, r.ino), Goto(l, r.t, [h EXCEPT !.dst = r.ino])
    PROVE  Fine
  <1>1. PICK i, hh : i = r.ino /\ hh = [h EXCEPT !.dst = i]
    OBVIOUS
  <1>2. IsHandles(hh) /\ hh.dst = i /\ hh.src = h.src /\ Open(hh) \subseteq Open(h) \cup ({i} \ {NoIno})
    <2>1. IsHandles(h)
      BY FineIs
    <2>2. \A x : x = [h EXCEPT !.dst = i] =>
             IsHandles(x) /\ x.dst = i /\ x.src = h.src /\ Open(x) \subseteq Open(h) \cup ({i} \ {NoIno})
      BY <2>1, HeldIs
    <2> QED  BY <1>1, <2>2, Zenon
  <1>3. Turns(t, r.t) /\ i \in Ino /\ r.t[i] # Free
    BY <1>1 DEF Acts
  <1>4. OpenIn(r.t, hh)
    <2>1. OpenIn(t, h)
      BY FineIs
    <2> QED  BY <1>2, <1>3, <2>1 DEF OpenIn, Turns, Still
  <1>5. KindsIn(l, r.t, hh)
    BY <1>1, <1>2, <1>3, NoInoAssumption DEF KindsIn, KindsAt
  <1>6. Copied(l, r.t, hh, Made(r.t))
    BY DEF Copied, CopySteps, FileSteps, DirSteps
  <1>7. Goto(l, r.t, hh)
    BY <1>1
  <1> QED  BY <1>2, <1>3, <1>4, <1>5, <1>6, <1>7, GotoKeeps

(* write_file_at and the writers.                                          *)
LEMMA WriteOpenFine ==
    ASSUME TreeInv, WriteOpen
    PROVE  Fine
  <1>1. PICK e, r : /\ e = RefuseDirectoryName(t, a)
                    /\ r = OpenWrite(t, Confined, a, {"create", "truncate"})
    OBVIOUS
  <1>2. Acts(t, r) /\ (r.err = "ok" => ~IsDir(r.t, r.ino))
    BY <1>1, FineIs, OpenWriteActs
  <1>3. \/ Leave(e, t)
        \/ Pass(r)
        \/ r.err = "ok" /\ Goto("write.data", r.t, [h EXCEPT !.dst = r.ino])
    BY <1>1 DEF WriteOpen
  <1> QED  BY <1>2, <1>3, LeftKeeps, PassKeeps, MadeFine

LEMMA OpenWriteFine ==
    ASSUME TreeInv, OpenWriteAt
    PROVE  Fine
  <1>1. PICK flags : flags = WriteFlags[pc]
    OBVIOUS
  <1>2. PICK e, r : /\ e = IF IsDirAnswer(MetadataFollowed(t, a)) THEN "IsADirectory"
                           ELSE "NotADirectory"
                    /\ r = OpenWrite(t, Confined, a, flags)
    OBVIOUS
  <1>3. Acts(t, r) /\ (r.err = "ok" => ~IsDir(r.t, r.ino))
    BY <1>2, FineIs, OpenWriteActs
  <1>4. \/ Leave(e, t)
        \/ Pass(r)
        \/ r.err = "ok" /\ Goto("append.data", r.t, [h EXCEPT !.dst = r.ino])
        \/ Tell(r)
    BY <1>1, <1>2, Zenon DEF OpenWriteAt
  <1> QED  BY <1>3, <1>4, LeftKeeps, PassKeeps, MadeFine

(* The open node is written in place.                                      *)
LEMMA PutFine ==
    ASSUME TreeInv, WriteData \/ AppendData
    PROVE  Fine
  <1>1. h.dst # NoIno
    BY FineIs DEF KindsIn, KindsAt, WriteData, AppendData
  <1>2. h.dst \in Ino
    BY <1>1, FineIs DEF OpenIn, Open
  <1>3. PICK e, d, f : Answers(e, Put(d), {}, f)
    BY DEF WriteData, AppendData, Leave
  <1>4. Turns(t, Put(d))
    <2>1. PICK t1 : t1 = SetData(t, h.dst, d)
      OBVIOUS
    <2>2. CASE Kind(t, h.dst) = "file"
      <3>1. Turns(t, t1)
        BY <1>2, <2>1, <2>2, FineIs, DataTurns
      <3> QED  BY <2>1, <2>2, <3>1 DEF Put, SetData
    <2>3. CASE Kind(t, h.dst) # "file"
      BY <2>3, FineIs, TurnsSame DEF Put
    <2> QED  BY <2>2, <2>3
  <1>5. PICK x, S : x = Put(d) /\ S = {}
    OBVIOUS
  <1>6. AnswersAt(e, x, S, f) /\ dir' = dir
    BY <1>3, <1>5 DEF Answers
  <1> QED  BY <1>4, <1>5, <1>6, FineIs, AnswersKeep

(* Making and removing a directory, and unlinking.                         *)
LEMMA CreateDirFine ==
    ASSUME TreeInv, CreateDirName \/ CreateDirMake
    PROVE  Fine
  <1>1. CASE CreateDirName
    <2>1. PICK e : e = NewDirectoryName(t, a)
      OBVIOUS
    <2>2. Goto("mkdir.make", t, h) \/ Leave(e, t)
      BY <1>1, <2>1 DEF CreateDirName
    <2> QED  BY <2>2, LeftKeeps, PlainKeeps DEF Plain
  <1>2. CASE CreateDirMake
    <2>1. PICK r : r = Mkdir(t, Confined, SlashesStripped(a), {"owner", "others"})
      OBVIOUS
    <2>2. Acts(t, r)
      BY <2>1, FineIs, StrippedIs, MkdirActs
    <2>3. Pass(r)
      BY <1>2, <2>1 DEF CreateDirMake
    <2> QED  BY <2>2, <2>3, PassKeeps
  <1> QED  BY <1>1, <1>2

LEMMA CreateDirAllFine ==
    ASSUME TreeInv,
           CreateDirAllThere \/ CreateDirAllName \/ CreateDirAllMake \/ CreateDirAllTaken
    PROVE  Fine
  <1>1. PICK x, e, l, hh : /\ x = t \/ x = Mkdir(t, Confined, h.link, {"owner", "others"}).t
                           /\ l \in AllSteps /\ Linked(hh)
                           /\ Leave(e, x) \/ Goto(l, x, hh)
    BY FineIs, MakesAre
  <1>2. Turns(t, x)
    <2>1. PICK r : r = Mkdir(t, Confined, h.link, {"owner", "others"})
      OBVIOUS
    <2>2. Acts(t, r)
      BY <2>1, FineIs, MkdirActs DEF IsHandles
    <2> QED  BY <1>1, <2>1, <2>2, FineIs, TurnsSame DEF Acts
  <1>3. CASE Leave(e, x)
    BY <1>2, <1>3, LeaveKeeps
  <1>4. CASE Goto(l, x, hh)
    <2>1. IsHandles(hh) /\ OpenIn(x, hh)
      BY <1>1, <1>2, FineIs DEF Linked, OpenIn, Turns, Still
    <2>2. KindsIn(l, x, hh) /\ Copied(l, x, hh, Made(x))
      BY <1>1, PlainIs DEF AllSteps, Plain
    <2> QED  BY <1>2, <1>4, <2>1, <2>2, GotoKeeps
  <1> QED  BY <1>1, <1>3, <1>4

LEMMA RemoveFine ==
    ASSUME TreeInv,
           RemoveDirName \/ RemoveDirRemove \/ UnlinkAt \/ RemoveDirAllName \/ RemoveTreeLast
    PROVE  Fine
  <1>1. CASE RemoveDirName \/ RemoveDirAllName
    <2>1. PICK e : e = ExistingDirectoryName(t, a)
      OBVIOUS
    <2>2. \/ Goto("rmdir.remove", t, h) \/ Goto("rmtree.open", t, h)
          \/ Leave(e, t) \/ Leave("Unsupported", t)
      BY <1>1, <2>1 DEF RemoveDirName, RemoveDirAllName
    <2> QED  BY <2>2, LeftKeeps, PlainKeeps DEF Plain
  <1>2. IsPath(SlashesStripped(a))
    BY FineIs, StrippedIs
  <1>3. CASE RemoveDirRemove \/ RemoveTreeLast
    <2>1. PICK r : r = Rmdir(t, Confined, SlashesStripped(a))
      OBVIOUS
    <2>2. Acts(t, r)
      BY <1>2, <2>1, FineIs, RmdirActs
    <2>3. Pass(r)
      BY <1>3, <2>1 DEF RemoveDirRemove, RemoveTreeLast
    <2> QED  BY <2>2, <2>3, PassKeeps
  <1>4. CASE UnlinkAt
    <2>1. PICK r : r = Unlink(t, Confined, a)
      OBVIOUS
    <2>2. Acts(t, r)
      BY <2>1, FineIs, UnlinkActs
    <2>3. Pass(r)
      BY <1>4, <2>1 DEF UnlinkAt
    <2> QED  BY <2>2, <2>3, PassKeeps
  <1> QED  BY <1>1, <1>3, <1>4

LEMMA RemoveTreeOpenFine ==
    ASSUME TreeInv, RemoveTreeOpen
    PROVE  Fine
  <1>1. PICK p, l, e, r : /\ p = SlashesStripped(a) /\ l = Named(t, Confined, p)
                          /\ e = ErrorOf(l) /\ r = Unlink(t, Confined, p)
    OBVIOUS
  <1>2. IsPath(p)
    BY <1>1, FineIs, StrippedIs
  <1>3. Sees(t, l) /\ Acts(t, r)
    BY <1>1, <1>2, FineIs, NamedSees, UnlinkActs
  <1>4. \/ Leave(e, t) \/ Leave("NotADirectory", t) \/ Pass(r)
        \/ IsDir(t, l.ino) /\ Goto("rmtree.empty", t, [h EXCEPT !.src = l.ino])
    BY <1>1 DEF RemoveTreeOpen
  <1>5. ASSUME IsDir(t, l.ino), Goto("rmtree.empty", t, [h EXCEPT !.src = l.ino])  PROVE Fine
    <2>1. PICK i, hh : i = l.ino /\ hh = [h EXCEPT !.src = i]
      OBVIOUS
    <2>2. i \in Ino /\ t[i] # Free /\ IsHandles(h) /\ OpenIn(t, h)
      BY <1>3, <2>1, FineIs DEF Sees
    <2>3. \A x : x = [h EXCEPT !.src = i] =>
             IsHandles(x) /\ x.src = i /\ Open(x) \subseteq Open(h) \cup ({i} \ {NoIno})
      BY <2>2, HeldIs
    <2>4. IsHandles(hh) /\ hh.src = i /\ Open(hh) \subseteq Open(h) \cup ({i} \ {NoIno})
      BY <2>1, <2>3, Zenon
    <2>5. OpenIn(t, hh)
      BY <2>2, <2>4 DEF OpenIn
    <2>6. KindsIn("rmtree.empty", t, hh)
      BY <1>5, <2>1, <2>2, <2>4, NoInoAssumption DEF KindsIn, KindsAt
    <2>7. Copied("rmtree.empty", t, hh, Made(t))
      BY DEF Copied, CopySteps, FileSteps, DirSteps
    <2>8. Goto("rmtree.empty", t, hh) /\ Turns(t, t)
      BY <1>5, <2>1, FineIs, TurnsSame
    <2> QED  BY <2>4, <2>5, <2>6, <2>7, <2>8, GotoKeeps
  <1> QED  BY <1>3, <1>4, <1>5, LeftKeeps, PassKeeps

LEMMA RemoveTreeEntryFine ==
    ASSUME TreeInv, RemoveTreeEntry
    PROVE  Fine
  <1>1. PICK d, n : /\ d \in Below(t, h.src) /\ IsDir(t, d)
                    /\ Goto("rmtree.empty", Detach(t, d, n), h)
    BY DEF RemoveTreeEntry
  <1>2. h.src # NoIno /\ IsDir(t, h.src)
    BY FineIs DEF KindsIn, KindsAt, RemoveTreeEntry
  <1>3. h.src \in Ino
    BY <1>2, FineIs DEF OpenIn, Open
  <1>4. d \in Ino
    BY <1>1, <1>3, FineIs, BelowIs
  <1>5. PICK t1 : t1 = Detach(t, d, n)
    OBVIOUS
  <1>6. Turns(t, t1)
    BY <1>1, <1>4, <1>5, FineIs, DetachTurns
  <1>7. \A i \in Open(h) : t1[i] # Free /\ t1[i].kind = t[i].kind
    BY <1>6, FineIs DEF OpenIn, Turns, Still
  <1>8. KindsIn("rmtree.empty", t, h)
    BY FineIs DEF RemoveTreeEntry
  <1>9. OpenIn(t1, h) /\ KindsIn("rmtree.empty", t1, h)
    BY <1>7, <1>8, FineIs, OpenStays
  <1>10. Copied("rmtree.empty", t1, h, Made(t1))
    BY DEF Copied, CopySteps, FileSteps, DirSteps
  <1>11. Goto("rmtree.empty", t1, h) /\ IsHandles(h)
    BY <1>1, <1>5, FineIs
  <1> QED  BY <1>6, <1>9, <1>10, <1>11, GotoKeeps

LEMMA RemoveTreeFailsFine ==
    ASSUME TreeInv, RemoveTreeFails
    PROVE  Fine
  <1>1. PICK e, S, f : e = "PermissionDenied" /\ S = {} /\ f = TRUE
    OBVIOUS
  <1>2. AnswersAt(e, t, S, f) /\ dir' = dir
    BY <1>1 DEF RemoveTreeFails, Answers
  <1> QED  BY <1>2, FineIs, TurnsSame, AnswersKeep

(* rename_at, link_at and symlink_at.                                      *)
LEMMA MoveFine ==
    ASSUME TreeInv, RenameAt \/ LinkAt \/ StayKind \/ StayAim \/ Move
    PROVE  Fine
  <1>1. CASE RenameAt \/ LinkAt \/ StayKind \/ StayAim
    <2>1. PICK e : e = RenamedSource(t, a, b)
      OBVIOUS
    <2>2. \/ \E l \in {"stay.kind", "stay.read", "move"} : Goto(l, t, h)
          \/ Leave(e, t) \/ Leave("NotADirectory", t) \/ Leave("PermissionDenied", t)
      BY <1>1, <2>1 DEF RenameAt, LinkAt, StayKind, StayAim, MoveNow
    <2> QED  BY <2>2, LeftKeeps, PlainKeeps DEF Plain
  <1>2. CASE Move
    <2>1. PICK r, s : r = Rename(t, Confined, a, b) /\ s = HardLink(t, Confined, a, b)
      OBVIOUS
    <2>2. Acts(t, r) /\ Acts(t, s)
      BY <2>1, FineIs, RenameActs, HardLinkActs
    <2>3. Pass(r) \/ Pass(s)
      BY <1>2, <2>1 DEF Move
    <2> QED  BY <2>2, <2>3, PassKeeps
  <1> QED  BY <1>1, <1>2

LEMMA StayReadFine ==
    ASSUME TreeInv, StayRead
    PROVE  Fine
  <1>1. PICK r : r = ReadLink(t, TRUE, a)
    OBVIOUS
  <1>2. Acts(t, r) /\ (r.err = "ok" => Kind(t, r.ino) = "link")
    <2>1. PICK bn : bn = TRUE
      OBVIOUS
    <2>2. Acts(t, ReadLink(t, bn, a)) /\
          (ReadLink(t, bn, a).err = "ok" => Kind(t, ReadLink(t, bn, a).ino) = "link")
      BY FineIs, ReadLinkReads DEF Reads
    <2> QED  BY <1>1, <2>1, <2>2, Zenon
  <1>3. \/ Pass(r)
        \/ Goto("move", t, h)
        \/ r.err = "ok" /\ Goto("stay.aim", t, [h EXCEPT !.link = t[r.ino].to])
    BY <1>1 DEF StayRead
  <1>4. ASSUME r.err = "ok", Goto("stay.aim", t, [h EXCEPT !.link = t[r.ino].to])  PROVE Fine
    <2>1. PICK k, hh : k = t[r.ino].to /\ hh = [h EXCEPT !.link = k]
      OBVIOUS
    <2>2. IsPath(k)
      <3>1. r.ino \in Ino /\ t[r.ino].kind = "link"
        BY <1>2, <1>4 DEF Acts, Kind
      <3>2. IsNode(t, t[r.ino])
        BY <3>1, FineIs DEF IsTree
      <3> QED  BY <2>1, <3>1, <3>2, KindIs
    <2>3. h = Handles(h.src, h.dst, h.mode, h.link, h.err)
      BY FineIs DEF IsHandles
    <2>4. hh = Handles(h.src, h.dst, h.mode, k, h.err)
      BY <2>1, <2>3 DEF Handles
    <2>5. hh.src = h.src /\ hh.dst = h.dst /\ hh.mode = h.mode /\ hh.link = k /\ hh.err = h.err
      BY <2>4 DEF Handles
    <2>6. IsHandles(hh) /\ Open(hh) = Open(h)
      BY <2>2, <2>4, <2>5 DEF IsHandles, Open
    <2>7. OpenIn(t, hh) /\ Turns(t, t)
      BY <2>6, FineIs, TurnsSame DEF OpenIn
    <2>8. KindsIn("stay.aim", t, hh) /\ Copied("stay.aim", t, hh, Made(t))
      BY PlainIs DEF Plain
    <2>9. Goto("stay.aim", t, hh)
      BY <1>4, <2>1
    <2> QED  BY <2>6, <2>7, <2>8, <2>9, GotoKeeps
  <1> QED  BY <1>2, <1>3, <1>4, PlainKeeps, PassKeeps DEF Plain

LEMMA SymlinkFine ==
    ASSUME TreeInv, SymlinkCheck \/ SymlinkMake
    PROVE  Fine
  <1>1. CASE SymlinkCheck
    <2>1. PICK e, x : e = RefuseDirectoryName(t, a) /\ x = TargetInside(t, a, b)
      OBVIOUS
    <2>2. Leave("NotFound", t) \/ Leave(e, t) \/ Leave(x, t) \/ Goto("symlink.make", t, h)
      BY <1>1, <2>1 DEF SymlinkCheck
    <2> QED  BY <2>2, LeftKeeps, PlainKeeps DEF Plain
  <1>2. CASE SymlinkMake
    <2>1. PICK r : r = Symlink(t, Confined, b, a)
      OBVIOUS
    <2>2. Acts(t, r)
      BY <2>1, FineIs, SymlinkActs
    <2>3. Pass(r)
      BY <1>2, <2>1 DEF SymlinkMake
    <2> QED  BY <2>2, <2>3, PassKeeps
  <1> QED  BY <1>1, <1>2

-----------------------------------------------------------------------------
(* The copies, and what they have made.                                    *)

LEMMA FreeIs ==
    ASSUME NEW t0, IsTree(t0)
    PROVE  \A i \in Ino : i \in FreeInos(t0) <=> t0[i] = Free
  <1> SUFFICES ASSUME NEW i \in Ino  PROVE Kind(t0, i) = "free" <=> t0[i] = Free
    BY DEF FreeInos
  <1>1. IsNode(t0, t0[i])
    BY DEF IsTree
  <1> QED  BY <1>1, KindIs DEF Kind, Free

LEMMA MadeIs ==
    ASSUME NEW t1, IsTree(t), IsTree(t1)
    PROVE  /\ (\A i \in Ino : t1[i] = Free <=> t[i] = Free) => Made(t1) = w.made
           /\ \A r, x : w.made = {} /\ t1 = r.t /\ Only(t, r, x) =>
                 Made(t1) \subseteq {r.ino} /\ \A i \in Made(t1) : t1[i] = x
  <1>1. \A i \in Ino : (i \in FreeInos(t) <=> t[i] = Free) /\ (i \in FreeInos(t1) <=> t1[i] = Free)
    BY FreeIs
  <1>2. FreeInos(t) \subseteq Ino /\ FreeInos(t1) \subseteq Ino
    BY DEF FreeInos
  <1>3. (\A i \in Ino : t1[i] = Free <=> t[i] = Free) => Made(t1) = w.made
    BY <1>1, <1>2 DEF Made
  <1>4. ASSUME NEW r, NEW x, w.made = {}, t1 = r.t, Only(t, r, x), NEW i \in Made(t1)
        PROVE  i = r.ino /\ t1[i] = x
    <2>1. i \in Ino /\ t[i] = Free /\ t1[i] # Free
      BY <1>1, <1>2, <1>4 DEF Made
    <2> QED  BY <1>4, <2>1 DEF Only
  <1> QED  BY <1>3, <1>4

(* A step that fails: nothing is closed.                                   *)
LEMMA FailsFine ==
    ASSUME TreeInv, NEW l, pc' = l, Turns(t, t'), IsHandles(h'), Open(h') = Open(h),
           KindsIn(l, t', h'), Copied(l, t', h', w.made), Injected,
           UNCHANGED <<dir, a, b, result>>
    PROVE  Fine
  <1>1. PICK f : f = TRUE
    OBVIOUS
  <1>2. w' = [w EXCEPT !.moved = FALSE, !.injected = f]
    BY <1>1 DEF Injected
  <1>3. IsHistory(w') /\ w'.made = w.made
    <2>1. PICK x : x = w'
      OBVIOUS
    <2>2. x = [w EXCEPT !.moved = FALSE, !.injected = f]
      BY <1>2, <2>1
    <2>3. IsHistory(w)
      BY FineIs
    <2>4. \A y : y = [w EXCEPT !.moved = FALSE, !.injected = f] =>
                 IsHistory(y) /\ y.made = w.made
      BY <2>3, HistoryIs
    <2>5. IsHistory(x) /\ x.made = w.made
      BY <2>2, <2>4, Zenon
    <2> QED  BY <2>1, <2>5
  <1>4. OpenIn(t', h') /\ Shape(t')
    BY FineIs DEF OpenIn, Turns, Still
  <1>5. Holds(l, t', h', w')
    BY <1>3, <1>4, FineIs DEF Holds
  <1> QED  BY <1>5, FineIs DEF Fine, ErrIs, Paths

LEMMA CopyFileOpenFine ==
    ASSUME TreeInv, CopyFileOpen
    PROVE  Fine
  <1>1. PICK e, r : e = RefuseDirectoryName(t, b) /\ r = OpenRead(t, Confined, a, TRUE)
    OBVIOUS
  <1>2. Acts(t, r) /\ r.t = t
    BY <1>1, FineIs, OpenReads DEF Reads
  <1>3. PICK m : m = CopyMode(t[r.ino].mode)
    OBVIOUS
  <1>4. \/ Leave(e, t) \/ Pass(r) \/ Leave("IsADirectory", t) \/ Leave("InvalidInput", t)
        \/ /\ r.err = "ok" /\ Kind(t, r.ino) = "file"
           /\ Goto("copy_file.make", t, [h EXCEPT !.src = r.ino, !.mode = m])
    BY <1>1, <1>3 DEF CopyFileOpen
  <1>5. ASSUME r.err = "ok", Kind(t, r.ino) = "file",
               Goto("copy_file.make", t, [h EXCEPT !.src = r.ino, !.mode = m])
        PROVE  Fine
    <2>1. PICK i, hh : i = r.ino /\ hh = [h EXCEPT !.src = i, !.mode = m]
      OBVIOUS
    <2>2. h = Handles(h.src, h.dst, h.mode, h.link, h.err) /\ IsPath(h.link)
      BY FineIs DEF IsHandles
    <2>3. hh = Handles(i, h.dst, m, h.link, h.err)
      BY <2>1, <2>2 DEF Handles
    <2>4. hh.src = i /\ hh.dst = h.dst /\ hh.mode = m /\ hh.link = h.link /\ hh.err = h.err
      BY <2>3 DEF Handles
    <2>5. IsHandles(hh) /\ Open(hh) \subseteq Open(h) \cup {i}
      BY <2>2, <2>3, <2>4 DEF IsHandles, Open
    <2>6. i \in Ino /\ t[i] # Free
      BY <1>2, <1>5, <2>1 DEF Acts
    <2>7. OpenIn(t, hh)
      BY <2>5, <2>6, FineIs DEF OpenIn
    <2>8. KindsIn("copy_file.make", t, hh)
      BY <1>5, <2>1, <2>4, <2>6, NoInoAssumption DEF KindsIn, KindsAt
    <2>9. Turns(t, t) /\ Made(t) = w.made
      BY FineIs, TurnsSame, MadeIs
    <2>10. w.made = {}
      BY FineIs DEF Copied, CopyFileOpen
    <2>11. Copied("copy_file.make", t, hh, Made(t))
      BY <2>9, <2>10 DEF Copied, CopySteps, FileSteps, DirSteps
    <2>12. Goto("copy_file.make", t, hh)
      BY <1>5, <2>1
    <2> QED  BY <2>5, <2>7, <2>8, <2>9, <2>11, <2>12, GotoKeeps
  <1> QED  BY <1>2, <1>4, <1>5, LeftKeeps, PassKeeps

LEMMA CopyFileMakeFine ==
    ASSUME TreeInv, CopyFileMake
    PROVE  Fine
  <1>1. PICK m, r, x : /\ m = h.mode /\ r = CreateNew(t, Confined, b, m)
                       /\ x = FileNode("empty", m \ Umask)
    OBVIOUS
  <1>2. Acts(t, r) /\ Only(t, r, x)
    <2>1. Shape(t) /\ IsPath(b)
      BY FineIs
    <2>2. LET q == CreateNew(t, Confined, b, m)
          IN  Acts(t, q) /\ Only(t, q, FileNode("empty", m \ Umask))
      BY <2>1, CreateNewActs
    <2> QED  BY <1>1, <2>2, Zenon
  <1>3. x.kind = "file" /\ x.mode = m \ Umask
    BY <1>1 DEF FileNode
  <1>4. PICK e : e = IF Confined /\ r.err = "IsADirectory" THEN "AlreadyExists" ELSE r.err
    OBVIOUS
  <1>5. \/ e = "ok" /\ Goto("copy_file.data", r.t, [h EXCEPT !.dst = r.ino])
        \/ Leave(e, t)
    BY <1>1, <1>4 DEF CopyFileMake
  <1>6. e = "ok" => r.err = "ok"
    BY <1>4
  <1>7. h.src # NoIno /\ Kind(t, h.src) = "file" /\ w.made = {}
    BY FineIs DEF KindsIn, KindsAt, Copied, CopyFileMake
  <1>8. ASSUME r.err = "ok", Goto("copy_file.data", r.t, [h EXCEPT !.dst = r.ino])
        PROVE  Fine
    <2>1. PICK i, hh, t1 : i = r.ino /\ hh = [h EXCEPT !.dst = i] /\ t1 = r.t
      OBVIOUS
    <2>2. h = Handles(h.src, h.dst, h.mode, h.link, h.err) /\ IsPath(h.link)
      BY FineIs DEF IsHandles
    <2>3. hh = Handles(h.src, i, h.mode, h.link, h.err)
      BY <2>1, <2>2 DEF Handles
    <2>4. hh.src = h.src /\ hh.dst = i /\ hh.mode = h.mode /\ hh.link = h.link /\ hh.err = h.err
      BY <2>3 DEF Handles
    <2>5. Turns(t, t1) /\ i \in Ino /\ t1[i] # Free /\ t1[i] = x
      BY <1>2, <1>8, <2>1 DEF Acts, Only
    <2>6. IsHandles(hh) /\ Open(hh) \subseteq Open(h) \cup {i} /\ i \in Open(hh)
      BY <2>2, <2>3, <2>4, <2>5, NoInoAssumption DEF IsHandles, Open
    <2>7. OpenIn(t1, hh)
      BY <2>5, <2>6, FineIs DEF OpenIn, Turns, Still
    <2>8. h.src \in Ino /\ t[h.src] # Free
      BY <1>7, FineIs DEF OpenIn, Open
    <2>9. Kind(t1, h.src) = "file" /\ Kind(t1, i) = "file" /\ i # NoIno
      BY <1>3, <1>7, <2>5, <2>8, NoInoAssumption DEF Turns, Still, Kind
    <2>10. KindsIn("copy_file.data", t1, hh)
      BY <1>7, <2>4, <2>9 DEF KindsIn, KindsAt
    <2>11. Made(t1) \subseteq {i} /\ \A j \in Made(t1) : t1[j] = x
      <3>1. IsTree(t) /\ IsTree(t1)
        BY <2>5, FineIs DEF Turns, Shape
      <3> QED  BY <1>2, <1>7, <2>1, <3>1, MadeIs
    <2>12. \A j \in Made(t1) : t1[j].mode \subseteq hh.mode
      BY <1>1, <1>3, <2>4, <2>11
    <2>13. Copied("copy_file.data", t1, hh, Made(t1))
      BY <2>6, <2>11, <2>12 DEF Copied, DirSteps
    <2>14. Goto("copy_file.data", t1, hh)
      BY <1>8, <2>1
    <2> QED  BY <2>5, <2>6, <2>7, <2>10, <2>13, <2>14, GotoKeeps
  <1> QED  BY <1>5, <1>6, <1>8, LeftKeeps

LEMMA CopyFileDataFine ==
    ASSUME TreeInv, CopyFileData
    PROVE  Fine
  <1>1. /\ h.src # NoIno /\ h.dst # NoIno /\ Kind(t, h.dst) = "file" /\ Kind(t, h.src) = "file"
        /\ w.made \subseteq Open(h) /\ \A i \in w.made : t[i] # Free => t[i].mode \subseteq h.mode
    BY FineIs DEF KindsIn, KindsAt, Copied, FileSteps, CopySteps, CopyFileData
  <1>2. h.src \in Ino /\ h.dst \in Ino /\ t[h.src] # Free /\ t[h.dst] # Free
    BY <1>1, FineIs DEF OpenIn, Open
  <1>3. PICK d, t1, t2 : /\ d = t[h.src].data
                         /\ t1 = SetData(t, h.dst, d) /\ t2 = SetData(t, h.dst, "part")
    OBVIOUS
  <1>4. \A u \in {t1, t2} :
           /\ Turns(t, u)
           /\ \A j \in Ino : /\ u[j].kind = t[j].kind /\ u[j].mode = t[j].mode
                             /\ u[j] = Free <=> t[j] = Free
    BY <1>1, <1>2, <1>3, FineIs, DataTurns
  <1>5. \A u \in {t1, t2} :
           /\ Kind(u, h.dst) = "file" /\ Kind(u, h.src) = "file" /\ OpenIn(u, h)
           /\ IsTree(u) /\ \A i \in w.made : u[i] # Free => u[i].mode \subseteq h.mode
    BY <1>1, <1>2, <1>4, FineIs DEF Kind, OpenIn, Turns, Shape
  <1>6. \/ Goto("copy_file.chmod", t1, h)
        \/ CopyFails /\ t' = t2
    BY <1>3 DEF CopyFileData, SetData
  <1>7. CASE Goto("copy_file.chmod", t1, h)
    <2>1. KindsIn("copy_file.chmod", t1, h)
      BY <1>1, <1>5 DEF KindsIn, KindsAt
    <2>2. Made(t1) = w.made
      BY <1>4, <1>5, FineIs, MadeIs
    <2>3. Copied("copy_file.chmod", t1, h, Made(t1))
      BY <1>1, <1>5, <2>2 DEF Copied, DirSteps
    <2> QED  BY <1>4, <1>5, <1>7, <2>1, <2>3, FineIs, GotoKeeps
  <1>8. CASE CopyFails /\ t' = t2
    <2>1. pc' = "copy_file.same" /\ h' = h /\ UNCHANGED <<dir, a, b, result>> /\ Injected
      BY <1>8 DEF CopyFails
    <2>2. KindsIn("copy_file.same", t2, h)
      BY <1>1, <1>5 DEF KindsIn, KindsAt
    <2>3. Copied("copy_file.same", t2, h, w.made)
      BY <1>1, <1>5 DEF Copied, DirSteps
    <2>4. PICK l, gg, u : l = "copy_file.same" /\ gg = h' /\ u = t'
      OBVIOUS
    <2>5. KindsIn(l, t', h') /\ Copied(l, t', h', w.made) /\ Turns(t, t') /\ IsHandles(h')
          /\ Open(h') = Open(h) /\ pc' = l
      BY <1>4, <1>8, <2>1, <2>2, <2>3, <2>4, FineIs
    <2> QED  BY <2>1, <2>5, FailsFine
  <1> QED  BY <1>6, <1>7, <1>8

LEMMA CopyFileChmodFine ==
    ASSUME TreeInv, CopyFileChmod
    PROVE  Fine
  <1>1. /\ h.dst # NoIno /\ Kind(t, h.dst) = "file"
        /\ w.made \subseteq Open(h) /\ \A i \in w.made : t[i] # Free => t[i].mode \subseteq h.mode
    BY FineIs DEF KindsIn, KindsAt, Copied, FileSteps, CopySteps, CopyFileChmod
  <1>2. h.dst \in Ino
    BY <1>1, FineIs DEF OpenIn, Open
  <1>3. PICK t1, S, e, f : t1 = SetMode(t, h.dst, h.mode) /\ S = {h.src} /\ e = "ok" /\ f = FALSE
    OBVIOUS
  <1>4. Turns(t, t1)
    BY <1>1, <1>2, <1>3, FineIs, ModeTurns
  <1>5. \/ AnswersAt(e, t1, S, f) /\ dir' = dir
        \/ CopyFails /\ t' = t
    BY <1>3 DEF CopyFileChmod, SetMode, Answers
  <1>6. CASE AnswersAt(e, t1, S, f) /\ dir' = dir
    BY <1>4, <1>6, FineIs, AnswersKeep
  <1>7. CASE CopyFails /\ t' = t
    <2>1. pc' = "copy_file.same" /\ h' = h /\ UNCHANGED <<dir, a, b, result>> /\ Injected
      BY <1>7 DEF CopyFails
    <2>2. KindsIn("copy_file.same", t, h)
      BY <1>1 DEF KindsIn, KindsAt
    <2>3. Copied("copy_file.same", t, h, w.made)
      BY <1>1 DEF Copied, DirSteps
    <2>4. PICK l : l = "copy_file.same"
      OBVIOUS
    <2>5. KindsIn(l, t', h') /\ Copied(l, t', h', w.made) /\ Turns(t, t') /\ IsHandles(h')
          /\ Open(h') = Open(h) /\ pc' = l
      BY <1>7, <2>1, <2>2, <2>3, <2>4, FineIs, TurnsSame
    <2> QED  BY <2>1, <2>5, FailsFine
  <1> QED  BY <1>5, <1>6, <1>7

LEMMA CopyFileEndFine ==
    ASSUME TreeInv, CopyFileSame \/ CopyFileRemove
    PROVE  Fine
  <1>1. PICK r : r = Unlink(t, Confined, b)
    OBVIOUS
  <1>2. Turns(t, r.t)
    BY <1>1, FineIs, UnlinkActs DEF Acts
  <1>3. \/ pc = "copy_file.same" /\ Goto("copy_file.remove", t, h)
        \/ Leave("StorageFull", t) \/ Leave("StorageFull", r.t)
    BY <1>1 DEF CopyFileSame, CopyFileRemove
  <1>4. CASE pc = "copy_file.same" /\ Goto("copy_file.remove", t, h)
    <2>1. KindsIn("copy_file.remove", t, h)
      BY DEF KindsIn, KindsAt
    <2>2. Copied("copy_file.remove", t, h, w.made)
      BY <1>4, FineIs DEF Copied, FileSteps, DirSteps, CopySteps
    <2> QED  BY <1>4, <2>1, <2>2, OnKeeps
  <1> QED  BY <1>2, <1>3, <1>4, LeftKeeps, LeaveKeeps

LEMMA CopyDirStatFine ==
    ASSUME TreeInv, CopyDirStat
    PROVE  Fine
  <1>1. PICK r : r = MetadataAsNamed(t, a)
    OBVIOUS
  <1>2. Acts(t, r)
    BY <1>1, FineIs, AsNamedReads DEF Reads
  <1>3. PICK m : m = CopyDirMode(t[r.ino].mode)
    OBVIOUS
  <1>4. \/ Pass(r) \/ Leave("NotADirectory", t)
        \/ Goto("copy_dir.name", t, [h EXCEPT !.mode = m])
    BY <1>1, <1>3 DEF CopyDirStat
  <1>5. ASSUME Goto("copy_dir.name", t, [h EXCEPT !.mode = m])  PROVE Fine
    <2>1. PICK hh : hh = [h EXCEPT !.mode = m]
      OBVIOUS
    <2>2. h = Handles(h.src, h.dst, h.mode, h.link, h.err) /\ IsPath(h.link)
      BY FineIs DEF IsHandles
    <2>3. hh = Handles(h.src, h.dst, m, h.link, h.err)
      BY <2>1, <2>2 DEF Handles
    <2>4. hh.src = h.src /\ hh.dst = h.dst /\ hh.mode = m /\ hh.link = h.link /\ hh.err = h.err
      BY <2>3 DEF Handles
    <2>5. IsHandles(hh) /\ Open(hh) = Open(h)
      BY <2>2, <2>3, <2>4 DEF IsHandles, Open
    <2>6. OpenIn(t, hh) /\ Turns(t, t) /\ Made(t) = w.made
      BY <2>5, FineIs, TurnsSame, MadeIs DEF OpenIn
    <2>7. w.made = {}
      BY FineIs DEF Copied, CopyDirStat
    <2>8. "owner" \in hh.mode
      BY <1>3, <2>4 DEF CopyDirMode
    <2>9. KindsIn("copy_dir.name", t, hh) /\ Copied("copy_dir.name", t, hh, Made(t))
      BY <2>6, <2>7, <2>8 DEF KindsIn, KindsAt, Copied, FileSteps
    <2>10. Goto("copy_dir.name", t, hh)
      BY <1>5, <2>1
    <2> QED  BY <2>5, <2>6, <2>9, <2>10, GotoKeeps
  <1> QED  BY <1>2, <1>4, <1>5, LeftKeeps, PassKeeps

LEMMA CopyDirMakeFine ==
    ASSUME TreeInv, CopyDirName \/ CopyDirMake
    PROVE  Fine
  <1>1. CASE CopyDirName
    <2>1. PICK e : e = NewDirectoryName(t, b)
      OBVIOUS
    <2>2. Goto("copy_dir.make", t, h) \/ Leave(e, t)
      BY <1>1, <2>1 DEF CopyDirName
    <2>3. w.made = {} /\ "owner" \in h.mode
      BY <1>1, FineIs DEF Copied, DirSteps, CopyDirName
    <2>4. KindsIn("copy_dir.make", t, h) /\ Copied("copy_dir.make", t, h, w.made)
      BY <2>3 DEF KindsIn, KindsAt, Copied, FileSteps
    <2> QED  BY <2>2, <2>4, LeftKeeps, OnKeeps
  <1>2. CASE CopyDirMake
    <2>1. PICK p, m, r, x : /\ p = SlashesStripped(b) /\ m = {"owner"}
                            /\ r = Mkdir(t, Confined, p, m) /\ x = DirNode(<<>>, m \ Umask)
      OBVIOUS
    <2>2. Acts(t, r) /\ Only(t, r, x)
      <3>1. Shape(t) /\ IsPath(p)
        BY <2>1, FineIs, StrippedIs
      <3>2. LET q == Mkdir(t, Confined, p, m)
            IN  Acts(t, q) /\ Only(t, q, DirNode(<<>>, m \ Umask))
        BY <3>1, MkdirActs
      <3> QED  BY <2>1, <3>2, Zenon
    <2>3. Goto("copy_dir.open", r.t, h) \/ Pass(r)
      BY <1>2, <2>1 DEF CopyDirMake
    <2>4. CASE Goto("copy_dir.open", r.t, h)
      <3>1. w.made = {} /\ "owner" \in h.mode
        BY <1>2, FineIs DEF Copied, DirSteps, CopyDirMake
      <3>2. PICK t1 : t1 = r.t
        OBVIOUS
      <3>3. Turns(t, t1)
        BY <2>2, <3>2 DEF Acts
      <3>4. IsTree(t) /\ IsTree(t1) /\ OpenIn(t1, h) /\ IsHandles(h)
        BY <3>3, FineIs DEF OpenIn, Turns, Still, Shape
      <3>5. \A i \in Made(t1) : t1[i] = x
        BY <2>2, <3>1, <3>2, <3>4, MadeIs
      <3>6. x.mode \subseteq h.mode
        BY <2>1, <3>1 DEF DirNode
      <3>7. Copied("copy_dir.open", t1, h, Made(t1))
        BY <3>1, <3>5, <3>6 DEF Copied, FileSteps
      <3>8. KindsIn("copy_dir.open", t1, h)
        BY DEF KindsIn, KindsAt
      <3> QED  BY <2>4, <3>2, <3>3, <3>4, <3>7, <3>8, GotoKeeps
    <2> QED  BY <2>2, <2>3, <2>4, PassKeeps
  <1> QED  BY <1>1, <1>2

LEMMA CopyDirOpenFine ==
    ASSUME TreeInv, CopyDirOpen
    PROVE  Fine
  <1>1. PICK r : r = OpenDir(t, Confined, SlashesStripped(b), FALSE)
    OBVIOUS
  <1>2. Acts(t, r) /\ (r.err = "ok" => r.t = t /\ IsDir(t, r.ino))
    <2>1. PICK p, f, bn : p = SlashesStripped(b) /\ f = FALSE /\ bn = Confined
      OBVIOUS
    <2>2. IsPath(p) /\ Shape(t)
      BY <2>1, FineIs, StrippedIs
    <2>3. /\ Reads(t, OpenDir(t, bn, p, f))
          /\ LET q == OpenDir(t, bn, p, f) IN q.err = "ok" => IsDir(t, q.ino)
      BY <2>2, OpenReads
    <2>4. r = OpenDir(t, bn, p, f)
      BY <1>1, <2>1
    <2> QED  BY <2>3, <2>4 DEF Reads
  <1>3. PICK i, e, hh, gg : /\ i = r.ino /\ hh = [h EXCEPT !.dst = i]
                            /\ e = r.err /\ gg = [h EXCEPT !.err = e]
    OBVIOUS
  <1>4. h = Handles(h.src, h.dst, h.mode, h.link, h.err) /\ IsPath(h.link)
    BY FineIs DEF IsHandles
  <1>5. /\ hh = Handles(h.src, i, h.mode, h.link, h.err)
        /\ gg = Handles(h.src, h.dst, h.mode, h.link, e)
    BY <1>3, <1>4 DEF Handles
  <1>6. /\ hh.src = h.src /\ hh.dst = i /\ hh.mode = h.mode /\ hh.link = h.link /\ hh.err = h.err
        /\ gg.src = h.src /\ gg.dst = h.dst /\ gg.mode = h.mode /\ gg.link = h.link /\ gg.err = e
    BY <1>5 DEF Handles
  <1>7. /\ IsHandles(hh) /\ Open(hh) \subseteq Open(h) \cup {i}
        /\ IsHandles(gg) /\ Open(gg) = Open(h)
    BY <1>4, <1>5, <1>6 DEF IsHandles, Open
  <1>8. /\ Turns(t, t) /\ Made(t) = w.made
        /\ "owner" \in h.mode /\ \A j \in w.made : t[j] # Free => t[j].mode \subseteq h.mode
    BY FineIs, TurnsSame, MadeIs DEF Copied, DirSteps, CopySteps, CopyDirOpen
  <1>9. \A l \in {"copy_dir.chmod", "copy_dir.remove"} :
           Copied(l, t, hh, Made(t)) /\ Copied(l, t, gg, Made(t))
    BY <1>6, <1>8 DEF Copied, FileSteps
  <1>10. \/ r.err = "ok" /\ Goto("copy_dir.chmod", t, hh)
         \/ Goto("copy_dir.remove", t, gg)
    BY <1>1, <1>3 DEF CopyDirOpen
  <1>11. CASE r.err = "ok" /\ Goto("copy_dir.chmod", t, hh)
    <2>1. i \in Ino /\ t[i] # Free /\ IsDir(t, i) /\ i # NoIno
      BY <1>2, <1>3, <1>11, NoInoAssumption DEF Acts
    <2>2. OpenIn(t, hh) /\ KindsIn("copy_dir.chmod", t, hh)
      BY <1>6, <1>7, <2>1, FineIs DEF OpenIn, KindsIn, KindsAt
    <2> QED  BY <1>7, <1>8, <1>9, <1>11, <2>2, GotoKeeps
  <1>12. CASE Goto("copy_dir.remove", t, gg)
    <2>1. OpenIn(t, gg) /\ KindsIn("copy_dir.remove", t, gg)
      BY <1>7, FineIs DEF OpenIn, KindsIn, KindsAt
    <2> QED  BY <1>7, <1>8, <1>9, <1>12, <2>1, GotoKeeps
  <1> QED  BY <1>10, <1>11, <1>12

LEMMA CopyDirChmodFine ==
    ASSUME TreeInv, CopyDirChmod
    PROVE  Fine
  <1>1. /\ h.dst # NoIno /\ IsDir(t, h.dst) /\ "owner" \in h.mode
        /\ \A i \in w.made : t[i] # Free => t[i].mode \subseteq h.mode
    BY FineIs DEF KindsIn, KindsAt, Copied, DirSteps, CopySteps, CopyDirChmod
  <1>2. h.dst \in Ino
    BY <1>1, FineIs DEF OpenIn, Open
  <1>3. PICK t1, gg : t1 = SetMode(t, h.dst, h.mode) /\ gg = [h EXCEPT !.err = "StorageFull"]
    OBVIOUS
  <1>4. Turns(t, t1)
    BY <1>1, <1>2, <1>3, FineIs, ModeTurns DEF IsDir
  <1>5. \/ Leave("ok", t1)
        \/ /\ pc' = "copy_dir.remove" /\ h' = gg /\ Injected
           /\ UNCHANGED <<t, dir, a, b, result>>
    BY <1>3 DEF CopyDirChmod, SetMode
  <1>6. CASE /\ pc' = "copy_dir.remove" /\ h' = gg /\ Injected
             /\ UNCHANGED <<t, dir, a, b, result>>
    <2>1. h = Handles(h.src, h.dst, h.mode, h.link, h.err) /\ IsPath(h.link)
      BY FineIs DEF IsHandles
    <2>2. gg = Handles(h.src, h.dst, h.mode, h.link, "StorageFull")
      BY <1>3, <2>1 DEF Handles
    <2>3. /\ gg.src = h.src /\ gg.dst = h.dst /\ gg.mode = h.mode /\ gg.link = h.link
          /\ gg.err = "StorageFull"
      BY <2>2 DEF Handles
    <2>4. IsHandles(gg) /\ Open(gg) = Open(h)
      BY <2>1, <2>2, <2>3 DEF IsHandles, Open
    <2>5. KindsIn("copy_dir.remove", t, gg)
      BY DEF KindsIn, KindsAt
    <2>6. Copied("copy_dir.remove", t, gg, w.made)
      BY <1>1, <2>3 DEF Copied, FileSteps
    <2>7. PICK l : l = "copy_dir.remove"
      OBVIOUS
    <2>8. KindsIn(l, t', h') /\ Copied(l, t', h', w.made) /\ Turns(t, t') /\ IsHandles(h')
          /\ Open(h') = Open(h) /\ pc' = l
      BY <1>6, <2>4, <2>5, <2>6, <2>7, FineIs, TurnsSame
    <2> QED  BY <1>6, <2>8, FailsFine
  <1> QED  BY <1>4, <1>5, <1>6, LeaveKeeps

LEMMA CopyDirRemoveFine ==
    ASSUME TreeInv, CopyDirRemove
    PROVE  Fine
  <1>1. PICK e, r : e = h.err /\ r = Rmdir(t, Confined, SlashesStripped(b))
    OBVIOUS
  <1>2. Turns(t, r.t)
    BY <1>1, FineIs, StrippedIs, RmdirActs DEF Acts
  <1>3. Leave(e, r.t)
    BY <1>1 DEF CopyDirRemove
  <1> QED  BY <1>2, <1>3, LeaveKeeps

LEMMA BodyFine ==
    ASSUME TreeInv, Body
    PROVE  Fine
  BY ReadingFine, OpenDirFine, WriteOpenFine, OpenWriteFine, PutFine, CreateDirFine, RemoveFine,
     RemoveTreeOpenFine, RemoveTreeEntryFine, RemoveTreeFailsFine, CreateDirAllFine,
     MoveFine, StayReadFine, SymlinkFine,
     CopyFileOpenFine, CopyFileMakeFine, CopyFileDataFine, CopyFileChmodFine, CopyFileEndFine,
     CopyDirStatFine, CopyDirMakeFine, CopyDirOpenFine, CopyDirChmodFine, CopyDirRemoveFine
  DEF Body

-----------------------------------------------------------------------------
(* The start of a call, and other programs.                                *)

LEMMA StartFine ==
    ASSUME TreeInv, NEW c \in Scene.calls, Start(c)
    PROVE  Fine
  <1>1. PICK x, y : x = Resolve(t, c.a).path /\ y = Second(c).path
    OBVIOUS
  <1>2. c.op \in Ops /\ IsPath(c.a) /\ IsPath(c.b)
    BY FineIs, SceneIs
  <1>3. IsPath(x)
    BY <1>1, <1>2, FineIs, ResolveIs
  <1>4. IsPath(y)
    <2>1. Second(c) \in {Resolve(t, c.b), [err |-> "ok", path |-> c.b]}
      BY Zenon DEF Second
    <2>2. IsPath(Resolve(t, c.b).path)
      BY <1>2, FineIs, ResolveIs
    <2>3. [err |-> "ok", path |-> c.b].path = c.b
      OBVIOUS
    <2>4. IsPath(Second(c).path)
      BY <1>2, <2>1, <2>2, <2>3, Zenon
    <2> QED  BY <1>1, <2>4
  <1>5. /\ t' = t /\ h' = h /\ dir' = dir /\ w' = History(t) /\ pc = "idle"
        /\ a' \in {a, x} /\ b' \in {b, y} /\ pc' \in {pc, c.op}
    BY <1>1 DEF Start
  <1>6. result' = result \/ \E e : result'.err = IoErr(e)
    BY DEF Start
  <1>7. ErrIs'
    <2>1. \A e : IoErr(e) \in Tags \cup {"ok", "Other"}
      BY DEF IoErr
    <2> QED  BY <1>6, <2>1, FineIs DEF ErrIs
  <1>8. IsHistory(w') /\ w'.made = {}
    <2>1. PICK q, v, d : q = TRUE /\ v = FALSE /\ d = {}
      OBVIOUS
    <2>2. w' = Told(t, q, v, v, d)
      BY <1>5, <2>1 DEF History, Told
    <2>3. Told(t, q, v, v, d).before = t /\ Told(t, q, v, v, d).quiet = q
          /\ Told(t, q, v, v, d).moved = v /\ Told(t, q, v, v, d).injected = v
          /\ Told(t, q, v, v, d).made = d
      BY DEF Told
    <2> QED  BY <2>1, <2>2, <2>3, Zenon DEF IsHistory
  <1>9. ASSUME NEW l \in Ops \cup {"idle"}
        PROVE  KindsIn(l, t, h) /\ Copied(l, t, h, {})
    <2>1. l \notin FileSteps /\ l \notin DirSteps
      BY DEF Ops, FileSteps, DirSteps
    <2>2. KindsIn(l, t, h)
      BY DEF KindsIn, KindsAt, Ops
    <2> QED  BY <2>1, <2>2 DEF Copied
  <1>10. Holds(pc', t', h', w')
    <2>1. pc' \in Ops \cup {"idle"}
      BY <1>2, <1>5
    <2>2. KindsIn(pc', t, h) /\ Copied(pc', t, h, {})
      BY <1>9, <2>1
    <2> QED  BY <1>5, <1>8, <2>2, FineIs DEF Holds
  <1>11. Paths'
    BY <1>3, <1>4, <1>5, FineIs DEF Paths
  <1> QED  BY <1>7, <1>10, <1>11 DEF Fine

(* What another program did leaves the program's own state as it was.      *)
LEMMA MovedFine ==
    ASSUME TreeInv, Moved, NEW t2, t2 = t', Shape(t2), OpenIn(t2, h), KindsIn(pc, t2, h),
           Copied(pc, t2, h, w.made)
    PROVE  Fine
  <1>1. PICK f : f = FALSE
    OBVIOUS
  <1>2. /\ w' = [w EXCEPT !.moved = TRUE, !.quiet = f]
        /\ UNCHANGED <<dir, pc, a, b, h, result>>
    BY <1>1 DEF Moved
  <1>3. IsHistory(w') /\ w'.made = w.made
    <2>1. PICK x : x = w'
      OBVIOUS
    <2>2. x = [w EXCEPT !.moved = TRUE, !.quiet = f]
      BY <1>2, <2>1
    <2>3. IsHistory(w)
      BY FineIs
    <2>4. \A y : y = [w EXCEPT !.moved = TRUE, !.quiet = f] => IsHistory(y) /\ y.made = w.made
      BY <2>3, HistoryIs
    <2>5. IsHistory(x) /\ x.made = w.made
      BY <2>2, <2>4, Zenon
    <2> QED  BY <2>1, <2>5
  <1>4. Holds(pc, t2, h, w')
    BY <1>3, FineIs DEF Holds
  <1> QED  BY <1>2, <1>4, FineIs DEF Fine, ErrIs, Paths

(* Two names of one directory exchanged: each node named by them still has *)
(* the one or the other.                                                   *)
LEMMA SwapTurns ==
    ASSUME NEW t0, Shape(t0), NEW d, NEW m, NEW n, NEW i, NEW j, Has(t0, d, n, i),
           Has(t0, d, m, j), m # n,
           NEW t1, t1 = Attach(t0, d, m, i), NEW t2, t2 = Attach(t1, d, n, j)
    PROVE  Turns(t0, t2) /\ \A k \in Ino : t2[k].mode = t0[k].mode /\ (t2[k] = Free <=> t0[k] = Free)
  <1>1. IsTree(t0) /\ d \in Ino /\ IsDir(t0, d) /\ i \in Ino /\ j \in Ino /\ t0[i] # Free /\ t0[j] # Free
    BY HasIs DEF Shape
  <1>2. /\ IsTree(t1) /\ Still(t0, t1)
        /\ \A c, k, x : Has(t1, c, k, x) <=>
              \/ c = d /\ k = m /\ x = i
              \/ Has(t0, c, k, x) /\ ~(c = d /\ k = m)
        /\ \A k \in Ino : t1[k].mode = t0[k].mode
    BY <1>1, AttachHas
  <1>3. IsDir(t1, d) /\ t1[j] # Free
    <2>1. t0[d] # Free
      BY <1>1, DirIsNode
    <2> QED  BY <1>1, <1>2, <2>1 DEF Still, IsDir, Kind
  <1>4. /\ IsTree(t2) /\ Still(t1, t2)
        /\ \A c, k, x : Has(t2, c, k, x) <=>
              \/ c = d /\ k = n /\ x = j
              \/ Has(t1, c, k, x) /\ ~(c = d /\ k = n)
        /\ \A k \in Ino : t2[k].mode = t1[k].mode
    BY <1>1, <1>2, <1>3, AttachHas
  <1>5. \A k \in Ino : (t1[k] = Free <=> t0[k] = Free) /\ (t2[k] = Free <=> t1[k] = Free)
    BY <1>1, <1>2, <1>3, AttachIs
  <1>6. Still(t0, t2)
    BY <1>2, <1>4 DEF Still
  <1> DEFINE Old(k) == IF k = n THEN m ELSE IF k = m THEN n ELSE k
  <1>7. ASSUME NEW c, NEW k, NEW x, Has(t2, c, k, x)
        PROVE  Has(t0, c, IF c = d THEN Old(k) ELSE k, x)
    BY <1>2, <1>4, <1>7
  <1>8. ASSUME NEW c, NEW k, NEW e, NEW l, NEW x, Has(t2, c, k, x), Has(t2, e, l, x), IsDir(t2, x)
        PROVE  c = e /\ k = l
    <2>1. Has(t0, c, IF c = d THEN Old(k) ELSE k, x) /\ Has(t0, e, IF e = d THEN Old(l) ELSE l, x)
      BY <1>7, <1>8
    <2>2. x \in Ino /\ t0[x] # Free
      BY <1>1, <2>1, HasIs
    <2>3. IsDir(t0, x)
      BY <1>6, <1>8, <2>2 DEF Still, IsDir, Kind
    <2>4. c = e /\ (IF c = d THEN Old(k) ELSE k) = (IF e = d THEN Old(l) ELSE l)
      BY <2>1, <2>3 DEF Shape, Single
    <2> QED  BY <2>4
  <1> HIDE DEF Old
  <1>9. IsDir(t2, Top) /\ IsDir(t2, Root)
    <2>1. Top \in Ino /\ Root \in Ino /\ IsDir(t0, Top) /\ IsDir(t0, Root)
      BY TreeAssumption DEF Shape
    <2> QED  BY <1>6, <2>1, DirIsNode DEF Still, IsDir, Kind
  <1> QED  BY <1>2, <1>4, <1>5, <1>6, <1>8, <1>9 DEF Turns, Shape, Single

LEMMA ExchangeFine ==
    ASSUME TreeInv, Exchange
    PROVE  Fine
  <1>1. PICK d, m, n :
           /\ d \in Scene.dirs /\ IsDir(t, d) /\ m \in DOMAIN Ents(t, d) /\ n \in DOMAIN Ents(t, d)
           /\ m # n /\ t' = Attach(Attach(t, d, m, Ents(t, d)[n]), d, n, Ents(t, d)[m])
    BY DEF Exchange
  <1>2. PICK i, j, t1, t2 : /\ i = Ents(t, d)[n] /\ j = Ents(t, d)[m] /\ t1 = Attach(t, d, m, i)
                            /\ t2 = t'
    OBVIOUS
  <1>3. t2 = Attach(t1, d, n, j) /\ Has(t, d, n, i) /\ Has(t, d, m, j)
    BY <1>1, <1>2, FineIs, SceneIs DEF Has
  <1>4. Turns(t, t2) /\ \A k \in Ino : t2[k].mode = t[k].mode /\ (t2[k] = Free <=> t[k] = Free)
    BY <1>1, <1>2, <1>3, FineIs, SwapTurns
  <1>5. \A k \in Open(h) : t2[k] # Free /\ t2[k].kind = t[k].kind
    BY <1>4, FineIs DEF OpenIn, Turns, Still
  <1>6. OpenIn(t2, h) /\ KindsIn(pc, t2, h)
    BY <1>5, FineIs, OpenStays
  <1>7. Copied(pc, t2, h, w.made)
    <2>1. \A k \in w.made : t2[k] = Free \/ (t[k] # Free /\ t2[k].mode = t[k].mode)
      BY <1>4, FineIs
    <2> QED  BY <2>1, FineIs, CopiedStays
  <1>8. Moved /\ Shape(t2)
    BY <1>4 DEF Exchange, Turns
  <1> QED  BY <1>2, <1>6, <1>7, <1>8, MovedFine

(* A file put in the place of another.  Where it is given the inode of a   *)
(* copy that another program removed, it is the owner's.                   *)
LEMMA ReplaceFine ==
    ASSUME TreeInv, Replace
    PROVE  Fine
  <1>1. PICK x : x = FileNode("theirs", {"owner"})
    OBVIOUS
  <1>2. PICK d, n : d \in Scene.dirs /\ IsDir(t, d) /\ t' = Reap(Create(t, d, n, x), Open(h))
    BY <1>1 DEF Replace
  <1>3. d \in Ino /\ FreeInos(t) # {} /\ Shape(t) /\ IsNode(t, x) /\ Childless(x) /\ x.mode = {"owner"}
    <2>1. IsNode(t, x) /\ Childless(x)
      BY <1>1, NodesAre
    <2>2. x.mode = {"owner"}
      BY <1>1 DEF FileNode
    <2> QED  BY <1>2, <2>1, <2>2, FineIs, SceneIs DEF Replace
  <1>4. PICK t1, t2, j : t1 = Create(t, d, n, x) /\ t2 = t' /\ j = Fresh(t)
    OBVIOUS
  <1>5. /\ Turns(t, t1) /\ j \in Ino /\ t[j] = Free /\ t1[j] = x
        /\ \A k \in Ino \ {d, j} : t1[k] = t[k]
        /\ t1[d].mode = t[d].mode
    BY <1>2, <1>3, <1>4, CreateTurns
  <1>6. Open(h) \in SUBSET Ino /\ j \notin Open(h)
    BY <1>5, FineIs DEF OpenIn
  <1>7. /\ Shape(t2) /\ \A k \in Ino : t2[k] \in {t1[k], Free}
        /\ \A k \in Open(h) : t2[k] = t1[k]
    BY <1>2, <1>4, <1>5, <1>6, ReapTurns DEF Turns
  <1>8. \A k \in Open(h) : t2[k] # Free /\ t2[k].kind = t[k].kind
    BY <1>5, <1>7, FineIs DEF OpenIn, Turns, Still
  <1>9. OpenIn(t2, h) /\ KindsIn(pc, t2, h)
    BY <1>8, FineIs, OpenStays
  <1>10. Copied(pc, t2, h, w.made)
    <2>1. ASSUME NEW k \in w.made
          PROVE  \/ t2[k] = Free
                 \/ t[k] # Free /\ t2[k].mode = t[k].mode
                 \/ k \notin Open(h) /\ t2[k].mode = {"owner"}
      <3>1. k \in Ino
        BY FineIs
      <3>2. CASE k = j
        BY <1>3, <1>5, <1>6, <1>7, <3>1, <3>2
      <3>3. CASE k = d
        BY <1>2, <1>5, <1>7, <3>1, <3>3, DirIsNode
      <3>4. CASE k # j /\ k # d
        BY <1>5, <1>7, <3>1, <3>4
      <3> QED  BY <3>2, <3>3, <3>4
    <2> QED  BY <2>1, FineIs, CopiedStays
  <1>11. Moved
    BY DEF Replace
  <1> QED  BY <1>4, <1>7, <1>9, <1>10, <1>11, MovedFine

-----------------------------------------------------------------------------
(* The second invariant, and what it says of either host.                  *)

LEMMA StartsShaped ==
    ASSUME Init
    PROVE  TreeInv
  <1>1. host \in Hosts /\ moves = 0 /\ calls = 0 /\ pc = "idle" /\ h = NoHandles
        /\ a = Nothing /\ b = Nothing /\ dir.comps = RootPath /\ w = History(t) /\ t \in Scene.trees
    BY DEF Init
  <1>2. IsTree(t) /\ OneName(t) /\ Walled(t, Below(t, Root)) /\ Scene.max \in Nat /\ Scene.moves \in Nat
    BY <1>1, SceneIs
  <1>3. Shape(t)
    BY <1>2, SingleIs DEF Shape, Walled
  <1>4. Paths
    <2>1. IsPath(Nothing)
      BY EmptySeq, PathIs DEF Nothing
    <2>2. RootPath \in Seq(Comps)
      BY FsAssumption, EmptySeq DEF RootPath
    <2> QED  BY <1>1, <2>1, <2>2 DEF Paths
  <1>5. IsHistory(w) /\ w.made = {}
    <2>1. PICK q, v, d : q = TRUE /\ v = FALSE /\ d = {}
      OBVIOUS
    <2>2. w = Told(t, q, v, v, d)
      BY <1>1, <2>1 DEF History, Told
    <2>3. Told(t, q, v, v, d).before = t /\ Told(t, q, v, v, d).quiet = q
          /\ Told(t, q, v, v, d).moved = v /\ Told(t, q, v, v, d).injected = v
          /\ Told(t, q, v, v, d).made = d
      BY DEF Told
    <2> QED  BY <2>1, <2>2, <2>3, Zenon DEF IsHistory
  <1>6. Holds(pc, t, h, w)
    BY <1>1, <1>3, <1>5, NoneOpen DEF Holds
  <1>7. ErrIs
    <2>1. result.err = "ok"
      BY DEF Init
    <2> QED  BY <2>1 DEF ErrIs
  <1> QED  BY <1>1, <1>2, <1>4, <1>6, <1>7 DEF TreeInv

LEMMA StepsShaped ==
    ASSUME TreeInv, [Next]_vars
    PROVE  TreeInv'
  <1>1. host \in Hosts /\ calls \in 0..Scene.max /\ moves \in 0..Scene.moves
        /\ Scene.max \in Nat /\ Scene.moves \in Nat
    BY SceneIs DEF TreeInv
  <1>2. ASSUME Fine, host' = host, calls' \in 0..Scene.max, moves' \in 0..Scene.moves
        PROVE  TreeInv'
    BY <1>1, <1>2 DEF TreeInv, Fine, Scene
  <1>3. CASE Body
    BY <1>1, <1>2, <1>3, BodyFrame, BodyFine
  <1>4. CASE \E c \in Scene.calls : Start(c)
    <2>1. PICK c \in Scene.calls : Start(c)
      BY <1>4
    <2>2. host' = host /\ moves' = moves /\ calls' = calls + 1 /\ calls < Scene.max
      BY <2>1 DEF Start
    <2>3. calls' \in 0..Scene.max
      BY <1>1, <2>2
    <2> QED  BY <1>1, <1>2, <2>1, <2>2, <2>3, StartFine
  <1>5. CASE Others
    <2>1. host' = host /\ moves' = moves + 1 /\ moves < Scene.moves /\ calls' = calls
      BY <1>5 DEF Others, Exchange, Replace, Moved
    <2>2. moves' \in 0..Scene.moves
      BY <1>1, <2>1
    <2>3. Fine
      BY <1>5, ExchangeFine, ReplaceFine DEF Others
    <2> QED  BY <1>1, <1>2, <2>1, <2>2, <2>3
  <1>6. CASE UNCHANGED vars
    BY <1>6 DEF vars, TreeInv, ErrIs, Paths, Holds, Scene
  <1> QED  BY <1>3, <1>4, <1>5, <1>6 DEF Next

(* The tree stays a tree in which a directory has one name; what a call    *)
(* holds open is there, of the kind its next step needs; and what a copy   *)
(* has made is no more open than what it copies: with any backend, any     *)
(* calls and any interference (lib.rs:644-675, copy.rs:9-151).             *)
THEOREM TreeInvariant == Spec => []TreeInv
  <1>1. Init => TreeInv
    BY StartsShaped
  <1>2. TreeInv /\ [Next]_vars => TreeInv'
    BY StepsShaped
  <1> QED  BY <1>1, <1>2, PTL DEF Spec

(* Every variable holds a value of its kind, the tree is a tree, and a     *)
(* step that uses an open node has one of the kind it was opened for       *)
(* (lib.rs:644-675, copy.rs:26-151).                                       *)
THEOREM TypesStand == Spec => []TypeOK
  <1>1. ASSUME TreeInv  PROVE TypeOK
    <2>1. IsTree(t) /\ OneName(t)
      BY <1>1, FineIs, SingleIs DEF Shape
    <2>2. Open(h) \subseteq Ino /\ w.made \subseteq Ino
      BY <1>1, FineIs DEF OpenIn
    <2>3. KindsIn(pc, t, h)
      BY <1>1, FineIs
    <2>4. /\ pc \in {"write.data", "append.data", "copy_file.data", "copy_file.chmod", "copy_file.same"} =>
                h.dst # NoIno /\ ~IsDir(t, h.dst)
          /\ pc \in {"copy_file.data", "copy_file.chmod"} => Kind(t, h.src) = "file"
          /\ pc = "copy_dir.chmod" => IsDir(t, h.dst)
          /\ pc = "rmtree.empty" => IsDir(t, h.src)
      BY <2>3 DEF KindsIn, KindsAt, IsDir
    <2>5. calls \in 0..Scene.max /\ moves \in 0..Scene.moves /\ result.err \in Tags \cup {"ok", "Other"}
      BY <1>1 DEF TreeInv, ErrIs
    <2> QED  BY <2>1, <2>2, <2>4, <2>5, Zenon DEF TypeOK
  <1> QED  BY <1>1, TreeInvariant, PTL

(* At no moment is a copy, file or directory, open to more than the copied *)
(* source allows, for every umask and mode and whatever other programs do  *)
(* to its name meanwhile (copy.rs:35, 99-101).                             *)
THEOREM CopiesStayClosed == Spec => []CopyNeverBroader
  <1>1. ASSUME TreeInv  PROVE CopyNeverBroader
    <2>1. SUFFICES ASSUME pc \in CopySteps, NEW i \in w.made, i \notin FreeInos(t)
                   PROVE  t[i].mode \subseteq h.mode
      BY DEF CopyNeverBroader
    <2>2. i \in Ino /\ t[i] # Free
      BY <1>1, <2>1, FineIs, FreeIs
    <2> QED  BY <1>1, <2>1, <2>2, FineIs DEF Copied
  <1> QED  BY <1>1, TreeInvariant, PTL

-----------------------------------------------------------------------------
(* Nothing is lost: a node has a name or is held open, and a directory     *)
(* with entries has a name.                                                *)

Anchored(t0, d) == d \in {Top, Root} \/ \E c, n : Has(t0, c, n, d)
Rooted(t0) == \A d : d \in Ino /\ IsDir(t0, d) => Anchored(t0, d)
Filled(t0) == \A d, n, i : Has(t0, d, n, i) => Anchored(t0, d)
Reaped(t0, open) == \A i \in Ino : t0[i] # Free => Anchored(t0, i) \/ i \in open
SameNames(t0, t1) == \A d, n, i : Has(t1, d, n, i) <=> Has(t0, d, n, i)

LEMMA ChildHas ==
    ASSUME NEW t0, IsTree(t0), NEW d \in Ino, NEW i \in Children(t0, d)
    PROVE  \E n : Has(t0, d, n, i)
  <1>1. IsDir(t0, d)
    BY DEF Children
  <1>2. i \in Range(Ents(t0, d))
    BY <1>1 DEF Children
  <1>3. PICK n \in DOMAIN Ents(t0, d) : Ents(t0, d)[n] = i
    BY <1>2 DEF Range
  <1> QED  BY <1>1, <1>3 DEF Has

LEMMA RootedIsFilled ==
    ASSUME NEW t0, Rooted(t0)
    PROVE  Filled(t0)
  BY DEF Rooted, Filled, Has

(* What is reaped leaves every name, and nothing to reap.                  *)
LEMMA ReapKeeps ==
    ASSUME NEW t0, Shape(t0), Filled(t0), NEW open \in SUBSET Ino, NEW t1, t1 = Reap(t0, open)
    PROVE  SameNames(t0, t1) /\ Filled(t1) /\ Reaped(t1, open)
  <1>1. /\ Shape(t1) /\ \A i \in Ino : t1[i] \in {t0[i], Free}
        /\ \A i \in open \cup {Top, Root} : t1[i] = t0[i]
        /\ \A d, n, i : Has(t1, d, n, i) => Has(t0, d, n, i)
        /\ \A d, n, i : Has(t0, d, n, i) => t1[i] = t0[i]
    BY ReapTurns
  <1>2. ASSUME NEW d, NEW n, NEW i, Has(t0, d, n, i)  PROVE Has(t1, d, n, i)
    <2>1. t1[d] = t0[d]
      BY <1>1, <1>2 DEF Filled, Anchored
    <2> QED  BY <1>2, <2>1 DEF Has, IsDir, Kind, Ents
  <1>3. SameNames(t0, t1)
    BY <1>1, <1>2 DEF SameNames
  <1>4. Filled(t1)
    BY <1>3 DEF SameNames, Filled, Anchored
  <1>5. ASSUME NEW i \in Ino, t1[i] # Free  PROVE Anchored(t1, i) \/ i \in open
    <2>1. IsTree(t0)
      BY DEF Shape
    <2>2. i \in (UNION {Children(t0, d) : d \in Ino}) \cup {Top, Root} \cup open
      BY <1>5 DEF Reap
    <2>3. CASE i \in UNION {Children(t0, d) : d \in Ino}
      <3>1. PICK d \in Ino : i \in Children(t0, d)
        BY <2>3
      <3>2. PICK n : Has(t0, d, n, i)
        BY <2>1, <3>1, ChildHas
      <3> QED  BY <1>2, <3>2 DEF Anchored
    <2> QED  BY <2>2, <2>3 DEF Anchored
  <1> QED  BY <1>3, <1>4, <1>5 DEF Reaped

(* Where there is nothing to reap, nothing is.                             *)
LEMMA ReapNone ==
    ASSUME NEW t0, Shape(t0), NEW open \in SUBSET Ino, Reaped(t0, open)
    PROVE  Reap(t0, open) = t0
  <1>1. IsTree(t0)
    BY DEF Shape
  <1> DEFINE named == (UNION {Children(t0, d) : d \in Ino}) \cup {Top, Root} \cup open
  <1>2. ASSUME NEW i \in Ino, i \notin named  PROVE t0[i] = Free
    <2>1. \A d, n : ~Has(t0, d, n, i)
      BY <1>1, <1>2, HasIs
    <2> QED  BY <1>2, <2>1 DEF Reaped, Anchored
  <1>3. Reap(t0, open) = [i \in Ino |-> IF i \in named THEN t0[i] ELSE Free]
    BY DEF Reap
  <1>4. t0 = [i \in Ino |-> t0[i]]
    BY <1>1 DEF IsTree
  <1> HIDE DEF named
  <1>5. [i \in Ino |-> IF i \in named THEN t0[i] ELSE Free] = [i \in Ino |-> t0[i]]
    BY <1>2
  <1> QED  BY <1>3, <1>4, <1>5

LEMMA ReapedSoFilled ==
    ASSUME NEW t0, Shape(t0), Reap(t0, {}) = t0
    PROVE  Rooted(t0) /\ Filled(t0) /\ Reaped(t0, {})
  <1>1. IsTree(t0)
    BY DEF Shape
  <1>2. ASSUME NEW i \in Ino, t0[i] # Free  PROVE Anchored(t0, i)
    <2>1. Reap(t0, {})[i] # Free
      BY <1>2
    <2>2. i \in (UNION {Children(t0, d) : d \in Ino}) \cup {Top, Root}
      BY <2>1 DEF Reap
    <2>3. CASE i \in UNION {Children(t0, d) : d \in Ino}
      <3>1. PICK d \in Ino : i \in Children(t0, d)
        BY <2>3
      <3> QED  BY <1>1, <3>1, ChildHas DEF Anchored
    <2> QED  BY <2>2, <2>3 DEF Anchored
  <1>3. Rooted(t0)
    BY <1>2, DirIsNode DEF Rooted
  <1> QED  BY <1>2, <1>3, RootedIsFilled DEF Reaped

-----------------------------------------------------------------------------
(* Each edit of a tree leaves it so.                                       *)

LEMMA SameKeeps ==
    ASSUME NEW t0, NEW t1, SameNames(t0, t1)
    PROVE  Filled(t0) => Filled(t1)
  BY DEF SameNames, Filled, Anchored

LEMMA DetachKeeps ==
    ASSUME NEW t0, Shape(t0), Filled(t0), NEW c, NEW m, NEW j, Has(t0, c, m, j),
           \A n, i : ~Has(t0, j, n, i), NEW t1, t1 = Detach(t0, c, m)
    PROVE  /\ Filled(t1)
           /\ \A d, n, i : Has(t1, d, n, i) <=> Has(t0, d, n, i) /\ ~(d = c /\ n = m)
  <1>1. IsTree(t0) /\ c \in Ino /\ IsDir(t0, c)
    BY HasIs DEF Shape
  <1>2. \A d, n, i : Has(t1, d, n, i) <=> Has(t0, d, n, i) /\ ~(d = c /\ n = m)
    BY <1>1, DetachHas
  <1>3. ASSUME NEW d, NEW n, NEW i, Has(t1, d, n, i)  PROVE Anchored(t1, d)
    <2>1. Has(t0, d, n, i) /\ d # j
      BY <1>2, <1>3
    <2>2. CASE d \in {Top, Root}
      BY <2>2 DEF Anchored
    <2>3. CASE d \notin {Top, Root}
      <3>1. PICK e, k : Has(t0, e, k, d)
        BY <2>1, <2>3 DEF Filled, Anchored
      <3>2. ~(e = c /\ k = m)
        BY <2>1, <3>1 DEF Has
      <3> QED  BY <1>2, <3>1, <3>2 DEF Anchored
    <2> QED  BY <2>2, <2>3
  <1> QED  BY <1>2, <1>3 DEF Filled

(* A name for j in c, where there was none, or one of what has no entries. *)
LEMMA NewNameKeeps ==
    ASSUME NEW t0, Filled(t0), NEW c, Anchored(t0, c), NEW m, NEW j,
           \A k, n, i : Has(t0, c, m, k) => ~Has(t0, k, n, i) /\ k # c,
           NEW t1, \A d, n, i : Has(t1, d, n, i) <=> \/ d = c /\ n = m /\ i = j
                                                     \/ Has(t0, d, n, i) /\ ~(d = c /\ n = m)
    PROVE  Filled(t1)
  <1>1. ASSUME NEW d, Anchored(t0, d), ~Has(t0, c, m, d)  PROVE Anchored(t1, d)
    BY <1>1 DEF Anchored
  <1>2. Anchored(t1, c)
    BY <1>1
  <1>3. ASSUME NEW d, NEW n, NEW i, Has(t1, d, n, i)  PROVE Anchored(t1, d)
    <2>1. CASE d = c
      BY <1>2, <2>1
    <2>2. CASE d # c
      <3>1. Has(t0, d, n, i)
        BY <1>3, <2>2
      <3>2. Anchored(t0, d) /\ ~Has(t0, c, m, d)
        BY <3>1 DEF Filled
      <3> QED  BY <1>1, <3>2
    <2> QED  BY <2>1, <2>2
  <1> QED  BY <1>3 DEF Filled

(* A node made under a name nothing, or something without entries, had.    *)
LEMMA CreateKeeps ==
    ASSUME NEW t0, Shape(t0), Filled(t0), NEW c \in Ino, IsDir(t0, c), Anchored(t0, c),
           FreeInos(t0) # {}, NEW m, \A k : Has(t0, c, m, k) => ~IsDir(t0, k),
           NEW x, IsNode(t0, x), Childless(x), NEW t1, t1 = Create(t0, c, m, x)
    PROVE  /\ Shape(t1) /\ Filled(t1) /\ (Rooted(t0) => Rooted(t1))
           /\ (\A i : ~Has(t0, c, m, i)) => \A d, n, i : Has(t0, d, n, i) => Has(t1, d, n, i)
  <1>1. PICK j : j = Fresh(t0)
    OBVIOUS
  <1>2. /\ Turns(t0, t1) /\ j \in Ino /\ t0[j] = Free /\ t1[j] = x
        /\ \A d, n, i : Has(t1, d, n, i) <=> \/ d = c /\ n = m /\ i = j
                                             \/ Has(t0, d, n, i) /\ ~(d = c /\ n = m)
        /\ \A i \in Ino \ {c, j} : t1[i] = t0[i]
    BY <1>1, CreateTurns
  <1>3. \A k, n, i : Has(t0, c, m, k) => ~Has(t0, k, n, i) /\ k # c
    BY DEF Has
  <1>4. Filled(t1)
    BY <1>2, <1>3, NewNameKeeps
  <1>5. ASSUME Rooted(t0), NEW d \in Ino, IsDir(t1, d)  PROVE Anchored(t1, d)
    <2>1. CASE d = j
      BY <1>2, <2>1 DEF Anchored
    <2>2. CASE d = c
      <3>1. Has(t1, c, m, j)
        BY <1>2
      <3> QED  BY <1>4, <2>2, <3>1 DEF Filled
    <2>3. CASE d # j /\ d # c
      <3>1. IsDir(t0, d)
        BY <1>2, <1>5, <2>3 DEF IsDir, Kind
      <3>2. Anchored(t0, d) /\ ~Has(t0, c, m, d)
        BY <1>5, <3>1 DEF Rooted
      <3> QED  BY <1>2, <3>2 DEF Anchored
    <2> QED  BY <2>1, <2>2, <2>3
  <1> QED  BY <1>2, <1>4, <1>5 DEF Turns, Rooted

(* A node moved to another name.                                           *)
LEMMA MoveKeeps ==
    ASSUME NEW t0, Shape(t0), Filled(t0), NEW b0, NEW m, NEW i, Has(t0, b0, m, i),
           NEW c \in Ino, IsDir(t0, c), Anchored(t0, c), c # i, NEW n,
           \A k, l, x : Has(t0, c, n, k) => k = i \/ (~Has(t0, k, l, x) /\ k # c),
           NEW t1, t1 = Detach(t0, b0, m), NEW t2, t2 = Attach(t1, c, n, i)
    PROVE  Filled(t2)
  <1>1. IsTree(t0) /\ b0 \in Ino /\ IsDir(t0, b0) /\ i \in Ino /\ t0[i] # Free
    BY HasIs DEF Shape
  <1>2. /\ Turns(t0, t1)
        /\ \A d, k, j : Has(t1, d, k, j) <=> Has(t0, d, k, j) /\ ~(d = b0 /\ k = m)
    BY <1>1, DetachHas, DetachTurns
  <1>3. IsTree(t1) /\ IsDir(t1, c) /\ t1[i] # Free
    BY <1>1, <1>2, DirIsNode DEF Turns, Shape, Still, IsDir, Kind
  <1>4. \A d, k, j : Has(t2, d, k, j) <=> \/ d = c /\ k = n /\ j = i
                                          \/ Has(t1, d, k, j) /\ ~(d = c /\ k = n)
    BY <1>1, <1>3, AttachHas
  <1>5. ASSUME NEW d, Anchored(t0, d), ~Has(t0, c, n, d)  PROVE Anchored(t2, d)
    <2>1. CASE d = i
      BY <1>4, <2>1 DEF Anchored
    <2>2. CASE d # i /\ d \notin {Top, Root}
      <3>1. PICK e, k : Has(t0, e, k, d)
        BY <1>5, <2>2 DEF Anchored
      <3>2. ~(e = b0 /\ k = m) /\ ~(e = c /\ k = n)
        BY <1>5, <2>2, <3>1 DEF Has
      <3> QED  BY <1>2, <1>4, <3>1, <3>2 DEF Anchored
    <2> QED  BY <2>1, <2>2 DEF Anchored
  <1>6. Anchored(t2, i)
    BY <1>4 DEF Anchored
  <1>7. Anchored(t2, c)
    BY <1>5
  <1>8. ASSUME NEW d, NEW k, NEW j, Has(t2, d, k, j)  PROVE Anchored(t2, d)
    <2>1. CASE d = c \/ d = i
      BY <1>6, <1>7, <2>1
    <2>2. CASE d # c /\ d # i
      <3>1. Has(t0, d, k, j)
        BY <1>2, <1>4, <1>8, <2>2
      <3>2. Anchored(t0, d) /\ ~Has(t0, c, n, d)
        BY <2>2, <3>1 DEF Filled
      <3> QED  BY <1>5, <3>2
    <2> QED  BY <2>1, <2>2
  <1> QED  BY <1>8 DEF Filled

-----------------------------------------------------------------------------
(* The calls that make something keep every name there was; the others     *)
(* take or write over the names they are given alone.                      *)
Grows(t0, t1) == Shape(t1) /\ Rooted(t1) /\ \A d, n, i : Has(t0, d, n, i) => Has(t1, d, n, i)

LEMMA SameGrows ==
    ASSUME NEW t0, Shape(t0), Rooted(t0)
    PROVE  Grows(t0, t0) /\ \A e : Grows(t0, Fail(e, t0).t)
  <1>1. \A e : Fail(e, t0).t = t0
    BY DEF Fail, Ans
  <1> QED  BY <1>1 DEF Grows

LEMMA MakeGrows ==
    ASSUME NEW t0, Shape(t0), Rooted(t0), NEW l, Sees(t0, l), l.is = "absent",
           NEW x, IsNode(t0, x), Childless(x)
    PROVE  Grows(t0, MakeAt(t0, l, x).t)
  <1>1. CASE FreeInos(t0) = {}
    <2>1. MakeAt(t0, l, x) = Fail("StorageFull", t0)
      BY <1>1 DEF MakeAt
    <2> QED  BY <2>1, SameGrows
  <1>2. CASE FreeInos(t0) # {}
    <2>1. PICK c, m, t1 : c = l.dir /\ m = l.name /\ t1 = Create(t0, c, m, x)
      OBVIOUS
    <2>2. c \in Ino /\ IsDir(t0, c) /\ \A i : ~Has(t0, c, m, i)
      BY <2>1 DEF Sees
    <2>3. Filled(t0) /\ Anchored(t0, c)
      BY <2>2, RootedIsFilled DEF Rooted
    <2>4. Grows(t0, t1)
      BY <1>2, <2>1, <2>2, <2>3, CreateKeeps DEF Grows
    <2>5. MakeAt(t0, l, x).t = t1
      BY <1>2, <2>1 DEF MakeAt, Ans
    <2> QED  BY <2>4, <2>5
  <1> QED  BY <1>1, <1>2

LEMMA CreateNewGrows ==
    ASSUME NEW t0, Shape(t0), Rooted(t0), NEW p, IsPath(p), NEW mode, NEW bn
    PROVE  Grows(t0, CreateNew(t0, bn, p, mode).t)
  <1> DEFINE r == CreateNew(t0, bn, p, mode)
             l == Named(t0, bn, p)
             x == FileNode("empty", mode \ Umask)
  <1>1. Sees(t0, l)
    BY NamedSees
  <1>2. (\E e : r = Fail(e, t0)) \/ (l.is = "absent" /\ r = MakeAt(t0, l, x))
    <2> DEFINE up == bn /\ EndsInDotDot(p)
               at == IF bn /\ l.ino = Root THEN "IsADirectory" ELSE "AlreadyExists"
               sl == p.tail # ""
               no == IF bn THEN "InvalidInput" ELSE "NotFound"
    <2>1. r = CASE sl -> Fail(no, t0)
                [] up -> Fail("NotFound", t0)
                [] Found(l) -> Fail(at, t0)
                [] l.is = "absent" /\ ~sl -> MakeAt(t0, l, x)
                [] OTHER -> Fail(l.is, t0)
      BY Zenon DEF CreateNew
    <2> HIDE DEF r, l, x, up, at, no, sl
    <2> QED  BY <2>1
  <1>3. IsNode(t0, x) /\ Childless(x)
    BY NodesAre
  <1> HIDE DEF r, l, x
  <1>4. Grows(t0, r.t)
    BY <1>1, <1>2, <1>3, MakeGrows, SameGrows
  <1> QED  BY <1>4 DEF r

LEMMA MkdirGrows ==
    ASSUME NEW t0, Shape(t0), Rooted(t0), NEW p, IsPath(p), NEW mode, NEW bn
    PROVE  Grows(t0, Mkdir(t0, bn, p, mode).t)
  <1> DEFINE r == Mkdir(t0, bn, p, mode)
             l == Named(t0, bn, p)
             x == DirNode(<<>>, mode \ Umask)
  <1>1. Sees(t0, l)
    BY NamedSees
  <1>2. (\E e : r = Fail(e, t0)) \/ (l.is = "absent" /\ r = MakeAt(t0, l, x))
    <2>1. r = CASE Found(l) -> Fail("AlreadyExists", t0)
                [] l.is = "absent" /\ p.tail = "/." -> Fail("NotFound", t0)
                [] l.is = "absent" /\ p.tail # "/." -> MakeAt(t0, l, x)
                [] OTHER -> Fail(l.is, t0)
      BY Zenon DEF Mkdir
    <2> HIDE DEF r, l, x
    <2> QED  BY <2>1
  <1>3. IsNode(t0, x) /\ Childless(x)
    BY NodesAre
  <1> HIDE DEF r, l, x
  <1>4. Grows(t0, r.t)
    BY <1>1, <1>2, <1>3, MakeGrows, SameGrows
  <1> QED  BY <1>4 DEF r

LEMMA SymlinkGrows ==
    ASSUME NEW t0, Shape(t0), Rooted(t0), NEW p, IsPath(p), NEW contents, IsPath(contents), NEW bn
    PROVE  Grows(t0, Symlink(t0, bn, contents, p).t)
  <1> DEFINE r == Symlink(t0, bn, contents, p)
             l == Named(t0, bn, p)
             x == LinkNode(contents)
  <1>1. Sees(t0, l)
    BY NamedSees
  <1>2. (\E e : r = Fail(e, t0)) \/ (l.is = "absent" /\ r = MakeAt(t0, l, x))
    <2> DEFINE up == bn /\ EndsInDotDot(p)
    <2>1. r = CASE up -> Fail("NotFound", t0)
                [] Found(l) -> Fail("AlreadyExists", t0)
                [] l.is = "absent" -> MakeAt(t0, l, x)
                [] OTHER -> Fail(l.is, t0)
      BY Zenon DEF Symlink
    <2> HIDE DEF r, l, x, up
    <2> QED  BY <2>1
  <1>3. IsNode(t0, x) /\ Childless(x)
    BY NodesAre
  <1> HIDE DEF r, l, x
  <1>4. Grows(t0, r.t)
    BY <1>1, <1>2, <1>3, MakeGrows, SameGrows
  <1> QED  BY <1>4 DEF r

(* What is written over, by a node of its kind with the entries it had.    *)
LEMMA DataSame ==
    ASSUME NEW t0, Shape(t0), NEW i \in Ino, Kind(t0, i) = "file", NEW d,
           NEW t1, t1 = SetData(t0, i, d)
    PROVE  SameNames(t0, t1) /\ Shape(t1) /\ (Rooted(t0) => Rooted(t1))
  <1>1. IsTree(t0) /\ t0[i] # Free /\ t0[i].kind = "file"
    BY DEF Shape, Kind, Free
  <1>2. PICK x : /\ t1 = SetNode(t0, i, x) /\ IsNode(t0, x) /\ x.kind = "file"
    BY <1>1, DataIs
  <1>3. Turns(t0, t1) /\ SameNames(t0, t1)
    BY <1>1, <1>2, NodeTurns DEF SameNames
  <1>4. \A j \in Ino : t1[j].kind = t0[j].kind
    BY DataTurns
  <1> QED  BY <1>3, <1>4 DEF Turns, SameNames, Rooted, Anchored, IsDir, Kind

LEMMA ModeSame ==
    ASSUME NEW t0, Shape(t0), NEW i \in Ino, Kind(t0, i) \in {"file", "dir"}, NEW m,
           NEW t1, t1 = SetMode(t0, i, m)
    PROVE  SameNames(t0, t1) /\ Shape(t1)
  <1>1. IsTree(t0) /\ t0[i] # Free
    BY DEF Shape, Kind, Free
  <1>2. PICK x : /\ t1 = SetNode(t0, i, x) /\ IsNode(t0, x) /\ x.kind = t0[i].kind
                 /\ x.kind = "dir" => x.ents = Ents(t0, i)
    BY <1>1, ModeIs
  <1>3. Turns(t0, t1) /\ SameNames(t0, t1)
    BY <1>1, <1>2, NodeTurns DEF SameNames
  <1> QED  BY <1>3 DEF Turns

LEMMA OpenWriteGrows ==
    ASSUME NEW t0, Shape(t0), Rooted(t0), NEW p, IsPath(p), NEW flags, NEW bn
    PROVE  Grows(t0, OpenWrite(t0, bn, p, flags).t)
  <1> DEFINE r == OpenWrite(t0, bn, p, flags)
             q == IF "create" \in flags THEN NoTail(p) ELSE p
             l == Look(t0, bn, q, TRUE)
             m == {"owner", "others"}
             x == FileNode("empty", m \ Umask)
             u == IF Kind(t0, l.ino) = "file" /\ "truncate" \in flags
                  THEN SetData(t0, l.ino, "empty") ELSE t0
             o == Ans("ok", u, l.ino)
  <1>1. IsPath(q)
    BY PathsAre
  <1>2. Sees(t0, l)
    BY <1>1, LookSees
  <1>3. \/ r = CreateNew(t0, bn, p, m)
        \/ \E e : r = Fail(e, t0)
        \/ l.is = "absent" /\ r = MakeAt(t0, l, x)
        \/ r = o
    <2> DEFINE excl   == "excl" \in flags
               slash  == "create" \in flags /\ p.tail # ""
               barred == /\ Found(l) /\ Kind(t0, l.ino) = "file"
                         /\ "owner" \notin t0[l.ino].mode
               makes  == "create" \in flags
    <2>1. r = CASE excl -> CreateNew(t0, bn, p, m)
                [] slash -> Fail(IF bn THEN "InvalidInput" ELSE "NotFound", t0)
                [] Found(l) /\ IsDir(t0, l.ino) -> Fail("IsADirectory", t0)
                [] barred -> Fail("PermissionDenied", t0)
                [] Found(l) /\ ~IsDir(t0, l.ino) -> o
                [] l.is = "absent" /\ makes -> MakeAt(t0, l, x)
                [] OTHER -> Fail(ErrorOf(l), t0)
      BY Zenon DEF OpenWrite, SetData
    <2> HIDE DEF r, l, x, m, o, excl, slash, barred, makes
    <2> QED  BY <2>1
  <1>4. Grows(t0, u)
    <2>1. PICK i : i = l.ino
      OBVIOUS
    <2> HIDE DEF l
    <2>2. i \in Ino
      BY <1>2, <2>1 DEF Sees
    <2>3. Kind(t0, i) = "file" => Grows(t0, SetData(t0, i, "empty"))
      BY <2>2, DataSame DEF Grows, SameNames
    <2> QED  BY <2>1, <2>3, SameGrows
  <1>5. o.t = u
    BY DEF Ans
  <1>6. IsNode(t0, x) /\ Childless(x)
    BY NodesAre
  <1>7. Grows(t0, CreateNew(t0, bn, p, m).t)
    BY CreateNewGrows
  <1> HIDE DEF r, l, u, x, m, o
  <1>8. Grows(t0, r.t)
    BY <1>2, <1>3, <1>4, <1>5, <1>6, <1>7, MakeGrows, SameGrows
  <1> QED  BY <1>8 DEF r

LEMMA HardLinkGrows ==
    ASSUME NEW t0, Shape(t0), Rooted(t0), NEW p, IsPath(p), NEW q, IsPath(q), NEW bn
    PROVE  Grows(t0, HardLink(t0, bn, p, q).t)
  <1> DEFINE r == HardLink(t0, bn, p, q)
             s == Named(t0, bn, p)
             d == Named(t0, bn, q)
             o == Ans("ok", Attach(t0, d.dir, d.name, s.ino), s.ino)
  <1>1. Sees(t0, s) /\ Sees(t0, d)
    BY NamedSees
  <1>2. \/ r \in {Fail(ErrorOf(s), t0), Fail("NotADirectory", t0), Fail("AlreadyExists", t0),
                  Fail(d.is, t0), Fail("PermissionDenied", t0)}
        \/ r = o /\ Found(s) /\ ~IsDir(t0, s.ino) /\ d.is = "absent"
    BY Zenon DEF HardLink
  <1>3. ASSUME Found(s), ~IsDir(t0, s.ino), d.is = "absent"  PROVE Grows(t0, o.t)
    <2>1. PICK c, n, i, t1 : c = d.dir /\ n = d.name /\ i = s.ino /\ t1 = Attach(t0, c, n, i)
      OBVIOUS
    <2>2. o.t = t1
      BY <2>1 DEF Ans
    <2> HIDE DEF s, d, o
    <2>3. c \in Ino /\ IsDir(t0, c) /\ i \in Ino /\ t0[i] # Free /\ ~IsDir(t0, i)
      BY <1>1, <1>3, <2>1 DEF Sees
    <2>4. \A x : ~Has(t0, c, n, x)
      BY <1>1, <1>3, <2>1 DEF Sees
    <2>5. IsTree(t0)
      BY DEF Shape
    <2>6. /\ Turns(t0, t1) /\ Still(t0, t1)
          /\ \A x, k, y : Has(t1, x, k, y) <=> \/ x = c /\ k = n /\ y = i
                                               \/ Has(t0, x, k, y) /\ ~(x = c /\ k = n)
      BY <2>1, <2>3, <2>5, AttachHas, AttachTurns
    <2>7. \A x, k, y : Has(t0, x, k, y) => Has(t1, x, k, y)
      BY <2>4, <2>6
    <2>8. \A x \in Ino : IsDir(t1, x) => IsDir(t0, x)
      BY <2>1, <2>3, <2>5, AttachIs DEF IsDir, Kind
    <2>9. Rooted(t1)
      BY <2>7, <2>8 DEF Rooted, Anchored
    <2> QED  BY <2>2, <2>6, <2>7, <2>9 DEF Grows, Turns
  <1> HIDE DEF r, s, d, o
  <1>4. Grows(t0, r.t)
    BY <1>2, <1>3, SameGrows
  <1> QED  BY <1>4 DEF r

(* Removing takes one name, of what has no entries.                        *)
Loses(t0, t1, i) ==
    /\ Shape(t1) /\ Filled(t1)
    /\ \A d, n, k : Has(t0, d, n, k) => Has(t1, d, n, k) \/ k = i

LEMMA SameLoses ==
    ASSUME NEW t0, Shape(t0), Filled(t0), NEW i
    PROVE  Loses(t0, t0, i) /\ \A e : Loses(t0, Fail(e, t0).t, i)
  <1>1. \A e : Fail(e, t0).t = t0
    BY DEF Fail, Ans
  <1> QED  BY <1>1 DEF Loses

LEMMA DetachLoses ==
    ASSUME NEW t0, Shape(t0), Filled(t0), NEW c, NEW m, NEW j, Has(t0, c, m, j),
           \A n, i : ~Has(t0, j, n, i)
    PROVE  Loses(t0, Detach(t0, c, m), j)
  <1>1. PICK t1 : t1 = Detach(t0, c, m)
    OBVIOUS
  <1>2. /\ Filled(t1)
        /\ \A d, n, i : Has(t1, d, n, i) <=> Has(t0, d, n, i) /\ ~(d = c /\ n = m)
    BY <1>1, DetachKeeps
  <1>3. IsTree(t0)
    BY DEF Shape
  <1>4. c \in Ino /\ IsDir(t0, c)
    BY <1>3, HasIs
  <1>5. Shape(t1)
    BY <1>1, <1>4, DetachTurns DEF Turns
  <1>6. ASSUME NEW d, NEW n, NEW k, Has(t0, d, n, k)  PROVE Has(t1, d, n, k) \/ k = j
    BY <1>2, <1>6 DEF Has
  <1>7. Loses(t0, t1, j)
    BY <1>2, <1>5, <1>6 DEF Loses
  <1> QED  BY <1>1, <1>7

LEMMA UnlinkLoses ==
    ASSUME NEW t0, Shape(t0), Filled(t0), NEW p, IsPath(p), NEW bn
    PROVE  LET r == Unlink(t0, bn, p)
           IN  /\ Loses(t0, r.t, Named(t0, bn, p).ino)
               /\ r.err = "ok" => p.tail = ""
               /\ r.err # "ok" => r.t = t0
  <1> DEFINE r == Unlink(t0, bn, p)
             l == Named(t0, bn, p)
             o == Ans("ok", Detach(t0, l.dir, l.name), l.ino)
  <1>1. Sees(t0, l) /\ ErrorOf(l) # "ok"
    BY NamedSees DEF Sees, Outcomes, ErrorOf
  <1>2. \/ r \in {Fail(ErrorOf(l), t0), Fail("IsADirectory", t0), Fail("NotADirectory", t0)}
        \/ r = o /\ Found(l) /\ ~IsDir(t0, l.ino) /\ p.tail = ""
    BY Zenon DEF Unlink
  <1>3. ASSUME Found(l), ~IsDir(t0, l.ino)  PROVE Loses(t0, o.t, l.ino)
    <2>1. o.t = Detach(t0, l.dir, l.name)
      BY DEF Ans
    <2> HIDE DEF l, o
    <2>2. Has(t0, l.dir, l.name, l.ino)
      BY <1>1, <1>3 DEF Sees
    <2>3. \A n, i : ~Has(t0, l.ino, n, i)
      BY <1>3 DEF Has
    <2> QED  BY <2>1, <2>2, <2>3, DetachLoses
  <1>4. \A e : Fail(e, t0).t = t0 /\ Fail(e, t0).err = e
    BY DEF Fail, Ans
  <1>5. o.err = "ok"
    BY DEF Ans
  <1> HIDE DEF r, l, o
  <1>6. Loses(t0, r.t, l.ino)
    BY <1>2, <1>3, SameLoses
  <1>7. (r.err = "ok" => p.tail = "") /\ (r.err # "ok" => r.t = t0)
    BY <1>1, <1>2, <1>4, <1>5
  <1> QED  BY <1>6, <1>7 DEF r, l

LEMMA RmdirLoses ==
    ASSUME NEW t0, Shape(t0), Filled(t0), NEW p, IsPath(p), NEW bn
    PROVE  Loses(t0, Rmdir(t0, bn, p).t, Named(t0, bn, p).ino)
  <1> DEFINE r == Rmdir(t0, bn, p)
             l == Named(t0, bn, p)
             o == Ans("ok", Detach(t0, l.dir, l.name), l.ino)
  <1>1. Sees(t0, l)
    BY NamedSees
  <1>2. \/ r \in {Fail(ErrorOf(l), t0), Fail("InvalidInput", t0), Fail("NotADirectory", t0),
                  Fail("DirectoryNotEmpty", t0)}
        \/ r = o /\ Found(l) /\ l.name # "" /\ Ents(t0, l.ino) = <<>>
    BY Zenon DEF Rmdir
  <1>3. ASSUME Found(l), l.name # "", Ents(t0, l.ino) = <<>>  PROVE Loses(t0, o.t, l.ino)
    <2>1. o.t = Detach(t0, l.dir, l.name)
      BY DEF Ans
    <2> HIDE DEF l, o
    <2>2. Has(t0, l.dir, l.name, l.ino)
      BY <1>1, <1>3, Zenon DEF Sees
    <2>3. DOMAIN Ents(t0, l.ino) = {}
      <3>1. Ents(t0, l.ino) = <<>>
        BY <1>3, Zenon
      <3> QED  BY <3>1
    <2>4. \A n, i : ~Has(t0, l.ino, n, i)
      BY <2>3, Zenon DEF Has
    <2> QED  BY <2>1, <2>2, <2>4, DetachLoses
  <1> HIDE DEF r, l, o
  <1>4. Loses(t0, r.t, l.ino)
    BY <1>2, <1>3, SameLoses
  <1> QED  BY <1>4 DEF r, l

LEMMA RenameKeeps ==
    ASSUME NEW t0, Shape(t0), Rooted(t0), NEW p, IsPath(p), NEW q, IsPath(q), NEW bn
    PROVE  LET r == Rename(t0, bn, p, q) IN Shape(r.t) /\ Filled(r.t)
  <1> DEFINE r == Rename(t0, bn, p, q)
             s == Named(t0, bn, p)
             d == Named(t0, bn, q)
             o == Ans("ok", Attach(Detach(t0, s.dir, s.name), d.dir, d.name, s.ino), s.ino)
             sd == IsDir(t0, s.ino)
  <1>1. Sees(t0, s) /\ Sees(t0, d)
    BY NamedSees
  <1>2. \/ r \in {Fail(ErrorOf(s), t0), Fail(d.is, t0), Fail("ResourceBusy", t0),
                  Fail("NotADirectory", t0), Fail("InvalidInput", t0), Fail("IsADirectory", t0),
                  Fail("DirectoryNotEmpty", t0), Ans("ok", t0, s.ino)}
        \/ /\ r = o /\ Found(s) /\ s.name # "" /\ d.name # ""
           /\ Found(d) \/ d.is = "absent"
           /\ sd => d.dir \notin Below(t0, s.ino)
           /\ Found(d) => /\ IsDir(t0, d.ino) => sd /\ Ents(t0, d.ino) = <<>>
    <2> DEFINE slash == ~sd /\ (p.tail # "" \/ (~bn /\ q.tail # ""))
               dots  == p.tail = "/." \/ q.tail = "/."
               under == sd /\ d.dir \in Below(t0, s.ino)
               full  == Ents(t0, d.ino) # <<>>
    <2>1. r = CASE ~Found(s) -> Fail(ErrorOf(s), t0)
                [] ~Found(d) /\ d.is # "absent" -> Fail(d.is, t0)
                [] s.name = "" \/ d.name = "" -> Fail("ResourceBusy", t0)
                [] slash -> Fail("NotADirectory", t0)
                [] dots -> Fail("ResourceBusy", t0)
                [] Found(d) /\ d.ino = s.ino -> Ans("ok", t0, s.ino)
                [] under -> Fail("InvalidInput", t0)
                [] Found(d) /\ sd /\ ~IsDir(t0, d.ino) -> Fail("NotADirectory", t0)
                [] Found(d) /\ IsDir(t0, d.ino) /\ ~sd -> Fail("IsADirectory", t0)
                [] Found(d) /\ sd /\ full -> Fail("DirectoryNotEmpty", t0)
                [] OTHER -> o
      BY Zenon DEF Rename
    <2>2. under <=> sd /\ d.dir \in Below(t0, s.ino)
      OBVIOUS
    <2>3. full <=> Ents(t0, d.ino) # <<>>
      OBVIOUS
    <2> HIDE DEF r, s, d, o, sd, slash, dots, under, full
    <2> QED  BY <2>1, <2>2, <2>3
  <1>3. ASSUME Found(s), s.name # "", d.name # "", Found(d) \/ d.is = "absent",
               sd => d.dir \notin Below(t0, s.ino),
               Found(d) => (IsDir(t0, d.ino) => sd /\ Ents(t0, d.ino) = <<>>)
        PROVE  Shape(o.t) /\ Filled(o.t)
    <2>1. PICK b0, m, c, n, i, t1, t2 :
             /\ b0 = s.dir /\ m = s.name /\ c = d.dir /\ n = d.name /\ i = s.ino
             /\ t1 = Detach(t0, b0, m) /\ t2 = Attach(t1, c, n, i)
      OBVIOUS
    <2>2. o.t = t2
      BY <2>1 DEF Ans
    <2>3. sd <=> IsDir(t0, i)
      BY <2>1
    <2> HIDE DEF s, d, o, sd
    <2>4. Has(t0, b0, m, i) /\ i \in Ino
      BY <1>1, <1>3, <2>1 DEF Sees
    <2>5. c \in Ino /\ IsDir(t0, c)
      BY <1>1, <2>1 DEF Sees
    <2>6. Turns(t0, t2)
      BY <2>1, <2>4, <2>5, MoveTurns
    <2>7. IsTree(t0)
      BY DEF Shape
    <2>8. c # i
      <3>1. IsDir(t0, i) => i \in Below(t0, i)
        BY <2>4, <2>7, BelowIs
      <3> QED  BY <1>3, <2>1, <2>3, <2>5, <3>1
    <2>9. ASSUME NEW k, NEW l, NEW x, Has(t0, c, n, k)  PROVE k = i \/ (~Has(t0, k, l, x) /\ k # c)
      <3>1. Found(d)
        BY <1>1, <1>3, <2>1, <2>9 DEF Sees
      <3>2. k = d.ino
        BY <1>1, <1>3, <2>1, <2>9, <3>1 DEF Sees, Has
      <3>3. IsDir(t0, k) => Ents(t0, k) = <<>>
        BY <1>3, <3>1, <3>2
      <3>4. ~Has(t0, k, l, x)
        BY <3>3 DEF Has
      <3>5. k # c
        BY <2>9, <3>3 DEF Has
      <3> QED  BY <3>4, <3>5
    <2>10. Filled(t0) /\ Anchored(t0, c)
      BY <2>5, RootedIsFilled DEF Rooted
    <2>11. Filled(t2)
      BY <2>1, <2>4, <2>5, <2>8, <2>9, <2>10, MoveKeeps
    <2> QED  BY <2>2, <2>6, <2>11 DEF Turns
  <1>4. \A e, i : Fail(e, t0).t = t0 /\ Ans("ok", t0, i).t = t0
    BY DEF Fail, Ans
  <1> HIDE DEF r, s, d, o, sd
  <1>5. Shape(r.t) /\ Filled(r.t)
    BY <1>2, <1>3, <1>4, RootedIsFilled
  <1> QED  BY <1>5 DEF r

-----------------------------------------------------------------------------
(* The invariant: what is above of the tree; the steps at which a          *)
(* directory is held open; which call a copy's step is of, and what it     *)
(* holds; and that the name a copy is about to remove is of the copy.      *)

Holding == {"rmtree.empty", "copy_dir.chmod", "copy_dir.remove"}
Shut(l, tree, hh) == l \notin Holding => \A i \in Open(hh) : ~IsDir(tree, i)
Whole(l, tree, hh) == Filled(tree) /\ Reaped(tree, Open(hh)) /\ Shut(l, tree, hh)
Of(l, op, hh, made) ==
    /\ l \in DirSteps \cup {"copy_dir"} => op = "copy_dir"
    /\ l \in FileSteps => hh.dst \in made
Same(tree, p, i) == LET m == Lstat(tree, Confined, p) IN m.err = "ok" /\ m.ino = i
KeepInv ==
    /\ Whole(pc, t, h) /\ Of(pc, call.op, h, w.made)
    /\ pc = "copy_file.remove" /\ ~w.moved => Same(t, b, h.dst)

(* What a step finds.                                                      *)
LEMMA KeepIs ==
    ASSUME TreeInv, KeepInv
    PROVE  /\ Shape(t) /\ IsTree(t) /\ IsPath(a) /\ IsPath(b) /\ Filled(t) /\ Reaped(t, Open(h))
           /\ Shut(pc, t, h) /\ Of(pc, call.op, h, w.made) /\ Open(h) \in SUBSET Ino
           /\ pc \notin Holding => Rooted(t)
  <1>1. Open(h) \in SUBSET Ino /\ \A i \in Open(h) : i \in Ino
    BY FineIs DEF OpenIn
  <1>2. Filled(t) /\ Reaped(t, Open(h)) /\ Shut(pc, t, h) /\ Of(pc, call.op, h, w.made)
    BY DEF KeepInv, Whole
  <1>3. pc \notin Holding => Rooted(t)
    BY <1>2, DirIsNode DEF Shut, Reaped, Rooted
  <1> QED  BY <1>1, <1>2, <1>3, FineIs

(* What a step of a file's copy may lose.                                  *)
Spares == call.op = "copy_file" /\ pc \in CopySteps /\ ~w.moved =>
             \A d, n, i : Has(t, d, n, i) => Has(t', d, n, i) \/ i \in w.made
Spared == KeepInv' /\ Spares

LEMMA GotoWhole ==
    ASSUME TreeInv, KeepInv, NEW l, NEW tree, NEW hh, Goto(l, tree, hh), Shape(tree), Filled(tree),
           Open(hh) \in SUBSET Ino, Shut(l, tree, hh), Of(l, call.op, hh, Made(tree)),
           l # "copy_file.remove",
           pc \in CopySteps => \A d, n, i : Has(t, d, n, i) => Has(tree, d, n, i)
    PROVE  Spared
  <1>1. PICK m : m = Made(tree)
    OBVIOUS
  <1>2. /\ pc' = l /\ h' = hh /\ t' = Reap(tree, Open(hh)) /\ call' = call
        /\ w' = [w EXCEPT !.moved = FALSE, !.made = m]
    BY <1>1 DEF Goto, Made
  <1>3. w'.made = m
    <2>1. PICK x : x = w'
      OBVIOUS
    <2>2. x = [w EXCEPT !.moved = FALSE, !.made = m]
      BY <1>2, <2>1
    <2>3. x.made = m
      BY <2>2, FineIs, HistoryIs, Zenon
    <2> QED  BY <2>1, <2>3
  <1>4. PICK t2 : t2 = t'
    OBVIOUS
  <1>5. SameNames(tree, t2) /\ Filled(t2) /\ Reaped(t2, Open(hh))
    BY <1>2, <1>4, ReapKeeps
  <1>6. \A i \in Open(hh) : t2[i] = tree[i]
    BY <1>2, <1>4, ReapTurns
  <1>7. Shut(l, t2, hh)
    BY <1>6 DEF Shut, IsDir, Kind
  <1>8. Spares
    BY <1>4, <1>5 DEF Spares, SameNames
  <1>9. Of(l, call.op, hh, m)
    BY <1>1
  <1>10. KeepInv'
    BY <1>2, <1>3, <1>4, <1>5, <1>7, <1>9 DEF KeepInv, Whole
  <1> QED  BY <1>8, <1>10 DEF Spared

LEMMA AnswersWhole ==
    ASSUME TreeInv, KeepInv, NEW e, NEW tree, NEW S, NEW fault, AnswersAt(e, tree, S, fault),
           Shape(tree), Filled(tree),
           pc \in CopySteps /\ call.op = "copy_file" /\ ~w.moved =>
              \A d, n, i : Has(t, d, n, i) => Has(tree, d, n, i) \/ i \in w.made
    PROVE  Spared
  <1>1. pc' = "idle" /\ h' = NoHandles /\ t' = Reap(tree, {})
    BY DEF AnswersAt
  <1>2. Open(NoHandles) = {}
    BY NoneOpen
  <1>3. PICK t2 : t2 = t'
    OBVIOUS
  <1>4. SameNames(tree, t2) /\ Filled(t2) /\ Reaped(t2, {})
    BY <1>1, <1>3, ReapKeeps
  <1>5. Whole("idle", t2, NoHandles)
    BY <1>2, <1>4 DEF Whole, Shut
  <1>6. Spares
    BY <1>3, <1>4 DEF Spares, SameNames
  <1>7. \A op, made : Of("idle", op, NoHandles, made)
    BY DEF Of, DirSteps, FileSteps
  <1>8. KeepInv'
    BY <1>1, <1>3, <1>5, <1>7 DEF KeepInv
  <1> QED  BY <1>6, <1>8 DEF Spared

LEMMA LeaveWhole ==
    ASSUME TreeInv, KeepInv, NEW e, NEW tree, Leave(e, tree), Shape(tree), Filled(tree),
           pc \in CopySteps /\ call.op = "copy_file" /\ ~w.moved =>
              \A d, n, i : Has(t, d, n, i) => Has(tree, d, n, i) \/ i \in w.made
    PROVE  Spared
  <1>1. PICK S, f : S = {} /\ f = FALSE
    OBVIOUS
  <1>2. AnswersAt(e, tree, S, f)
    BY <1>1 DEF Leave, Answers
  <1> QED  BY <1>2, AnswersWhole

LEMMA LeftWhole ==
    ASSUME TreeInv, KeepInv, NEW e, Leave(e, t)
    PROVE  Spared
  BY KeepIs, LeaveWhole

(* A system call's answer, passed on or told: it kept every name, or the   *)
(* step is no copy's.                                                      *)
LEMMA PassWhole ==
    ASSUME TreeInv, KeepInv, NEW r, Pass(r) \/ Tell(r), Shape(r.t), Filled(r.t),
           pc \notin CopySteps \/ Grows(t, r.t) \/ r.t = t
    PROVE  Spared
  <1>1. PICK e, x, S : /\ e = r.err /\ x = r.t /\ AnswersAt(e, x, S, FALSE)
    BY DEF Pass, Tell, Leave, Answers
  <1>2. pc \in CopySteps => \A d, n, i : Has(t, d, n, i) => Has(x, d, n, i)
    BY <1>1 DEF Grows
  <1> QED  BY <1>1, <1>2, AnswersWhole

LEMMA GrownWhole ==
    ASSUME TreeInv, KeepInv, NEW r, Pass(r) \/ Tell(r), Grows(t, r.t)
    PROVE  Spared
  BY PassWhole, RootedIsFilled DEF Grows

LEMMA ReadWhole ==
    ASSUME TreeInv, KeepInv, NEW r, Pass(r) \/ Tell(r), Reads(t, r)
    PROVE  Spared
  BY KeepIs, PassWhole DEF Reads

(* Going on with the tree as it is and nothing more held open.             *)
LEMMA OnWhole ==
    ASSUME TreeInv, KeepInv, NEW l, Goto(l, t, h), l # "copy_file.remove", pc \notin Holding,
           Of(l, call.op, h, w.made)
    PROVE  Spared
  <1>1. Made(t) = w.made
    BY DEF Made
  <1>2. Shut(l, t, h)
    BY KeepIs DEF Shut
  <1> QED  BY <1>1, <1>2, KeepIs, GotoWhole

LEMMA PlainWhole ==
    ASSUME TreeInv, KeepInv, NEW l \in Plain, Goto(l, t, h), pc \notin Holding
    PROVE  Spared
  <1>1. Of(l, call.op, h, w.made) /\ l # "copy_file.remove"
    BY DEF Plain, Of, DirSteps, FileSteps
  <1> QED  BY <1>1, OnWhole

-----------------------------------------------------------------------------
(* The steps of the calls.                                                 *)

LEMMA NoCopyStep ==
    /\ ReadFileAt \/ StatAt \/ ReadDirAt \/ ReadlinkAt \/ OpenReadAt \/ OpenDirAt
         => pc \notin CopySteps \cup Holding
    /\ WriteOpen \/ WriteData \/ OpenWriteAt \/ AppendData => pc \notin CopySteps \cup Holding
    /\ CreateDirName \/ CreateDirMake
         \/ CreateDirAllThere \/ CreateDirAllName \/ CreateDirAllMake \/ CreateDirAllTaken
         => pc \notin CopySteps \cup Holding
    /\ RemoveDirName \/ RemoveDirRemove \/ RemoveDirAllName \/ RemoveTreeOpen \/ UnlinkAt
         => pc \notin CopySteps \cup Holding
    /\ RemoveTreeEntry \/ RemoveTreeFails \/ RemoveTreeLast => pc \notin CopySteps
    /\ RenameAt \/ LinkAt \/ StayKind \/ StayRead \/ StayAim \/ Move
         => pc \notin CopySteps \cup Holding
    /\ SymlinkCheck \/ SymlinkMake \/ CopyFileOpen \/ CopyDirStat
         => pc \notin CopySteps \cup Holding
  <1> DEFINE Most == CopySteps \cup Holding
  <1>1. \A l \in {"read", "stat", "lstat", "list", "readlink", "open", "open_nofollow",
                  "open_dir", "open_dir_nofollow", "write", "write.data", "append.data", "mkdir",
                  "mkdir.make", "mkdir_all", "mkdir_all.name", "mkdir_all.climb", "mkdir_all.make",
                  "mkdir_all.taken", "rmdir", "rmdir.remove", "rmtree",
                  "rmtree.open", "unlink", "rename", "link", "stay.kind", "stay.read", "stay.aim",
                  "move", "symlink", "symlink.make", "copy_file", "copy_dir"}
                 \cup DOMAIN WriteFlags : l \notin Most
    BY DEF CopySteps, Holding, WriteFlags
  <1>2. "rmtree.empty" \notin CopySteps
    BY DEF CopySteps
  <1> HIDE DEF Most
  <1>3. ReadFileAt \/ StatAt \/ ReadDirAt \/ ReadlinkAt \/ OpenReadAt \/ OpenDirAt => pc \notin Most
    BY <1>1 DEF ReadFileAt, StatAt, ReadDirAt, ReadlinkAt, OpenReadAt, OpenDirAt
  <1>4. WriteOpen \/ WriteData \/ OpenWriteAt \/ AppendData => pc \notin Most
    <2>1. OpenWriteAt => pc \in DOMAIN WriteFlags
      BY Zenon DEF OpenWriteAt
    <2> QED  BY <1>1, <2>1 DEF WriteOpen, WriteData, AppendData
  <1>5. CreateDirName \/ CreateDirMake
        \/ CreateDirAllThere \/ CreateDirAllName \/ CreateDirAllMake \/ CreateDirAllTaken
        => pc \notin Most
    BY <1>1 DEF CreateDirName, CreateDirMake, CreateDirAllThere, CreateDirAllName,
                CreateDirAllMake, CreateDirAllTaken
  <1>6. RemoveDirName \/ RemoveDirRemove \/ RemoveDirAllName \/ RemoveTreeOpen \/ UnlinkAt => pc \notin Most
    BY <1>1 DEF RemoveDirName, RemoveDirRemove, RemoveDirAllName, RemoveTreeOpen, UnlinkAt
  <1>7. RemoveTreeEntry \/ RemoveTreeFails \/ RemoveTreeLast => pc \notin CopySteps
    BY <1>2 DEF RemoveTreeEntry, RemoveTreeFails, RemoveTreeLast
  <1>8. RenameAt \/ LinkAt \/ StayKind \/ StayRead \/ StayAim \/ Move => pc \notin Most
    BY <1>1 DEF RenameAt, LinkAt, StayKind, StayRead, StayAim, Move
  <1>9. SymlinkCheck \/ SymlinkMake \/ CopyFileOpen \/ CopyDirStat => pc \notin Most
    BY <1>1 DEF SymlinkCheck, SymlinkMake, CopyFileOpen, CopyDirStat
  <1> QED  BY <1>3, <1>4, <1>5, <1>6, <1>7, <1>8, <1>9 DEF Most

LEMMA ReadingWhole ==
    ASSUME TreeInv, KeepInv, ReadFileAt \/ StatAt \/ ReadDirAt \/ ReadlinkAt \/ OpenReadAt
    PROVE  Spared
  <1>1. PICK f : f = (pc = "open")
    OBVIOUS
  <1>2. /\ Reads(t, OpenRead(t, Confined, a, TRUE)) /\ Reads(t, OpenRead(t, Confined, a, f))
        /\ Reads(t, OpenDir(t, Confined, a, TRUE))
    BY FineIs, OpenReads
  <1>3. Reads(t, ReadLink(t, Confined, a))
    BY FineIs, ReadLinkReads
  <1>4. Reads(t, MetadataFollowed(t, a)) /\ Reads(t, MetadataAsNamed(t, a))
    BY FineIs, AsNamedReads
  <1>5. CASE ReadFileAt
    <2>1. PICK r : r = OpenRead(t, Confined, a, TRUE)
      OBVIOUS
    <2>2. Leave("IsADirectory", t) \/ Tell(r)
      BY <1>5, <2>1 DEF ReadFileAt
    <2> QED  BY <1>2, <2>1, <2>2, LeftWhole, ReadWhole
  <1>6. CASE StatAt
    BY <1>4, <1>6, ReadWhole DEF StatAt
  <1>7. CASE ReadDirAt
    BY <1>2, <1>7, ReadWhole DEF ReadDirAt
  <1>8. CASE ReadlinkAt
    BY <1>3, <1>8, ReadWhole DEF ReadlinkAt
  <1>9. CASE OpenReadAt
    <2>1. Tell(OpenRead(t, Confined, a, f))
      BY <1>1, <1>9 DEF OpenReadAt
    <2> QED  BY <1>2, <2>1, ReadWhole
  <1> QED  BY <1>5, <1>6, <1>7, <1>8, <1>9

LEMMA OpenDirWhole ==
    ASSUME TreeInv, KeepInv, OpenDirAt
    PROVE  Spared
  <1>1. PICK e, S, f : e = OpenDir(t, Confined, a, pc = "open_dir").err /\ S = {} /\ f = FALSE
    OBVIOUS
  <1>2. AnswersAt(e, t, S, f)
    BY <1>1 DEF OpenDirAt
  <1> QED  BY <1>2, KeepIs, AnswersWhole

(* Holding what was just opened, or made.                                  *)
LEMMA MadeWhole ==
    ASSUME TreeInv, KeepInv, NEW l \in {"write.data", "append.data", "copy_file.data"}, NEW r,
           Acts(t, r), r.err = "ok", ~IsDir(r.t, r.ino), Grows(t, r.t), pc \notin Holding,
           l = "copy_file.data" => r.ino \in Made(r.t), Goto(l, r.t, [h EXCEPT !.dst = r.ino])
    PROVE  Spared
  <1>1. PICK i, hh, t1 : i = r.ino /\ hh = [h EXCEPT !.dst = i] /\ t1 = r.t
    OBVIOUS
  <1>2. hh.dst = i /\ Open(hh) \subseteq Open(h) \cup {i}
    <2>1. IsHandles(h)
      BY FineIs
    <2>2. \A x : x = [h EXCEPT !.dst = i] =>
             IsHandles(x) /\ x.dst = i /\ x.src = h.src /\ Open(x) \subseteq Open(h) \cup ({i} \ {NoIno})
      BY <2>1, HeldIs
    <2> QED  BY <1>1, <2>2, Zenon
  <1>3. Turns(t, t1) /\ i \in Ino /\ ~IsDir(t1, i)
    BY <1>1 DEF Acts
  <1>4. Open(hh) \in SUBSET Ino
    BY <1>2, <1>3, KeepIs
  <1>5. Shut(l, t1, hh)
    <2>1. \A j \in Open(h) : ~IsDir(t, j) /\ t[j] # Free
      BY KeepIs, FineIs DEF Shut, OpenIn
    <2>2. \A j \in Open(h) : ~IsDir(t1, j)
      BY <1>3, <2>1, KeepIs DEF Turns, Still, IsDir, Kind
    <2> QED  BY <1>2, <1>3, <2>2 DEF Shut
  <1>6. Of(l, call.op, hh, Made(t1))
    BY <1>1, <1>2 DEF Of, DirSteps, FileSteps
  <1>7. Goto(l, t1, hh) /\ l # "copy_file.remove"
    BY <1>1
  <1>8. Shape(t1) /\ Filled(t1) /\ \A d, n, k : Has(t, d, n, k) => Has(t1, d, n, k)
    BY <1>1, RootedIsFilled DEF Grows
  <1> QED  BY <1>4, <1>5, <1>6, <1>7, <1>8, GotoWhole

LEMMA WriteWhole ==
    ASSUME TreeInv, KeepInv, WriteOpen \/ OpenWriteAt
    PROVE  Spared
  <1>1. pc \notin Holding /\ Rooted(t)
    BY NoCopyStep, KeepIs
  <1>2. CASE WriteOpen
    <2>1. PICK e, r : /\ e = RefuseDirectoryName(t, a)
                      /\ r = OpenWrite(t, Confined, a, {"create", "truncate"})
      OBVIOUS
    <2>2. Acts(t, r) /\ (r.err = "ok" => ~IsDir(r.t, r.ino)) /\ Grows(t, r.t)
      BY <1>1, <2>1, KeepIs, OpenWriteActs, OpenWriteGrows
    <2>3. \/ Leave(e, t)
          \/ Pass(r)
          \/ r.err = "ok" /\ Goto("write.data", r.t, [h EXCEPT !.dst = r.ino])
      BY <1>2, <2>1 DEF WriteOpen
    <2> QED  BY <1>1, <2>2, <2>3, LeftWhole, GrownWhole, MadeWhole
  <1>3. CASE OpenWriteAt
    <2>1. PICK flags : flags = WriteFlags[pc]
      OBVIOUS
    <2>2. PICK r : r = OpenWrite(t, Confined, a, flags)
      OBVIOUS
    <2>3. Acts(t, r) /\ (r.err = "ok" => ~IsDir(r.t, r.ino)) /\ Grows(t, r.t)
      BY <1>1, <2>2, KeepIs, OpenWriteActs, OpenWriteGrows
    <2>4. \/ \E e : Leave(e, t)
          \/ Pass(r) \/ Tell(r)
          \/ r.err = "ok" /\ Goto("append.data", r.t, [h EXCEPT !.dst = r.ino])
      BY <1>3, <2>1, <2>2 DEF OpenWriteAt
    <2> QED  BY <1>1, <2>3, <2>4, LeftWhole, GrownWhole, MadeWhole
  <1> QED  BY <1>2, <1>3

LEMMA PutWhole ==
    ASSUME TreeInv, KeepInv, WriteData \/ AppendData
    PROVE  Spared
  <1>1. pc \in {"write.data", "append.data"} /\ pc \notin CopySteps
    BY NoCopyStep DEF WriteData, AppendData
  <1>2. PICK e, d, S, f : AnswersAt(e, Put(d), S, f)
    BY DEF WriteData, AppendData, Leave, Answers
  <1>3. h.dst # NoIno
    BY <1>1, FineIs DEF KindsIn, KindsAt
  <1>4. h.dst \in Ino
    BY <1>3, KeepIs DEF Open
  <1>5. PICK t1 : t1 = Put(d)
    OBVIOUS
  <1>6. Shape(t1) /\ Filled(t1)
    <2>1. CASE Kind(t, h.dst) = "file"
      <3>1. t1 = SetData(t, h.dst, d)
        BY <1>5, <2>1 DEF Put, SetData
      <3> QED  BY <1>4, <2>1, <3>1, KeepIs, DataSame, SameKeeps
    <2>2. CASE Kind(t, h.dst) # "file"
      BY <1>5, <2>2, KeepIs DEF Put
    <2> QED  BY <2>1, <2>2
  <1> QED  BY <1>1, <1>2, <1>5, <1>6, AnswersWhole

LEMMA CreateDirWhole ==
    ASSUME TreeInv, KeepInv, CreateDirName \/ CreateDirMake
    PROVE  Spared
  <1>1. pc \notin Holding /\ Rooted(t) /\ IsPath(SlashesStripped(a))
    BY NoCopyStep, KeepIs, StrippedIs
  <1>2. CASE CreateDirName
    <2>1. PICK e : e = NewDirectoryName(t, a)
      OBVIOUS
    <2>2. Goto("mkdir.make", t, h) \/ Leave(e, t)
      BY <1>2, <2>1 DEF CreateDirName
    <2> QED  BY <1>1, <2>2, LeftWhole, PlainWhole DEF Plain
  <1>3. CASE CreateDirMake
    <2>1. PICK r : r = Mkdir(t, Confined, SlashesStripped(a), {"owner", "others"})
      OBVIOUS
    <2>2. Grows(t, r.t)
      BY <1>1, <2>1, KeepIs, MkdirGrows
    <2>3. Pass(r)
      BY <1>3, <2>1 DEF CreateDirMake
    <2> QED  BY <2>2, <2>3, GrownWhole
  <1> QED  BY <1>2, <1>3

LEMMA CreateDirAllWhole ==
    ASSUME TreeInv, KeepInv,
           CreateDirAllThere \/ CreateDirAllName \/ CreateDirAllMake \/ CreateDirAllTaken
    PROVE  Spared
  <1>1. pc \notin Holding /\ pc \notin CopySteps /\ Rooted(t)
    BY NoCopyStep, KeepIs
  <1>2. PICK x, e, l, hh : /\ x = t \/ x = Mkdir(t, Confined, h.link, {"owner", "others"}).t
                           /\ l \in AllSteps /\ Linked(hh)
                           /\ Leave(e, x) \/ Goto(l, x, hh)
    BY FineIs, MakesAre
  <1>3. Shape(x) /\ Filled(x) /\ Turns(t, x)
    <2>1. PICK r : r = Mkdir(t, Confined, h.link, {"owner", "others"})
      OBVIOUS
    <2>2. IsPath(h.link)
      BY FineIs DEF IsHandles
    <2>3. Grows(t, r.t)
      BY <1>1, <2>1, <2>2, KeepIs, MkdirGrows
    <2>4. Acts(t, r)
      BY <2>1, <2>2, FineIs, MkdirActs
    <2> QED  BY <1>2, <2>1, <2>3, <2>4, KeepIs, TurnsSame, RootedIsFilled DEF Grows, Acts
  <1>4. CASE Leave(e, x)
    BY <1>1, <1>3, <1>4, LeaveWhole
  <1>5. CASE Goto(l, x, hh)
    <2>1. Open(hh) = Open(h) /\ Open(hh) \in SUBSET Ino
      BY <1>2, KeepIs DEF Linked
    <2>2. \A j \in Open(h) : ~IsDir(t, j) /\ t[j] # Free
      BY <1>1, KeepIs, FineIs DEF Shut, OpenIn
    <2>3. \A j \in Open(h) : ~IsDir(x, j)
      BY <1>3, <2>1, <2>2 DEF Turns, Still, IsDir, Kind
    <2>4. Shut(l, x, hh)
      BY <2>1, <2>3 DEF Shut
    <2>5. Of(l, call.op, hh, Made(x)) /\ l # "copy_file.remove"
      BY <1>2 DEF AllSteps, Of, DirSteps, FileSteps
    <2> QED  BY <1>1, <1>3, <1>5, <2>1, <2>4, <2>5, GotoWhole
  <1> QED  BY <1>2, <1>4, <1>5

LEMMA RemoveWhole ==
    ASSUME TreeInv, KeepInv,
           RemoveDirName \/ RemoveDirRemove \/ UnlinkAt \/ RemoveDirAllName \/ RemoveTreeLast
    PROVE  Spared
  <1>1. IsPath(SlashesStripped(a)) /\ pc \notin CopySteps
    BY NoCopyStep, KeepIs, StrippedIs
  <1>2. CASE RemoveDirName \/ RemoveDirAllName
    <2>1. PICK e : e = ExistingDirectoryName(t, a)
      OBVIOUS
    <2>2. \/ Goto("rmdir.remove", t, h) \/ Goto("rmtree.open", t, h)
          \/ Leave(e, t) \/ Leave("Unsupported", t)
      BY <1>2, <2>1 DEF RemoveDirName, RemoveDirAllName
    <2>3. pc \notin Holding
      BY <1>2, NoCopyStep
    <2> QED  BY <2>2, <2>3, LeftWhole, PlainWhole DEF Plain
  <1>3. CASE RemoveDirRemove \/ RemoveTreeLast
    <2>1. PICK r : r = Rmdir(t, Confined, SlashesStripped(a))
      OBVIOUS
    <2>2. Shape(r.t) /\ Filled(r.t)
      BY <1>1, <2>1, KeepIs, RmdirLoses DEF Loses
    <2>3. Pass(r)
      BY <1>3, <2>1 DEF RemoveDirRemove, RemoveTreeLast
    <2> QED  BY <1>1, <2>2, <2>3, PassWhole
  <1>4. CASE UnlinkAt
    <2>1. PICK r : r = Unlink(t, Confined, a)
      OBVIOUS
    <2>2. Shape(r.t) /\ Filled(r.t)
      BY <1>1, <2>1, KeepIs, UnlinkLoses DEF Loses
    <2>3. Pass(r)
      BY <1>4, <2>1 DEF UnlinkAt
    <2> QED  BY <1>1, <2>2, <2>3, PassWhole
  <1> QED  BY <1>2, <1>3, <1>4

LEMMA RemoveTreeOpenWhole ==
    ASSUME TreeInv, KeepInv, RemoveTreeOpen
    PROVE  Spared
  <1>1. PICK p, l, e, r : /\ p = SlashesStripped(a) /\ l = Named(t, Confined, p)
                          /\ e = ErrorOf(l) /\ r = Unlink(t, Confined, p)
    OBVIOUS
  <1>2. IsPath(p) /\ pc \notin CopySteps
    BY <1>1, KeepIs, StrippedIs, NoCopyStep
  <1>3. Sees(t, l) /\ Shape(r.t) /\ Filled(r.t)
    BY <1>1, <1>2, KeepIs, NamedSees, UnlinkLoses DEF Loses
  <1>4. \/ Leave(e, t) \/ Leave("NotADirectory", t) \/ Pass(r)
        \/ Goto("rmtree.empty", t, [h EXCEPT !.src = l.ino])
    BY <1>1 DEF RemoveTreeOpen
  <1>5. ASSUME Goto("rmtree.empty", t, [h EXCEPT !.src = l.ino])  PROVE Spared
    <2>1. PICK i, hh, k : i = l.ino /\ hh = [h EXCEPT !.src = i] /\ k = "rmtree.empty"
      OBVIOUS
    <2>2. i \in Ino /\ IsHandles(h)
      BY <1>3, <2>1, FineIs DEF Sees
    <2>3. \A x : x = [h EXCEPT !.src = i] => Open(x) \subseteq Open(h) \cup ({i} \ {NoIno})
      BY <2>2, HeldIs
    <2>4. Open(hh) \subseteq Open(h) \cup ({i} \ {NoIno})
      BY <2>1, <2>3, Zenon
    <2>5. Open(hh) \in SUBSET Ino
      BY <2>2, <2>4, KeepIs
    <2>6. Shut(k, t, hh) /\ Of(k, call.op, hh, Made(t)) /\ k # "copy_file.remove"
      BY <2>1 DEF Shut, Holding, Of, DirSteps, FileSteps
    <2>7. Goto(k, t, hh)
      BY <1>5, <2>1
    <2> QED  BY <1>2, <2>5, <2>6, <2>7, KeepIs, GotoWhole
  <1> QED  BY <1>2, <1>3, <1>4, <1>5, LeftWhole, PassWhole

LEMMA RemoveTreeFailsWhole ==
    ASSUME TreeInv, KeepInv, RemoveTreeFails
    PROVE  Spared
  <1>1. PICK e, S, f : e = "PermissionDenied" /\ S = {} /\ f = TRUE
    OBVIOUS
  <1>2. AnswersAt(e, t, S, f)
    BY <1>1 DEF RemoveTreeFails, Answers
  <1>3. pc \notin CopySteps
    BY NoCopyStep
  <1> QED  BY <1>2, <1>3, KeepIs, AnswersWhole

LEMMA RemoveTreeEntryWhole ==
    ASSUME TreeInv, KeepInv, RemoveTreeEntry
    PROVE  Spared
  <1>1. PICK d, n : /\ d \in Below(t, h.src) /\ IsDir(t, d) /\ n \in DOMAIN Ents(t, d)
                    /\ Children(t, Ents(t, d)[n]) = {}
                    /\ Goto("rmtree.empty", Detach(t, d, n), h)
    BY DEF RemoveTreeEntry
  <1>2. h.src # NoIno /\ IsDir(t, h.src)
    BY FineIs DEF KindsIn, KindsAt, RemoveTreeEntry
  <1>3. h.src \in Ino
    BY <1>2, FineIs DEF OpenIn, Open
  <1>4. d \in Ino
    BY <1>1, <1>3, FineIs, BelowIs
  <1>5. PICK t1, j, k : t1 = Detach(t, d, n) /\ j = Ents(t, d)[n] /\ k = "rmtree.empty"
    OBVIOUS
  <1>6. Has(t, d, n, j) /\ \A m, i : ~Has(t, j, m, i)
    <2>1. ASSUME NEW m, NEW i, Has(t, j, m, i)  PROVE FALSE
      <3>1. i \in Children(t, j)
        BY <2>1 DEF Has, Children, Range
      <3> QED  BY <1>1, <1>5, <3>1
    <2> QED  BY <1>1, <1>4, <1>5, <2>1 DEF Has
  <1>7. Shape(t1) /\ Filled(t1)
    BY <1>5, <1>6, KeepIs, DetachLoses DEF Loses
  <1>8. pc \notin CopySteps
    BY NoCopyStep
  <1>9. Shut(k, t1, h) /\ Of(k, call.op, h, Made(t1)) /\ k # "copy_file.remove"
    BY <1>5 DEF Shut, Holding, Of, DirSteps, FileSteps
  <1>10. Goto(k, t1, h)
    BY <1>1, <1>5
  <1> QED  BY <1>7, <1>8, <1>9, <1>10, KeepIs, GotoWhole

LEMMA MoveWhole ==
    ASSUME TreeInv, KeepInv, RenameAt \/ LinkAt \/ StayKind \/ StayAim \/ Move
    PROVE  Spared
  <1>1. pc \notin Holding /\ pc \notin CopySteps /\ Rooted(t)
    BY NoCopyStep, KeepIs
  <1>2. CASE RenameAt \/ LinkAt \/ StayKind \/ StayAim
    <2>1. PICK e : e = RenamedSource(t, a, b)
      OBVIOUS
    <2>2. \/ \E l \in {"stay.kind", "stay.read", "move"} : Goto(l, t, h)
          \/ Leave(e, t) \/ Leave("NotADirectory", t) \/ Leave("PermissionDenied", t)
      BY <1>2, <2>1 DEF RenameAt, LinkAt, StayKind, StayAim, MoveNow
    <2> QED  BY <1>1, <2>2, LeftWhole, PlainWhole DEF Plain
  <1>3. CASE Move
    <2>1. PICK r, s : r = Rename(t, Confined, a, b) /\ s = HardLink(t, Confined, a, b)
      OBVIOUS
    <2>2. Shape(r.t) /\ Filled(r.t) /\ Grows(t, s.t)
      BY <1>1, <2>1, KeepIs, RenameKeeps, HardLinkGrows
    <2>3. Pass(r) \/ Pass(s)
      BY <1>3, <2>1 DEF Move
    <2> QED  BY <1>1, <2>2, <2>3, PassWhole, GrownWhole
  <1> QED  BY <1>2, <1>3

LEMMA StayReadWhole ==
    ASSUME TreeInv, KeepInv, StayRead
    PROVE  Spared
  <1>1. PICK r : r = ReadLink(t, TRUE, a)
    OBVIOUS
  <1>2. Reads(t, r) /\ pc \notin Holding /\ pc \notin CopySteps
    <2>1. PICK bn : bn = TRUE
      OBVIOUS
    <2>2. Reads(t, ReadLink(t, bn, a))
      BY FineIs, ReadLinkReads
    <2> QED  BY <1>1, <2>1, <2>2, NoCopyStep, Zenon
  <1>3. \/ Pass(r)
        \/ Goto("move", t, h)
        \/ Goto("stay.aim", t, [h EXCEPT !.link = t[r.ino].to])
    BY <1>1 DEF StayRead
  <1>4. ASSUME Goto("stay.aim", t, [h EXCEPT !.link = t[r.ino].to])  PROVE Spared
    <2>1. PICK k, hh, l : k = t[r.ino].to /\ hh = [h EXCEPT !.link = k] /\ l = "stay.aim"
      OBVIOUS
    <2>2. h = Handles(h.src, h.dst, h.mode, h.link, h.err)
      BY FineIs DEF IsHandles
    <2>3. hh = Handles(h.src, h.dst, h.mode, k, h.err)
      BY <2>1, <2>2 DEF Handles
    <2>4. hh.src = h.src /\ hh.dst = h.dst
      BY <2>3 DEF Handles
    <2>5. Open(hh) = Open(h)
      BY <2>4 DEF Open
    <2>6. Shut(l, t, hh)
      BY <1>2, <2>5, KeepIs DEF Shut
    <2>7. Of(l, call.op, hh, Made(t)) /\ l # "copy_file.remove" /\ Goto(l, t, hh)
      BY <1>4, <2>1 DEF Of, DirSteps, FileSteps
    <2> QED  BY <1>2, <2>5, <2>6, <2>7, KeepIs, GotoWhole
  <1> QED  BY <1>2, <1>3, <1>4, ReadWhole, PlainWhole DEF Plain

LEMMA SymlinkWhole ==
    ASSUME TreeInv, KeepInv, SymlinkCheck \/ SymlinkMake
    PROVE  Spared
  <1>1. pc \notin Holding /\ Rooted(t)
    BY NoCopyStep, KeepIs
  <1>2. CASE SymlinkCheck
    <2>1. PICK e, x : e = RefuseDirectoryName(t, a) /\ x = TargetInside(t, a, b)
      OBVIOUS
    <2>2. Leave("NotFound", t) \/ Leave(e, t) \/ Leave(x, t) \/ Goto("symlink.make", t, h)
      BY <1>2, <2>1 DEF SymlinkCheck
    <2> QED  BY <1>1, <2>2, LeftWhole, PlainWhole DEF Plain
  <1>3. CASE SymlinkMake
    <2>1. PICK r : r = Symlink(t, Confined, b, a)
      OBVIOUS
    <2>2. Grows(t, r.t)
      BY <1>1, <2>1, KeepIs, SymlinkGrows
    <2>3. Pass(r)
      BY <1>3, <2>1 DEF SymlinkMake
    <2> QED  BY <2>2, <2>3, GrownWhole
  <1> QED  BY <1>2, <1>3

-----------------------------------------------------------------------------
(* The copies.                                                             *)

(* A step that fails: the tree has the names and nodes it had.             *)
LEMMA FailsWhole ==
    ASSUME TreeInv, KeepInv, NEW l, pc' = l, Open(h') = Open(h), Injected, call' = call,
           NEW t2, t2 = t', SameNames(t, t2),
           \A i \in Ino : t2[i].kind = t[i].kind /\ (t2[i] = Free <=> t[i] = Free),
           Of(l, call.op, h', w.made), l # "copy_file.remove",
           l \in Holding \/ \A i \in Open(h) : ~IsDir(t, i)
    PROVE  Spared
  <1>1. w'.made = w.made
    <2>1. PICK f : f = TRUE
      OBVIOUS
    <2>2. PICK x : x = w'
      OBVIOUS
    <2>3. x = [w EXCEPT !.moved = FALSE, !.injected = f]
      BY <2>1, <2>2 DEF Injected
    <2>4. IsHistory(w)
      BY FineIs
    <2>5. \A y : y = [w EXCEPT !.moved = FALSE, !.injected = f] => y.made = w.made
      BY <2>4, HistoryIs
    <2>6. x.made = w.made
      BY <2>3, <2>5, Zenon
    <2> QED  BY <2>2, <2>6
  <1>2. Filled(t2)
    BY KeepIs, SameKeeps
  <1>3. Reaped(t2, Open(h))
    BY KeepIs DEF Reaped, SameNames, Anchored
  <1>4. Shut(l, t2, h')
    BY KeepIs DEF Shut, IsDir, Kind
  <1>5. KeepInv'
    BY <1>1, <1>2, <1>3, <1>4 DEF KeepInv, Whole
  <1>6. Spares
    BY DEF Spares, SameNames
  <1> QED  BY <1>5, <1>6 DEF Spared

LEMMA CopyFileOpenWhole ==
    ASSUME TreeInv, KeepInv, CopyFileOpen
    PROVE  Spared
  <1>1. PICK e, r : e = RefuseDirectoryName(t, b) /\ r = OpenRead(t, Confined, a, TRUE)
    OBVIOUS
  <1>2. Reads(t, r) /\ pc \notin Holding /\ pc \notin CopySteps
    BY <1>1, FineIs, OpenReads, NoCopyStep
  <1>3. PICK m : m = CopyMode(t[r.ino].mode)
    OBVIOUS
  <1>4. \/ Leave(e, t) \/ Pass(r) \/ Leave("IsADirectory", t) \/ Leave("InvalidInput", t)
        \/ /\ r.err = "ok" /\ Kind(t, r.ino) = "file"
           /\ Goto("copy_file.make", t, [h EXCEPT !.src = r.ino, !.mode = m])
    BY <1>1, <1>3 DEF CopyFileOpen
  <1>5. ASSUME r.err = "ok", Kind(t, r.ino) = "file",
               Goto("copy_file.make", t, [h EXCEPT !.src = r.ino, !.mode = m])
        PROVE  Spared
    <2>1. PICK i, hh, l : /\ i = r.ino /\ hh = [h EXCEPT !.src = i, !.mode = m]
                          /\ l = "copy_file.make"
      OBVIOUS
    <2>2. h = Handles(h.src, h.dst, h.mode, h.link, h.err)
      BY FineIs DEF IsHandles
    <2>3. hh = Handles(i, h.dst, m, h.link, h.err)
      BY <2>1, <2>2 DEF Handles
    <2>4. hh.src = i /\ hh.dst = h.dst
      BY <2>3 DEF Handles
    <2>5. Open(hh) \subseteq Open(h) \cup {i}
      BY <2>4 DEF Open
    <2>6. i \in Ino /\ ~IsDir(t, i)
      BY <1>2, <1>5, <2>1 DEF Reads, Acts, IsDir
    <2>7. Open(hh) \in SUBSET Ino /\ Shut(l, t, hh)
      BY <1>2, <2>5, <2>6, KeepIs DEF Shut
    <2>8. Of(l, call.op, hh, Made(t)) /\ l # "copy_file.remove" /\ Goto(l, t, hh)
      BY <1>5, <2>1 DEF Of, DirSteps, FileSteps
    <2> QED  BY <1>2, <2>7, <2>8, KeepIs, GotoWhole
  <1> QED  BY <1>2, <1>4, <1>5, LeftWhole, ReadWhole

(* The inode of what is made was free.                                     *)
LEMMA MadeNew ==
    ASSUME NEW t0, Shape(t0), NEW p, IsPath(p), NEW mode, NEW bn,
           NEW r, r = CreateNew(t0, bn, p, mode), r.err = "ok"
    PROVE  t0[r.ino] = Free
  <1> DEFINE l == Named(t0, bn, p)
             x == FileNode("empty", mode \ Umask)
  <1>1. Sees(t0, l) /\ l.is # "ok"
    BY NamedSees DEF Sees, Outcomes
  <1>2. (\E e : e # "ok" /\ r = Fail(e, t0)) \/ r = MakeAt(t0, l, x)
    <2>1. r \in {Fail("InvalidInput", t0), Fail("NotFound", t0), Fail("IsADirectory", t0),
                 Fail("AlreadyExists", t0), MakeAt(t0, l, x), Fail(l.is, t0)}
      BY Zenon DEF CreateNew
    <2> HIDE DEF l, x
    <2> QED  BY <1>1, <2>1
  <1> HIDE DEF l, x
  <1>3. \A e : Fail(e, t0).err = e
    BY DEF Fail, Ans
  <1>4. r = MakeAt(t0, l, x)
    BY <1>2, <1>3
  <1>5. FreeInos(t0) # {} /\ r = Ans("ok", Create(t0, l.dir, l.name, x), Fresh(t0))
    BY <1>3, <1>4 DEF MakeAt
  <1>6. r.ino = Fresh(t0)
    BY <1>5 DEF Ans
  <1> QED  BY <1>5, <1>6, FreshIs DEF Shape

LEMMA CopyFileMakeWhole ==
    ASSUME TreeInv, KeepInv, CopyFileMake
    PROVE  Spared
  <1>1. PICK m, r : m = h.mode /\ r = CreateNew(t, Confined, b, m)
    OBVIOUS
  <1>2. PICK x : x = FileNode("empty", m \ Umask)
    OBVIOUS
  <1>3. Acts(t, r) /\ Only(t, r, x)
    <2>1. Shape(t) /\ IsPath(b)
      BY FineIs
    <2>2. LET q == CreateNew(t, Confined, b, m)
          IN  Acts(t, q) /\ Only(t, q, FileNode("empty", m \ Umask))
      BY <2>1, CreateNewActs
    <2> QED  BY <1>1, <1>2, <2>2, Zenon
  <1>4. x.kind = "file"
    BY <1>2 DEF FileNode
  <1>5. pc = "copy_file.make" /\ pc \notin Holding /\ Rooted(t)
    BY KeepIs DEF CopyFileMake, Holding
  <1>6. Grows(t, r.t)
    BY <1>1, <1>5, KeepIs, CreateNewGrows
  <1>7. PICK e, l : /\ e = IF Confined /\ r.err = "IsADirectory" THEN "AlreadyExists" ELSE r.err
                    /\ l = "copy_file.data"
    OBVIOUS
  <1>8. \/ r.err = "ok" /\ Goto(l, r.t, [h EXCEPT !.dst = r.ino])
        \/ Leave(e, t)
    BY <1>1, <1>7 DEF CopyFileMake
  <1>9. ASSUME r.err = "ok"  PROVE ~IsDir(r.t, r.ino) /\ r.ino \in Made(r.t)
    <2>1. r.t[r.ino] = x /\ r.ino \in Ino /\ r.t[r.ino] # Free
      BY <1>3, <1>9 DEF Acts, Only
    <2>2. t[r.ino] = Free
      BY <1>1, <1>9, FineIs, MadeNew
    <2>3. IsTree(t) /\ IsTree(r.t)
      BY <1>3, FineIs DEF Acts, Turns, Shape
    <2>4. r.ino \in FreeInos(t) /\ r.ino \notin FreeInos(r.t)
      BY <2>1, <2>2, <2>3, FreeIs
    <2> QED  BY <1>4, <2>1, <2>4 DEF Made, IsDir, Kind
  <1> QED  BY <1>3, <1>5, <1>6, <1>7, <1>8, <1>9, LeftWhole, MadeWhole

LEMMA CopyFileDataWhole ==
    ASSUME TreeInv, KeepInv, CopyFileData
    PROVE  Spared
  <1>1. h.dst # NoIno /\ Kind(t, h.dst) = "file" /\ pc = "copy_file.data" /\ h.dst \in w.made
    BY FineIs, KeepIs DEF KindsIn, KindsAt, Of, FileSteps, CopyFileData
  <1>2. h.dst \in Ino
    BY <1>1, FineIs DEF OpenIn, Open
  <1>3. PICK d, t1, t2 : /\ d = t[h.src].data
                         /\ t1 = SetData(t, h.dst, d) /\ t2 = SetData(t, h.dst, "part")
    OBVIOUS
  <1>4. \A u \in {t1, t2} :
           /\ SameNames(t, u) /\ Shape(u)
           /\ \A j \in Ino : u[j].kind = t[j].kind /\ (u[j] = Free <=> t[j] = Free)
    BY <1>1, <1>2, <1>3, FineIs, DataSame, DataTurns
  <1>5. pc \notin Holding /\ \A i \in Open(h) : i \in Ino /\ ~IsDir(t, i)
    BY <1>1, KeepIs DEF Holding, Shut
  <1>6. \/ Goto("copy_file.chmod", t1, h)
        \/ CopyFails /\ t' = t2
    BY <1>3 DEF CopyFileData, SetData
  <1>7. CASE Goto("copy_file.chmod", t1, h)
    <2>1. PICK l : l = "copy_file.chmod"
      OBVIOUS
    <2>2. Filled(t1)
      BY <1>4, KeepIs, SameKeeps
    <2>3. Shut(l, t1, h)
      BY <1>4, <1>5 DEF Shut, IsDir, Kind
    <2>4. Of(l, call.op, h, Made(t1)) /\ l # "copy_file.remove"
      BY <1>1, <2>1 DEF Of, DirSteps, FileSteps, Made
    <2> QED  BY <1>4, <1>7, <2>1, <2>2, <2>3, <2>4, KeepIs, GotoWhole DEF SameNames
  <1>8. CASE CopyFails /\ t' = t2
    <2>1. PICK l : l = "copy_file.same"
      OBVIOUS
    <2>2. pc' = l /\ h' = h /\ call' = call /\ Injected
      BY <1>8, <2>1 DEF CopyFails
    <2>3. Of(l, call.op, h', w.made) /\ l # "copy_file.remove"
      BY <1>1, <2>1, <2>2 DEF Of, DirSteps, FileSteps
    <2> QED  BY <1>4, <1>5, <1>8, <2>2, <2>3, FailsWhole
  <1> QED  BY <1>6, <1>7, <1>8

LEMMA CopyFileChmodWhole ==
    ASSUME TreeInv, KeepInv, CopyFileChmod
    PROVE  Spared
  <1>1. h.dst # NoIno /\ Kind(t, h.dst) = "file" /\ pc = "copy_file.chmod" /\ h.dst \in w.made
    BY FineIs, KeepIs DEF KindsIn, KindsAt, Of, FileSteps, CopyFileChmod
  <1>2. h.dst \in Ino
    BY <1>1, FineIs DEF OpenIn, Open
  <1>3. PICK t1, S, e, f : t1 = SetMode(t, h.dst, h.mode) /\ S = {h.src} /\ e = "ok" /\ f = FALSE
    OBVIOUS
  <1>4. SameNames(t, t1) /\ Shape(t1)
    BY <1>1, <1>2, <1>3, FineIs, ModeSame
  <1>5. \A i \in Open(h) : ~IsDir(t, i)
    BY <1>1, KeepIs DEF Holding, Shut
  <1>6. \/ AnswersAt(e, t1, S, f)
        \/ CopyFails /\ t' = t
    BY <1>3 DEF CopyFileChmod, SetMode, Answers
  <1>7. CASE AnswersAt(e, t1, S, f)
    <2>1. Filled(t1)
      BY <1>4, KeepIs, SameKeeps
    <2> QED  BY <1>4, <1>7, <2>1, AnswersWhole DEF SameNames
  <1>8. CASE CopyFails /\ t' = t
    <2>1. PICK l : l = "copy_file.same"
      OBVIOUS
    <2>2. pc' = l /\ h' = h /\ call' = call /\ Injected
      BY <1>8, <2>1 DEF CopyFails
    <2>3. Of(l, call.op, h', w.made) /\ l # "copy_file.remove"
      BY <1>1, <2>1, <2>2 DEF Of, DirSteps, FileSteps
    <2>4. SameNames(t, t)
      BY DEF SameNames
    <2> QED  BY <1>5, <1>8, <2>2, <2>3, <2>4, FailsWhole
  <1> QED  BY <1>6, <1>7, <1>8

(* What lstat finds at a plain name is what an unlink of it removes.       *)
LEMMA LstatIsNamed ==
    ASSUME NEW t0, Shape(t0), NEW bn, NEW p, IsPath(p), p.tail = "", Lstat(t0, bn, p).err = "ok"
    PROVE  Lstat(t0, bn, p).ino = Named(t0, bn, p).ino
  <1> DEFINE l == Look(t0, bn, p, FALSE)
             r == Lstat(t0, bn, p)
  <1>1. NoTail(p) = p
    <2>1. p = [abs |-> p.abs, comps |-> p.comps, tail |-> p.tail]
      BY Zenon DEF IsPath, Path
    <2>2. PICK e : e = ""
      OBVIOUS
    <2>3. p.tail = e
      BY <2>2, Zenon
    <2>4. [p EXCEPT !.tail = e] = p
      BY <2>1, <2>3
    <2> QED  BY <2>2, <2>4, Zenon DEF NoTail
  <1>2. Named(t0, bn, p) = l
    BY <1>1, Zenon DEF Named
  <1>3. r = Answer(t0, l)
    BY Zenon DEF Lstat
  <1>4. l.is # "ok"
    BY LookSees DEF Sees, Outcomes
  <1> HIDE DEF l, r
  <1>5. r.err = "ok"
    BY DEF r
  <1>6. ErrorOf(l) # "ok"
    BY <1>4 DEF ErrorOf
  <1>7. r.ino = l.ino
    BY <1>3, <1>5, <1>6 DEF Answer, Fail, Ans
  <1> QED  BY <1>2, <1>7 DEF r

LEMMA CopyFileSameWhole ==
    ASSUME TreeInv, KeepInv, CopyFileSame
    PROVE  Spared
  <1>1. PICK m, l : m = Lstat(t, Confined, b) /\ l = "copy_file.remove"
    OBVIOUS
  <1>2. \/ m.err = "ok" /\ m.ino = h.dst /\ Goto(l, t, h)
        \/ Leave("StorageFull", t)
    BY <1>1 DEF CopyFileSame
  <1>3. pc = "copy_file.same"
    BY DEF CopyFileSame
  <1>4. CASE m.err = "ok" /\ m.ino = h.dst /\ Goto(l, t, h)
    <2>1. t' = t
      BY <1>4, KeepIs, ReapNone DEF Goto
    <2>2. pc' = l /\ h' = h /\ call' = call /\ b' = b /\ host' = host
      BY <1>4 DEF Goto
    <2>3. w'.made = w.made
      <3>1. PICK d, x : d = Made(t) /\ x = w'
        OBVIOUS
      <3>2. x = [w EXCEPT !.moved = FALSE, !.made = d]
        BY <1>4, <3>1 DEF Goto, Made
      <3>3. x.made = d
        BY <3>2, FineIs, HistoryIs, Zenon
      <3> QED  BY <3>1, <3>3 DEF Made
    <2>4. Whole(pc', t', h')
      <3>1. pc \notin Holding
        BY <1>3 DEF Holding
      <3>2. Shut(l, t, h)
        BY <3>1, KeepIs DEF Shut
      <3> QED  BY <2>1, <2>2, <3>2, KeepIs DEF Whole
    <2>5. Of(l, call.op, h, w.made)
      BY <1>1, <1>3, KeepIs DEF Of, FileSteps, DirSteps
    <2>6. Same(t, b, h.dst) /\ Same(t, b, h.dst)'
      BY <1>1, <1>4, <2>1, <2>2, Zenon DEF Same, Confined, Lstat
    <2>7. KeepInv'
      BY <2>2, <2>3, <2>4, <2>5, <2>6 DEF KeepInv
    <2>8. Spares
      BY <2>1 DEF Spares
    <2> QED  BY <2>7, <2>8 DEF Spared
  <1> QED  BY <1>2, <1>4, LeftWhole

LEMMA CopyFileRemoveWhole ==
    ASSUME TreeInv, KeepInv, CopyFileRemove
    PROVE  Spared
  <1>1. PICK r, e : r = Unlink(t, Confined, b) /\ e = "StorageFull"
    OBVIOUS
  <1>2. Leave(e, r.t) /\ pc = "copy_file.remove"
    BY <1>1 DEF CopyFileRemove
  <1>3. /\ Loses(t, r.t, Named(t, Confined, b).ino)
        /\ r.err = "ok" => b.tail = ""
        /\ r.err # "ok" => r.t = t
    BY <1>1, KeepIs, UnlinkLoses
  <1>4. ASSUME ~w.moved, r.err = "ok"  PROVE Named(t, Confined, b).ino \in w.made
    <2>1. b.tail = ""
      BY <1>3, <1>4, Zenon
    <2>2. Same(t, b, h.dst)
      BY <1>2, <1>4 DEF KeepInv
    <2>3. Named(t, Confined, b).ino = h.dst
      BY <2>1, <2>2, KeepIs, LstatIsNamed, Zenon DEF Same
    <2> QED  BY <1>2, <2>3, KeepIs DEF Of, FileSteps
  <1>5. Shape(r.t) /\ Filled(r.t)
    BY <1>3, Zenon DEF Loses
  <1>6. ASSUME ~w.moved, NEW d, NEW n, NEW i, Has(t, d, n, i)  PROVE Has(r.t, d, n, i) \/ i \in w.made
    <2>1. Has(r.t, d, n, i) \/ i = Named(t, Confined, b).ino
      BY <1>3, <1>6, Zenon DEF Loses
    <2>2. r.err # "ok" => r.t = t
      BY <1>3, Zenon
    <2>3. CASE r.err = "ok"
      BY <1>4, <1>6, <2>1, <2>3, Zenon
    <2>4. CASE r.err # "ok"
      BY <1>6, <2>2, <2>4, Zenon
    <2> QED  BY <2>3, <2>4, Zenon
  <1> QED  BY <1>2, <1>5, <1>6, LeaveWhole

(* A directory's copy is no file's.                                        *)
LEMMA DirStepSpares ==
    ASSUME KeepInv, pc \in DirSteps
    PROVE  call.op # "copy_file" /\ \A hh, made : \A l \in DirSteps : Of(l, call.op, hh, made)
  <1>1. call.op = "copy_dir"
    BY DEF KeepInv, Of
  <1> QED  BY <1>1 DEF Of, DirSteps, FileSteps

LEMMA CopyDirStatWhole ==
    ASSUME TreeInv, KeepInv, CopyDirStat
    PROVE  Spared
  <1>1. PICK r : r = MetadataAsNamed(t, a)
    OBVIOUS
  <1>2. Reads(t, r) /\ pc \notin Holding /\ pc \notin CopySteps
    BY <1>1, FineIs, AsNamedReads, NoCopyStep
  <1>3. PICK m, l : m = CopyDirMode(t[r.ino].mode) /\ l = "copy_dir.name"
    OBVIOUS
  <1>4. \/ Pass(r) \/ Leave("NotADirectory", t)
        \/ Goto(l, t, [h EXCEPT !.mode = m])
    BY <1>1, <1>3 DEF CopyDirStat
  <1>5. ASSUME Goto(l, t, [h EXCEPT !.mode = m])  PROVE Spared
    <2>1. PICK hh : hh = [h EXCEPT !.mode = m]
      OBVIOUS
    <2>2. h = Handles(h.src, h.dst, h.mode, h.link, h.err)
      BY FineIs DEF IsHandles
    <2>3. hh = Handles(h.src, h.dst, m, h.link, h.err)
      BY <2>1, <2>2 DEF Handles
    <2>4. hh.src = h.src /\ hh.dst = h.dst
      BY <2>3 DEF Handles
    <2>5. Open(hh) = Open(h)
      BY <2>4 DEF Open
    <2>6. Shut(l, t, hh)
      BY <1>2, <2>5, KeepIs DEF Shut
    <2>7. call.op = "copy_dir"
      BY KeepIs DEF Of, CopyDirStat
    <2>8. Of(l, call.op, hh, Made(t)) /\ l # "copy_file.remove" /\ Goto(l, t, hh)
      BY <1>3, <1>5, <2>1, <2>7 DEF Of, FileSteps
    <2> QED  BY <1>2, <2>5, <2>6, <2>8, KeepIs, GotoWhole
  <1> QED  BY <1>2, <1>4, <1>5, LeftWhole, ReadWhole

LEMMA CopyDirMakeWhole ==
    ASSUME TreeInv, KeepInv, CopyDirName \/ CopyDirMake
    PROVE  Spared
  <1>1. pc \in DirSteps /\ pc \notin Holding /\ Rooted(t)
    BY KeepIs DEF CopyDirName, CopyDirMake, DirSteps, Holding
  <1>2. \A l \in DirSteps : Of(l, call.op, h, w.made) /\ \A made : Of(l, call.op, h, made)
    BY <1>1, DirStepSpares
  <1>3. CASE CopyDirName
    <2>1. PICK e, l : e = NewDirectoryName(t, b) /\ l = "copy_dir.make"
      OBVIOUS
    <2>2. Goto(l, t, h) \/ Leave(e, t)
      BY <1>3, <2>1 DEF CopyDirName
    <2>3. l \in DirSteps /\ l # "copy_file.remove"
      BY <2>1 DEF DirSteps
    <2> QED  BY <1>1, <1>2, <2>2, <2>3, LeftWhole, OnWhole
  <1>4. CASE CopyDirMake
    <2>1. PICK r, l : /\ r = Mkdir(t, Confined, SlashesStripped(b), {"owner"})
                      /\ l = "copy_dir.open"
      OBVIOUS
    <2>2. Grows(t, r.t)
      BY <1>1, <2>1, KeepIs, StrippedIs, MkdirGrows
    <2>3. Goto(l, r.t, h) \/ Pass(r)
      BY <1>4, <2>1 DEF CopyDirMake
    <2>4. CASE Goto(l, r.t, h)
      <3>1. Acts(t, r)
        BY <2>1, FineIs, StrippedIs, MkdirActs
      <3>2. \A i \in Open(h) : i \in Ino /\ t[i] # Free /\ ~IsDir(t, i)
        BY <1>1, FineIs, KeepIs DEF OpenIn, Shut
      <3>3. Shut(l, r.t, h)
        BY <3>1, <3>2 DEF Shut, Acts, Turns, Still, IsDir, Kind
      <3>4. l \in DirSteps /\ l # "copy_file.remove"
        BY <2>1 DEF DirSteps
      <3>5. PICK t1 : t1 = r.t
        OBVIOUS
      <3>6. Of(l, call.op, h, Made(t1))
        BY <1>2, <3>4
      <3>7. Shape(t1) /\ Filled(t1) /\ \A d, n, i : Has(t, d, n, i) => Has(t1, d, n, i)
        BY <2>2, <3>5, RootedIsFilled DEF Grows
      <3> QED  BY <2>4, <3>3, <3>4, <3>5, <3>6, <3>7, KeepIs, GotoWhole
    <2> QED  BY <2>2, <2>3, <2>4, GrownWhole
  <1> QED  BY <1>3, <1>4

LEMMA CopyDirOpenWhole ==
    ASSUME TreeInv, KeepInv, CopyDirOpen
    PROVE  Spared
  <1>1. PICK r : r = OpenDir(t, Confined, SlashesStripped(b), FALSE)
    OBVIOUS
  <1>2. Acts(t, r)
    <2>1. PICK p, f, bn : p = SlashesStripped(b) /\ f = FALSE /\ bn = Confined
      OBVIOUS
    <2>2. IsPath(p) /\ Shape(t)
      BY <2>1, FineIs, StrippedIs
    <2>3. Reads(t, OpenDir(t, bn, p, f))
      BY <2>2, OpenReads
    <2>4. r = OpenDir(t, bn, p, f)
      BY <1>1, <2>1
    <2> QED  BY <2>3, <2>4 DEF Reads
  <1>3. PICK i, e, hh, gg : /\ i = r.ino /\ hh = [h EXCEPT !.dst = i]
                            /\ e = r.err /\ gg = [h EXCEPT !.err = e]
    OBVIOUS
  <1>4. h = Handles(h.src, h.dst, h.mode, h.link, h.err)
    BY FineIs DEF IsHandles
  <1>5. /\ hh = Handles(h.src, i, h.mode, h.link, h.err)
        /\ gg = Handles(h.src, h.dst, h.mode, h.link, e)
    BY <1>3, <1>4 DEF Handles
  <1>6. hh.src = h.src /\ hh.dst = i /\ gg.src = h.src /\ gg.dst = h.dst
    BY <1>5 DEF Handles
  <1>7. Open(hh) \subseteq Open(h) \cup {i} /\ Open(gg) = Open(h)
    BY <1>6 DEF Open
  <1>8. pc \in DirSteps
    BY DEF CopyDirOpen, DirSteps
  <1>9. \/ r.err = "ok" /\ Goto("copy_dir.chmod", t, hh)
        \/ Goto("copy_dir.remove", t, gg)
    BY <1>1, <1>3 DEF CopyDirOpen
  <1>10. ASSUME NEW l \in {"copy_dir.chmod", "copy_dir.remove"}, NEW x, Goto(l, t, x),
                Open(x) \in SUBSET Ino
         PROVE  Spared
    <2>1. l \in DirSteps /\ l \in Holding /\ l # "copy_file.remove"
      BY DEF DirSteps, Holding
    <2>2. Shut(l, t, x) /\ Of(l, call.op, x, Made(t))
      BY <1>8, <2>1, DirStepSpares DEF Shut
    <2> QED  BY <1>10, <2>1, <2>2, KeepIs, GotoWhole
  <1>11. Open(gg) \in SUBSET Ino /\ (r.err = "ok" => Open(hh) \in SUBSET Ino)
    BY <1>2, <1>3, <1>7, KeepIs DEF Acts
  <1> QED  BY <1>9, <1>10, <1>11

LEMMA CopyDirChmodWhole ==
    ASSUME TreeInv, KeepInv, CopyDirChmod
    PROVE  Spared
  <1>1. h.dst # NoIno /\ IsDir(t, h.dst) /\ pc \in DirSteps
    BY FineIs DEF KindsIn, KindsAt, DirSteps, CopyDirChmod
  <1>2. h.dst \in Ino
    BY <1>1, FineIs DEF OpenIn, Open
  <1>3. PICK t1, gg, l : /\ t1 = SetMode(t, h.dst, h.mode) /\ gg = [h EXCEPT !.err = "StorageFull"]
                         /\ l = "copy_dir.remove"
    OBVIOUS
  <1>4. SameNames(t, t1) /\ Shape(t1) /\ Filled(t1)
    BY <1>1, <1>2, <1>3, KeepIs, ModeSame, SameKeeps DEF IsDir
  <1>5. \/ Leave("ok", t1)
        \/ pc' = l /\ h' = gg /\ Injected /\ t' = t /\ call' = call
    BY <1>3 DEF CopyDirChmod, SetMode
  <1>6. CASE pc' = l /\ h' = gg /\ Injected /\ t' = t /\ call' = call
    <2>1. h = Handles(h.src, h.dst, h.mode, h.link, h.err)
      BY FineIs DEF IsHandles
    <2>2. gg = Handles(h.src, h.dst, h.mode, h.link, "StorageFull")
      BY <1>3, <2>1 DEF Handles
    <2>3. gg.src = h.src /\ gg.dst = h.dst
      BY <2>2 DEF Handles
    <2>4. Open(h') = Open(h)
      BY <1>6, <2>3 DEF Open
    <2>5. l \in DirSteps /\ l \in Holding /\ l # "copy_file.remove"
      BY <1>3 DEF DirSteps, Holding
    <2>6. Of(l, call.op, h', w.made)
      BY <1>1, <2>5, DirStepSpares
    <2>7. SameNames(t, t)
      BY DEF SameNames
    <2> QED  BY <1>6, <2>4, <2>5, <2>6, <2>7, FailsWhole
  <1> QED  BY <1>4, <1>5, <1>6, LeaveWhole DEF SameNames

LEMMA CopyDirRemoveWhole ==
    ASSUME TreeInv, KeepInv, CopyDirRemove
    PROVE  Spared
  <1>1. PICK e, r : e = h.err /\ r = Rmdir(t, Confined, SlashesStripped(b))
    OBVIOUS
  <1>2. Shape(r.t) /\ Filled(r.t)
    BY <1>1, KeepIs, StrippedIs, RmdirLoses DEF Loses
  <1>3. Leave(e, r.t) /\ pc \in DirSteps
    BY <1>1 DEF CopyDirRemove, DirSteps
  <1> QED  BY <1>2, <1>3, DirStepSpares, LeaveWhole

LEMMA BodyWhole ==
    ASSUME TreeInv, KeepInv, Body
    PROVE  Spared
  BY ReadingWhole, OpenDirWhole, WriteWhole, PutWhole, CreateDirWhole, RemoveWhole,
     RemoveTreeOpenWhole, RemoveTreeFailsWhole, RemoveTreeEntryWhole, CreateDirAllWhole,
     MoveWhole, StayReadWhole, SymlinkWhole,
     CopyFileOpenWhole, CopyFileMakeWhole, CopyFileDataWhole, CopyFileChmodWhole,
     CopyFileSameWhole, CopyFileRemoveWhole, CopyDirStatWhole, CopyDirMakeWhole,
     CopyDirOpenWhole, CopyDirChmodWhole, CopyDirRemoveWhole
  DEF Body

-----------------------------------------------------------------------------
(* The start of a call, and other programs.                                *)

LEMMA StartWhole ==
    ASSUME TreeInv, KeepInv, NEW c \in Scene.calls, Start(c)
    PROVE  Spared
  <1>1. c.op \in Ops
    BY FineIs, SceneIs
  <1>2. t' = t /\ h' = h /\ call' = c /\ pc = "idle" /\ pc' \in {"idle", c.op}
    BY DEF Start
  <1>3. pc' \notin Holding \cup DirSteps \cup FileSteps /\ pc \notin Holding \cup CopySteps
    BY <1>1, <1>2 DEF Ops, Holding, DirSteps, FileSteps, CopySteps
  <1>4. pc' = "copy_dir" => call'.op = "copy_dir"
    BY <1>2
  <1>5. Whole(pc', t', h')
    BY <1>2, <1>3, KeepIs DEF Whole, Shut
  <1>6. Of(pc', call'.op, h', w'.made)
    BY <1>3, <1>4 DEF Of
  <1>7. pc' # "copy_file.remove"
    BY <1>3 DEF FileSteps
  <1> QED  BY <1>3, <1>5, <1>6, <1>7 DEF Spared, KeepInv, Spares

(* What another program did is over before the call's next step.           *)
LEMMA MovedWhole ==
    ASSUME TreeInv, KeepInv, Moved, NEW t2, t2 = t', Filled(t2), Reaped(t2, Open(h)),
           \A i \in Open(h) : t2[i].kind = t[i].kind
    PROVE  KeepInv'
  <1>1. UNCHANGED <<pc, call, h>>
    BY DEF Moved
  <1>2. w'.made = w.made /\ w'.moved
    <2>1. PICK x : x = w'
      OBVIOUS
    <2>2. PICK f, v : f = FALSE /\ v = TRUE
      OBVIOUS
    <2>3. x = [w EXCEPT !.moved = v, !.quiet = f]
      BY <2>1, <2>2 DEF Moved
    <2>4. w = Told(w.before, w.quiet, w.moved, w.injected, w.made)
      BY FineIs DEF IsHistory
    <2>5. x = Told(w.before, f, v, w.injected, w.made)
      BY <2>3, <2>4 DEF Told
    <2>6. x.made = w.made /\ x.moved = v
      BY <2>5 DEF Told
    <2> QED  BY <2>1, <2>2, <2>6, Zenon
  <1>3. Shut(pc, t2, h)
    BY KeepIs DEF Shut, IsDir, Kind
  <1> QED  BY <1>1, <1>2, <1>3, KeepIs DEF KeepInv, Whole

LEMMA ExchangeWhole ==
    ASSUME TreeInv, KeepInv, Exchange
    PROVE  KeepInv'
  <1>1. PICK d, m, n :
           /\ d \in Scene.dirs /\ IsDir(t, d) /\ m \in DOMAIN Ents(t, d) /\ n \in DOMAIN Ents(t, d)
           /\ m # n /\ t' = Attach(Attach(t, d, m, Ents(t, d)[n]), d, n, Ents(t, d)[m])
    BY DEF Exchange
  <1>2. PICK i, j, t1, t2 : /\ i = Ents(t, d)[n] /\ j = Ents(t, d)[m] /\ t1 = Attach(t, d, m, i)
                            /\ t2 = t'
    OBVIOUS
  <1>3. t2 = Attach(t1, d, n, j) /\ Has(t, d, n, i) /\ Has(t, d, m, j)
    BY <1>1, <1>2, FineIs, SceneIs DEF Has
  <1>4. Turns(t, t2) /\ \A k \in Ino : t2[k].mode = t[k].mode /\ (t2[k] = Free <=> t[k] = Free)
    BY <1>1, <1>2, <1>3, FineIs, SwapTurns
  <1>5. IsTree(t) /\ d \in Ino /\ i \in Ino /\ j \in Ino /\ t[i] # Free /\ t[j] # Free /\ t[d] # Free
    BY <1>1, <1>3, KeepIs, HasIs, DirIsNode
  <1>6. /\ IsTree(t1) /\ Still(t, t1)
        /\ \A c, k, x : Has(t1, c, k, x) <=>
              \/ c = d /\ k = m /\ x = i
              \/ Has(t, c, k, x) /\ ~(c = d /\ k = m)
    BY <1>1, <1>2, <1>5, AttachHas
  <1>7. IsDir(t1, d) /\ t1[j] # Free
    BY <1>1, <1>5, <1>6 DEF Still, IsDir, Kind
  <1>8. \A c, k, x : Has(t2, c, k, x) <=>
              \/ c = d /\ k = n /\ x = j
              \/ Has(t1, c, k, x) /\ ~(c = d /\ k = n)
    BY <1>3, <1>5, <1>6, <1>7, AttachHas
  <1>9. \A x : Anchored(t, x) => Anchored(t2, x)
    <2>1. ASSUME NEW x, NEW c, NEW k, Has(t, c, k, x)  PROVE \E y, l : Has(t2, y, l, x)
      <3>1. CASE c = d /\ k = m
        <4>1. x = j
          BY <1>3, <2>1, <3>1 DEF Has
        <4> QED  BY <1>8, <4>1
      <3>2. CASE c = d /\ k = n
        <4>1. x = i
          BY <1>3, <2>1, <3>2 DEF Has
        <4> QED  BY <1>1, <1>6, <1>8, <4>1
      <3>3. CASE ~(c = d /\ k = m) /\ ~(c = d /\ k = n)
        BY <1>6, <1>8, <2>1, <3>3
      <3> QED  BY <3>1, <3>2, <3>3
    <2> QED  BY <2>1 DEF Anchored
  <1>10. Filled(t2)
    <2>1. ASSUME NEW c, NEW k, NEW x, Has(t2, c, k, x)  PROVE Anchored(t, c)
      <3>1. c = d \/ Has(t, c, k, x)
        BY <1>6, <1>8, <2>1
      <3> QED  BY <1>3, <3>1, KeepIs DEF Filled
    <2> QED  BY <1>9, <2>1 DEF Filled
  <1>11. Reaped(t2, Open(h))
    BY <1>4, <1>9, KeepIs DEF Reaped
  <1>12. \A k \in Open(h) : t2[k].kind = t[k].kind
    BY <1>4, FineIs DEF OpenIn, Turns, Still
  <1>13. Moved
    BY DEF Exchange
  <1> QED  BY <1>2, <1>10, <1>11, <1>12, <1>13, MovedWhole

LEMMA ReplaceWhole ==
    ASSUME TreeInv, KeepInv, Replace
    PROVE  KeepInv'
  <1>1. PICK x : x = FileNode("theirs", {"owner"})
    OBVIOUS
  <1>2. PICK d, n : /\ d \in Scene.dirs /\ IsDir(t, d) /\ n \in DOMAIN Ents(t, d)
                    /\ Kind(t, Ents(t, d)[n]) = "file"
                    /\ t' = Reap(Create(t, d, n, x), Open(h))
    BY <1>1 DEF Replace
  <1>3. d \in Ino /\ FreeInos(t) # {} /\ IsNode(t, x) /\ Childless(x)
    BY <1>1, <1>2, FineIs, SceneIs, NodesAre DEF Replace
  <1>4. Has(t, d, n, Ents(t, d)[n]) /\ \A k : Has(t, d, n, k) => ~IsDir(t, k)
    BY <1>2, <1>3 DEF Has, IsDir
  <1>5. Anchored(t, d)
    BY <1>4, KeepIs DEF Filled
  <1>6. PICK t1, t2 : t1 = Create(t, d, n, x) /\ t2 = t'
    OBVIOUS
  <1>7. Shape(t1) /\ Filled(t1)
    BY <1>2, <1>3, <1>4, <1>5, <1>6, KeepIs, CreateKeeps
  <1>8. t2 = Reap(t1, Open(h)) /\ Open(h) \in SUBSET Ino
    BY <1>2, <1>6, KeepIs
  <1>9. Filled(t2) /\ Reaped(t2, Open(h))
    BY <1>7, <1>8, ReapKeeps
  <1>10. Still(t, t1)
    BY <1>2, <1>3, <1>6, KeepIs, CreateTurns DEF Turns
  <1>11. \A k \in Open(h) : t2[k].kind = t[k].kind
    <2>1. \A k \in Open(h) : t2[k] = t1[k]
      BY <1>7, <1>8, ReapTurns
    <2> QED  BY <1>8, <1>10, <2>1, FineIs DEF OpenIn, Still
  <1>12. Moved
    BY DEF Replace
  <1> QED  BY <1>6, <1>9, <1>11, <1>12, MovedWhole

-----------------------------------------------------------------------------
(* The third invariant, and what a copy may remove.                        *)

LEMMA StartsWhole ==
    ASSUME Init
    PROVE  KeepInv
  <1>1. pc = "idle" /\ h = NoHandles /\ TreeInv
    BY StartsShaped DEF Init
  <1>2. Reap(t, {}) = t
    <2>1. host \in Hosts /\ t \in Scene.trees
      BY DEF Init
    <2>2. host.scene \in DOMAIN Scenes
      BY <2>1, FsAssumption
    <2>3. Scene \in Range(Scenes)
      BY <2>2 DEF Scene, Range
    <2> QED  BY <2>1, <2>3, FsAssumption
  <1>3. Filled(t) /\ Reaped(t, {})
    BY <1>1, <1>2, FineIs, ReapedSoFilled
  <1>4. Open(NoHandles) = {}
    BY NoneOpen
  <1>5. Whole("idle", t, NoHandles)
    BY <1>3, <1>4 DEF Whole, Shut
  <1>6. Of("idle", call.op, NoHandles, w.made)
    BY DEF Of, DirSteps, FileSteps
  <1> QED  BY <1>1, <1>5, <1>6 DEF KeepInv

LEMMA StepsWhole ==
    ASSUME TreeInv, KeepInv, [Next]_vars
    PROVE  KeepInv' /\ (moves' = moves => Spares)
  <1>1. CASE Body
    BY <1>1, BodyWhole DEF Spared
  <1>2. CASE \E c \in Scene.calls : Start(c)
    BY <1>2, StartWhole DEF Spared
  <1>3. CASE Others
    <2>1. moves' = moves + 1 /\ moves \in Nat
      BY <1>3, SceneIs DEF Others, Exchange, Replace, Moved, TreeInv
    <2>2. moves' # moves
      BY <2>1
    <2> QED  BY <1>3, <2>2, ExchangeWhole, ReplaceWhole DEF Others
  <1>4. CASE UNCHANGED vars
    BY <1>4 DEF vars, KeepInv, Same, Lstat, Named, Confined, Spares
  <1> QED  BY <1>1, <1>2, <1>3, <1>4 DEF Next

(* Every node there is has a name or is held open, what has entries has a  *)
(* name, and the name a failed copy is about to remove is of the file it   *)
(* made, unless another program moves between the comparison and the       *)
(* removal (copy.rs:81-96).                                                *)
THEOREM TreeStaysWhole == Spec => []KeepInv
  <1>1. Init => KeepInv
    BY StartsWhole
  <1>2. TreeInv /\ KeepInv /\ [Next]_vars => KeepInv'
    BY StepsWhole
  <1> QED  BY <1>1, <1>2, TreeInvariant, PTL DEF Spec

(* A copy replaces no entry and removes none but the one it made, for any  *)
(* tree, names, backend and interference before the comparison             *)
(* (copy.rs:59-71, 81-96).                                                 *)
THEOREM CopiesKeepTheRest == Spec => FileCopyKeepsTheRest
  <1>1. TreeInv /\ KeepInv /\ [Next]_vars =>
           [(AppStep /\ pc \in CopySteps /\ call.op = "copy_file" /\ ~w.moved) =>
               \A e \in Entries(t) \ Entries(t') : e[3] \in w.made]_vars
    <2> SUFFICES ASSUME TreeInv, KeepInv, [Next]_vars,
                        AppStep, pc \in CopySteps, call.op = "copy_file", ~w.moved,
                        NEW e \in Entries(t), e \notin Entries(t')
                 PROVE  e[3] \in w.made
      OBVIOUS
    <2>1. PICK d, n, i : e = <<d, n, i>> /\ Has(t, d, n, i)
      BY DEF Entries, Has
    <2>2. ~Has(t', d, n, i)
      BY <2>1 DEF Entries, Has
    <2>3. i \in w.made
      BY <2>1, <2>2, StepsWhole DEF Spares, AppStep
    <2> QED  BY <2>1, <2>3
  <1> QED  BY <1>1, TreeInvariant, TreeStaysWhole, PTL DEF Spec, FileCopyKeepsTheRest
=============================================================================
