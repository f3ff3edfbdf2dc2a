----------------------------- MODULE FsOutcomes -----------------------------
(***************************************************************************)
(* What a call has done to the tree when it ends, and what it has not if   *)
(* it failed, proved for either host, every tree, call and spelling, when  *)
(* no other program moved meanwhile.                                       *)
(*                                                                         *)
(* A walk that finds something finds the same in a tree that has more      *)
(* names (FoundAgain), and one that lacks only the last name finds what is *)
(* made under it (MadeFound).  So a recursive removal, which takes the     *)
(* names below a directory one by one, takes at last the very name it was  *)
(* given; and what a copy made is what its name leads to when it is done.  *)
(*                                                                         *)
(* The invariant OutInv says what is so of the tree at each step of a call,*)
(* told from the tree the call started in: nothing has changed, or no name *)
(* has gone, or the directory is being emptied, or what is made is under   *)
(* its name.  It claims nothing once another program has moved.            *)
(*                                                                         *)
(* A call that failed has left the tree as it was, for what it made is     *)
(* reached by its name alone (Alone), and taking that name away undoes it  *)
(* (Undo).  The invariant FailInv says at each step what the clearing up   *)
(* that may follow needs, and that nothing which is no longer undone can   *)
(* fail but by a system call that fails by itself.                         *)
(***************************************************************************)
EXTENDS FsProofs

-----------------------------------------------------------------------------
(* One tree has every name of another, for nodes that are what they were.  *)
Alike(x, y) == x.kind = y.kind /\ IF x.kind = "dir" THEN x.mode = y.mode ELSE x = y
Extends(t0, t1) ==
    /\ Entries(t0) \subseteq Entries(t1)
    /\ \A i \in Ino : t0[i] # Free => Alike(t0[i], t1[i])

(* The entries of a tree are its names.                                    *)
LEMMA EntriesAre ==
    ASSUME NEW t0
    PROVE  /\ \A d, n, i : <<d, n, i>> \in Entries(t0) <=> Has(t0, d, n, i)
           /\ \A e \in Entries(t0) : e = <<e[1], e[2], e[3]>> /\ Has(t0, e[1], e[2], e[3])
  <1>1. ASSUME NEW d, NEW n, NEW i, <<d, n, i>> \in Entries(t0)  PROVE Has(t0, d, n, i)
    BY <1>1 DEF Entries, Has
  <1>2. ASSUME NEW d, NEW n, NEW i, Has(t0, d, n, i)  PROVE <<d, n, i>> \in Entries(t0)
    BY <1>2 DEF Entries, Has
  <1>3. ASSUME NEW e \in Entries(t0)  PROVE \E d, n, i : e = <<d, n, i>>
    BY <1>3 DEF Entries
  <1> QED  BY <1>1, <1>2, <1>3

(* What extends a tree has its names, and its links and kinds of node.     *)
LEMMA ExtendsIs ==
    ASSUME NEW t0, NEW t1, Extends(t0, t1)
    PROVE  /\ \A d, n, i : Has(t0, d, n, i) => Has(t1, d, n, i)
           /\ \A i \in Ino : t0[i] # Free =>
                 t1[i].kind = t0[i].kind /\ (t0[i].kind # "dir" => t1[i] = t0[i])
  BY EntriesAre DEF Extends, Alike

(* A tree extends itself.                                                  *)
LEMMA ExtendsSame == \A t0 : Extends(t0, t0)
  BY DEF Extends, Alike

(* What is below a directory, and not it, is in one that is below it.      *)
LEMMA BelowHas ==
    ASSUME NEW t0, IsTree(t0), NEW d \in Ino, NEW x \in Below(t0, d), x # d
    PROVE  \E p \in Below(t0, d) : \E n : Has(t0, p, n, x)
  <1> DEFINE B == Below(t0, d)
             T == {d} \cup UNION {Children(t0, y) : y \in B}
  <1>1. d \in B /\ B \subseteq Ino /\ \A y \in B : Children(t0, y) \subseteq B
    BY BelowIs
  <1>2. T \subseteq B
    BY <1>1
  <1>3. T \in SUBSET Ino /\ d \in T /\ \A y \in T : Children(t0, y) \subseteq T
    BY <1>1, <1>2
  <1>4. B \subseteq T
    <2> HIDE DEF T
    <2> QED  BY <1>3, BelowIs
  <1>5. PICK p \in B : x \in Children(t0, p)
    BY <1>4
  <1> QED  BY <1>1, <1>5, ChildHas

(* A parent in either tree is the same directory.                          *)
LEMMA SameParent ==
    ASSUME NEW t0, Shape(t0), NEW t1, Shape(t1), Extends(t0, t1),
           NEW d \in Ino, NEW x \in Below(t0, d), x # d, IsDir(t0, x)
    PROVE  ParentOf(t0, x) \in Below(t0, d) /\ ParentOf(t1, x) = ParentOf(t0, x)
  <1>1. IsTree(t0) /\ IsTree(t1) /\ Single(t0) /\ Single(t1)
    BY DEF Shape
  <1>2. PICK p, n : p \in Below(t0, d) /\ Has(t0, p, n, x)
    BY <1>1, BelowHas
  <1>3. Has(t1, p, n, x) /\ IsDir(t1, x)
    <2>1. x \in Ino /\ t0[x] # Free
      BY <1>1, <1>2, HasIs
    <2> QED  BY <1>2, <2>1, ExtendsIs DEF IsDir, Kind
  <1>4. ASSUME NEW u, IsTree(u), Single(u), Has(u, p, n, x), IsDir(u, x)  PROVE ParentOf(u, x) = p
    <2>1. p \in Ino /\ x \in Children(u, p)
      BY <1>4, HasIs
    <2>2. ParentOf(u, x) \in Ino /\ x \in Children(u, ParentOf(u, x))
      BY <2>1 DEF ParentOf
    <2>3. PICK m : Has(u, ParentOf(u, x), m, x)
      BY <1>4, <2>2, ChildHas
    <2> QED  BY <1>4, <2>3 DEF Single
  <1> QED  BY <1>1, <1>2, <1>3, <1>4

-----------------------------------------------------------------------------
(* Walks in a tree and in one that extends it.                             *)

(* A place in a walk.                                                      *)
Place(o, x, td, hp, dr, nm) ==
    [out |-> o, at |-> x, todo |-> td, hops |-> hp, dir |-> dr, name |-> nm]

(* Where the walk s is once it has come through the name n of d to j.      *)
Through(t0, s, d, n, j) ==
    Place(IF t0[j].kind = "dir" THEN "go" ELSE "found", j, <<>>, s.hops, d, n)

(* s0, a step of a walk, and s1, the same step of it in a tree with more   *)
(* names: at a place both go on to, at an end both come to, or where the   *)
(* first lacks the last name.                                              *)
Both(t0, base, t1, s, f0, f1, r0, r1) ==
    /\ r0.out = "go" => r1 = r0 /\ r0.at \in Below(t0, base)
    /\ r0.out = "found" /\ (t0[r0.at].kind = "link" => f0 = f1) => r1 = r0
    /\ r0.out = "absent" => \A j : Has(t1, r0.dir, r0.name, j) /\ t1[j].kind # "link" =>
                                       r1 = Through(t1, s, r0.dir, r0.name, j)

(* r, where one name n of a walk leads, which is that of i if it is any.   *)
Leads(t0, s, follow, bn, n, rest, e, i, r) ==
    /\ n \notin DOMAIN e =>
          r = Place(IF rest = <<>> THEN "absent" ELSE "NotFound", s.at, s.todo, s.hops, s.at, n)
    /\ n \in DOMAIN e /\ t0[i].kind = "link" /\ (rest # <<>> \/ follow) =>
          \/ r.out \in {"PermissionDenied", "FilesystemLoop"}
          \/ /\ ~(t0[i].to.abs /\ bn)
             /\ r = Place("go", IF t0[i].to.abs THEN Top ELSE s.at,
                          t0[i].to.comps \o rest, s.hops + 1, s.dir, "")
    /\ n \in DOMAIN e /\ ~(t0[i].kind = "link" /\ (rest # <<>> \/ follow)) =>
          IF t0[i].kind # "dir" /\ rest # <<>> THEN r.out = "NotADirectory"
          ELSE r = Place(IF t0[i].kind = "dir" THEN "go" ELSE "found", i, rest, s.hops, s.at, n)

(* The fields of a place.                                                  *)
LEMMA PlaceIs ==
    ASSUME NEW q, NEW o, NEW x, NEW td, NEW hp, NEW dr, NEW nm, q = Place(o, x, td, hp, dr, nm)
    PROVE  /\ q.out = o /\ q.at = x /\ q.todo = td /\ q.hops = hp /\ q.dir = dr /\ q.name = nm
  BY DEF Place

(* Where one name of a walk leads.                                         *)
LEMMA NameLeads ==
    ASSUME NEW t0, NEW s, IsWalk(t0, s), s.out = "go", NEW follow, NEW bn,
           NEW n, n = Head(s.todo), NEW rest, rest = Tail(s.todo),
           NEW e, e = Ents(t0, s.at), NEW i, i = e[n],
           NEW r, r = WalkName(t0, s, follow, bn)
    PROVE  Leads(t0, s, follow, bn, n, rest, e, i, r)
  <1>1. s = Place("go", s.at, s.todo, s.hops, s.dir, s.name)
    BY DEF IsWalk, Place
  <1>2. r = IF n \notin DOMAIN e
            THEN [s EXCEPT !.out = IF rest = <<>> THEN "absent" ELSE "NotFound", !.dir = s.at, !.name = n]
            ELSE IF t0[i].kind = "link" /\ (~(rest = <<>>) \/ follow)
            THEN IF t0[i].to.abs /\ bn THEN [s EXCEPT !.out = "PermissionDenied"]
                 ELSE IF s.hops = MaxHops THEN [s EXCEPT !.out = "FilesystemLoop"]
                 ELSE [s EXCEPT !.at   = IF t0[i].to.abs THEN Top ELSE s.at,
                                !.todo = t0[i].to.comps \o rest,
                                !.name = "",
                                !.hops = s.hops + 1]
            ELSE IF t0[i].kind # "dir" /\ ~(rest = <<>>)
            THEN [s EXCEPT !.out = "NotADirectory"]
            ELSE [s EXCEPT !.dir = s.at, !.name = n, !.at = i, !.todo = rest,
                           !.out = IF t0[i].kind = "dir" THEN "go" ELSE "found"]
    BY Zenon DEF WalkName
  <1>3. \A o : [s EXCEPT !.out = o].out = o
    BY <1>1 DEF Place
  <1>4. \A o, m : [s EXCEPT !.out = o, !.dir = s.at, !.name = m]
                     = Place(o, s.at, s.todo, s.hops, s.at, m)
    <2> TAKE o, m
    <2>1. PICK q : q = [s EXCEPT !.out = o, !.dir = s.at, !.name = m]
      OBVIOUS
    <2>2. q = Place(o, s.at, s.todo, s.hops, s.at, m)
      BY <1>1, <2>1 DEF Place
    <2> QED  BY <2>1, <2>2
  <1>5. \A x, td, k : [s EXCEPT !.at = x, !.todo = td, !.name = "", !.hops = k]
                     = Place("go", x, td, k, s.dir, "")
    <2> TAKE x, td, k
    <2>1. PICK q : q = [s EXCEPT !.at = x, !.todo = td, !.name = "", !.hops = k]
      OBVIOUS
    <2>2. q = Place("go", x, td, k, s.dir, "")
      BY <1>1, <2>1 DEF Place
    <2> QED  BY <2>1, <2>2
  <1>6. \A o, x : [s EXCEPT !.dir = s.at, !.name = n, !.at = x, !.todo = rest, !.out = o]
                     = Place(o, x, rest, s.hops, s.at, n)
    <2> TAKE o, x
    <2>1. PICK q : q = [s EXCEPT !.dir = s.at, !.name = n, !.at = x, !.todo = rest, !.out = o]
      OBVIOUS
    <2>2. q = Place(o, x, rest, s.hops, s.at, n)
      BY <1>1, <2>1 DEF Place
    <2> QED  BY <2>1, <2>2
  <1>7. CASE n \notin DOMAIN e
    BY <1>2, <1>4, <1>7, Zenon DEF Leads
  <1>8. CASE n \in DOMAIN e /\ t0[i].kind = "link" /\ (rest # <<>> \/ follow)
    <2>1. r = IF t0[i].to.abs /\ bn THEN [s EXCEPT !.out = "PermissionDenied"]
              ELSE IF s.hops = MaxHops THEN [s EXCEPT !.out = "FilesystemLoop"]
              ELSE [s EXCEPT !.at   = IF t0[i].to.abs THEN Top ELSE s.at,
                             !.todo = t0[i].to.comps \o rest,
                             !.name = "",
                             !.hops = s.hops + 1]
      BY <1>2, <1>8, Zenon
    <2>2. CASE t0[i].to.abs /\ bn
      BY <1>3, <1>8, <2>1, <2>2 DEF Leads
    <2>3. CASE ~(t0[i].to.abs /\ bn) /\ s.hops = MaxHops
      BY <1>3, <1>8, <2>1, <2>3 DEF Leads
    <2>4. CASE ~(t0[i].to.abs /\ bn) /\ s.hops # MaxHops
      <3>1. PICK x, td, k : /\ x = (IF t0[i].to.abs THEN Top ELSE s.at)
                            /\ td = t0[i].to.comps \o rest /\ k = s.hops + 1
        OBVIOUS
      <3>2. r = [s EXCEPT !.at = x, !.todo = td, !.name = "", !.hops = k]
        BY <2>1, <2>4, <3>1
      <3>3. r = Place("go", x, td, k, s.dir, "")
        BY <1>5, <3>2
      <3> QED  BY <1>8, <2>4, <3>1, <3>3 DEF Leads
    <2> QED  BY <2>2, <2>3, <2>4
  <1>9. CASE n \in DOMAIN e /\ ~(t0[i].kind = "link" /\ (rest # <<>> \/ follow))
    <2>1. CASE t0[i].kind # "dir" /\ rest # <<>>
      BY <1>2, <1>3, <1>9, <2>1 DEF Leads
    <2>2. CASE ~(t0[i].kind # "dir" /\ rest # <<>>)
      BY <1>2, <1>6, <1>9, <2>2, Zenon DEF Leads
    <2> QED  BY <1>9, <2>1, <2>2
  <1> QED  BY <1>7, <1>8, <1>9

(* One name more, in both trees.                                           *)
LEMMA NameAgain ==
    ASSUME NEW t0, Shape(t0), NEW t1, Shape(t1), Extends(t0, t1), NEW base \in Ino,
           NEW s, IsWalk(t0, s), s.out = "go", s.todo # <<>>, s.at \in Below(t0, base),
           NEW f0 \in BOOLEAN, NEW f1 \in BOOLEAN, f0 => f1, NEW bn, bn \/ base = Top
    PROVE  Both(t0, base, t1, s, f0, f1, WalkName(t0, s, f0, bn), WalkName(t1, s, f1, bn))
  <1>1. IsTree(t0) /\ IsTree(t1) /\ s.at \in Ino /\ IsDir(t0, s.at) /\ Top \in Ino
    BY TreeAssumption DEF IsWalk, Shape
  <1>2. IsDir(t1, s.at) /\ IsWalk(t1, s)
    <2>1. t0[s.at] # Free
      BY <1>1, DirIsNode
    <2>2. IsDir(t1, s.at)
      BY <1>1, <2>1, ExtendsIs DEF IsDir, Kind
    <2> QED  BY <2>2 DEF IsWalk
  <1>3. /\ Top = base => Top \in Below(t0, base)
        /\ \A d \in Below(t0, base) : Children(t0, d) \subseteq Below(t0, base)
    BY <1>1, BelowIs
  <1>4. PICK n, rest : n = Head(s.todo) /\ rest = Tail(s.todo)
    OBVIOUS
  <1>5. PICK e0, e1, i0, i1, r0, r1 :
            /\ e0 = Ents(t0, s.at) /\ i0 = e0[n] /\ r0 = WalkName(t0, s, f0, bn)
            /\ e1 = Ents(t1, s.at) /\ i1 = e1[n] /\ r1 = WalkName(t1, s, f1, bn)
    OBVIOUS
  <1> SUFFICES Both(t0, base, t1, s, f0, f1, r0, r1)
    BY <1>5
  <1>6. Leads(t0, s, f0, bn, n, rest, e0, i0, r0)
    BY <1>4, <1>5, NameLeads
  <1>7. Leads(t1, s, f1, bn, n, rest, e1, i1, r1)
    BY <1>2, <1>4, <1>5, NameLeads
  <1>8. n \in DOMAIN e0 => /\ n \in DOMAIN e1 /\ i1 = i0 /\ i0 \in Children(t0, s.at)
                           /\ t1[i0].kind = t0[i0].kind
                           /\ t0[i0].kind # "dir" => t1[i0] = t0[i0]
    <2> SUFFICES ASSUME n \in DOMAIN e0
                 PROVE  /\ n \in DOMAIN e1 /\ i1 = i0 /\ i0 \in Children(t0, s.at)
                        /\ t1[i0].kind = t0[i0].kind
                        /\ t0[i0].kind # "dir" => t1[i0] = t0[i0]
      OBVIOUS
    <2>1. Has(t0, s.at, n, i0)
      BY <1>1, <1>5 DEF Has
    <2>2. Has(t1, s.at, n, i0) /\ i0 \in Ino /\ t0[i0] # Free /\ i0 \in Children(t0, s.at)
      BY <1>1, <2>1, ExtendsIs, HasIs
    <2>3. n \in DOMAIN e1 /\ i1 = i0
      BY <1>5, <2>2 DEF Has
    <2> QED  BY <2>2, <2>3, ExtendsIs
  <1>9. CASE n \notin DOMAIN e0
    <2>1. r0.out = (IF rest = <<>> THEN "absent" ELSE "NotFound") /\ r0.dir = s.at /\ r0.name = n
      <3>1. r0 = Place(IF rest = <<>> THEN "absent" ELSE "NotFound", s.at, s.todo, s.hops, s.at, n)
        BY <1>6, <1>9 DEF Leads
      <3> QED  BY <3>1, PlaceIs
    <2>2. ASSUME rest = <<>>, NEW j, Has(t1, s.at, n, j), t1[j].kind # "link"
          PROVE  r1 = Through(t1, s, s.at, n, j)
      <3>1. n \in DOMAIN e1 /\ i1 = j
        BY <1>5, <2>2 DEF Has
      <3>2. r1 = Place(IF t1[j].kind = "dir" THEN "go" ELSE "found", j, rest, s.hops, s.at, n)
        BY <1>7, <2>2, <3>1 DEF Leads
      <3> QED  BY <2>2, <3>2 DEF Through
    <2> QED  BY <2>1, <2>2 DEF Both
  <1>10. CASE n \in DOMAIN e0 /\ t0[i0].kind = "link" /\ (rest # <<>> \/ f0)
    <2>1. r1 = r0
      <3>1. /\ n \in DOMAIN Ents(t0, s.at) /\ n \in DOMAIN Ents(t1, s.at)
            /\ Ents(t1, s.at)[n] = Ents(t0, s.at)[n]
            /\ t1[Ents(t0, s.at)[n]] = t0[Ents(t0, s.at)[n]] /\ t0[Ents(t0, s.at)[n]].kind = "link"
            /\ ~(Tail(s.todo) = <<>>) \/ f0
        BY <1>4, <1>5, <1>8, <1>10
      <3>2. (~(Tail(s.todo) = <<>>) \/ f0) /\ (~(Tail(s.todo) = <<>>) \/ f1)
        BY <3>1
      <3>3. WalkName(t1, s, f1, bn) = WalkName(t0, s, f0, bn)
        BY <1>4, <3>1, <3>2 DEF WalkName
      <3> QED  BY <1>5, <3>3
    <2>2. r0.out # "absent" /\ r0.out # "found" /\ (r0.out = "go" => r0.at \in Below(t0, base))
      <3>1. CASE r0.out \in {"PermissionDenied", "FilesystemLoop"}
        BY <3>1
      <3>2. CASE r0.out \notin {"PermissionDenied", "FilesystemLoop"}
        <4>1. /\ ~(t0[i0].to.abs /\ bn) /\ r0.out = "go"
              /\ r0.at = IF t0[i0].to.abs THEN Top ELSE s.at
          <5>1. ~(t0[i0].to.abs /\ bn) /\ r0 = Place("go", IF t0[i0].to.abs THEN Top ELSE s.at,
                                               t0[i0].to.comps \o rest, s.hops + 1, s.dir, "")
            BY <1>6, <1>10, <3>2 DEF Leads
          <5>2. PICK x, td, k : /\ x = (IF t0[i0].to.abs THEN Top ELSE s.at)
                                /\ td = t0[i0].to.comps \o rest /\ k = s.hops + 1
            OBVIOUS
          <5>3. r0 = Place("go", x, td, k, s.dir, "")
            BY <5>1, <5>2
          <5>4. r0.out = "go" /\ r0.at = x
            BY <5>3 DEF Place
          <5> QED  BY <5>1, <5>2, <5>4
        <4> QED  BY <1>3, <4>1
      <3> QED  BY <3>1, <3>2
    <2> QED  BY <2>1, <2>2 DEF Both
  <1>11. CASE n \in DOMAIN e0 /\ ~(t0[i0].kind = "link" /\ (rest # <<>> \/ f0))
    <2>1. CASE t0[i0].kind # "dir" /\ rest # <<>>
      <3>1. r0.out = "NotADirectory"
        BY <1>6, <1>11, <2>1 DEF Leads
      <3> QED  BY <3>1 DEF Both
    <2>2. CASE ~(t0[i0].kind # "dir" /\ rest # <<>>)
      <3>1. r0 = Place(IF t0[i0].kind = "dir" THEN "go" ELSE "found", i0, rest, s.hops, s.at, n)
        BY <1>6, <1>11, <2>2 DEF Leads
      <3>2. r0.out = (IF t0[i0].kind = "dir" THEN "go" ELSE "found") /\ r0.at = i0
        BY <3>1, PlaceIs
      <3>3. i0 \in Below(t0, base)
        BY <1>3, <1>8, <1>11
      <3>4. ASSUME t0[i0].kind = "link" => f0 = f1  PROVE r1 = r0
        BY <1>7, <1>8, <1>11, <2>2, <3>1, <3>4 DEF Leads
      <3> QED  BY <3>2, <3>3, <3>4 DEF Both
    <2> QED  BY <2>1, <2>2
  <1> QED  BY <1>9, <1>10, <1>11

(* One step more, in both trees.                                           *)
LEMMA StepAgain ==
    ASSUME NEW t0, Shape(t0), NEW t1, Shape(t1), Extends(t0, t1), NEW base \in Ino,
           NEW s, IsWalk(t0, s), s.out = "go", s.at \in Below(t0, base),
           NEW f0 \in BOOLEAN, NEW f1 \in BOOLEAN, f0 => f1, NEW bn, bn \/ base = Top
    PROVE  Both(t0, base, t1, s, f0, f1, WalkStep(t0, s, base, f0, bn), WalkStep(t1, s, base, f1, bn))
  <1>1. s = Place("go", s.at, s.todo, s.hops, s.dir, s.name) /\ s.at \in Ino /\ IsDir(t0, s.at)
    BY DEF IsWalk, Place
  <1>2. PICK r0, r1 : /\ r0 = WalkStep(t0, s, base, f0, bn)
                      /\ r1 = WalkStep(t1, s, base, f1, bn)
    OBVIOUS
  <1> SUFFICES Both(t0, base, t1, s, f0, f1, r0, r1)
    BY <1>2
  <1>3. CASE s.todo = <<>>
    <2>1. r0 = [s EXCEPT !.out = "found"] /\ r1 = r0
      BY <1>2, <1>3, Zenon DEF WalkStep
    <2>2. r0.out = "found"
      BY <1>1, <2>1 DEF Place
    <2> QED  BY <2>1, <2>2 DEF Both
  <1>4. CASE s.todo # <<>> /\ Head(s.todo) = ".."
    <2>1. \A u, f : WalkStep(u, s, base, f, bn) =
              IF s.at = base /\ bn THEN [s EXCEPT !.out = "PermissionDenied"]
              ELSE [s EXCEPT !.at   = IF s.at = base THEN s.at ELSE ParentOf(u, s.at),
                             !.todo = Tail(s.todo), !.name = ""]
      BY <1>4, Zenon DEF WalkStep
    <2>2. CASE s.at = base /\ bn
      <3>1. r0 = [s EXCEPT !.out = "PermissionDenied"]
        BY <1>2, <2>1, <2>2, Zenon
      <3>2. r0.out = "PermissionDenied"
        BY <1>1, <3>1 DEF Place
      <3> QED  BY <3>2 DEF Both
    <2>3. CASE ~(s.at = base /\ bn)
      <3>1. PICK x, y : /\ x = IF s.at = base THEN s.at ELSE ParentOf(t0, s.at)
                        /\ y = IF s.at = base THEN s.at ELSE ParentOf(t1, s.at)
        OBVIOUS
      <3>2. x \in Below(t0, base) /\ y = x
        BY <1>1, <3>1, SameParent
      <3>3. /\ r0 = [s EXCEPT !.at = x, !.todo = Tail(s.todo), !.name = ""]
            /\ r1 = [s EXCEPT !.at = y, !.todo = Tail(s.todo), !.name = ""]
        BY <1>2, <2>1, <2>3, <3>1
      <3>4. r0 = Place("go", x, Tail(s.todo), s.hops, s.dir, "")
        BY <1>1, <3>3 DEF Place
      <3>5. r0.out = "go" /\ r0.at = x
        BY <3>4 DEF Place
      <3> QED  BY <3>2, <3>3, <3>5 DEF Both
    <2> QED  BY <2>2, <2>3
  <1>5. CASE s.todo # <<>> /\ Head(s.todo) # ".."
    <2>1. r0 = WalkName(t0, s, f0, bn) /\ r1 = WalkName(t1, s, f1, bn)
      BY <1>2, <1>5, Zenon DEF WalkStep
    <2> QED  BY <1>5, <2>1, NameAgain
  <1> QED  BY <1>3, <1>4, <1>5

(* F, the walk of every state of a walk: its steps, to an end in every set *)
(* that they do not leave.                                                 *)
Walking(t0, base, follow, bn, F) ==
    /\ \A s \in Walks(t0) : F[s] = IF s.out # "go" THEN s ELSE F[WalkStep(t0, s, base, follow, bn)]
    /\ \A d, p : WalkFrom(t0, base, d, p, follow, bn) = F[StartWalk(d, p.comps)]
    /\ \A S \in SUBSET Walks(t0) :
          (\A s \in S : s.out = "go" => WalkStep(t0, s, base, follow, bn) \in S) =>
              \A x \in S : F[x] \in S /\ F[x].out # "go"

(* There is such a function, for every tree and way of walking.            *)
LEMMA WalkLoops ==
    ASSUME NEW t0, Shape(t0), NEW base, NEW follow, NEW bn
    PROVE  \E F : Walking(t0, base, follow, bn, F)
  <1> DEFINE D    == Walks(t0)
             done == {s \in D : s.out # "go"}
             step == [s \in D |-> IF s.out # "go" THEN s ELSE WalkStep(t0, s, base, follow, bn)]
             Is(g) == g = [s \in D |-> IF s.out # "go" THEN s
                                       ELSE g[WalkStep(t0, s, base, follow, bn)]]
             F    == CHOOSE g : Is(g)
             m    == [s \in D |-> Hops(s)]
             n    == [s \in D |-> Left(s)]
  <1>1. \A s \in D \ done : step[s] \in D /\ Onto(t0, s, step[s])
    <2> TAKE s \in D \ done
    <2>1. step[s] = WalkStep(t0, s, base, follow, bn)
      OBVIOUS
    <2>2. Onto(t0, s, step[s])
      BY <2>1, WalkGoes, WalkIs
    <2> QED  BY <2>2, WalkIs DEF Onto
  <1>2. step \in [D -> D]
    BY <1>1
  <1>3. \A g : Loop(g, D, done, step) => Is(g)
    <2> TAKE g
    <2> HAVE Loop(g, D, done, step)
    <2>1. g = [s \in D |-> IF s \in done THEN s ELSE g[step[s]]]
      BY DEF Loop
    <2>2. \A s \in D : g[s] = IF s.out # "go" THEN s ELSE g[WalkStep(t0, s, base, follow, bn)]
      BY <2>1
    <2> QED  BY <2>1, <2>2
  <1>4. Is(F)
    <2>1. \E g : Is(g)
      BY <1>2, <1>3, LoopExists
    <2> QED  BY <2>1
  <1>5. Loop(F, D, done, step)
    <2> HIDE DEF F
    <2>1. \A s \in D : F[s] = IF s \in done THEN s ELSE F[step[s]]
      BY <1>4
    <2> QED  BY <1>4, <2>1 DEF Loop
  <1>6. m \in [D -> Nat] /\ n \in [D -> Nat]
    BY WalkIs, MeasuresAre
  <1>7. \A s \in D \ done : m[step[s]] < m[s] \/ (m[step[s]] = m[s] /\ n[step[s]] < n[s])
    BY <1>1 DEF Onto, Fewer
  <1>8. ASSUME NEW S \in SUBSET D,
               \A s \in S : s.out = "go" => WalkStep(t0, s, base, follow, bn) \in S,
               NEW x \in S
        PROVE  F[x] \in S /\ F[x].out # "go"
    <2>1. Keeps(S, D, done, step)
      <3>1. \A s \in S \ done : s \in D /\ s.out = "go" /\ step[s] = WalkStep(t0, s, base, follow, bn)
        OBVIOUS
      <3> HIDE DEF step, done
      <3>2. \A s \in S \ done : step[s] \in S
        BY <1>8, <3>1
      <3> QED  BY <3>2 DEF Keeps
    <2>2. F[x] \in S \cap done
      <3> HIDE DEF D, done, step, F, m, n
      <3> QED  BY <1>5, <1>6, <1>7, <1>8, <2>1, LoopEnds
    <2> HIDE DEF F
    <2> QED  BY <2>2
  <1>9. \A d, p : WalkFrom(t0, base, d, p, follow, bn) = F[StartWalk(d, p.comps)]
    BY DEF WalkFrom
  <1>10. \A s \in D : F[s] = IF s.out # "go" THEN s ELSE F[WalkStep(t0, s, base, follow, bn)]
    <2> HIDE DEF F
    <2> QED  BY <1>4
  <1>11. Walking(t0, base, follow, bn, F)
    <2> HIDE DEF F
    <2> QED  BY <1>8, <1>9, <1>10 DEF Walking
  <1> QED  BY <1>11

(* A walk starts at a place of it.                                         *)
LEMMA StartIs ==
    ASSUME NEW t0, NEW d \in Ino, IsDir(t0, d), NEW comps \in Seq(Comps)
    PROVE  LET x == StartWalk(d, comps)
           IN  /\ IsWalk(t0, x) /\ x.out = "go" /\ x.at = d /\ x.todo = comps
               /\ At(t0, x)
  <1>1. PICK x : x = StartWalk(d, comps)
    OBVIOUS
  <1>2. x = [out |-> "go", at |-> d, todo |-> comps, hops |-> 0, dir |-> d, name |-> ""]
    BY <1>1 DEF StartWalk
  <1>3. /\ x.out = "go" /\ x.at = d /\ x.todo = comps /\ x.hops = 0 /\ x.dir = d /\ x.name = ""
        /\ x = [out |-> x.out, at |-> x.at, todo |-> x.todo, hops |-> x.hops, dir |-> x.dir,
                name |-> x.name]
    BY <1>2
  <1>4. x.name \in Comps \cup {""} /\ x.out \in Outcomes
    BY <1>3 DEF Outcomes
  <1>5. 0 \in 0..MaxHops
    <2>1. MaxHops \in Nat
      BY TreeAssumption
    <2> QED  BY <2>1
  <1>6. IsWalk(t0, x)
    BY <1>3, <1>4, <1>5 DEF IsWalk
  <1>7. (x.name = "" /\ IsDir(t0, x.at)) /\ IsDir(t0, x.dir) /\ t0[x.at] # Free /\ x.out # "absent"
    BY <1>3, DirIsNode
  <1>8. At(t0, x)
    BY <1>6, <1>7, Zenon DEF At
  <1> QED  BY <1>1, <1>3, <1>6, <1>8

(* q0, where a walk ends, and q1, where the same walk ends in a tree that  *)
(* has more names.                                                         *)
Likewise(t0, t1, f0, f1, q0, q1) ==
    /\ q0.out = "found" /\ (t0[q0.at].kind = "link" => f0 = f1) => q1 = q0
    /\ q0.out = "absent" => \A j : Has(t1, q0.dir, q0.name, j) /\ t1[j].kind # "link" =>
                               \E k : q1 = Place("found", j, <<>>, k, q0.dir, q0.name)

(* A walk that comes through the last name to what is no link ends there.  *)
LEMMA ThroughEnds ==
    ASSUME NEW t0, Shape(t0), NEW s, IsWalk(t0, s), NEW d, NEW n, NEW j, Has(t0, d, n, j),
           NEW base, NEW follow, NEW bn, NEW F, Walking(t0, base, follow, bn, F),
           NEW r, r = Through(t0, s, d, n, j), IsWalk(t0, r)
    PROVE  F[r] = Place("found", j, <<>>, s.hops, d, n)
  <1>1. r = Place(IF t0[j].kind = "dir" THEN "go" ELSE "found", j, <<>>, s.hops, d, n)
    BY DEF Through
  <1>2. r.out = (IF t0[j].kind = "dir" THEN "go" ELSE "found") /\ r.todo = <<>>
    BY <1>1 DEF Place
  <1>3. r \in Walks(t0)
    BY WalkIs
  <1>4. CASE t0[j].kind # "dir"
    <2>1. F[r] = r
      BY <1>2, <1>3, <1>4 DEF Walking
    <2> QED  BY <1>1, <1>4, <2>1
  <1>5. CASE t0[j].kind = "dir"
    <2>1. PICK q : q = [r EXCEPT !.out = "found"]
      OBVIOUS
    <2>2. q = Place("found", j, <<>>, s.hops, d, n)
      <3>1. r = Place("go", j, <<>>, s.hops, d, n)
        BY <1>1, <1>5
      <3> QED  BY <2>1, <3>1 DEF Place
    <2>3. WalkStep(t0, r, base, follow, bn) = q
      BY <1>2, <2>1, Zenon DEF WalkStep
    <2>4. F[r] = F[q]
      BY <1>2, <1>3, <1>5, <2>3 DEF Walking
    <2>5. q \in Walks(t0)
      <3>1. r.out = "go"
        BY <1>2, <1>5
      <3>2. Onto(t0, r, WalkStep(t0, r, base, follow, bn))
        BY <3>1, WalkGoes
      <3> QED  BY <2>3, <3>2, WalkIs DEF Onto
    <2>6. q.out = "found"
      BY <2>2 DEF Place
    <2>7. F[q] = q
      BY <2>5, <2>6 DEF Walking
    <2> QED  BY <2>2, <2>4, <2>7
  <1> QED  BY <1>4, <1>5

(* A whole walk in a tree, and the same in one with more names.            *)
LEMMA WalkAgain ==
    ASSUME NEW t0, Shape(t0), NEW t1, Shape(t1), Extends(t0, t1), NEW base \in Ino, IsDir(t0, base),
           NEW p, IsPath(p),
           NEW f0 \in BOOLEAN, NEW f1 \in BOOLEAN, f0 => f1, NEW bn, bn \/ base = Top
    PROVE  Likewise(t0, t1, f0, f1, WalkFrom(t0, base, base, p, f0, bn),
                                    WalkFrom(t1, base, base, p, f1, bn))
  <1>1. PICK F0 : Walking(t0, base, f0, bn, F0)
    BY WalkLoops
  <1>2. PICK F1 : Walking(t1, base, f1, bn, F1)
    BY WalkLoops
  <1>3. PICK x : x = StartWalk(base, p.comps)
    OBVIOUS
  <1> DEFINE G(s) == s.out = "go" => s \in Walks(t1) /\ F1[s] = F1[x] /\ s.at \in Below(t0, base)
             S    == {s \in Walks(t0) : G(s) /\ Likewise(t0, t1, f0, f1, s, F1[x])}
  <1>4. IsTree(t0) /\ base \in Below(t0, base) /\ IsDir(t1, base)
    <2>1. t0[base] # Free /\ IsTree(t0)
      BY DirIsNode DEF Shape
    <2> QED  BY <2>1, BelowIs, ExtendsIs DEF IsDir, Kind
  <1>5. x \in S
    <2>1. p.comps \in Seq(Comps)
      BY DEF IsPath
    <2>2. IsWalk(t0, x) /\ IsWalk(t1, x) /\ x.out = "go" /\ x.at = base
      BY <1>3, <1>4, <2>1, StartIs
    <2>3. Likewise(t0, t1, f0, f1, x, F1[x])
      BY <2>2 DEF Likewise
    <2> QED  BY <1>4, <2>2, <2>3, WalkIs
  <1>6. ASSUME NEW s \in S, s.out = "go"
        PROVE  WalkStep(t0, s, base, f0, bn) \in S
    <2>1. PICK r0, r1 : r0 = WalkStep(t0, s, base, f0, bn) /\ r1 = WalkStep(t1, s, base, f1, bn)
      OBVIOUS
    <2>2. /\ IsWalk(t0, s) /\ IsWalk(t1, s) /\ s \in Walks(t1)
          /\ F1[s] = F1[x] /\ s.at \in Below(t0, base)
      BY <1>6, WalkIs
    <2>3. Both(t0, base, t1, s, f0, f1, r0, r1)
      BY <1>6, <2>1, <2>2, StepAgain
    <2>4. IsWalk(t0, r0) /\ IsWalk(t1, r1)
      BY <1>6, <2>1, <2>2, WalkGoes DEF Onto
    <2>5. F1[r1] = F1[x]
      BY <1>2, <1>6, <2>1, <2>2 DEF Walking
    <2>6. r0 \in Walks(t0) /\ r1 \in Walks(t1)
      BY <2>4, WalkIs
    <2>7. G(r0)
      BY <2>3, <2>5, <2>6 DEF Both
    <2>8. ASSUME r0.out = "found", t0[r0.at].kind = "link" => f0 = f1  PROVE F1[x] = r0
      <3>1. r1 = r0
        BY <2>3, <2>8 DEF Both
      <3>2. F1[r1] = r1
        BY <1>2, <2>6, <2>8, <3>1 DEF Walking
      <3> QED  BY <2>5, <3>1, <3>2
    <2>9. ASSUME r0.out = "absent", NEW j, Has(t1, r0.dir, r0.name, j), t1[j].kind # "link"
          PROVE  F1[x] = Place("found", j, <<>>, s.hops, r0.dir, r0.name)
      <3>1. r1 = Through(t1, s, r0.dir, r0.name, j)
        BY <2>3, <2>9 DEF Both
      <3> QED  BY <1>2, <2>2, <2>4, <2>5, <2>9, <3>1, ThroughEnds
    <2>10. Likewise(t0, t1, f0, f1, r0, F1[x])
      BY <2>8, <2>9 DEF Likewise
    <2> HIDE DEF G
    <2> QED  BY <2>1, <2>6, <2>7, <2>10
  <1>7. S \in SUBSET Walks(t0)
    OBVIOUS
  <1>8. F0[x] \in S
    <2> HIDE DEF S
    <2> QED  BY <1>1, <1>5, <1>6, <1>7 DEF Walking
  <1>9. Likewise(t0, t1, f0, f1, F0[x], F1[x])
    BY <1>8
  <1>10. /\ WalkFrom(t0, base, base, p, f0, bn) = F0[x]
         /\ WalkFrom(t1, base, base, p, f1, bn) = F1[x]
    BY <1>1, <1>2, <1>3 DEF Walking
  <1> QED  BY <1>9, <1>10

(* The fields of what a walk answers.                                      *)
LEMMA EndedIs ==
    ASSUME NEW t0, NEW q, NEW must, NEW l, l = Ended(t0, q, must)
    PROVE  /\ l.is = IF q.out = "found" /\ must /\ ~IsDir(t0, q.at) THEN "NotADirectory" ELSE q.out
           /\ l.ino = q.at /\ l.dir = q.dir /\ l.name = q.name
  BY DEF Ended

(* What a look finds it finds again, the same, when there are more names.  *)
LEMMA FoundAgain ==
    ASSUME NEW t0, Shape(t0), NEW t1, Shape(t1), Extends(t0, t1), NEW p, IsPath(p),
           NEW f, NEW bn, Found(Look(t0, bn, p, f))
    PROVE  Look(t1, bn, p, f) = Look(t0, bn, p, f)
  <1>1. ~(p.abs /\ bn)
    BY DEF Look, Found
  <1>2. PICK base, must, f0 : /\ base = (IF bn THEN Root ELSE Top) /\ must = (p.tail # "")
                              /\ f0 = (f \/ p.tail # "")
    OBVIOUS
  <1>3. f0 \in BOOLEAN /\ base \in Ino /\ IsDir(t0, base) /\ (bn \/ base = Top)
    BY <1>2, TreeAssumption DEF Shape
  <1>4. PICK q0, q1 : /\ q0 = WalkFrom(t0, base, base, p, f0, bn)
                      /\ q1 = WalkFrom(t1, base, base, p, f0, bn)
    OBVIOUS
  <1>5. Look(t0, bn, p, f) = Ended(t0, q0, must) /\ Look(t1, bn, p, f) = Ended(t1, q1, must)
    BY <1>1, <1>2, <1>4 DEF Look
  <1>6. Likewise(t0, t1, f0, f0, q0, q1)
    BY <1>3, <1>4, WalkAgain
  <1>7. q0.out = "found" /\ (must => IsDir(t0, q0.at))
    <2>1. Look(t0, bn, p, f).is = "found"
      BY DEF Found
    <2>2. Look(t0, bn, p, f).is = IF q0.out = "found" /\ must /\ ~IsDir(t0, q0.at) THEN "NotADirectory"
                                  ELSE q0.out
      BY <1>5, EndedIs
    <2> QED  BY <2>1, <2>2
  <1>8. q1 = q0
    BY <1>6, <1>7 DEF Likewise
  <1>9. IsDir(t1, q0.at) <=> IsDir(t0, q0.at)
    <2>1. At(t0, q0)
      BY <1>3, <1>4, WalkEnds
    <2>2. q0.at \in Ino /\ t0[q0.at] # Free
      BY <2>1 DEF At, IsWalk
    <2> QED  BY <2>2, ExtendsIs DEF IsDir, Kind
  <1> QED  BY <1>5, <1>8, <1>9 DEF Ended

(* And so the entry that a path names is the same in it.                   *)
LEMMA NamedAgain ==
    ASSUME NEW t0, Shape(t0), NEW t1, Shape(t1), Extends(t0, t1), NEW p, IsPath(p), NEW bn,
           Found(Named(t0, bn, p))
    PROVE  Named(t1, bn, p) = Named(t0, bn, p)
  <1>1. IsPath(NoTail(p))
    BY PathsAre
  <1>2. Found(Look(t0, bn, NoTail(p), FALSE))
    BY DEF Named
  <1>3. Look(t1, bn, NoTail(p), FALSE) = Look(t0, bn, NoTail(p), FALSE)
    <2>1. \A q, f : IsPath(q) /\ Found(Look(t0, bn, q, f)) => Look(t1, bn, q, f) = Look(t0, bn, q, f)
      BY FoundAgain
    <2> QED  BY <1>1, <1>2, <2>1
  <1> QED  BY <1>3 DEF Named

(* What is made under the name that lacks is what a look then finds there. *)
Lands(l, m, j) == Found(l) /\ l.ino = j /\ l.dir = m.dir /\ l.name = m.name

LEMMA MadeFound ==
    ASSUME NEW t0, Shape(t0), NEW t1, Shape(t1), Extends(t0, t1), NEW p, IsPath(p), NEW bn,
           NEW l, l = Named(t0, bn, p), l.is = "absent",
           NEW j, Has(t1, l.dir, l.name, j), Kind(t1, j) # "link",
           NEW f \in BOOLEAN, p.tail = "" \/ IsDir(t1, j)
    PROVE  Lands(Look(t1, bn, p, f), l, j)
  <1>1. PICK np : np = NoTail(p)
    OBVIOUS
  <1>2. IsPath(np) /\ np.abs = p.abs /\ np.comps = p.comps /\ np.tail = ""
    BY <1>1, PathsAre DEF IsPath, Path, NoTail
  <1>3. ~(p.abs /\ bn)
    BY <1>1, <1>2 DEF Named, Look
  <1>4. PICK base, must, f1 : /\ base = (IF bn THEN Root ELSE Top) /\ must = (p.tail # "")
                              /\ f1 = (f \/ p.tail # "")
    OBVIOUS
  <1>5. /\ f1 \in BOOLEAN /\ base \in Ino /\ IsDir(t0, base) /\ (bn \/ base = Top)
        /\ (FALSE \/ np.tail # "") = FALSE
    BY <1>2, <1>4, TreeAssumption DEF Shape
  <1>6. PICK q0, q1 : /\ q0 = WalkFrom(t0, base, base, p, FALSE, bn)
                      /\ q1 = WalkFrom(t1, base, base, p, f1, bn)
    OBVIOUS
  <1>7. WalkFrom(t0, base, base, np, FALSE, bn) = q0
    BY <1>2, <1>6 DEF WalkFrom
  <1>8. l = Ended(t0, q0, FALSE)
    <2>1. l = Ended(t0, WalkFrom(t0, base, base, np, FALSE \/ np.tail # "", bn), np.tail # "")
      BY <1>1, <1>2, <1>3, <1>4 DEF Named, Look
    <2>2. (FALSE \/ np.tail # "") = FALSE /\ (np.tail # "") = FALSE
      BY <1>2
    <2> QED  BY <1>7, <2>1, <2>2
  <1>9. Look(t1, bn, p, f) = Ended(t1, q1, must)
    BY <1>3, <1>4, <1>6 DEF Look
  <1>10. Likewise(t0, t1, FALSE, f1, q0, q1)
    BY <1>5, <1>6, WalkAgain
  <1>11. q0.out = "absent" /\ q0.dir = l.dir /\ q0.name = l.name
    <2>1. PICK must0, m : must0 = FALSE /\ m = l
      OBVIOUS
    <2>2. m = Ended(t0, q0, must0)
      BY <1>8, <2>1
    <2>3. /\ m.is = IF q0.out = "found" /\ must0 /\ ~IsDir(t0, q0.at) THEN "NotADirectory" ELSE q0.out
          /\ m.ino = q0.at /\ m.dir = q0.dir /\ m.name = q0.name
      BY <2>2 DEF Ended
    <2> QED  BY <2>1, <2>3
  <1>12. PICK k : q1 = Place("found", j, <<>>, k, l.dir, l.name)
    BY <1>10, <1>11 DEF Likewise, Kind
  <1>13. q1.out = "found" /\ q1.at = j /\ q1.dir = l.dir /\ q1.name = l.name
    BY <1>12 DEF Place
  <1>14. PICK l1 : l1 = Look(t1, bn, p, f)
    OBVIOUS
  <1>15. /\ l1.is = IF q1.out = "found" /\ must /\ ~IsDir(t1, q1.at) THEN "NotADirectory" ELSE q1.out
         /\ l1.ino = q1.at /\ l1.dir = q1.dir /\ l1.name = q1.name
    <2>1. l1 = Ended(t1, q1, must)
      BY <1>9, <1>14
    <2> QED  BY <2>1 DEF Ended
  <1> QED  BY <1>4, <1>13, <1>14, <1>15 DEF Found, Lands

-----------------------------------------------------------------------------
(* The entries each system call takes.                                     *)

(* The entry that a path names.                                            *)
EntryAt(t0, bn, p) == LET e == Named(t0, bn, p) IN <<e.dir, e.name, e.ino>>

(* The entries, where the names are the same or more.                      *)
LEMMA EntriesKept ==
    ASSUME NEW t0, NEW t1
    PROVE  /\ SameNames(t0, t1) => Entries(t1) = Entries(t0)
           /\ Grows(t0, t1) => Entries(t0) \subseteq Entries(t1)
  <1>1. ASSUME NEW u, NEW v, \A d, n, i : Has(u, d, n, i) => Has(v, d, n, i)
        PROVE  Entries(u) \subseteq Entries(v)
    <2>1. \A e \in Entries(u) : e = <<e[1], e[2], e[3]>> /\ Has(v, e[1], e[2], e[3])
      BY <1>1, EntriesAre
    <2> QED  BY <2>1, EntriesAre
  <1> QED  BY <1>1 DEF SameNames, Grows

(* To take a name away takes one entry.                                    *)
LEMMA DetachTakes ==
    ASSUME NEW t0, Shape(t0), NEW c, NEW m, NEW j, Has(t0, c, m, j), NEW t1, t1 = Detach(t0, c, m)
    PROVE  Entries(t0) \ Entries(t1) = {<<c, m, j>>} /\ Entries(t1) \subseteq Entries(t0)
  <1>1. IsTree(t0) /\ c \in Ino /\ IsDir(t0, c)
    BY HasIs DEF Shape
  <1>2. \A d, n, i : Has(t1, d, n, i) <=> Has(t0, d, n, i) /\ ~(d = c /\ n = m)
    BY <1>1, DetachHas
  <1>3. ASSUME NEW e \in Entries(t0)  PROVE e \notin Entries(t1) <=> e = <<c, m, j>>
    <2>1. e = <<e[1], e[2], e[3]>> /\ Has(t0, e[1], e[2], e[3])
      BY <1>3, EntriesAre
    <2>2. e \in Entries(t1) <=> ~(e[1] = c /\ e[2] = m)
      BY <1>2, <2>1, EntriesAre
    <2>3. e[1] = c /\ e[2] = m => e[3] = j
      BY <2>1 DEF Has
    <2> QED  BY <2>1, <2>2, <2>3
  <1>4. <<c, m, j>> \in Entries(t0)
    BY EntriesAre
  <1>5. ASSUME NEW e \in Entries(t1)  PROVE e \in Entries(t0)
    BY <1>2, EntriesAre
  <1> QED  BY <1>3, <1>4, <1>5

(* unlink takes the entry its path names.                                  *)
LEMMA UnlinkTakes ==
    ASSUME NEW t0, Shape(t0), NEW p, IsPath(p), NEW bn, Unlink(t0, bn, p).err = "ok"
    PROVE  LET r == Unlink(t0, bn, p)
           IN  Found(Named(t0, bn, p)) /\ Entries(t0) \ Entries(r.t) = {EntryAt(t0, bn, p)}
  <1> DEFINE r == Unlink(t0, bn, p)
             l == Named(t0, bn, p)
             o == Ans("ok", Detach(t0, l.dir, l.name), l.ino)
  <1>1. Sees(t0, l) /\ ErrorOf(l) # "ok"
    BY NamedSees DEF Sees, Outcomes, ErrorOf
  <1>2. \/ r \in {Fail(ErrorOf(l), t0), Fail("IsADirectory", t0), Fail("NotADirectory", t0)}
        \/ r = o /\ Found(l) /\ ~IsDir(t0, l.ino)
    BY Zenon DEF Unlink
  <1>3. o.t = Detach(t0, l.dir, l.name) /\ \A e : Fail(e, t0).err = e
    BY DEF Ans, Fail
  <1>4. EntryAt(t0, bn, p) = <<l.dir, l.name, l.ino>>
    BY DEF EntryAt
  <1> HIDE DEF r, l, o
  <1>5. r.err = "ok"
    BY DEF r
  <1>6. r = o /\ Found(l) /\ ~IsDir(t0, l.ino)
    BY <1>1, <1>2, <1>3, <1>5
  <1>7. Has(t0, l.dir, l.name, l.ino)
    BY <1>1, <1>6 DEF Sees
  <1>8. Entries(t0) \ Entries(r.t) = {<<l.dir, l.name, l.ino>>}
    BY <1>3, <1>6, <1>7, DetachTakes
  <1> QED  BY <1>4, <1>6, <1>8 DEF r, l

(* rmdir too, and adds none.                                               *)
LEMMA RmdirTakes ==
    ASSUME NEW t0, Shape(t0), NEW p, IsPath(p), NEW bn, Rmdir(t0, bn, p).err = "ok"
    PROVE  LET r == Rmdir(t0, bn, p)
           IN  /\ Found(Named(t0, bn, p)) /\ Entries(t0) \ Entries(r.t) = {EntryAt(t0, bn, p)}
               /\ Entries(r.t) \subseteq Entries(t0)
  <1> DEFINE r == Rmdir(t0, bn, p)
             l == Named(t0, bn, p)
             o == Ans("ok", Detach(t0, l.dir, l.name), l.ino)
  <1>1. Sees(t0, l) /\ ErrorOf(l) # "ok"
    BY NamedSees DEF Sees, Outcomes, ErrorOf
  <1>2. \/ r \in {Fail(ErrorOf(l), t0), Fail("InvalidInput", t0), Fail("NotADirectory", t0),
                  Fail("DirectoryNotEmpty", t0)}
        \/ r = o /\ Found(l) /\ l.name # ""
    BY Zenon DEF Rmdir
  <1>3. o.t = Detach(t0, l.dir, l.name) /\ \A e : Fail(e, t0).err = e
    BY DEF Ans, Fail
  <1>4. EntryAt(t0, bn, p) = <<l.dir, l.name, l.ino>>
    BY DEF EntryAt
  <1> HIDE DEF r, l, o
  <1>5. r.err = "ok"
    BY DEF r
  <1>6. r = o /\ Found(l) /\ l.name # ""
    BY <1>1, <1>2, <1>3, <1>5
  <1>7. Has(t0, l.dir, l.name, l.ino)
    BY <1>1, <1>6 DEF Sees
  <1>8. r.t = Detach(t0, l.dir, l.name)
    BY <1>3, <1>6
  <1>9. /\ Entries(t0) \ Entries(r.t) = {<<l.dir, l.name, l.ino>>}
        /\ Entries(r.t) \subseteq Entries(t0)
    BY <1>7, <1>8, DetachTakes
  <1> QED  BY <1>4, <1>6, <1>9 DEF r, l

(* rename takes no entry but those its two paths name.                     *)
LEMMA RenameTakes ==
    ASSUME NEW t0, Shape(t0), NEW p, IsPath(p), NEW q, IsPath(q), NEW bn
    PROVE  Entries(t0) \ Entries(Rename(t0, bn, p, q).t) \subseteq {EntryAt(t0, bn, p), EntryAt(t0, bn, q)}
  <1> DEFINE r == Rename(t0, bn, p, q)
             s == Named(t0, bn, p)
             d == Named(t0, bn, q)
             o == Ans("ok", Attach(Detach(t0, s.dir, s.name), d.dir, d.name, s.ino), s.ino)
             sd == IsDir(t0, s.ino)
  <1>1. Sees(t0, s) /\ Sees(t0, d)
    BY NamedSees
  <1>2. r.t = t0 \/ (r = o /\ Found(s) /\ s.name # "" /\ d.name # "" /\ (Found(d) \/ d.is = "absent"))
    <2> DEFINE slash == ~sd /\ (p.tail # "" \/ (~bn /\ q.tail # ""))
               dots  == p.tail = "/." \/ q.tail = "/."
               under == sd /\ d.dir \in Below(t0, s.ino)
               full  == Ents(t0, d.ino) # <<>>
    <2>1. r = CASE ~Found(s) -> Fail(ErrorOf(s), t0)
                [] ~Found(d) /\ d.is # "absent" -> Fail(d.is, t0)
                [] s.name = "" \/ d.name = "" -> Fail("ResourceBusy", t0)
                [] slash -> Fail("NotADirectory", t0)
                [] dots -> Fail("ResourceBusy", t0)
                [] Found(d) /\ d.ino = s.ino -> Ans("ok", t0, s.ino)
                [] under -> Fail("InvalidInput", t0)
                [] Found(d) /\ sd /\ ~IsDir(t0, d.ino) -> Fail("NotADirectory", t0)
                [] Found(d) /\ IsDir(t0, d.ino) /\ ~sd -> Fail("IsADirectory", t0)
                [] Found(d) /\ sd /\ full -> Fail("DirectoryNotEmpty", t0)
                [] OTHER -> o
      BY Zenon DEF Rename
    <2>2. \A e, i : Fail(e, t0).t = t0 /\ Ans("ok", t0, i).t = t0
      BY DEF Fail, Ans
    <2> HIDE DEF r, s, d, o, sd, slash, dots, under, full
    <2> QED  BY <2>1, <2>2
  <1>3. EntryAt(t0, bn, p) = <<s.dir, s.name, s.ino>> /\ EntryAt(t0, bn, q) = <<d.dir, d.name, d.ino>>
    BY DEF EntryAt
  <1>4. ASSUME Found(s), s.name # "", d.name # "", Found(d) \/ d.is = "absent",
               NEW e \in Entries(t0), e \notin Entries(o.t)
        PROVE  e \in {<<s.dir, s.name, s.ino>>, <<d.dir, d.name, d.ino>>}
    <2>1. PICK b0, m, c, n, i, t1, t2 :
             /\ b0 = s.dir /\ m = s.name /\ c = d.dir /\ n = d.name /\ i = s.ino
             /\ t1 = Detach(t0, b0, m) /\ t2 = Attach(t1, c, n, i)
      OBVIOUS
    <2>2. o.t = t2
      BY <2>1 DEF Ans
    <2> HIDE DEF s, d, o, sd
    <2>3. Has(t0, b0, m, i) /\ i \in Ino /\ t0[i] # Free /\ c \in Ino /\ IsDir(t0, c)
      BY <1>1, <1>4, <2>1 DEF Sees
    <2>4. IsTree(t0) /\ b0 \in Ino /\ IsDir(t0, b0)
      BY <2>3, HasIs DEF Shape
    <2>5. /\ Turns(t0, t1)
          /\ \A x, k, y : Has(t1, x, k, y) <=> Has(t0, x, k, y) /\ ~(x = b0 /\ k = m)
      BY <2>1, <2>4, DetachHas, DetachTurns
    <2>6. IsTree(t1) /\ IsDir(t1, c) /\ t1[i] # Free
      BY <2>3, <2>5, DirIsNode DEF Turns, Shape, Still, IsDir, Kind
    <2>7. \A x, k, y : Has(t2, x, k, y) <=> \/ x = c /\ k = n /\ y = i
                                            \/ Has(t1, x, k, y) /\ ~(x = c /\ k = n)
      BY <2>1, <2>3, <2>6, AttachHas
    <2>8. e = <<e[1], e[2], e[3]>> /\ Has(t0, e[1], e[2], e[3]) /\ ~Has(t2, e[1], e[2], e[3])
      <3>1. e = <<e[1], e[2], e[3]>> /\ Has(t0, e[1], e[2], e[3])
        BY <1>4, EntriesAre
      <3>2. e \notin Entries(t2)
        BY <1>4, <2>2
      <3>3. ~Has(t2, e[1], e[2], e[3])
        BY <3>1, <3>2, EntriesAre
      <3> QED  BY <3>1, <3>3
    <2>9. (e[1] = b0 /\ e[2] = m) \/ (e[1] = c /\ e[2] = n)
      BY <2>5, <2>7, <2>8
    <2>10. CASE e[1] = b0 /\ e[2] = m
      <3>1. e[3] = i
        BY <2>3, <2>8, <2>10 DEF Has
      <3> QED  BY <2>1, <2>8, <2>10, <3>1
    <2>11. CASE e[1] = c /\ e[2] = n
      <3>1. Found(d)
        BY <1>1, <1>4, <2>1, <2>8, <2>11 DEF Sees
      <3>2. Has(t0, c, n, d.ino)
        BY <1>1, <1>4, <2>1, <3>1 DEF Sees
      <3>3. e[3] = d.ino
        BY <2>8, <2>11, <3>2 DEF Has
      <3> QED  BY <2>1, <2>8, <2>11, <3>3
    <2> QED  BY <2>9, <2>10, <2>11
  <1> HIDE DEF r, s, d, o
  <1>5. Entries(t0) \ Entries(r.t) \subseteq {<<s.dir, s.name, s.ino>>, <<d.dir, d.name, d.ino>>}
    BY <1>2, <1>4
  <1> QED  BY <1>3, <1>5 DEF r

-----------------------------------------------------------------------------
(* What keeps a tree an extension of another.                              *)

(* What a reaping takes is none of what was in a tree where nothing was    *)
(* left to reap.                                                           *)
LEMMA ExtendsReap ==
    ASSUME NEW u, Shape(u), Reaped(u, {}), NEW t0, Shape(t0), Filled(t0), Extends(u, t0),
           NEW open \in SUBSET Ino, NEW t1, t1 = Reap(t0, open)
    PROVE  Extends(u, t1)
  <1>1. SameNames(t0, t1)
    BY ReapKeeps
  <1>2. Entries(u) \subseteq Entries(t1)
    BY <1>1, EntriesKept DEF Extends
  <1>3. /\ \A i \in {Top, Root} : t1[i] = t0[i]
        /\ \A d, n, i : Has(t0, d, n, i) => t1[i] = t0[i]
    BY ReapTurns
  <1>4. ASSUME NEW i \in Ino, u[i] # Free  PROVE t1[i] = t0[i]
    <2>1. Anchored(u, i)
      BY <1>4 DEF Reaped
    <2>2. \A d, n : Has(u, d, n, i) => Has(t0, d, n, i)
      BY ExtendsIs
    <2> QED  BY <1>3, <2>1, <2>2 DEF Anchored
  <1> QED  BY <1>2, <1>4 DEF Extends

(* A node written over that was not there before.                          *)
LEMMA ExtendsNode ==
    ASSUME NEW u, NEW t0, Extends(u, t0), NEW i, u[i] = Free, NEW t1, SameNames(t0, t1),
           \A j \in Ino \ {i} : t1[j] = t0[j]
    PROVE  Extends(u, t1)
  <1>1. Entries(u) \subseteq Entries(t1)
    BY EntriesKept DEF Extends
  <1> QED  BY <1>1 DEF Extends

(* What the two writes leave in a node, and everywhere else.               *)
LEMMA DataMade ==
    ASSUME NEW t0, Shape(t0), NEW i \in Ino, Kind(t0, i) = "file", NEW d,
           NEW t1, t1 = SetData(t0, i, d)
    PROVE  t1[i] = FileNode(d, t0[i].mode) /\ \A j \in Ino \ {i} : t1[j] = t0[j]
  <1>1. IsTree(t0)
    BY DEF Shape
  <1>2. PICK x : t1 = SetNode(t0, i, x) /\ x = FileNode(d, t0[i].mode)
    BY <1>1, DataIs
  <1>3. t0 = [j \in Ino |-> t0[j]]
    BY <1>1 DEF IsTree
  <1>4. t1[i] = x /\ \A j \in Ino \ {i} : t1[j] = t0[j]
    BY <1>2, <1>3 DEF SetNode
  <1> QED  BY <1>2, <1>4

(* A change of mode changes one node, and of it the mode.                  *)
LEMMA ModeMade ==
    ASSUME NEW t0, Shape(t0), NEW i \in Ino, Kind(t0, i) \in {"file", "dir"}, NEW m,
           NEW t1, t1 = SetMode(t0, i, m)
    PROVE  /\ t0[i].kind = "file" => t1[i] = FileNode(t0[i].data, m)
           /\ t0[i].kind = "dir" => t1[i] = DirNode(t0[i].ents, m)
           /\ \A j \in Ino \ {i} : t1[j] = t0[j]
  <1>1. IsTree(t0)
    BY DEF Shape
  <1>2. PICK x, y : x = [y EXCEPT !.mode = m] /\ y = t0[i]
    OBVIOUS
  <1>3. t0 = [j \in Ino |-> t0[j]] /\ IsNode(t0, y)
    BY <1>1, <1>2 DEF IsTree
  <1>4. t1[i] = x /\ \A j \in Ino \ {i} : t1[j] = t0[j]
    BY <1>2, <1>3 DEF SetMode
  <1>5. y.kind = "file" => x = FileNode(y.data, m)
    <2> HAVE y.kind = "file"
    <2>1. y = [kind |-> "file", data |-> y.data, mode |-> y.mode]
      BY <1>3, KindIs DEF FileNode
    <2> QED  BY <1>2, <2>1 DEF FileNode
  <1>6. y.kind = "dir" => x = DirNode(y.ents, m)
    <2> HAVE y.kind = "dir"
    <2>1. y = [kind |-> "dir", ents |-> y.ents, mode |-> y.mode]
      BY <1>3, KindIs DEF DirNode
    <2> QED  BY <1>2, <2>1 DEF DirNode
  <1> QED  BY <1>2, <1>4, <1>5, <1>6

(* i, a node that was not there, is under the name of p in what extends u. *)
MadeAs(u, tree, i, bn, p) ==
    LET l == Named(u, bn, p)
    IN  /\ l.is = "absent" /\ i \in Ino /\ u[i] = Free
        /\ Extends(u, tree) /\ <<l.dir, l.name, i>> \in Entries(tree)

(* The calls that make one do so.                                          *)
LEMMA MakeMakes ==
    ASSUME NEW t0, Shape(t0), NEW bn, NEW p, NEW l, l = Named(t0, bn, p), Sees(t0, l),
           l.is = "absent", NEW x, IsNode(t0, x), Childless(x),
           NEW r, r = MakeAt(t0, l, x), r.err = "ok"
    PROVE  MadeAs(t0, r.t, r.ino, bn, p) /\ r.t[r.ino] = x
  <1>1. FreeInos(t0) # {} /\ r = Ans("ok", Create(t0, l.dir, l.name, x), Fresh(t0))
    <2>1. \A e : Fail(e, t0).err = e
      BY DEF Fail, Ans
    <2> QED  BY <2>1 DEF MakeAt
  <1>2. PICK c, m, j, t1 : /\ c = l.dir /\ m = l.name /\ j = Fresh(t0)
                           /\ t1 = Create(t0, c, m, x)
    OBVIOUS
  <1>3. r.t = t1 /\ r.ino = j
    BY <1>1, <1>2 DEF Ans
  <1>4. c \in Ino /\ IsDir(t0, c) /\ \A i : ~Has(t0, c, m, i)
    BY <1>2 DEF Sees
  <1>5. /\ Turns(t0, t1) /\ j \in Ino /\ t0[j] = Free /\ t1[j] = x
        /\ \A d, n, i : Has(t1, d, n, i) <=> \/ d = c /\ n = m /\ i = j
                                             \/ Has(t0, d, n, i) /\ ~(d = c /\ n = m)
        /\ \A i \in Ino \ {c, j} : t1[i] = t0[i]
    BY <1>1, <1>2, <1>4, CreateTurns
  <1>6. t1[c].mode = t0[c].mode /\ t1[c].kind = t0[c].kind /\ t0[c].kind = "dir"
    <2>1. IsTree(t0)
      BY DEF Shape
    <2>2. IsDir(t1, c) /\ t1[c].mode = t0[c].mode
      BY <1>1, <1>2, <1>4, <2>1, CreateIs
    <2> QED  BY <1>4, <2>2 DEF IsDir, Kind
  <1>7. \A i \in Ino : t0[i] # Free => Alike(t0[i], t1[i])
    BY <1>5, <1>6 DEF Alike
  <1>8. Entries(t0) \subseteq Entries(t1)
    <2>1. \A d, n, i : Has(t0, d, n, i) => Has(t1, d, n, i)
      BY <1>4, <1>5
    <2>2. \A e \in Entries(t0) : e = <<e[1], e[2], e[3]>> /\ Has(t0, e[1], e[2], e[3])
      BY EntriesAre
    <2> QED  BY <2>1, <2>2, EntriesAre
  <1>9. <<c, m, j>> \in Entries(t1)
    BY <1>5, EntriesAre
  <1> QED  BY <1>2, <1>3, <1>5, <1>7, <1>8, <1>9 DEF MadeAs, Extends

(* An exclusive create makes an empty file under its mode less the umask.  *)
LEMMA CreateNewMakes ==
    ASSUME NEW t0, Shape(t0), NEW p, IsPath(p), NEW mode, NEW bn,
           NEW r, r = CreateNew(t0, bn, p, mode), r.err = "ok"
    PROVE  MadeAs(t0, r.t, r.ino, bn, p) /\ r.t[r.ino] = FileNode("empty", mode \ Umask)
  <1> DEFINE l == Named(t0, bn, p)
             x == FileNode("empty", mode \ Umask)
  <1>1. Sees(t0, l) /\ l.is # "ok"
    BY NamedSees DEF Sees, Outcomes
  <1>2. r = CASE p.tail # "" -> Fail(IF bn THEN "InvalidInput" ELSE "NotFound", t0)
              [] bn /\ EndsInDotDot(p) -> Fail("NotFound", t0)
              [] Found(l) -> Fail(IF bn /\ l.ino = Root THEN "IsADirectory" ELSE "AlreadyExists", t0)
              [] l.is = "absent" /\ p.tail = "" -> MakeAt(t0, l, x)
              [] OTHER -> Fail(l.is, t0)
    BY Zenon DEF CreateNew
  <1>3. IsNode(t0, x) /\ Childless(x)
    BY NodesAre
  <1>4. \A e : Fail(e, t0).err = e
    BY DEF Fail, Ans
  <1> DEFINE y == x
  <1> HIDE DEF l, x
  <1>5. r = MakeAt(t0, l, x) /\ l.is = "absent"
    BY <1>1, <1>2, <1>4
  <1>6. l = Named(t0, bn, p)
    BY DEF l
  <1>7. MadeAs(t0, r.t, r.ino, bn, p) /\ r.t[r.ino] = x
    BY <1>1, <1>3, <1>5, <1>6, MakeMakes
  <1> QED  BY <1>7 DEF x

(* mkdir makes an empty directory under its mode less the umask.           *)
LEMMA MkdirMakes ==
    ASSUME NEW t0, Shape(t0), NEW p, IsPath(p), NEW mode, NEW bn,
           NEW r, r = Mkdir(t0, bn, p, mode), r.err = "ok"
    PROVE  MadeAs(t0, r.t, r.ino, bn, p) /\ r.t[r.ino] = DirNode(<<>>, mode \ Umask)
  <1> DEFINE l == Named(t0, bn, p)
             x == DirNode(<<>>, mode \ Umask)
  <1>1. Sees(t0, l) /\ l.is # "ok"
    BY NamedSees DEF Sees, Outcomes
  <1>2. r = CASE Found(l) -> Fail("AlreadyExists", t0)
              [] l.is = "absent" /\ p.tail = "/." -> Fail("NotFound", t0)
              [] l.is = "absent" /\ p.tail # "/." -> MakeAt(t0, l, x)
              [] OTHER -> Fail(l.is, t0)
    BY Zenon DEF Mkdir
  <1>3. IsNode(t0, x) /\ Childless(x)
    BY NodesAre
  <1>4. \A e : Fail(e, t0).err = e
    BY DEF Fail, Ans
  <1> HIDE DEF l, x
  <1>5. r = MakeAt(t0, l, x) /\ l.is = "absent"
    BY <1>1, <1>2, <1>4
  <1>6. l = Named(t0, bn, p)
    BY DEF l
  <1>7. MadeAs(t0, r.t, r.ino, bn, p) /\ r.t[r.ino] = x
    BY <1>1, <1>3, <1>5, <1>6, MakeMakes
  <1> QED  BY <1>7 DEF x

(* What made one still has when a node that was not there is written over, *)
(* or when the tree is reaped.                                             *)
LEMMA MadeNode ==
    ASSUME NEW u, NEW t0, NEW i, NEW bn, NEW p, MadeAs(u, t0, i, bn, p),
           NEW t1, SameNames(t0, t1), \A j \in Ino \ {i} : t1[j] = t0[j]
    PROVE  MadeAs(u, t1, i, bn, p)
  <1>1. u[i] = Free /\ Extends(u, t0)
    BY DEF MadeAs
  <1>2. Extends(u, t1)
    BY <1>1, ExtendsNode
  <1> QED  BY <1>2, EntriesKept DEF MadeAs

(* A reaping leaves what was made, which has a name.                       *)
LEMMA MadeReap ==
    ASSUME NEW u, Shape(u), Reaped(u, {}), NEW t0, Shape(t0), Filled(t0),
           NEW i, NEW bn, NEW p, MadeAs(u, t0, i, bn, p),
           NEW open \in SUBSET Ino, NEW t1, t1 = Reap(t0, open)
    PROVE  MadeAs(u, t1, i, bn, p) /\ t1[i] = t0[i]
  <1>1. SameNames(t0, t1)
    BY ReapKeeps
  <1>2. Extends(u, t1)
    BY ExtendsReap DEF MadeAs
  <1>3. PICK d, n : <<d, n, i>> \in Entries(t0)
    BY DEF MadeAs
  <1>4. Has(t0, d, n, i)
    BY <1>3, EntriesAre
  <1>5. t1[i] = t0[i]
    BY <1>4, ReapTurns
  <1> QED  BY <1>1, <1>2, <1>5, EntriesKept DEF MadeAs

(* The path it was made at leads to it, however its slashes are spelled.   *)
LEMMA StrippedNames ==
    ASSUME NEW p, IsPath(p)
    PROVE  /\ NoTail(NoTail(p)) = NoTail(p) /\ NoTail(SlashesStripped(p)) = NoTail(p)
           /\ NoTail(p).tail = ""
           /\ \A t0, bn : /\ Named(t0, bn, NoTail(p)) = Named(t0, bn, p)
                          /\ Named(t0, bn, SlashesStripped(p)) = Named(t0, bn, p)
  <1>1. PICK e, q : e = "" /\ q = NoTail(p)
    OBVIOUS
  <1>2. q = [abs |-> p.abs, comps |-> p.comps, tail |-> e]
    <2>1. p = [abs |-> p.abs, comps |-> p.comps, tail |-> p.tail]
      BY Zenon DEF IsPath, Path
    <2>2. q = [p EXCEPT !.tail = e]
      BY <1>1, Zenon DEF NoTail
    <2> QED  BY <2>1, <2>2
  <1>3. [q EXCEPT !.tail = e] = q /\ q.tail = e
    BY <1>2
  <1>4. NoTail(q) = q
    BY <1>1, <1>3, Zenon DEF NoTail
  <1>5. NoTail(SlashesStripped(p)) = NoTail(p)
    BY <1>1, <1>4 DEF SlashesStripped
  <1>6. \A t0, bn : /\ Named(t0, bn, NoTail(p)) = Named(t0, bn, p)
                    /\ Named(t0, bn, SlashesStripped(p)) = Named(t0, bn, p)
    BY <1>1, <1>4, <1>5, Zenon DEF Named
  <1> QED  BY <1>1, <1>3, <1>4, <1>5, <1>6, Zenon

(* The path p, its last link not followed, leads to i.                     *)
Reaches(t0, bn, p, i) == LET l == Look(t0, bn, p, FALSE) IN Found(l) /\ l.ino = i

(* What was made is what the path it was made by leads to.                 *)
LEMMA MadeLeads ==
    ASSUME NEW u, Shape(u), NEW t0, Shape(t0), NEW i, NEW bn, NEW p, IsPath(p),
           MadeAs(u, t0, i, bn, p), Kind(t0, i) # "link"
    PROVE  /\ Named(t0, bn, p).ino = i
           /\ IsDir(t0, i) => Reaches(t0, bn, SlashesStripped(p), i)
  <1>1. PICK l : l = Named(u, bn, p)
    OBVIOUS
  <1>2. l.is = "absent" /\ Extends(u, t0) /\ Has(t0, l.dir, l.name, i)
    BY <1>1, EntriesAre DEF MadeAs
  <1>3. ASSUME NEW q, IsPath(q), Named(u, bn, q) = l, q.tail = "" \/ IsDir(t0, i), NEW f \in BOOLEAN
        PROVE  Found(Look(t0, bn, q, f)) /\ Look(t0, bn, q, f).ino = i
    <2>1. Lands(Look(t0, bn, q, f), l, i)
      BY <1>2, <1>3, MadeFound
    <2> QED  BY <2>1 DEF Lands
  <1>4. PICK f : f = FALSE
    OBVIOUS
  <1>5. Look(t0, bn, NoTail(p), f).ino = i
    BY <1>1, <1>3, <1>4, PathsAre, StrippedNames
  <1>6. ASSUME IsDir(t0, i)
        PROVE  Found(Look(t0, bn, SlashesStripped(p), f)) /\ Look(t0, bn, SlashesStripped(p), f).ino = i
    BY <1>1, <1>3, <1>4, <1>6, StrippedIs, StrippedNames
  <1>7. Named(t0, bn, p).ino = i
    BY <1>4, <1>5, Zenon DEF Named
  <1>8. IsDir(t0, i) => Reaches(t0, bn, SlashesStripped(p), i)
    BY <1>4, <1>6, Zenon DEF Reaches
  <1> QED  BY <1>7, <1>8

-----------------------------------------------------------------------------
(* A directory being emptied.                                              *)

(* What is below a directory stays below it when names are added.          *)
LEMMA BelowGrows ==
    ASSUME NEW t0, IsTree(t0), NEW t1, IsTree(t1), NEW d \in Ino,
           \A c, n, i : Has(t0, c, n, i) => Has(t1, c, n, i)
    PROVE  Below(t0, d) \subseteq Below(t1, d)
  <1>1. PICK B : B = Below(t1, d)
    OBVIOUS
  <1>2. d \in B /\ B \in SUBSET Ino /\ \A x \in B : Children(t1, x) \subseteq B
    BY <1>1, BelowIs
  <1>3. ASSUME NEW x \in B, NEW i \in Children(t0, x)  PROVE i \in B
    <2>1. PICK n : Has(t0, x, n, i)
      BY <1>2, <1>3, ChildHas
    <2>2. i \in Children(t1, x)
      BY <2>1, HasIs
    <2> QED  BY <1>2, <2>2
  <1>4. \A x \in B : Children(t0, x) \subseteq B
    BY <1>3
  <1> QED  BY <1>1, <1>2, <1>4, BelowIs

(* The directory i that p names in u is being emptied: what has gone was   *)
(* below it, and what was below it and has not gone is still below it.     *)
Emptying(u, tree, i, bn, p) ==
    /\ Found(Named(u, bn, p)) /\ EntryAt(u, bn, p)[3] = i /\ IsDir(u, i)
    /\ Extends(tree, u)
    /\ \A d, n, x : Has(u, d, n, x) /\ ~Has(tree, d, n, x) => d \in Below(u, i)
    /\ \A d, n, x : Has(tree, d, n, x) /\ d \in Below(u, i) => d \in Below(tree, i)

(* It is so at first.                                                      *)
LEMMA EmptyingStarts ==
    ASSUME NEW u, NEW bn, NEW p, NEW l, l = Named(u, bn, p), Found(l), IsDir(u, l.ino)
    PROVE  Emptying(u, u, l.ino, bn, p)
  <1>1. EntryAt(u, bn, p)[3] = l.ino
    BY DEF EntryAt
  <1> QED  BY <1>1, ExtendsSame DEF Emptying

(* A name of what has none, taken from below it.                           *)
LEMMA EmptyingGoesOn ==
    ASSUME NEW u, Shape(u), NEW t0, Shape(t0), Filled(t0), NEW i \in Ino, NEW bn, NEW p,
           Emptying(u, t0, i, bn, p), NEW d \in Below(t0, i), NEW n, NEW j, Has(t0, d, n, j),
           \A m, x : ~Has(t0, j, m, x),
           NEW open \in SUBSET Ino, NEW t1, t1 = Detach(t0, d, n), NEW t2, t2 = Reap(t1, open)
    PROVE  Emptying(u, t2, i, bn, p)
  <1>1. IsTree(t0) /\ IsTree(u) /\ d \in Ino /\ IsDir(t0, d) /\ j \in Ino
    BY HasIs DEF Shape
  <1>2. Shape(t1) /\ Filled(t1)
    BY <1>1, DetachTurns, DetachKeeps DEF Turns
  <1>3. Shape(t2) /\ \A x \in Ino : t2[x] \in {t1[x], Free}
    BY <1>2, ReapTurns
  <1>4. \A c, m, x : Has(t2, c, m, x) <=> Has(t0, c, m, x) /\ ~(c = d /\ m = n)
    BY <1>1, <1>2, DetachHas, ReapKeeps DEF SameNames
  <1>5. Extends(t0, u)
    BY DEF Emptying
  <1>6. \A c, m, x : Has(t0, c, m, x) => Has(u, c, m, x)
    BY <1>5, ExtendsIs
  <1>7. Extends(t2, u)
    <2>1. \A x \in Ino : Alike(t0[x], t1[x])
      <3>1. /\ \A x \in Ino \ {d} : t1[x] = t0[x]
            /\ \A x \in Ino : t1[x].kind = t0[x].kind
        BY <1>1, DetachIs
      <3>2. t1[d].mode = t0[d].mode /\ t0[d].kind = "dir"
        BY <1>1, DetachHas DEF IsDir, Kind
      <3> QED  BY <3>1, <3>2 DEF Alike
    <2>2. \A x \in Ino : t2[x] # Free => t2[x] = t1[x] /\ t0[x] # Free
      <3>1. \A x \in Ino : t1[x] = Free <=> t0[x] = Free
        BY <1>1, DetachIs
      <3> QED  BY <1>3, <3>1
    <2>3. \A x \in Ino : t2[x] # Free => Alike(t2[x], u[x])
      BY <1>5, <2>1, <2>2 DEF Extends, Alike
    <2>4. Entries(t2) \subseteq Entries(u)
      <3>1. \A e \in Entries(t2) : e = <<e[1], e[2], e[3]>> /\ Has(t2, e[1], e[2], e[3])
        BY EntriesAre
      <3> QED  BY <1>4, <1>6, <3>1, EntriesAre
    <2> QED  BY <2>3, <2>4 DEF Extends
  <1>8. Below(t0, i) \subseteq Below(u, i)
    BY <1>1, <1>6, BelowGrows
  <1>9. \A c, m, x : Has(u, c, m, x) /\ ~Has(t2, c, m, x) => c \in Below(u, i)
    BY <1>4, <1>8 DEF Emptying
  <1>10. Below(t0, i) \subseteq Below(t2, i) \cup {j}
    <2>1. PICK S : S = Below(t2, i) \cup {j}
      OBVIOUS
    <2>2. /\ i \in Below(t2, i) /\ Below(t2, i) \subseteq Ino
          /\ \A x \in Below(t2, i) : Children(t2, x) \subseteq Below(t2, i)
      BY <1>3, BelowIs DEF Shape
    <2>3. ASSUME NEW x \in S, NEW y \in Children(t0, x)  PROVE y \in S
      <3>1. x \in Ino
        BY <1>1, <2>1, <2>2
      <3>2. PICK m : Has(t0, x, m, y)
        BY <1>1, <3>1, ChildHas
      <3>3. CASE x = d /\ m = n
        BY <2>1, <3>2, <3>3 DEF Has
      <3>4. CASE ~(x = d /\ m = n)
        <4>1. Has(t2, x, m, y) /\ x # j
          BY <1>4, <3>2, <3>4
        <4>2. y \in Children(t2, x)
          BY <1>3, <4>1, HasIs DEF Shape
        <4> QED  BY <2>1, <2>2, <4>1, <4>2
      <3> QED  BY <3>3, <3>4
    <2>4. S \in SUBSET Ino /\ i \in S /\ \A x \in S : Children(t0, x) \subseteq S
      BY <1>1, <2>1, <2>2, <2>3
    <2> QED  BY <1>1, <2>1, <2>4, BelowIs
  <1>11. ASSUME NEW c, NEW m, NEW x, Has(t2, c, m, x), c \in Below(u, i)  PROVE c \in Below(t2, i)
    <2>1. Has(t0, c, m, x) /\ c # j
      BY <1>4, <1>11
    <2>2. c \in Below(t0, i)
      BY <1>11, <2>1 DEF Emptying
    <2> QED  BY <1>10, <2>1, <2>2
  <1> QED  BY <1>7, <1>9, <1>11 DEF Emptying

(* What is left, once it is empty: nothing below it but itself.            *)
LEMMA EmptyingEnds ==
    ASSUME NEW u, Shape(u), NEW t0, Shape(t0), NEW i \in Ino, NEW bn, NEW p,
           Emptying(u, t0, i, bn, p), Children(t0, i) = {}
    PROVE  \A d, n, x : Has(u, d, n, x) => (Has(t0, d, n, x) <=> d \notin Below(u, i))
  <1>1. IsTree(t0)
    BY DEF Shape
  <1>2. Below(t0, i) \subseteq {i}
    <2>1. PICK S : S = {i}
      OBVIOUS
    <2>2. S \in SUBSET Ino /\ i \in S /\ \A x \in S : Children(t0, x) \subseteq S
      BY <2>1
    <2> QED  BY <1>1, <2>1, <2>2, BelowIs
  <1>3. \A n, x : ~Has(t0, i, n, x)
    <2>1. \A n, x : Has(t0, i, n, x) => x \in Children(t0, i)
      BY <1>1, HasIs
    <2> QED  BY <2>1
  <1> QED  BY <1>2, <1>3 DEF Emptying

-----------------------------------------------------------------------------
(* A system call that fails has changed nothing.                           *)
Reverts(t0, r) == r.err = "ok" \/ r.t = t0

(* Nor has an answer that is an error, or a node that could not be made.   *)
LEMMA FailReverts ==
    ASSUME NEW t0
    PROVE  /\ \A e : Reverts(t0, Fail(e, t0))
           /\ \A i : Reverts(t0, Ans("ok", t0, i))
           /\ \A x, i : Reverts(t0, Ans("ok", x, i))
           /\ \A l, x : Reverts(t0, MakeAt(t0, l, x))
  <1>1. \A e : Fail(e, t0).t = t0
    BY DEF Fail, Ans
  <1>2. \A x, i : Ans("ok", x, i).err = "ok"
    BY DEF Ans
  <1>3. \A l, x : \/ MakeAt(t0, l, x) = Fail("StorageFull", t0)
                  \/ MakeAt(t0, l, x) = Ans("ok", Create(t0, l.dir, l.name, x), Fresh(t0))
    BY Zenon DEF MakeAt
  <1>4. \A l, x : Reverts(t0, MakeAt(t0, l, x))
    BY <1>1, <1>2, <1>3 DEF Reverts
  <1> QED  BY <1>1, <1>2, <1>4 DEF Reverts

(* The calls that make a node.                                             *)
LEMMA MakingReverts ==
    ASSUME NEW t0, NEW bn, NEW p
    PROVE  /\ \A mode : Reverts(t0, CreateNew(t0, bn, p, mode))
           /\ \A mode : Reverts(t0, Mkdir(t0, bn, p, mode))
           /\ \A x : Reverts(t0, Symlink(t0, bn, x, p))
           /\ \A flags : Reverts(t0, OpenWrite(t0, bn, p, flags))
  <1>1. ASSUME NEW mode  PROVE Reverts(t0, CreateNew(t0, bn, p, mode))
    BY FailReverts, Zenon DEF CreateNew
  <1>2. ASSUME NEW mode  PROVE Reverts(t0, Mkdir(t0, bn, p, mode))
    BY FailReverts, Zenon DEF Mkdir
  <1>3. ASSUME NEW c  PROVE Reverts(t0, Symlink(t0, bn, c, p))
    BY FailReverts, Zenon DEF Symlink
  <1>4. ASSUME NEW flags  PROVE Reverts(t0, OpenWrite(t0, bn, p, flags))
    BY <1>1, FailReverts, Zenon DEF OpenWrite
  <1> QED  BY <1>1, <1>2, <1>3, <1>4

(* The calls that take or move a name.                                     *)
LEMMA TakingReverts ==
    ASSUME NEW t0, NEW bn, NEW p
    PROVE  /\ Reverts(t0, Unlink(t0, bn, p)) /\ Reverts(t0, Rmdir(t0, bn, p))
           /\ \A q : Reverts(t0, HardLink(t0, bn, p, q)) /\ Reverts(t0, Rename(t0, bn, p, q))
  <1>1. Reverts(t0, Unlink(t0, bn, p))
    BY FailReverts, Zenon DEF Unlink
  <1>2. Reverts(t0, Rmdir(t0, bn, p))
    BY FailReverts, Zenon DEF Rmdir
  <1>3. \A q : Reverts(t0, HardLink(t0, bn, p, q))
    BY FailReverts, Zenon DEF HardLink
  <1>4. \A q : Reverts(t0, Rename(t0, bn, p, q))
    BY FailReverts, Zenon DEF Rename
  <1> QED  BY <1>1, <1>2, <1>3, <1>4

-----------------------------------------------------------------------------
(* What a call that succeeded has done: to the names, and, a copy, where   *)
(* it leads (E: the entries after it).                                     *)
Removals == {"unlink", "rmdir", "rmtree", "rename"}
Copies   == {"copy_file", "copy_dir"}

Takes(op, u, E, bn, p, q) ==
    LET gone  == Entries(u) \ E
        below == {e \in Entries(u) : e[1] \in Below(u, EntryAt(u, bn, p)[3])}
    IN  CASE op \in {"unlink", "rmdir"} -> gone = {EntryAt(u, bn, p)}
          [] op = "rmtree" -> gone = {EntryAt(u, bn, p)} \cup
                 IF IsDir(u, EntryAt(u, bn, p)[3]) THEN below ELSE {}
          [] op = "rename" -> gone \subseteq {EntryAt(u, bn, p), EntryAt(u, bn, q)}
          [] OTHER -> gone = {}

(* What a recursive removal that has failed may have taken.                *)
TakesBelow(u, E, bn, p) ==
    Entries(u) \ E \subseteq {e \in Entries(u) : e[1] \in Below(u, EntryAt(u, bn, p)[3])}

(* The file at q holds what the source did; its mode is the source's less  *)
(* the special bits.                                                       *)
FileCopied(u, tree, bn, p, q) ==
    LET s == tree[Look(u, bn, p, TRUE).ino]
    IN  tree[EntryAt(tree, bn, q)[3]] = FileNode(s.data, s.mode \ {"special"})
(* The directory at q is empty; its mode is the source's, and its owner's. *)
DirCopied(u, tree, bn, p, q) ==
    LET s == tree[Look(u, bn, p, FALSE).ino]
    IN  tree[EntryAt(tree, bn, q)[3]] = DirNode(<<>>, (s.mode \ {"special"}) \cup {"owner"})
CopyDone(op, u, tree, bn, p, q) ==
    /\ op = "copy_file" => FileCopied(u, tree, bn, p, q)
    /\ op = "copy_dir" => DirCopied(u, tree, bn, p, q)

(* The steps before which a call has changed nothing, those before which   *)
(* it has taken no name; and which call a step is of.                      *)
Untouched == Ops \cup {"mkdir.make", "rmdir.remove", "rmtree.open", "stay.kind",
                       "stay.read", "stay.aim", "move", "symlink.make", "copy_file.make",
                       "copy_dir.name", "copy_dir.make"}
Adding    == {"mkdir_all.name", "mkdir_all.climb", "mkdir_all.make", "mkdir_all.taken",
              "write.data", "append.data", "copy_file.data", "copy_file.chmod", "copy_dir.open",
              "copy_dir.chmod"}
(* Which call a step is of.                                                *)
StepOf(l, op) ==
    /\ l \in Ops => op = l
    /\ l = "rmdir.remove" => op = "rmdir"
    /\ l \in {"rmtree.open", "rmtree.empty"} => op = "rmtree"
    /\ l \in {"stay.kind", "stay.read", "stay.aim", "move"} => op \in {"rename", "link"}
    /\ l \in {"copy_file.make"} \cup FileSteps => op = "copy_file"
    /\ l \in {"mkdir.make", "mkdir_all.name", "mkdir_all.climb", "mkdir_all.make",
             "mkdir_all.taken", "symlink.make", "write.data", "append.data"}
          => op \notin Removals \cup Copies

(* What a copy has read of the tree u it started in, and made.             *)
FileRead(u, hh, bn, p) ==
    /\ hh.src = Look(u, bn, p, TRUE).ino /\ Kind(u, hh.src) = "file"
    /\ hh.mode = CopyMode(u[hh.src].mode)
(* A file's copy before each of its steps.                                 *)
CopyingFile(l, u, tree, hh, bn, p, q) ==
    /\ l \in {"copy_file.make", "copy_file.data", "copy_file.chmod"} => FileRead(u, hh, bn, p)
    /\ l \in {"copy_file.data", "copy_file.chmod"} =>
          MadeAs(u, tree, hh.dst, bn, q) /\ Kind(tree, hh.dst) = "file"
    /\ l = "copy_file.chmod" => tree[hh.dst].data = u[hh.src].data
(* What a directory's copy has read, what it has made, and where it is.    *)
DirRead(u, hh, bn, p) ==
    LET i == Look(u, bn, p, FALSE).ino
    IN  i \in Ino /\ IsDir(u, i) /\ hh.mode = CopyDirMode(u[i].mode)
DirMade(u, tree, i, bn, q) == MadeAs(u, tree, i, bn, q) /\ IsDir(tree, i) /\ tree[i].ents = <<>>
CopyingDir(l, u, tree, hh, bn, p, q) ==
    /\ l \in {"copy_dir.name", "copy_dir.make", "copy_dir.open", "copy_dir.chmod"} =>
          DirRead(u, hh, bn, p)
    /\ l = "copy_dir.open" => \E i \in Ino : DirMade(u, tree, i, bn, q)
    /\ l = "copy_dir.chmod" => DirMade(u, tree, hh.dst, bn, q)

(* What is so of the tree, and of what a call holds, at each of its steps, *)
(* as long as no other program moves.                                      *)
Known(l, u, tree, hh, bn, p, q) ==
    /\ l \in Untouched => tree = u
    /\ l \in Adding => Entries(u) \subseteq Entries(tree)
    /\ l = "rmtree.empty" => Emptying(u, tree, hh.src, bn, p)
    /\ CopyingFile(l, u, tree, hh, bn, p, q) /\ CopyingDir(l, u, tree, hh, bn, p, q)

OutInv ==
    /\ pc = "idle" => Open(h) = {}
    /\ pc = "copy_dir.remove" => h.err # "ok"
    /\ StepOf(pc, call.op)
    /\ w.quiet => /\ Shape(w.before) /\ Reaped(w.before, {})
                  /\ Known(pc, w.before, t, h, Confined, a, b)
    /\ (pc = "idle" /\ calls > 0 /\ result.err = "ok" /\ w.quiet) =>
          /\ Takes(result.op, w.before, Entries(t), Confined, a, b)
          /\ CopyDone(result.op, w.before, t, Confined, a, b)
    /\ (pc = "idle" /\ calls > 0 /\ result.err # "ok" /\ result.op = "rmtree" /\ w.quiet) =>
          TakesBelow(w.before, Entries(t), Confined, a)

-----------------------------------------------------------------------------
(* What a step finds, and the frame of every step.                         *)
LEMMA OutIs ==
    ASSUME TreeInv, KeepInv, OutInv, w.quiet
    PROVE  /\ Shape(w.before) /\ Reaped(w.before, {})
           /\ Known(pc, w.before, t, h, Confined, a, b)
           /\ pc \in Untouched => t = w.before /\ Reaped(t, {}) /\ Rooted(t)
           /\ pc \in Adding => Entries(w.before) \subseteq Entries(t)
  <1>1. /\ Shape(w.before) /\ Reaped(w.before, {})
        /\ Known(pc, w.before, t, h, Confined, a, b)
    BY DEF OutInv
  <1>2. /\ pc \in Untouched => t = w.before
        /\ pc \in Adding => Entries(w.before) \subseteq Entries(t)
    BY <1>1 DEF Known
  <1>3. pc \in Untouched => Rooted(t)
    BY KeepIs DEF Untouched, Ops, Holding
  <1> QED  BY <1>1, <1>2, <1>3

(* Which call a step is of.                                                *)
LEMMA OpIs ==
    ASSUME OutInv, KeepInv
    PROVE  /\ StepOf(pc, call.op)
           /\ pc \in Ops => call.op = pc
           /\ pc \in DirSteps => call.op = "copy_dir"
  BY DEF OutInv, KeepInv, Of, StepOf

(* The history after a step: the tree before is the one it was.            *)
LEMMA HistoryKept ==
    ASSUME IsHistory(w), NEW m, NEW f
    PROVE  /\ \A x : x = [w EXCEPT !.moved = FALSE, !.made = m]
                        => x.before = w.before /\ x.quiet = w.quiet
           /\ \A x : x = [w EXCEPT !.moved = FALSE, !.injected = f]
                        => x.before = w.before /\ x.quiet = w.quiet
           /\ \A v, x : x = [w EXCEPT !.moved = v, !.quiet = f] => x.quiet = f
  <1>1. \A u, q, v, g, d, x : x = Told(u, q, v, g, d) => x.before = u /\ x.quiet = q
    BY DEF Told
  <1>2. w = Told(w.before, w.quiet, w.moved, w.injected, w.made)
    BY DEF IsHistory
  <1>3. \A v, x : x = [w EXCEPT !.moved = v, !.made = m] => x.before = w.before /\ x.quiet = w.quiet
    <2> TAKE v, x
    <2> HAVE x = [w EXCEPT !.moved = v, !.made = m]
    <2>1. x = Told(w.before, w.quiet, v, w.injected, m)
      BY <1>2 DEF Told
    <2> QED  BY <1>1, <2>1
  <1>5. \A v, x : x = [w EXCEPT !.moved = v, !.injected = f] => x.before = w.before /\ x.quiet = w.quiet
    <2> TAKE v, x
    <2> HAVE x = [w EXCEPT !.moved = v, !.injected = f]
    <2>1. x = Told(w.before, w.quiet, v, f, w.made)
      BY <1>2 DEF Told
    <2> QED  BY <1>1, <2>1
  <1>6. \A v, x : x = [w EXCEPT !.moved = v, !.quiet = f] => x.quiet = f
    <2> TAKE v, x
    <2> HAVE x = [w EXCEPT !.moved = v, !.quiet = f]
    <2>1. x = Told(w.before, f, v, w.injected, w.made)
      BY <1>2 DEF Told
    <2> QED  BY <1>1, <2>1
  <1> QED  BY <1>3, <1>5, <1>6, Zenon

(* Going on to the next step.                                              *)
LEMMA GotoOut ==
    ASSUME TreeInv, KeepInv, OutInv, NEW l, NEW tree, NEW hh, Goto(l, tree, hh), l # "idle",
           StepOf(l, call.op), l = "copy_dir.remove" => hh.err # "ok",
           w.quiet => Known(l, w.before, Reap(tree, Open(hh)), hh, Confined, a, b)
    PROVE  OutInv'
  <1>1. PICK m, t1 : m = Made(tree) /\ t1 = Reap(tree, Open(hh))
    OBVIOUS
  <1>2. /\ pc' = l /\ h' = hh /\ t' = t1 /\ call' = call /\ a' = a /\ b' = b /\ host' = host
        /\ result' = result /\ calls' = calls /\ w' = [w EXCEPT !.moved = FALSE, !.made = m]
    BY <1>1 DEF Goto, Made
  <1>3. w'.before = w.before /\ w'.quiet = w.quiet
    <2>1. PICK x : x = w'
      OBVIOUS
    <2>2. x = [w EXCEPT !.moved = FALSE, !.made = m]
      BY <1>2, <2>1
    <2>3. x.before = w.before /\ x.quiet = w.quiet
      BY <2>2, FineIs, HistoryKept, Zenon
    <2> QED  BY <2>1, <2>3
  <1>4. Confined' = Confined
    BY <1>2 DEF Confined
  <1>5. w.quiet => /\ Shape(w.before) /\ Reaped(w.before, {})
                   /\ Known(l, w.before, t1, hh, Confined, a, b)
    BY <1>1, OutIs
  <1> QED  BY <1>2, <1>3, <1>4, <1>5 DEF OutInv

(* Answering.                                                              *)
LEMMA AnswerOut ==
    ASSUME TreeInv, KeepInv, OutInv, NEW e, NEW tree, NEW S, NEW fault,
           AnswersAt(e, tree, S, fault), Shape(tree), Filled(tree),
           e = "ok" /\ w.quiet => /\ Takes(call.op, w.before, Entries(tree), Confined, a, b)
                                  /\ CopyDone(call.op, w.before, Reap(tree, {}), Confined, a, b),
           \/ e = "ok" \/ ~w.quiet \/ call.op # "rmtree"
           \/ TakesBelow(w.before, Entries(tree), Confined, a)
    PROVE  OutInv'
  <1>1. PICK m, f, t1 : m = Made(tree) /\ f = (w.injected \/ fault) /\ t1 = Reap(tree, {})
    OBVIOUS
  <1>2. /\ pc' = "idle" /\ h' = NoHandles /\ t' = t1 /\ a' = a /\ b' = b
        /\ call' = call /\ host' = host
        /\ result' = [op |-> call.op, err |-> IoErr(e), saw |-> S]
        /\ w' = [w EXCEPT !.moved = FALSE, !.injected = f, !.made = m]
    BY <1>1 DEF AnswersAt, Made
  <1>3. w'.before = w.before /\ w'.quiet = w.quiet
    <2>1. PICK x : x = w'
      OBVIOUS
    <2>2. x = [w EXCEPT !.moved = FALSE, !.injected = f, !.made = m]
      BY <1>2, <2>1
    <2>3. w = Told(w.before, w.quiet, w.moved, w.injected, w.made)
      BY FineIs DEF IsHistory
    <2>4. x = Told(w.before, w.quiet, FALSE, f, m)
      BY <2>2, <2>3 DEF Told
    <2>5. x.before = w.before /\ x.quiet = w.quiet
      BY <2>4 DEF Told
    <2> QED  BY <2>1, <2>5
  <1>4. Confined' = Confined
    BY <1>2 DEF Confined
  <1>5. Entries(t1) = Entries(tree)
    <2>1. {} \in SUBSET Ino
      OBVIOUS
    <2>2. SameNames(tree, t1)
      BY <1>1, <2>1, ReapKeeps
    <2> QED  BY <2>2, EntriesKept
  <1>6. result'.op = call.op /\ (result'.err = "ok" <=> e = "ok")
    <2>1. IoErr(e) = "ok" <=> e = "ok"
      BY DEF IoErr
    <2> QED  BY <1>2, <2>1
  <1>7. (result'.err = "ok" /\ w'.quiet) =>
           /\ Takes(result'.op, w'.before, Entries(t1), Confined, a, b)
           /\ CopyDone(result'.op, w'.before, t1, Confined, a, b)
    BY <1>1, <1>3, <1>5, <1>6
  <1>8. \A op : StepOf("idle", op)
    BY DEF StepOf, Ops, FileSteps
  <1>9. \A u, x, hh, bn, p, q : Known("idle", u, x, hh, bn, p, q)
    BY DEF Known, Untouched, Ops, Adding, CopyingFile, CopyingDir
  <1>10. w'.quiet => /\ Shape(w'.before) /\ Reaped(w'.before, {})
                     /\ Known(pc', w'.before, t', h', Confined', a', b')
    BY <1>2, <1>3, <1>9, OutIs
  <1>11. Open(h') = {} /\ StepOf(pc', call'.op)
    BY <1>2, <1>8, NoneOpen
  <1>12. PICK t2 : t2 = t'
    OBVIOUS
  <1>13. (result'.err = "ok" /\ w'.quiet) =>
           /\ Takes(result.op, w.before, Entries(t), Confined, a, b)'
           /\ CopyDone(result.op, w.before, t, Confined, a, b)'
    BY <1>2, <1>4, <1>7
  <1>14. (result'.err # "ok" /\ result'.op = "rmtree" /\ w'.quiet) =>
            TakesBelow(w.before, Entries(t), Confined, a)'
    <2>1. (result'.err # "ok" /\ result'.op = "rmtree" /\ w'.quiet) =>
             TakesBelow(w'.before, Entries(t1), Confined, a)
      BY <1>3, <1>5, <1>6
    <2> QED  BY <1>2, <1>4, <2>1
  <1> QED  BY <1>2, <1>10, <1>11, <1>13, <1>14 DEF OutInv

(* An answer that is an error says nothing.                                *)
LEMMA FailOut ==
    ASSUME TreeInv, KeepInv, OutInv, NEW e, e # "ok", NEW tree, Leave(e, tree),
           Shape(tree), Filled(tree),
           \/ ~w.quiet \/ call.op # "rmtree"
           \/ TakesBelow(w.before, Entries(tree), Confined, a)
    PROVE  OutInv'
  <1>1. PICK S, f : S = {} /\ f = FALSE
    OBVIOUS
  <1>2. AnswersAt(e, tree, S, f)
    BY <1>1 DEF Leave, Answers
  <1> QED  BY <1>2, AnswerOut

(* A call that is no removal and no copy promises only to take nothing;    *)
(* and who has taken nothing has taken nothing else.                       *)
LEMMA AddsTake ==
    ASSUME NEW op, NEW u, NEW E, Entries(u) \subseteq E, NEW bn, NEW p, NEW q
    PROVE  /\ op \notin Removals \cup Copies =>
                 Takes(op, u, E, bn, p, q) /\ \A x : CopyDone(op, u, x, bn, p, q)
           /\ TakesBelow(u, E, bn, p)
  <1>1. op \notin Removals \cup Copies =>
           Takes(op, u, E, bn, p, q) /\ \A x : CopyDone(op, u, x, bn, p, q)
    BY DEF Takes, CopyDone, Removals, Copies
  <1> QED  BY <1>1 DEF TakesBelow

(* Where a call takes no name and copies nothing.                          *)
LEMMA AddOut ==
    ASSUME TreeInv, KeepInv, OutInv, NEW e, NEW tree, NEW S, NEW fault,
           AnswersAt(e, tree, S, fault), Shape(tree), Filled(tree),
           call.op \notin Removals \cup Copies,
           w.quiet => Entries(w.before) \subseteq Entries(tree)
    PROVE  OutInv'
  BY AnswerOut, AddsTake

(* What a step before anything was changed answers: an error, or, of a     *)
(* call that is no removal and no copy, anything that kept every name.     *)
LEMMA LeftOut ==
    ASSUME TreeInv, KeepInv, OutInv, NEW e, Leave(e, t), pc \in Untouched,
           e # "ok" \/ call.op \notin Removals \cup Copies
    PROVE  OutInv'
  <1>1. PICK S, f : S = {} /\ f = FALSE
    OBVIOUS
  <1>2. AnswersAt(e, t, S, f)
    BY <1>1 DEF Leave, Answers
  <1>3. Shape(t) /\ Filled(t)
    BY KeepIs
  <1>4. w.quiet => Entries(w.before) \subseteq Entries(t)
    BY OutIs
  <1> QED  BY <1>2, <1>3, <1>4, AddsTake, FailOut, AddOut

(* Where a call is answered by a system call that only adds names.         *)
LEMMA GrownOut ==
    ASSUME TreeInv, KeepInv, OutInv, NEW r, Pass(r) \/ Tell(r), Grows(t, r.t), pc \in Untouched,
           r.err # "ok" \/ call.op \notin Removals \cup Copies
    PROVE  OutInv'
  <1>1. PICK e, x, S, f : /\ e = r.err /\ x = r.t /\ AnswersAt(e, x, S, f)
    BY DEF Pass, Tell, Leave, Answers
  <1>2. Shape(x) /\ Filled(x)
    BY <1>1, RootedIsFilled DEF Grows
  <1>3. w.quiet => Entries(w.before) \subseteq Entries(x)
    BY <1>1, OutIs, EntriesKept
  <1>4. e # "ok" \/ call.op \notin Removals \cup Copies
    BY <1>1
  <1> QED  BY <1>1, <1>2, <1>3, <1>4, AddsTake, AnswerOut, AddOut

(* Where it is answered by one that changes nothing.                       *)
LEMMA ReadOut ==
    ASSUME TreeInv, KeepInv, OutInv, NEW r, Pass(r) \/ Tell(r), Reads(t, r), pc \in Untouched,
           r.err # "ok" \/ call.op \notin Removals \cup Copies
    PROVE  OutInv'
  <1>1. PICK e, S, f : e = r.err /\ AnswersAt(e, t, S, f)
    BY DEF Pass, Tell, Leave, Answers, Reads
  <1>2. Shape(t) /\ Filled(t)
    BY KeepIs
  <1>3. w.quiet => Entries(w.before) \subseteq Entries(t)
    BY OutIs
  <1>4. e # "ok" \/ call.op \notin Removals \cup Copies
    BY <1>1
  <1> QED  BY <1>1, <1>2, <1>3, <1>4, AddsTake, AnswerOut, AddOut

(* Going on with the tree as it is: nothing is reaped.                     *)
LEMMA OnOut ==
    ASSUME TreeInv, KeepInv, OutInv, NEW l, NEW hh, Goto(l, t, hh), l # "idle", l # "copy_dir.remove",
           StepOf(l, call.op), Open(hh) \in SUBSET Ino, pc \in Untouched,
           w.quiet => Known(l, t, t, hh, Confined, a, b)
    PROVE  OutInv'
  <1>1. ASSUME w.quiet  PROVE Reap(t, Open(hh)) = t /\ w.before = t
    <2>1. t = w.before /\ Reaped(t, {}) /\ Shape(t)
      BY <1>1, OutIs
    <2>2. Reaped(t, Open(hh))
      BY <2>1 DEF Reaped
    <2> QED  BY <2>1, <2>2, ReapNone
  <1>2. w.quiet => Known(l, w.before, Reap(t, Open(hh)), hh, Confined, a, b)
    BY <1>1
  <1> QED  BY <1>2, GotoOut

(* A step that changes nothing and that the invariant says little after.   *)
LEMMA PlainOut ==
    ASSUME TreeInv, KeepInv, OutInv, NEW l \in Plain, Goto(l, t, h), StepOf(l, call.op),
           pc \in Untouched
    PROVE  OutInv'
  <1>1. l # "idle" /\ l # "copy_dir.remove"
    BY DEF Plain
  <1>2. Known(l, t, t, h, Confined, a, b)
    BY DEF Plain, Known, Adding, CopyingFile, CopyingDir
  <1>3. Open(h) \in SUBSET Ino
    BY KeepIs
  <1> QED  BY <1>1, <1>2, <1>3, OnOut

-----------------------------------------------------------------------------
(* The steps of the calls that remove nothing and copy nothing.            *)

(* At the first step of one: nothing has been changed.                     *)
LEMMA FirstOfAdding ==
    ASSUME OutInv, KeepInv, pc \in Ops, pc \notin Removals \cup Copies
    PROVE  pc \in Untouched /\ call.op \notin Removals \cup Copies
  BY OpIs DEF Untouched

(* The calls that read.                                                    *)
LEMMA ReadingOut ==
    ASSUME TreeInv, KeepInv, OutInv,
           ReadFileAt \/ StatAt \/ ReadDirAt \/ ReadlinkAt \/ OpenReadAt
    PROVE  OutInv'
  <1>1. PICK f : f = (pc = "open")
    OBVIOUS
  <1>2. /\ Reads(t, OpenRead(t, Confined, a, TRUE)) /\ Reads(t, OpenRead(t, Confined, a, f))
        /\ Reads(t, OpenDir(t, Confined, a, TRUE))
    BY FineIs, OpenReads
  <1>3. Reads(t, ReadLink(t, Confined, a))
    BY FineIs, ReadLinkReads
  <1>4. Reads(t, MetadataFollowed(t, a)) /\ Reads(t, MetadataAsNamed(t, a))
    BY FineIs, AsNamedReads
  <1>5. pc \in Untouched /\ call.op \notin Removals \cup Copies
    <2>1. pc \in {"read", "stat", "lstat", "list", "readlink", "open", "open_nofollow"}
      BY DEF ReadFileAt, StatAt, ReadDirAt, ReadlinkAt, OpenReadAt
    <2>2. pc \in Ops /\ pc \notin Removals \cup Copies
      BY <2>1 DEF Ops, Removals, Copies
    <2> QED  BY <2>2, FirstOfAdding
  <1>6. CASE ReadFileAt
    <2>1. PICK r : r = OpenRead(t, Confined, a, TRUE)
      OBVIOUS
    <2>2. Leave("IsADirectory", t) \/ Tell(r)
      BY <1>6, <2>1 DEF ReadFileAt
    <2> QED  BY <1>2, <1>5, <2>1, <2>2, LeftOut, ReadOut
  <1>7. CASE StatAt
    BY <1>4, <1>5, <1>7, ReadOut DEF StatAt
  <1>8. CASE ReadDirAt
    BY <1>2, <1>5, <1>8, ReadOut DEF ReadDirAt
  <1>9. CASE ReadlinkAt
    BY <1>3, <1>5, <1>9, ReadOut DEF ReadlinkAt
  <1>10. CASE OpenReadAt
    <2>1. Tell(OpenRead(t, Confined, a, f))
      BY <1>1, <1>10 DEF OpenReadAt
    <2> QED  BY <1>2, <1>5, <2>1, ReadOut
  <1> QED  BY <1>6, <1>7, <1>8, <1>9, <1>10

(* open_dir, which may change the directory descriptor.                    *)
LEMMA OpenDirOut ==
    ASSUME TreeInv, KeepInv, OutInv, OpenDirAt
    PROVE  OutInv'
  <1>1. PICK e, S, f : e = OpenDir(t, Confined, a, pc = "open_dir").err /\ S = {} /\ f = FALSE
    OBVIOUS
  <1>2. AnswersAt(e, t, S, f)
    BY <1>1 DEF OpenDirAt
  <1>3. pc \in Untouched /\ call.op \notin Removals \cup Copies
    <2>1. pc \in {"open_dir", "open_dir_nofollow"}
      BY DEF OpenDirAt
    <2>2. pc \in Ops /\ pc \notin Removals \cup Copies
      BY <2>1 DEF Ops, Removals, Copies
    <2> QED  BY <2>2, FirstOfAdding
  <1>4. w.quiet => Entries(w.before) \subseteq Entries(t)
    BY <1>3, OutIs
  <1> QED  BY <1>2, <1>3, <1>4, KeepIs, AddOut

(* Holding what was just opened for writing, or made.                      *)
LEMMA HeldOut ==
    ASSUME TreeInv, KeepInv, OutInv, NEW l \in {"write.data", "append.data"}, NEW r,
           r.ino \in Ino, Grows(t, r.t), pc \in Untouched,
           call.op \notin Removals \cup Copies, Goto(l, r.t, [h EXCEPT !.dst = r.ino])
    PROVE  OutInv'
  <1>1. PICK i, hh, t1 : i = r.ino /\ hh = [h EXCEPT !.dst = i] /\ t1 = r.t
    OBVIOUS
  <1>2. Open(hh) \subseteq Open(h) \cup {i}
    <2>1. IsHandles(h)
      BY FineIs
    <2>2. \A x : x = [h EXCEPT !.dst = i] => Open(x) \subseteq Open(h) \cup ({i} \ {NoIno})
      BY <2>1, HeldIs
    <2> QED  BY <1>1, <2>2, Zenon
  <1>3. Open(hh) \in SUBSET Ino
    BY <1>1, <1>2, KeepIs
  <1>4. Goto(l, t1, hh) /\ Shape(t1) /\ Filled(t1)
    BY <1>1, RootedIsFilled DEF Grows
  <1>5. PICK t2 : t2 = Reap(t1, Open(hh))
    OBVIOUS
  <1>6. SameNames(t1, t2)
    BY <1>3, <1>4, <1>5, ReapKeeps
  <1>7. w.quiet => Entries(w.before) \subseteq Entries(t2)
    <2>1. Entries(t) \subseteq Entries(t1) /\ Entries(t1) = Entries(t2)
      BY <1>1, <1>6, EntriesKept
    <2> QED  BY <2>1, OutIs
  <1>8. /\ l # "idle" /\ l # "copy_dir.remove" /\ l \notin Untouched /\ l # "rmtree.empty"
        /\ StepOf(l, call.op)
    BY DEF Untouched, Ops, StepOf, FileSteps
  <1>9. w.quiet => Known(l, w.before, t2, hh, Confined, a, b)
    BY <1>7, <1>8 DEF Known, CopyingFile, CopyingDir
  <1> QED  BY <1>4, <1>5, <1>8, <1>9, GotoOut

(* The opens for writing, which may make a file.                           *)
LEMMA WriteOut ==
    ASSUME TreeInv, KeepInv, OutInv, WriteOpen \/ OpenWriteAt
    PROVE  OutInv'
  <1>1. pc \notin Holding /\ Rooted(t)
    BY NoCopyStep, KeepIs
  <1>2. pc \in Untouched /\ call.op \notin Removals \cup Copies
    <2>1. pc \in {"write"} \cup DOMAIN WriteFlags
      BY Zenon DEF WriteOpen, OpenWriteAt
    <2>2. pc \in {"write", "open_write", "open_append", "open_new", "open_cut", "append"}
      BY <2>1 DEF WriteFlags
    <2>3. pc \in Ops /\ pc \notin Removals \cup Copies
      BY <2>2 DEF Ops, Removals, Copies
    <2> QED  BY <2>3, FirstOfAdding
  <1>3. CASE WriteOpen
    <2>1. PICK e, r : /\ e = RefuseDirectoryName(t, a)
                      /\ r = OpenWrite(t, Confined, a, {"create", "truncate"})
      OBVIOUS
    <2>2. Acts(t, r) /\ Grows(t, r.t)
      BY <1>1, <2>1, KeepIs, OpenWriteActs, OpenWriteGrows
    <2>3. \/ Leave(e, t)
          \/ Pass(r)
          \/ r.err = "ok" /\ Goto("write.data", r.t, [h EXCEPT !.dst = r.ino])
      BY <1>3, <2>1 DEF WriteOpen
    <2>4. r.err = "ok" => r.ino \in Ino
      BY <2>2 DEF Acts
    <2> QED  BY <1>2, <2>2, <2>3, <2>4, LeftOut, GrownOut, HeldOut
  <1>4. CASE OpenWriteAt
    <2>1. PICK flags : flags = WriteFlags[pc]
      OBVIOUS
    <2>2. PICK r : r = OpenWrite(t, Confined, a, flags)
      OBVIOUS
    <2>3. Acts(t, r) /\ Grows(t, r.t)
      BY <1>1, <2>2, KeepIs, OpenWriteActs, OpenWriteGrows
    <2>4. \/ \E e : Leave(e, t)
          \/ Pass(r) \/ Tell(r)
          \/ r.err = "ok" /\ Goto("append.data", r.t, [h EXCEPT !.dst = r.ino])
      BY <1>4, <2>1, <2>2 DEF OpenWriteAt
    <2>5. r.err = "ok" => r.ino \in Ino
      BY <2>3 DEF Acts
    <2> QED  BY <1>2, <2>3, <2>4, <2>5, LeftOut, GrownOut, HeldOut
  <1> QED  BY <1>3, <1>4

(* The writes, which change what a file holds.                             *)
LEMMA PutOut ==
    ASSUME TreeInv, KeepInv, OutInv, WriteData \/ AppendData
    PROVE  OutInv'
  <1>1. pc \in {"write.data", "append.data"}
    BY DEF WriteData, AppendData
  <1>2. PICK e, d, S, f : AnswersAt(e, Put(d), S, f)
    BY DEF WriteData, AppendData, Leave, Answers
  <1>3. h.dst # NoIno
    BY <1>1, FineIs DEF KindsIn, KindsAt
  <1>4. h.dst \in Ino
    BY <1>3, KeepIs DEF Open
  <1>5. PICK t1 : t1 = Put(d)
    OBVIOUS
  <1>6. Shape(t1) /\ Filled(t1) /\ SameNames(t, t1)
    <2>1. CASE Kind(t, h.dst) = "file"
      <3>1. t1 = SetData(t, h.dst, d)
        BY <1>5, <2>1 DEF Put, SetData
      <3> QED  BY <1>4, <2>1, <3>1, KeepIs, DataSame, SameKeeps
    <2>2. CASE Kind(t, h.dst) # "file"
      BY <1>5, <2>2, KeepIs DEF Put, SameNames
    <2> QED  BY <2>1, <2>2
  <1>7. w.quiet => Entries(w.before) \subseteq Entries(t1)
    <2>1. Entries(t) = Entries(t1) /\ pc \in Adding
      BY <1>1, <1>6, EntriesKept DEF Adding
    <2> QED  BY <2>1, OutIs
  <1>8. call.op \notin Removals \cup Copies
    BY <1>1, OpIs DEF StepOf
  <1> QED  BY <1>2, <1>5, <1>6, <1>7, <1>8, AddOut

(* create_dir,                                                             *)
LEMMA CreateDirOut ==
    ASSUME TreeInv, KeepInv, OutInv, CreateDirName \/ CreateDirMake
    PROVE  OutInv'
  <1>1. pc \notin Holding /\ Rooted(t) /\ IsPath(SlashesStripped(a))
    BY NoCopyStep, KeepIs, StrippedIs
  <1>2. pc \in Untouched /\ call.op \notin Removals \cup Copies
    <2>1. pc \in {"mkdir", "mkdir.make"}
      BY DEF CreateDirName, CreateDirMake
    <2>2. pc = "mkdir" => pc \in Ops /\ pc \notin Removals \cup Copies
      BY DEF Ops, Removals, Copies
    <2> QED  BY <2>1, <2>2, OpIs, FirstOfAdding DEF Untouched, StepOf
  <1>3. CASE CreateDirName
    <2>1. PICK e : e = NewDirectoryName(t, a)
      OBVIOUS
    <2>2. Goto("mkdir.make", t, h) \/ Leave(e, t)
      BY <1>3, <2>1 DEF CreateDirName
    <2>3. StepOf("mkdir.make", call.op)
      BY <1>2 DEF StepOf, Ops, FileSteps, AllSteps
    <2> QED  BY <1>2, <2>2, <2>3, LeftOut, PlainOut DEF Plain
  <1>4. CASE CreateDirMake
    <2>1. PICK r : r = Mkdir(t, Confined, SlashesStripped(a), {"owner", "others"})
      OBVIOUS
    <2>2. Grows(t, r.t)
      BY <1>1, <2>1, KeepIs, MkdirGrows
    <2>3. Pass(r)
      BY <1>4, <2>1 DEF CreateDirMake
    <2> QED  BY <1>2, <2>2, <2>3, GrownOut
  <1> QED  BY <1>3, <1>4

(* create_dir_all, each step of which takes nothing.                       *)
LEMMA CreateDirAllOut ==
    ASSUME TreeInv, KeepInv, OutInv,
           CreateDirAllThere \/ CreateDirAllName \/ CreateDirAllMake \/ CreateDirAllTaken
    PROVE  OutInv'
  <1>1. /\ pc \notin Holding /\ Rooted(t) /\ Shape(t) /\ IsPath(a) /\ IsHandles(h)
        /\ Open(h) \in SUBSET Ino
    BY NoCopyStep, KeepIs, FineIs
  <1>2. PICK x, e, l, hh : /\ x = t \/ x = Mkdir(t, Confined, h.link, {"owner", "others"}).t
                           /\ l \in AllSteps /\ Linked(hh)
                           /\ Leave(e, x) \/ Goto(l, x, hh)
    BY <1>1, MakesAre
  <1>3. pc \in {"mkdir_all"} \cup AllSteps
    BY DEF CreateDirAllThere, CreateDirAllName, CreateDirAllMake, CreateDirAllTaken, AllSteps
  <1>4. call.op \notin Removals \cup Copies
    <2>1. pc = "mkdir_all" => pc \in Ops /\ pc \notin Removals \cup Copies
      BY DEF Ops, Removals, Copies
    <2> QED  BY <1>3, <2>1, OpIs DEF StepOf, AllSteps
  <1>5. Grows(t, x)
    <2>1. PICK p, bn, m : p = h.link /\ bn = Confined /\ m = {"owner", "others"}
      OBVIOUS
    <2>2. IsPath(p)
      BY <1>1, <2>1 DEF IsHandles
    <2>3. Grows(t, Mkdir(t, bn, p, m).t)
      BY <1>1, <2>1, <2>2, KeepIs, MkdirGrows
    <2> QED  BY <1>1, <1>2, <2>1, <2>3, SameGrows
  <1>6. Shape(x) /\ Filled(x) /\ Entries(t) \subseteq Entries(x)
    BY <1>5, RootedIsFilled, EntriesKept DEF Grows
  <1>7. w.quiet => Entries(w.before) \subseteq Entries(x)
    <2>1. w.quiet => Entries(w.before) \subseteq Entries(t)
      BY <1>3, OutIs, EntriesKept DEF Untouched, Adding, Ops, AllSteps
    <2> QED  BY <1>6, <2>1
  <1>8. CASE Leave(e, x)
    <2>1. PICK S, f : S = {} /\ f = FALSE
      OBVIOUS
    <2>2. AnswersAt(e, x, S, f)
      BY <1>8, <2>1 DEF Leave, Answers
    <2> QED  BY <1>4, <1>6, <1>7, <2>2, AddOut
  <1>9. CASE Goto(l, x, hh)
    <2>1. PICK t2 : t2 = Reap(x, Open(hh))
      OBVIOUS
    <2>2. Open(hh) \in SUBSET Ino
      BY <1>1, <1>2 DEF Linked
    <2>3. Entries(x) = Entries(t2)
      BY <1>6, <2>1, <2>2, ReapKeeps, EntriesKept
    <2>4. /\ l # "idle" /\ l # "copy_dir.remove" /\ l \notin Untouched /\ l # "rmtree.empty"
          /\ l \notin {"copy_file.make", "copy_file.data", "copy_file.chmod", "copy_dir.name",
                       "copy_dir.make", "copy_dir.open", "copy_dir.chmod"}
          /\ StepOf(l, call.op)
      BY <1>2, <1>4 DEF AllSteps, Untouched, Ops, StepOf, FileSteps
    <2>5. w.quiet => Known(l, w.before, t2, hh, Confined, a, b)
      BY <1>7, <2>3, <2>4 DEF Known, CopyingFile, CopyingDir
    <2> QED  BY <1>9, <2>1, <2>4, <2>5, GotoOut
  <1> QED  BY <1>2, <1>8, <1>9

(* symlink.                                                                *)
LEMMA SymlinkOut ==
    ASSUME TreeInv, KeepInv, OutInv, SymlinkCheck \/ SymlinkMake
    PROVE  OutInv'
  <1>1. pc \notin Holding /\ Rooted(t)
    BY NoCopyStep, KeepIs
  <1>2. pc \in Untouched /\ call.op \notin Removals \cup Copies
    <2>1. pc \in {"symlink", "symlink.make"}
      BY DEF SymlinkCheck, SymlinkMake
    <2>2. pc = "symlink" => pc \in Ops /\ pc \notin Removals \cup Copies
      BY DEF Ops, Removals, Copies
    <2> QED  BY <2>1, <2>2, OpIs, FirstOfAdding DEF Untouched, StepOf
  <1>3. CASE SymlinkCheck
    <2>1. PICK e, x : e = RefuseDirectoryName(t, a) /\ x = TargetInside(t, a, b)
      OBVIOUS
    <2>2. Leave("NotFound", t) \/ Leave(e, t) \/ Leave(x, t) \/ Goto("symlink.make", t, h)
      BY <1>3, <2>1 DEF SymlinkCheck
    <2>3. StepOf("symlink.make", call.op)
      BY <1>2 DEF StepOf, Ops, FileSteps
    <2> QED  BY <1>2, <2>2, <2>3, LeftOut, PlainOut DEF Plain
  <1>4. CASE SymlinkMake
    <2>1. PICK r : r = Symlink(t, Confined, b, a)
      OBVIOUS
    <2>2. Grows(t, r.t)
      BY <1>1, <2>1, KeepIs, SymlinkGrows
    <2>3. Pass(r)
      BY <1>4, <2>1 DEF SymlinkMake
    <2> QED  BY <1>2, <2>2, <2>3, GrownOut
  <1> QED  BY <1>3, <1>4

-----------------------------------------------------------------------------
(* The removals and the moves.                                             *)

(* What each kind of call promises of the names.                           *)
LEMMA TakesIs ==
    ASSUME NEW op, NEW u, NEW E, NEW bn, NEW p, NEW q
    PROVE  /\ op \in {"unlink", "rmdir"} =>
                 (Takes(op, u, E, bn, p, q) <=> Entries(u) \ E = {EntryAt(u, bn, p)})
           /\ op = "rmtree" =>
                 (Takes(op, u, E, bn, p, q) <=>
                     Entries(u) \ E = {EntryAt(u, bn, p)} \cup
                         IF IsDir(u, EntryAt(u, bn, p)[3])
                         THEN {e \in Entries(u) : e[1] \in Below(u, EntryAt(u, bn, p)[3])} ELSE {})
           /\ op = "rename" =>
                 (Takes(op, u, E, bn, p, q) <=>
                     Entries(u) \ E \subseteq {EntryAt(u, bn, p), EntryAt(u, bn, q)})
           /\ op \notin Removals => (Takes(op, u, E, bn, p, q) <=> Entries(u) \subseteq E)
           /\ op \notin Copies => \A x : CopyDone(op, u, x, bn, p, q)
  <1>1. op \notin Copies => \A x : CopyDone(op, u, x, bn, p, q)
    BY DEF CopyDone, Copies
  <1>2. op \in {"unlink", "rmdir"} =>
           (Takes(op, u, E, bn, p, q) <=> Entries(u) \ E = {EntryAt(u, bn, p)})
    BY DEF Takes
  <1>3. op = "rename" =>
           (Takes(op, u, E, bn, p, q) <=>
               Entries(u) \ E \subseteq {EntryAt(u, bn, p), EntryAt(u, bn, q)})
    BY DEF Takes
  <1>4. op \notin Removals => (Takes(op, u, E, bn, p, q) <=> Entries(u) \subseteq E)
    BY DEF Takes, Removals
  <1>5. op = "rmtree" =>
           (Takes(op, u, E, bn, p, q) <=>
               Entries(u) \ E = {EntryAt(u, bn, p)} \cup
                   IF IsDir(u, EntryAt(u, bn, p)[3])
                   THEN {e \in Entries(u) : e[1] \in Below(u, EntryAt(u, bn, p)[3])} ELSE {})
    BY DEF Takes
  <1> QED  BY <1>1, <1>2, <1>3, <1>4, <1>5

(* The names of directories are judged before anything is done.            *)
LEMMA RemoveNameOut ==
    ASSUME TreeInv, KeepInv, OutInv, RemoveDirName \/ RemoveDirAllName
    PROVE  OutInv'
  <1>1. PICK e : e = ExistingDirectoryName(t, a)
    OBVIOUS
  <1>2. \/ pc = "rmdir" /\ Goto("rmdir.remove", t, h)
        \/ pc = "rmtree" /\ Goto("rmtree.open", t, h)
        \/ e # "ok" /\ Leave(e, t)
        \/ Leave("Unsupported", t)
    BY <1>1 DEF RemoveDirName, RemoveDirAllName
  <1>3. pc \in Untouched /\ call.op = pc
    <2>1. pc \in Ops
      BY DEF RemoveDirName, RemoveDirAllName, Ops
    <2> QED  BY <2>1, OpIs DEF Untouched
  <1>4. /\ pc = "rmdir" => StepOf("rmdir.remove", call.op)
        /\ pc = "rmtree" => StepOf("rmtree.open", call.op)
    BY <1>3 DEF StepOf, Ops, FileSteps
  <1>5. PICK f : f = "Unsupported"
    OBVIOUS
  <1>6. f # "ok"
    BY <1>5
  <1> QED  BY <1>2, <1>3, <1>4, <1>5, <1>6, LeftOut, PlainOut DEF Plain

(* unlink and remove_dir: the one entry they name goes.                    *)
LEMMA RemoveOneOut ==
    ASSUME TreeInv, KeepInv, OutInv, RemoveDirRemove \/ UnlinkAt
    PROVE  OutInv'
  <1>1. PICK p, bn : p = SlashesStripped(a) /\ bn = Confined
    OBVIOUS
  <1>2. IsPath(a) /\ IsPath(p) /\ Shape(t) /\ Filled(t) /\ EntryAt(t, bn, p) = EntryAt(t, bn, a)
    BY <1>1, KeepIs, StrippedIs, StrippedNames DEF EntryAt
  <1>3. PICK r : \/ r = Rmdir(t, bn, p) /\ Pass(r) /\ pc = "rmdir.remove"
                 \/ r = Unlink(t, bn, a) /\ Pass(r) /\ pc = "unlink"
    BY <1>1 DEF RemoveDirRemove, UnlinkAt
  <1>4. Shape(r.t) /\ Filled(r.t)
    BY <1>2, <1>3, UnlinkLoses, RmdirLoses DEF Loses
  <1>5. r.err = "ok" => Entries(t) \ Entries(r.t) = {EntryAt(t, bn, a)}
    BY <1>2, <1>3, UnlinkTakes, RmdirTakes
  <1>6. call.op \in {"unlink", "rmdir"} /\ pc \in Untouched /\ call.op # "rmtree"
    <2>1. pc = "unlink" => pc \in Ops
      BY DEF Ops
    <2> QED  BY <1>3, <2>1, OpIs DEF StepOf, Untouched
  <1>7. PICK e, x, S, f : e = r.err /\ x = r.t /\ AnswersAt(e, x, S, f)
    BY <1>3 DEF Pass, Leave, Answers
  <1>8. e = "ok" /\ w.quiet => /\ Takes(call.op, w.before, Entries(x), Confined, a, b)
                               /\ \A y : CopyDone(call.op, w.before, y, Confined, a, b)
    <2> HAVE e = "ok" /\ w.quiet
    <2>1. w.before = t
      BY <1>6, OutIs
    <2>2. call.op \notin Copies
      BY <1>6 DEF Copies
    <2> QED  BY <1>1, <1>5, <1>6, <1>7, <2>1, <2>2, TakesIs
  <1> QED  BY <1>4, <1>6, <1>7, <1>8, AnswerOut

(* rename and hard_link, after their checks.                               *)
LEMMA MoveOut ==
    ASSUME TreeInv, KeepInv, OutInv, Move
    PROVE  OutInv'
  <1>1. pc = "move" /\ pc \notin Holding /\ Rooted(t)
    BY NoCopyStep, KeepIs DEF Move
  <1>2. pc \in Untouched /\ call.op \in {"rename", "link"}
    BY <1>1, OpIs DEF Untouched, StepOf
  <1>3. PICK r, s : r = Rename(t, Confined, a, b) /\ s = HardLink(t, Confined, a, b)
    OBVIOUS
  <1>4. Shape(r.t) /\ Filled(r.t) /\ Grows(t, s.t)
    BY <1>1, <1>3, KeepIs, RenameKeeps, HardLinkGrows
  <1>5. CASE call.op = "link"
    <2>1. Pass(s)
      BY <1>3, <1>5 DEF Move
    <2>2. call.op \notin Removals \cup Copies
      BY <1>5 DEF Removals, Copies
    <2> QED  BY <1>2, <1>4, <2>1, <2>2, GrownOut
  <1>6. CASE call.op = "rename"
    <2>1. Pass(r)
      BY <1>3, <1>6 DEF Move
    <2>2. PICK e, x, S, f : e = r.err /\ x = r.t /\ AnswersAt(e, x, S, f)
      BY <2>1 DEF Pass, Leave, Answers
    <2>3. Entries(t) \ Entries(x) \subseteq {EntryAt(t, Confined, a), EntryAt(t, Confined, b)}
      BY <1>3, <2>2, KeepIs, RenameTakes
    <2>4. e = "ok" /\ w.quiet => /\ Takes(call.op, w.before, Entries(x), Confined, a, b)
                                 /\ \A y : CopyDone(call.op, w.before, y, Confined, a, b)
      <3> HAVE e = "ok" /\ w.quiet
      <3>1. w.before = t
        BY <1>2, OutIs
      <3>2. call.op \notin Copies
        BY <1>6 DEF Copies
      <3> QED  BY <1>6, <2>3, <3>1, <3>2, TakesIs
    <2>5. call.op # "rmtree"
      BY <1>6
    <2> QED  BY <1>4, <2>2, <2>4, <2>5, AnswerOut
  <1> QED  BY <1>2, <1>5, <1>6

(* The looks before a move.                                                *)
LEMMA LooksOut ==
    ASSUME TreeInv, KeepInv, OutInv, RenameAt \/ LinkAt \/ StayKind \/ StayRead \/ StayAim
    PROVE  OutInv'
  <1>1. /\ pc \in Untouched /\ call.op \in {"rename", "link"} /\ pc \notin Holding
    <2>1. pc \in {"rename", "link", "stay.kind", "stay.read", "stay.aim"}
      BY DEF RenameAt, LinkAt, StayKind, StayRead, StayAim
    <2>2. pc \in {"rename", "link"} => pc \in Ops
      BY DEF Ops
    <2> QED  BY <2>1, <2>2, OpIs, NoCopyStep DEF Untouched, StepOf
  <1>2. PICK e, r : e = RenamedSource(t, a, b) /\ r = ReadLink(t, TRUE, a)
    OBVIOUS
  <1>3. \/ \E l \in {"stay.kind", "stay.read", "move"} : Goto(l, t, h)
        \/ e # "ok" /\ Leave(e, t)
        \/ r.err # "ok" /\ Pass(r)
        \/ \E x \in {"NotADirectory", "PermissionDenied"} : Leave(x, t)
        \/ Goto("stay.aim", t, [h EXCEPT !.link = t[r.ino].to])
    <2>1. CASE RenameAt \/ LinkAt \/ StayKind \/ StayAim
      BY <1>2, <2>1 DEF RenameAt, LinkAt, StayKind, StayAim, MoveNow
    <2>2. CASE StayRead
      BY <1>2, <2>2 DEF StayRead
    <2> QED  BY <2>1, <2>2
  <1>4. \A l \in {"stay.kind", "stay.read", "stay.aim", "move"} : StepOf(l, call.op) /\ l \in Plain \cup {"stay.aim"}
    BY <1>1 DEF StepOf, Ops, FileSteps, Plain
  <1>5. ASSUME Goto("stay.aim", t, [h EXCEPT !.link = t[r.ino].to])  PROVE OutInv'
    <2>1. PICK k, hh, l : k = t[r.ino].to /\ hh = [h EXCEPT !.link = k] /\ l = "stay.aim"
      OBVIOUS
    <2>2. h = Handles(h.src, h.dst, h.mode, h.link, h.err)
      BY FineIs DEF IsHandles
    <2>3. hh = Handles(h.src, h.dst, h.mode, k, h.err)
      BY <2>1, <2>2 DEF Handles
    <2>4. hh.src = h.src /\ hh.dst = h.dst
      BY <2>3 DEF Handles
    <2>5. Open(hh) \in SUBSET Ino
      BY <2>4, KeepIs DEF Open
    <2>6. l # "idle" /\ l # "copy_dir.remove" /\ Goto(l, t, hh) /\ StepOf(l, call.op)
      BY <1>4, <1>5, <2>1
    <2>7. Known(l, t, t, hh, Confined, a, b)
      BY <2>1 DEF Known, Adding, CopyingFile, CopyingDir
    <2> QED  BY <1>1, <2>5, <2>6, <2>7, OnOut
  <1>6. ASSUME r.err # "ok", Pass(r)  PROVE OutInv'
    <2>1. PICK bn : bn = TRUE
      OBVIOUS
    <2>2. Reads(t, ReadLink(t, bn, a))
      BY FineIs, ReadLinkReads
    <2>3. Reads(t, r)
      BY <1>2, <2>1, <2>2, Zenon
    <2> QED  BY <1>1, <1>6, <2>3, ReadOut
  <1>7. ASSUME NEW x \in {"NotADirectory", "PermissionDenied"}, Leave(x, t)  PROVE OutInv'
    <2>1. x # "ok"
      OBVIOUS
    <2> QED  BY <1>1, <1>7, <2>1, LeftOut
  <1>8. ASSUME NEW l \in {"stay.kind", "stay.read", "move"}, Goto(l, t, h)  PROVE OutInv'
    <2>1. l \in Plain
      BY DEF Plain
    <2> QED  BY <1>1, <1>4, <1>8, <2>1, PlainOut
  <1> QED  BY <1>1, <1>3, <1>5, <1>6, <1>7, <1>8, LeftOut

(* Opening a directory to empty it.                                        *)
LEMMA RemoveTreeOpenOut ==
    ASSUME TreeInv, KeepInv, OutInv, RemoveTreeOpen
    PROVE  OutInv'
  <1>1. PICK p, l, e, r, bn : /\ p = SlashesStripped(a) /\ l = Named(t, Confined, p)
                              /\ e = ErrorOf(l) /\ r = Unlink(t, Confined, p) /\ bn = Confined
    OBVIOUS
  <1>2. IsPath(a) /\ IsPath(p) /\ Shape(t) /\ Filled(t) /\ pc = "rmtree.open"
    BY <1>1, KeepIs, StrippedIs DEF RemoveTreeOpen
  <1>3. Sees(t, l) /\ e # "ok" /\ l = Named(t, bn, a)
    BY <1>1, <1>2, NamedSees, StrippedNames DEF Sees, Outcomes, ErrorOf
  <1>4. pc \in Untouched /\ call.op = "rmtree"
    BY <1>2, OpIs DEF Untouched, StepOf
  <1>5. \/ Leave(e, t) \/ Leave("NotADirectory", t)
        \/ Kind(t, l.ino) = "link" /\ Pass(r)
        \/ Found(l) /\ IsDir(t, l.ino) /\ Goto("rmtree.empty", t, [h EXCEPT !.src = l.ino])
    BY <1>1 DEF RemoveTreeOpen
  <1>6. ASSUME Found(l), IsDir(t, l.ino), Goto("rmtree.empty", t, [h EXCEPT !.src = l.ino])
        PROVE  OutInv'
    <2>1. PICK i, hh, k : i = l.ino /\ hh = [h EXCEPT !.src = i] /\ k = "rmtree.empty"
      OBVIOUS
    <2>2. i \in Ino /\ IsHandles(h)
      BY <1>3, <2>1, FineIs DEF Sees
    <2>3. \A x : x = [h EXCEPT !.src = i] => x.src = i /\ Open(x) \subseteq Open(h) \cup ({i} \ {NoIno})
      BY <2>2, HeldIs
    <2>4. hh.src = i /\ Open(hh) \subseteq Open(h) \cup ({i} \ {NoIno})
      BY <2>1, <2>3, Zenon
    <2>5. Open(hh) \in SUBSET Ino
      BY <2>2, <2>4, KeepIs
    <2>6. Emptying(t, t, i, bn, a)
      BY <1>3, <1>6, <2>1, EmptyingStarts
    <2>7. Known(k, t, t, hh, Confined, a, b)
      BY <1>1, <2>1, <2>4, <2>6 DEF Known, Adding, CopyingFile, CopyingDir
    <2>8. k # "idle" /\ k # "copy_dir.remove" /\ StepOf(k, call.op) /\ Goto(k, t, hh)
      BY <1>4, <1>6, <2>1 DEF StepOf, Ops, FileSteps
    <2> QED  BY <1>4, <2>5, <2>7, <2>8, OnOut
  <1>7. ASSUME Kind(t, l.ino) = "link", Pass(r)  PROVE OutInv'
    <2>1. Shape(r.t) /\ Filled(r.t)
      BY <1>1, <1>2, UnlinkLoses DEF Loses
    <2>2. PICK er, x, S, f : er = r.err /\ x = r.t /\ AnswersAt(er, x, S, f)
      BY <1>7 DEF Pass, Leave, Answers
    <2>3. EntryAt(t, bn, p) = EntryAt(t, bn, a) /\ EntryAt(t, bn, a)[3] = l.ino
      BY <1>1, <1>2, <1>3, StrippedNames DEF EntryAt
    <2>4. er = "ok" => Entries(t) \ Entries(x) = {EntryAt(t, bn, a)}
      <3> HAVE er = "ok"
      <3>1. r = Unlink(t, bn, p) /\ r.err = "ok"
        BY <1>1, <2>2
      <3>2. Entries(t) \ Entries(r.t) = {EntryAt(t, bn, p)}
        BY <1>2, <3>1, UnlinkTakes
      <3> QED  BY <2>2, <2>3, <3>2
    <2>5. ~IsDir(t, EntryAt(t, bn, a)[3])
      BY <1>7, <2>3 DEF IsDir
    <2>6. er = "ok" /\ w.quiet => /\ Takes(call.op, w.before, Entries(x), Confined, a, b)
                                  /\ \A y : CopyDone(call.op, w.before, y, Confined, a, b)
      <3> HAVE er = "ok" /\ w.quiet
      <3>1. w.before = t
        BY <1>4, OutIs
      <3>2. call.op \notin Copies
        BY <1>4 DEF Copies
      <3>3. PICK E, c : E = Entries(x) /\ c = EntryAt(t, bn, a)
        OBVIOUS
      <3>4. Entries(t) \ E = {c} \cup
                IF IsDir(t, c[3]) THEN {y \in Entries(t) : y[1] \in Below(t, c[3])} ELSE {}
        BY <2>4, <2>5, <3>3
      <3>5. Takes(call.op, t, E, bn, a, b)
        BY <1>4, <3>3, <3>4, TakesIs
      <3> QED  BY <1>1, <3>1, <3>2, <3>3, <3>5, TakesIs
    <2>7. er = "ok" \/ ~w.quiet \/ TakesBelow(w.before, Entries(x), Confined, a)
      <3>1. er # "ok" => x = t
        BY <1>1, <2>2, TakingReverts DEF Reverts
      <3>2. w.quiet => w.before = t
        BY <1>4, OutIs
      <3> QED  BY <3>1, <3>2, AddsTake
    <2> QED  BY <2>1, <2>2, <2>6, <2>7, AnswerOut
  <1>8. PICK f : f = "NotADirectory"
    OBVIOUS
  <1>9. f # "ok"
    BY <1>8
  <1> QED  BY <1>3, <1>4, <1>5, <1>6, <1>7, <1>8, <1>9, LeftOut

(* A recursive removal takes a name from below its directory.              *)
LEMMA RemoveTreeEntryOut ==
    ASSUME TreeInv, KeepInv, OutInv, RemoveTreeEntry
    PROVE  OutInv'
  <1>1. PICK d, n : /\ d \in Below(t, h.src) /\ IsDir(t, d) /\ n \in DOMAIN Ents(t, d)
                    /\ Children(t, Ents(t, d)[n]) = {}
                    /\ Goto("rmtree.empty", Detach(t, d, n), h)
    BY DEF RemoveTreeEntry
  <1>2. h.src # NoIno /\ IsDir(t, h.src) /\ pc = "rmtree.empty"
    BY FineIs DEF KindsIn, KindsAt, RemoveTreeEntry
  <1>3. h.src \in Ino /\ Open(h) \in SUBSET Ino
    BY <1>2, FineIs, KeepIs DEF OpenIn, Open
  <1>4. d \in Ino
    BY <1>1, <1>3, FineIs, BelowIs
  <1>5. PICK t1, t2, j, k, bn : /\ t1 = Detach(t, d, n) /\ j = Ents(t, d)[n] /\ k = "rmtree.empty"
                                /\ t2 = Reap(t1, Open(h)) /\ bn = Confined
    OBVIOUS
  <1>6. Has(t, d, n, j) /\ \A m, i : ~Has(t, j, m, i)
    <2>1. ASSUME NEW m, NEW i, Has(t, j, m, i)  PROVE FALSE
      <3>1. i \in Children(t, j)
        BY <2>1 DEF Has, Children, Range
      <3> QED  BY <1>1, <1>5, <3>1
    <2> QED  BY <1>1, <1>4, <1>5, <2>1 DEF Has
  <1>7. ASSUME w.quiet  PROVE Known(k, w.before, t2, h, Confined, a, b)
    <2>1. Shape(w.before) /\ Emptying(w.before, t, h.src, bn, a)
      BY <1>2, <1>5, <1>7, OutIs DEF Known
    <2>2. PICK u, i, open : u = w.before /\ i = h.src /\ open = Open(h)
      OBVIOUS
    <2>3. Emptying(u, t2, i, bn, a)
      BY <1>1, <1>3, <1>5, <1>6, <2>1, <2>2, KeepIs, EmptyingGoesOn
    <2> QED  BY <1>5, <2>2, <2>3 DEF Known, Untouched, Ops, Adding, CopyingFile, CopyingDir
  <1>8. k # "idle" /\ k # "copy_dir.remove" /\ StepOf(k, call.op) /\ Goto(k, t1, h)
    BY <1>1, <1>2, <1>5, OpIs DEF StepOf, Ops, FileSteps
  <1> QED  BY <1>5, <1>7, <1>8, GotoOut

(* When it is empty, what has gone is what was below it, and now its name. *)
LEMMA EmptiedTakes ==
    ASSUME NEW u, Shape(u), NEW t0, Shape(t0), NEW i \in Ino, NEW bn, NEW p, IsPath(p),
           Emptying(u, t0, i, bn, p), Children(t0, i) = {},
           NEW r, r = Rmdir(t0, bn, SlashesStripped(p)), r.err = "ok"
    PROVE  Entries(u) \ Entries(r.t)
              = {EntryAt(u, bn, p)} \cup {e \in Entries(u) : e[1] \in Below(u, EntryAt(u, bn, p)[3])}
  <1>1. PICK q : q = SlashesStripped(p)
    OBVIOUS
  <1>2. IsPath(q) /\ Named(t0, bn, q) = Named(t0, bn, p)
    BY <1>1, StrippedIs, StrippedNames
  <1>3. /\ Found(Named(t0, bn, q)) /\ Entries(t0) \ Entries(r.t) = {EntryAt(t0, bn, q)}
        /\ Entries(r.t) \subseteq Entries(t0)
    BY <1>1, <1>2, RmdirTakes
  <1>4. Extends(t0, u) /\ EntryAt(u, bn, p)[3] = i
    BY DEF Emptying
  <1>5. Named(u, bn, p) = Named(t0, bn, p)
    BY <1>2, <1>3, <1>4, NamedAgain
  <1>6. PICK c : c = EntryAt(u, bn, p) /\ c = EntryAt(t0, bn, q)
    BY <1>2, <1>5 DEF EntryAt
  <1>7. Entries(t0) \subseteq Entries(u)
    BY <1>4 DEF Extends
  <1>8. \A e \in Entries(u) : e \in Entries(t0) <=> e[1] \notin Below(u, i)
    <2>1. ASSUME NEW e \in Entries(u)  PROVE e \in Entries(t0) <=> e[1] \notin Below(u, i)
      <3>1. e = <<e[1], e[2], e[3]>> /\ Has(u, e[1], e[2], e[3])
        BY <2>1, EntriesAre
      <3>2. Has(t0, e[1], e[2], e[3]) <=> e[1] \notin Below(u, i)
        BY <3>1, EmptyingEnds
      <3> QED  BY <3>1, <3>2, EntriesAre
    <2> QED  BY <2>1
  <1> QED  BY <1>3, <1>4, <1>6, <1>7, <1>8

(* Before that, it has taken nothing but what is below,                    *)
LEMMA EmptyingTakes ==
    ASSUME NEW u, Shape(u), NEW t0, Shape(t0), NEW i, NEW bn, NEW p, Emptying(u, t0, i, bn, p)
    PROVE  TakesBelow(u, Entries(t0), bn, p)
  <1>1. EntryAt(u, bn, p)[3] = i
    BY DEF Emptying
  <1>2. ASSUME NEW e \in Entries(u), e \notin Entries(t0)  PROVE e[1] \in Below(u, i)
    <2>1. e = <<e[1], e[2], e[3]>> /\ Has(u, e[1], e[2], e[3])
      BY <1>2, EntriesAre
    <2>2. ~Has(t0, e[1], e[2], e[3])
      BY <1>2, <2>1, EntriesAre
    <2> QED  BY <2>1, <2>2 DEF Emptying
  <1> QED  BY <1>1, <1>2 DEF TakesBelow

(* and so when it is stopped.                                              *)
LEMMA RemoveTreeFailsOut ==
    ASSUME TreeInv, KeepInv, OutInv, RemoveTreeFails
    PROVE  OutInv'
  <1>1. PICK e, S, f : /\ e = "PermissionDenied" /\ S = {} /\ f = TRUE
                       /\ AnswersAt(e, t, S, f)
    BY DEF RemoveTreeFails, Answers
  <1>2. e # "ok" /\ Shape(t) /\ Filled(t)
    BY <1>1, KeepIs
  <1>3. w.quiet => TakesBelow(w.before, Entries(t), Confined, a)
    <2> HAVE w.quiet
    <2>1. Shape(w.before) /\ Emptying(w.before, t, h.src, Confined, a)
      BY OutIs DEF Known, RemoveTreeFails
    <2> QED  BY <1>2, <2>1, EmptyingTakes
  <1> QED  BY <1>1, <1>2, <1>3, AnswerOut

(* It takes the name it was given when nothing is left below.              *)
LEMMA RemoveTreeLastOut ==
    ASSUME TreeInv, KeepInv, OutInv, RemoveTreeLast
    PROVE  OutInv'
  <1>1. PICK bn, p, r, i : /\ bn = Confined /\ p = SlashesStripped(a) /\ r = Rmdir(t, bn, p)
                           /\ i = h.src
    OBVIOUS
  <1>2. Pass(r) /\ Children(t, i) = {} /\ pc = "rmtree.empty" /\ call.op = "rmtree"
    BY <1>1, OpIs DEF RemoveTreeLast, StepOf
  <1>3. IsPath(a) /\ IsPath(p) /\ Shape(t) /\ Filled(t)
    BY <1>1, KeepIs, StrippedIs
  <1>4. i \in Ino
    BY <1>1, <1>2, FineIs DEF KindsIn, KindsAt, OpenIn, Open
  <1>5. Shape(r.t) /\ Filled(r.t)
    BY <1>1, <1>3, RmdirLoses DEF Loses
  <1>6. PICK er, x, S, f : er = r.err /\ x = r.t /\ AnswersAt(er, x, S, f)
    BY <1>2 DEF Pass, Leave, Answers
  <1>7. er = "ok" /\ w.quiet => /\ Takes(call.op, w.before, Entries(x), Confined, a, b)
                                /\ \A y : CopyDone(call.op, w.before, y, Confined, a, b)
    <2> HAVE er = "ok" /\ w.quiet
    <2>1. PICK u, c, E : u = w.before /\ c = EntryAt(u, bn, a) /\ E = Entries(x)
      OBVIOUS
    <2>2. Shape(u) /\ Emptying(u, t, i, bn, a)
      BY <1>1, <1>2, <2>1, OutIs DEF Known
    <2>3. Entries(u) \ E = {c} \cup {e \in Entries(u) : e[1] \in Below(u, c[3])}
      BY <1>1, <1>2, <1>3, <1>4, <1>6, <2>1, <2>2, EmptiedTakes
    <2>4. IsDir(u, c[3])
      BY <2>1, <2>2 DEF Emptying
    <2>5. Entries(u) \ E = {c} \cup
              IF IsDir(u, c[3]) THEN {e \in Entries(u) : e[1] \in Below(u, c[3])} ELSE {}
      BY <2>3, <2>4
    <2>6. Takes(call.op, u, E, bn, a, b)
      BY <1>2, <2>1, <2>5, TakesIs
    <2>7. call.op \notin Copies
      BY <1>2 DEF Copies
    <2> QED  BY <1>1, <2>1, <2>6, <2>7, TakesIs
  <1>8. er = "ok" \/ ~w.quiet \/ TakesBelow(w.before, Entries(x), Confined, a)
    <2>1. er # "ok" => x = t
      BY <1>1, <1>6, TakingReverts DEF Reverts
    <2>2. w.quiet => Shape(w.before) /\ Emptying(w.before, t, i, Confined, a)
      BY <1>1, <1>2, OutIs DEF Known
    <2> QED  BY <1>3, <2>1, <2>2, EmptyingTakes
  <1> QED  BY <1>5, <1>6, <1>7, <1>8, AnswerOut

-----------------------------------------------------------------------------
(* The copies.                                                             *)

(* What a copy opened or looked at is what its name leads to.              *)
LEMMA OpenedIs ==
    ASSUME NEW t0, Shape(t0), NEW p, IsPath(p), NEW bn, NEW f
    PROVE  /\ OpenRead(t0, bn, p, f).err = "ok" => OpenRead(t0, bn, p, f).ino = Look(t0, bn, p, f).ino
           /\ OpenDir(t0, bn, p, f).err = "ok" => OpenDir(t0, bn, p, f).ino = Look(t0, bn, p, f).ino
  <1> DEFINE l == Look(t0, bn, p, f)
             q == Answer(t0, l)
             r == OpenRead(t0, bn, p, f)
             d == OpenDir(t0, bn, p, f)
  <1>1. l.is # "ok"
    BY LookSees DEF Sees, Outcomes
  <1>2. r \in {q, Fail("FilesystemLoop", t0), Fail("PermissionDenied", t0)}
    BY DEF OpenRead
  <1>3. d \in {r, Fail("NotADirectory", t0)}
    BY DEF OpenDir
  <1>4. \A e : Fail(e, t0).err = e
    BY DEF Fail, Ans
  <1> HIDE DEF l, r, d
  <1>5. q.err = "ok" => q.ino = l.ino
    <2>1. q = (IF Found(l) THEN Ans("ok", t0, l.ino) ELSE Fail(ErrorOf(l), t0))
      BY DEF Answer
    <2>2. ErrorOf(l) # "ok"
      BY <1>1 DEF ErrorOf
    <2>3. Ans("ok", t0, l.ino).ino = l.ino
      BY DEF Ans
    <2> HIDE DEF q
    <2> QED  BY <1>4, <2>1, <2>2, <2>3
  <1> HIDE DEF q
  <1>6. (r.err = "ok" => r.ino = l.ino) /\ (d.err = "ok" => d.ino = l.ino)
    BY <1>2, <1>3, <1>4, <1>5
  <1> QED  BY <1>6 DEF l, r, d

(* What copy_dir asks the kind and the mode of is what its path leads to.  *)
LEMMA LookedIs ==
    ASSUME NEW t0, Shape(t0), NEW p, IsPath(p), NEW r, r = MetadataAsNamed(t0, p), r.err = "ok"
    PROVE  r.ino = Look(t0, Confined, p, FALSE).ino
  <1>1. \A e : Fail(e, t0).err = e
    BY DEF Fail, Ans
  <1>2. ASSUME NEW bn, NEW f, r = Answer(t0, Look(t0, bn, p, f))  PROVE r.ino = Look(t0, bn, p, f).ino
    <2>1. PICK l : l = Look(t0, bn, p, f)
      OBVIOUS
    <2>2. l.is # "ok"
      BY <2>1, LookSees DEF Sees, Outcomes
    <2>3. ErrorOf(l) # "ok"
      BY <2>2 DEF ErrorOf
    <2>4. r = IF Found(l) THEN Ans("ok", t0, l.ino) ELSE Fail(ErrorOf(l), t0)
      BY <1>2, <2>1 DEF Answer
    <2>5. r = Ans("ok", t0, l.ino)
      BY <1>1, <2>3, <2>4
    <2> QED  BY <2>1, <2>5 DEF Ans
  <1>3. CASE Confined /\ NamesDirectory(p)
    <2>1. PICK bn : bn = TRUE
      OBVIOUS
    <2>2. r = Answer(t0, Look(t0, bn, p, TRUE))
      BY <1>3, <2>1, Zenon DEF MetadataAsNamed, Stat
    <2>3. r.ino = Look(t0, bn, p, TRUE).ino
      BY <1>2, <2>2
    <2>4. Look(t0, bn, p, TRUE) = Look(t0, bn, p, FALSE)
      <3>1. p.tail # ""
        BY <1>3 DEF NamesDirectory
      <3>2. (TRUE \/ p.tail # "") = TRUE /\ (FALSE \/ p.tail # "") = TRUE
        BY <3>1
      <3> QED  BY <3>2 DEF Look
    <2>5. Confined = bn
      <3>1. Confined \in BOOLEAN
        BY <1>3, <2>1
      <3> QED  BY <1>3, <2>1, <3>1
    <2> QED  BY <2>3, <2>4, <2>5
  <1>4. CASE ~(Confined /\ NamesDirectory(p))
    <2>1. r = Lstat(t0, Confined, p)
      BY <1>4, Zenon DEF MetadataAsNamed
    <2>2. r = Fail("NotADirectory", t0) \/ r = Answer(t0, Look(t0, Confined, p, FALSE))
      BY <2>1, Zenon DEF Lstat
    <2>3. r # Fail("NotADirectory", t0)
      BY DEF Fail, Ans
    <2>4. r = Answer(t0, Look(t0, Confined, p, FALSE))
      BY <2>2, <2>3, Zenon
    <2> QED  BY <1>2, <2>4
  <1> QED  BY <1>3, <1>4

(* A step that was made to fail goes on to clear up.                       *)
LEMMA InjectedOut ==
    ASSUME TreeInv, KeepInv, OutInv, NEW l \in {"copy_file.same", "copy_dir.remove"}, pc' = l, Injected,
           l = "copy_dir.remove" => h'.err # "ok", StepOf(l, call.op),
           UNCHANGED <<call, host, a, b, result, calls>>
    PROVE  OutInv'
  <1>1. w'.before = w.before /\ w'.quiet = w.quiet
    <2>1. PICK f, x : f = TRUE /\ x = w'
      OBVIOUS
    <2>2. x = [w EXCEPT !.moved = FALSE, !.injected = f]
      BY <2>1 DEF Injected
    <2>3. IsHistory(w)
      BY FineIs
    <2>4. \A y : y = [w EXCEPT !.moved = FALSE, !.injected = f]
                    => y.before = w.before /\ y.quiet = w.quiet
      BY <2>3, HistoryKept
    <2> QED  BY <2>1, <2>2, <2>4, Zenon
  <1>2. \A u, x, hh, bn, p, q : Known(l, u, x, hh, bn, p, q)
    BY DEF Known, Untouched, Ops, Adding, CopyingFile, CopyingDir
  <1>3. w'.quiet => /\ Shape(w'.before) /\ Reaped(w'.before, {})
                    /\ Known(pc', w'.before, t', h', Confined', a', b')
    BY <1>1, <1>2, OutIs
  <1>4. pc' # "idle"
    OBVIOUS
  <1> QED  BY <1>3, <1>4 DEF OutInv

(* copy_file opens its source.                                             *)
LEMMA CopyFileOpenOut ==
    ASSUME TreeInv, KeepInv, OutInv, CopyFileOpen
    PROVE  OutInv'
  <1>1. PICK e, r : e = RefuseDirectoryName(t, b) /\ r = OpenRead(t, Confined, a, TRUE)
    OBVIOUS
  <1>2. Reads(t, r) /\ pc = "copy_file" /\ (r.err = "ok" => r.ino = Look(t, Confined, a, TRUE).ino)
    BY <1>1, FineIs, OpenReads, OpenedIs DEF CopyFileOpen
  <1>3. pc \in Untouched /\ call.op = "copy_file"
    BY <1>2, OpIs DEF Untouched, Ops
  <1>4. PICK m : m = CopyMode(t[r.ino].mode)
    OBVIOUS
  <1>5. \/ e # "ok" /\ Leave(e, t)
        \/ r.err # "ok" /\ Pass(r)
        \/ \E x \in {"IsADirectory", "InvalidInput"} : Leave(x, t)
        \/ /\ r.err = "ok" /\ Kind(t, r.ino) = "file"
           /\ Goto("copy_file.make", t, [h EXCEPT !.src = r.ino, !.mode = m])
    BY <1>1, <1>4 DEF CopyFileOpen
  <1>6. ASSUME r.err = "ok", Kind(t, r.ino) = "file",
               Goto("copy_file.make", t, [h EXCEPT !.src = r.ino, !.mode = m])
        PROVE  OutInv'
    <2>1. PICK i, hh, l : /\ i = r.ino /\ hh = [h EXCEPT !.src = i, !.mode = m]
                          /\ l = "copy_file.make"
      OBVIOUS
    <2>2. h = Handles(h.src, h.dst, h.mode, h.link, h.err)
      BY FineIs DEF IsHandles
    <2>3. hh = Handles(i, h.dst, m, h.link, h.err)
      BY <2>1, <2>2 DEF Handles
    <2>4. hh.src = i /\ hh.dst = h.dst /\ hh.mode = m
      BY <2>3 DEF Handles
    <2>5. Open(hh) \subseteq Open(h) \cup {i} /\ i \in Ino
      BY <1>2, <1>6, <2>1, <2>4 DEF Open, Reads, Acts
    <2>6. Open(hh) \in SUBSET Ino
      BY <2>5, KeepIs
    <2>7. FileRead(t, hh, Confined, a)
      BY <1>2, <1>4, <1>6, <2>1, <2>4 DEF FileRead
    <2>8. Known(l, t, t, hh, Confined, a, b)
      BY <2>1, <2>7 DEF Known, Adding, CopyingFile, CopyingDir
    <2>9. l # "idle" /\ l # "copy_dir.remove" /\ StepOf(l, call.op) /\ Goto(l, t, hh)
      BY <1>3, <1>6, <2>1 DEF StepOf, Ops, FileSteps
    <2> QED  BY <1>3, <2>6, <2>8, <2>9, OnOut
  <1>7. ASSUME NEW x \in {"IsADirectory", "InvalidInput"}, Leave(x, t)  PROVE OutInv'
    <2>1. x # "ok"
      OBVIOUS
    <2> QED  BY <1>3, <1>7, <2>1, LeftOut
  <1> QED  BY <1>2, <1>3, <1>5, <1>6, <1>7, LeftOut, ReadOut

(* It makes its destination.                                               *)
LEMMA CopyFileMakeOut ==
    ASSUME TreeInv, KeepInv, OutInv, CopyFileMake
    PROVE  OutInv'
  <1>1. PICK m, r, e, bn : /\ m = h.mode /\ bn = Confined /\ r = CreateNew(t, bn, b, m)
                           /\ e = IF Confined /\ r.err = "IsADirectory" THEN "AlreadyExists" ELSE r.err
    OBVIOUS
  <1>2. \/ r.err = "ok" /\ Goto("copy_file.data", r.t, [h EXCEPT !.dst = r.ino])
        \/ e # "ok" /\ Leave(e, t)
    BY <1>1 DEF CopyFileMake
  <1>3. pc = "copy_file.make" /\ pc \in Untouched /\ call.op = "copy_file" /\ Rooted(t)
    <2>1. pc = "copy_file.make" /\ pc \notin Holding
      BY DEF CopyFileMake, Holding
    <2> QED  BY <2>1, OpIs, KeepIs DEF Untouched, StepOf
  <1>4. ASSUME r.err = "ok", Goto("copy_file.data", r.t, [h EXCEPT !.dst = r.ino])  PROVE OutInv'
    <2>1. PICK i, hh, t1, l, t2 : /\ i = r.ino /\ hh = [h EXCEPT !.dst = i] /\ t1 = r.t
                                  /\ l = "copy_file.data" /\ t2 = Reap(t1, Open(hh))
      OBVIOUS
    <2>2. h = Handles(h.src, h.dst, h.mode, h.link, h.err)
      BY FineIs DEF IsHandles
    <2>3. hh = Handles(h.src, i, h.mode, h.link, h.err)
      BY <2>1, <2>2 DEF Handles
    <2>4. hh.src = h.src /\ hh.dst = i /\ hh.mode = h.mode
      BY <2>3 DEF Handles
    <2>5. MadeAs(t, t1, i, bn, b) /\ t1[i] = FileNode("empty", m \ Umask)
      <3>1. Shape(t) /\ IsPath(b)
        BY KeepIs
      <3>2. MadeAs(t, r.t, r.ino, bn, b) /\ r.t[r.ino] = FileNode("empty", m \ Umask)
        <4>1. r = CreateNew(t, bn, b, m) /\ r.err = "ok"
          BY <1>1, <1>4
        <4>2. MadeAs(t, r.t, r.ino, bn, b)
          BY <3>1, <4>1, CreateNewMakes
        <4>3. r.t[r.ino] = FileNode("empty", m \ Umask)
          BY <3>1, <4>1, CreateNewMakes
        <4> QED  BY <4>2, <4>3
      <3> QED  BY <2>1, <3>2
    <2>6. Shape(t1) /\ Filled(t1)
      BY <1>1, <1>3, <2>1, KeepIs, CreateNewGrows, RootedIsFilled DEF Grows
    <2>7. i \in Ino /\ Kind(t1, i) = "file"
      BY <2>5 DEF MadeAs, FileNode, Kind
    <2>8. Open(hh) \in SUBSET Ino
      BY <2>4, <2>7, KeepIs DEF Open
    <2>9. w.quiet => Known(l, w.before, t2, hh, Confined, a, b)
      <3> HAVE w.quiet
      <3>1. w.before = t /\ Reaped(t, {}) /\ Known(pc, t, t, h, bn, a, b)
        BY <1>1, <1>3, OutIs
      <3>2. PICK open : open = Open(hh)
        OBVIOUS
      <3>3. MadeAs(t, t2, i, bn, b) /\ t2[i] = t1[i]
        BY <2>1, <2>5, <2>6, <2>8, <3>1, <3>2, KeepIs, MadeReap
      <3>4. Kind(t2, i) = "file"
        BY <2>7, <3>3 DEF Kind
      <3>5. FileRead(t, hh, bn, a)
        BY <1>3, <2>4, <3>1 DEF Known, CopyingFile, FileRead
      <3>6. Entries(t) \subseteq Entries(t2)
        BY <3>3 DEF MadeAs, Extends
      <3> QED  BY <1>1, <2>1, <2>4, <3>1, <3>3, <3>4, <3>5, <3>6
            DEF Known, Untouched, Ops, CopyingFile, CopyingDir
    <2>10. l # "idle" /\ l # "copy_dir.remove" /\ StepOf(l, call.op) /\ Goto(l, t1, hh)
      BY <1>3, <1>4, <2>1 DEF StepOf, Ops, FileSteps
    <2> QED  BY <2>1, <2>9, <2>10, GotoOut
  <1> QED  BY <1>2, <1>3, <1>4, LeftOut

(* What a step after the making finds of the source, and of the copy.      *)
LEMMA FileCopyIs ==
    ASSUME TreeInv, KeepInv, OutInv, w.quiet, pc \in {"copy_file.data", "copy_file.chmod"}
    PROVE  /\ FileRead(w.before, h, Confined, a) /\ h.src \in Ino
           /\ MadeAs(w.before, t, h.dst, Confined, b)
           /\ Kind(t, h.dst) = "file" /\ h.dst \in Ino /\ h.src # h.dst
           /\ t[h.src] = w.before[h.src]
           /\ pc = "copy_file.chmod" => t[h.dst].data = w.before[h.src].data
  <1>1. /\ FileRead(w.before, h, Confined, a)
        /\ MadeAs(w.before, t, h.dst, Confined, b) /\ Kind(t, h.dst) = "file"
        /\ pc = "copy_file.chmod" => t[h.dst].data = w.before[h.src].data
    BY OutIs DEF Known, CopyingFile
  <1>2. h.src \in Ino
    BY FineIs DEF KindsIn, KindsAt, OpenIn, Open
  <1>3. /\ h.dst \in Ino /\ w.before[h.dst] = Free /\ Extends(w.before, t)
        /\ Kind(w.before, h.src) = "file"
    BY <1>1 DEF MadeAs, FileRead
  <1>4. Free.kind # "file"
    BY DEF Free
  <1>5. w.before[h.src] # Free /\ h.src # h.dst
    BY <1>3, <1>4 DEF Kind
  <1>6. t[h.src] = w.before[h.src]
    BY <1>2, <1>3, <1>5, ExtendsIs DEF Kind
  <1> QED  BY <1>1, <1>2, <1>3, <1>5, <1>6

(* It writes what the source holds, or fails.                              *)
LEMMA CopyFileDataOut ==
    ASSUME TreeInv, KeepInv, OutInv, CopyFileData
    PROVE  OutInv'
  <1>1. h.dst # NoIno /\ Kind(t, h.dst) = "file" /\ pc = "copy_file.data"
    BY FineIs DEF KindsIn, KindsAt, CopyFileData
  <1>2. h.dst \in Ino /\ call.op = "copy_file" /\ Open(h) \in SUBSET Ino
    BY <1>1, FineIs, KeepIs, OpIs DEF OpenIn, Open, StepOf, FileSteps
  <1>3. PICK d, i, t1, t2, l, open : /\ d = t[h.src].data /\ i = h.dst /\ t1 = SetData(t, i, d)
                                     /\ l = "copy_file.chmod"
                                     /\ open = Open(h) /\ t2 = Reap(t1, open)
    OBVIOUS
  <1>4. Goto(l, t1, h) \/ CopyFails
    BY <1>3 DEF CopyFileData, SetData
  <1>5. CASE Goto(l, t1, h)
    <2>1. /\ SameNames(t, t1) /\ Shape(t1) /\ Filled(t1)
          /\ t1[i] = FileNode(d, t[i].mode) /\ \A j \in Ino \ {i} : t1[j] = t[j]
      BY <1>1, <1>2, <1>3, KeepIs, DataSame, DataMade, SameKeeps
    <2>2. ASSUME w.quiet  PROVE Known(l, w.before, t2, h, Confined, a, b)
      <3>1. PICK u, bn : u = w.before /\ bn = Confined
        OBVIOUS
      <3>2. FileRead(u, h, bn, a) /\ MadeAs(u, t, i, bn, b) /\ t[h.src] = u[h.src] /\ Shape(u) /\ Reaped(u, {})
        BY <1>1, <1>3, <2>2, <3>1, FileCopyIs, OutIs
      <3>3. MadeAs(u, t1, i, bn, b)
        BY <2>1, <3>2, MadeNode
      <3>4. MadeAs(u, t2, i, bn, b) /\ t2[i] = t1[i]
        BY <1>2, <1>3, <2>1, <3>2, <3>3, MadeReap
      <3>5. Kind(t2, i) = "file" /\ t2[i].data = u[h.src].data
        BY <1>3, <2>1, <3>2, <3>4 DEF FileNode, Kind
      <3>6. Entries(u) \subseteq Entries(t2)
        BY <3>4 DEF MadeAs, Extends
      <3> QED  BY <1>3, <3>1, <3>2, <3>4, <3>5, <3>6
            DEF Known, Untouched, Ops, CopyingFile, CopyingDir
    <2>3. l # "idle" /\ l # "copy_dir.remove" /\ StepOf(l, call.op)
      BY <1>2, <1>3 DEF StepOf, Ops, FileSteps
    <2> QED  BY <1>3, <1>5, <2>2, <2>3, GotoOut
  <1>6. CASE CopyFails
    <2>1. PICK k : k = "copy_file.same"
      OBVIOUS
    <2>2. /\ pc' = k /\ Injected /\ UNCHANGED <<call, host, a, b, result, calls>>
          /\ k \in {"copy_file.same", "copy_dir.remove"}
      BY <1>6, <2>1 DEF CopyFails
    <2>3. k # "copy_dir.remove" /\ StepOf(k, call.op)
      BY <1>2, <2>1 DEF StepOf, Ops, FileSteps
    <2> QED  BY <2>2, <2>3, InjectedOut
  <1> QED  BY <1>4, <1>5, <1>6

(* The last step of a file's copy that succeeds.                           *)
LEMMA FileCopyEnds ==
    ASSUME NEW u, Shape(u), Reaped(u, {}), NEW t0, Shape(t0), Filled(t0), NEW hh, NEW bn,
           NEW p, IsPath(p), NEW q, IsPath(q), FileRead(u, hh, bn, p), hh.src \in Ino,
           MadeAs(u, t0, hh.dst, bn, q), Kind(t0, hh.dst) = "file",
           t0[hh.dst].data = u[hh.src].data, NEW t1, t1 = SetMode(t0, hh.dst, hh.mode)
    PROVE  FileCopied(u, Reap(t1, {}), bn, p, q) /\ Entries(u) \subseteq Entries(t1)
  <1>1. PICK i, m, t2, open : i = hh.dst /\ m = hh.mode /\ open = {} /\ t2 = Reap(t1, open)
    OBVIOUS
  <1>2. i \in Ino /\ u[i] = Free /\ open \in SUBSET Ino
    BY <1>1 DEF MadeAs
  <1>3. /\ SameNames(t0, t1) /\ Shape(t1) /\ Filled(t1)
        /\ t1[i] = FileNode(t0[i].data, m) /\ \A j \in Ino \ {i} : t1[j] = t0[j]
    BY <1>1, <1>2, ModeSame, ModeMade, SameKeeps DEF Kind
  <1>4. MadeAs(u, t1, i, bn, q)
    BY <1>1, <1>3, MadeNode
  <1>5. MadeAs(u, t2, i, bn, q) /\ t2[i] = t1[i] /\ Shape(t2)
    BY <1>1, <1>2, <1>3, <1>4, MadeReap, ReapTurns
  <1>6. Kind(t2, i) # "link"
    BY <1>3, <1>5 DEF FileNode, Kind
  <1>7. Named(t2, bn, q).ino = i
    BY <1>5, <1>6, MadeLeads
  <1>8. EntryAt(t2, bn, q)[3] = i
    BY <1>7 DEF EntryAt
  <1>9. PICK j : j = hh.src /\ j = Look(u, bn, p, TRUE).ino /\ m = CopyMode(u[j].mode) /\ Kind(u, j) = "file"
    BY <1>1 DEF FileRead
  <1>10. t2[j] = u[j]
    <2>1. Extends(u, t2)
      BY <1>5 DEF MadeAs
    <2>2. u[j].kind = "file" /\ u[j] # Free
      <3>1. Free.kind # "file"
        BY DEF Free
      <3> QED  BY <1>9, <3>1 DEF Kind
    <2>3. j \in Ino /\ u[j].kind # "dir"
      BY <1>9, <2>2
    <2> QED  BY <2>1, <2>2, <2>3, ExtendsIs
  <1>11. t2[i] = FileNode(u[j].data, u[j].mode \ {"special"})
    BY <1>1, <1>3, <1>5, <1>9 DEF CopyMode
  <1>12. FileCopied(u, t2, bn, p, q)
    BY <1>8, <1>9, <1>10, <1>11 DEF FileCopied
  <1>13. Entries(u) \subseteq Entries(t1)
    BY <1>4 DEF MadeAs, Extends
  <1> QED  BY <1>1, <1>12, <1>13

(* It sets the mode, or fails; then it is done.                            *)
LEMMA CopyFileChmodOut ==
    ASSUME TreeInv, KeepInv, OutInv, CopyFileChmod
    PROVE  OutInv'
  <1>1. h.dst # NoIno /\ Kind(t, h.dst) = "file" /\ pc = "copy_file.chmod"
    BY FineIs DEF KindsIn, KindsAt, CopyFileChmod
  <1>2. h.dst \in Ino /\ call.op = "copy_file"
    BY <1>1, FineIs, OpIs DEF OpenIn, Open, StepOf, FileSteps
  <1>3. PICK t1, S, e, f : t1 = SetMode(t, h.dst, h.mode) /\ S = {h.src} /\ e = "ok" /\ f = FALSE
    OBVIOUS
  <1>4. AnswersAt(e, t1, S, f) \/ CopyFails
    BY <1>3 DEF CopyFileChmod, SetMode, Answers
  <1>5. CASE AnswersAt(e, t1, S, f)
    <2>1. Shape(t1) /\ Filled(t1)
      BY <1>1, <1>2, <1>3, KeepIs, ModeSame, SameKeeps
    <2>2. w.quiet => /\ Takes(call.op, w.before, Entries(t1), Confined, a, b)
                     /\ CopyDone(call.op, w.before, Reap(t1, {}), Confined, a, b)
      <3> HAVE w.quiet
      <3>1. PICK u, bn, t2 : u = w.before /\ bn = Confined /\ t2 = Reap(t1, {})
        OBVIOUS
      <3>2. /\ FileRead(u, h, bn, a) /\ h.src \in Ino /\ MadeAs(u, t, h.dst, bn, b)
            /\ t[h.dst].data = u[h.src].data /\ Shape(u) /\ Reaped(u, {})
        BY <1>1, <3>1, FileCopyIs, OutIs
      <3>3. FileCopied(u, t2, bn, a, b) /\ Entries(u) \subseteq Entries(t1)
        BY <1>1, <1>3, <3>1, <3>2, KeepIs, FileCopyEnds
      <3>4. CopyDone(call.op, u, t2, bn, a, b)
        BY <1>2, <3>3 DEF CopyDone
      <3>5. Takes(call.op, u, Entries(t1), bn, a, b)
        BY <1>2, <3>3, TakesIs DEF Removals
      <3> QED  BY <3>1, <3>4, <3>5
    <2>3. call.op # "rmtree"
      BY <1>2
    <2> QED  BY <1>5, <2>1, <2>2, <2>3, AnswerOut
  <1>6. CASE CopyFails
    <2>1. PICK k : k = "copy_file.same"
      OBVIOUS
    <2>2. /\ pc' = k /\ Injected /\ UNCHANGED <<call, host, a, b, result, calls>>
          /\ k \in {"copy_file.same", "copy_dir.remove"}
      BY <1>6, <2>1 DEF CopyFails
    <2>3. k # "copy_dir.remove" /\ StepOf(k, call.op)
      BY <1>2, <2>1 DEF StepOf, Ops, FileSteps
    <2> QED  BY <2>2, <2>3, InjectedOut
  <1> QED  BY <1>4, <1>5, <1>6

(* Clearing up answers an error.                                           *)
LEMMA CopyFileGoneOut ==
    ASSUME TreeInv, KeepInv, OutInv, CopyFileSame \/ CopyFileRemove
    PROVE  OutInv'
  <1>1. PICK e, l, r : e = "StorageFull" /\ l = "copy_file.remove" /\ r = Unlink(t, Confined, b)
    OBVIOUS
  <1>2. Goto(l, t, h) \/ Leave(e, t) \/ Leave(e, r.t)
    BY <1>1 DEF CopyFileSame, CopyFileRemove
  <1>3. Shape(r.t) /\ Filled(r.t) /\ e # "ok"
    BY <1>1, KeepIs, UnlinkLoses DEF Loses
  <1>4. call.op = "copy_file"
    <2>1. pc \in FileSteps
      BY DEF CopyFileSame, CopyFileRemove, FileSteps
    <2> QED  BY <2>1, OpIs DEF StepOf
  <1>5. CASE Goto(l, t, h)
    <2>1. l # "idle" /\ l # "copy_dir.remove" /\ StepOf(l, call.op)
      BY <1>1, <1>4 DEF StepOf, Ops, FileSteps
    <2>2. \A u, x, hh, bn, p, q : Known(l, u, x, hh, bn, p, q)
      BY <1>1 DEF Known, Untouched, Ops, Adding, CopyingFile, CopyingDir
    <2> QED  BY <1>5, <2>1, <2>2, GotoOut
  <1> QED  BY <1>2, <1>3, <1>4, <1>5, KeepIs, FailOut

(* copy_dir looks at its source.                                           *)
LEMMA CopyDirStatOut ==
    ASSUME TreeInv, KeepInv, OutInv, CopyDirStat
    PROVE  OutInv'
  <1>1. PICK r : r = MetadataAsNamed(t, a)
    OBVIOUS
  <1>2. /\ Reads(t, r) /\ pc = "copy_dir"
        /\ r.err = "ok" => r.ino = Look(t, Confined, a, FALSE).ino
    BY <1>1, FineIs, AsNamedReads, LookedIs DEF CopyDirStat
  <1>3. pc \in Untouched /\ call.op = "copy_dir"
    BY <1>2, OpIs DEF Untouched, Ops
  <1>4. PICK m, l : m = CopyDirMode(t[r.ino].mode) /\ l = "copy_dir.name"
    OBVIOUS
  <1>5. \/ r.err # "ok" /\ Pass(r)
        \/ Leave("NotADirectory", t)
        \/ IsDirAnswer(r) /\ Goto(l, t, [h EXCEPT !.mode = m])
    BY <1>1, <1>4 DEF CopyDirStat
  <1>6. ASSUME IsDirAnswer(r), Goto(l, t, [h EXCEPT !.mode = m])  PROVE OutInv'
    <2>1. PICK hh : hh = [h EXCEPT !.mode = m]
      OBVIOUS
    <2>2. h = Handles(h.src, h.dst, h.mode, h.link, h.err)
      BY FineIs DEF IsHandles
    <2>3. hh = Handles(h.src, h.dst, m, h.link, h.err)
      BY <2>1, <2>2 DEF Handles
    <2>4. hh.src = h.src /\ hh.dst = h.dst /\ hh.mode = m
      BY <2>3 DEF Handles
    <2>5. Open(hh) \in SUBSET Ino
      BY <2>4, KeepIs DEF Open
    <2>6. r.err = "ok" /\ IsDir(t, r.ino) /\ r.ino \in Ino
      BY <1>2, <1>6 DEF IsDirAnswer, Reads, Acts
    <2>7. DirRead(t, hh, Confined, a)
      BY <1>2, <1>4, <2>4, <2>6 DEF DirRead
    <2>8. Known(l, t, t, hh, Confined, a, b)
      BY <1>4, <2>7 DEF Known, Adding, CopyingFile, CopyingDir
    <2>9. l # "idle" /\ l # "copy_dir.remove" /\ StepOf(l, call.op) /\ Goto(l, t, hh)
      BY <1>3, <1>4, <1>6, <2>1 DEF StepOf, Ops, FileSteps
    <2> QED  BY <1>3, <2>5, <2>8, <2>9, OnOut
  <1>7. PICK x : x = "NotADirectory" /\ x # "ok"
    OBVIOUS
  <1> QED  BY <1>2, <1>3, <1>5, <1>6, <1>7, LeftOut, ReadOut

(* It checks the name it is to make.                                       *)
LEMMA CopyDirNameOut ==
    ASSUME TreeInv, KeepInv, OutInv, CopyDirName
    PROVE  OutInv'
  <1>1. PICK e, l : e = NewDirectoryName(t, b) /\ l = "copy_dir.make"
    OBVIOUS
  <1>2. (e # "ok" /\ Leave(e, t)) \/ Goto(l, t, h)
    BY <1>1 DEF CopyDirName
  <1>3. pc = "copy_dir.name" /\ pc \in Untouched /\ call.op = "copy_dir"
    BY OpIs DEF CopyDirName, Untouched, DirSteps
  <1>4. CASE Goto(l, t, h)
    <2>1. w.quiet => Known(l, t, t, h, Confined, a, b)
      <3> HAVE w.quiet
      <3>1. DirRead(t, h, Confined, a)
        BY <1>3, OutIs DEF Known, CopyingDir
      <3> QED  BY <1>1, <3>1 DEF Known, Adding, CopyingFile, CopyingDir
    <2>2. l # "idle" /\ l # "copy_dir.remove" /\ StepOf(l, call.op)
      BY <1>1, <1>3 DEF StepOf, Ops, FileSteps
    <2> QED  BY <1>3, <1>4, <2>1, <2>2, KeepIs, OnOut
  <1> QED  BY <1>2, <1>3, <1>4, LeftOut

(* It makes the directory, for its owner only.                             *)
LEMMA CopyDirMakeOut ==
    ASSUME TreeInv, KeepInv, OutInv, CopyDirMake
    PROVE  OutInv'
  <1>1. PICK p, bn, m, r, l : /\ p = SlashesStripped(b) /\ bn = Confined /\ m = {"owner"}
                              /\ r = Mkdir(t, bn, p, m) /\ l = "copy_dir.open"
    OBVIOUS
  <1>2. (r.err = "ok" /\ Goto(l, r.t, h)) \/ (r.err # "ok" /\ Pass(r))
    BY <1>1 DEF CopyDirMake
  <1>3. pc = "copy_dir.make" /\ pc \in Untouched /\ call.op = "copy_dir" /\ Rooted(t)
    <2>1. pc = "copy_dir.make" /\ pc \notin Holding
      BY DEF CopyDirMake, Holding
    <2> QED  BY <2>1, OpIs, KeepIs DEF Untouched, DirSteps
  <1>4. IsPath(b) /\ IsPath(p) /\ Grows(t, r.t)
    BY <1>1, <1>3, KeepIs, StrippedIs, MkdirGrows
  <1>5. ASSUME r.err = "ok", Goto(l, r.t, h)  PROVE OutInv'
    <2>1. PICK i, t1, open, t2 : /\ i = r.ino /\ t1 = r.t /\ open = Open(h) /\ t2 = Reap(t1, open)
      OBVIOUS
    <2>2. MadeAs(t, t1, i, bn, b) /\ t1[i] = DirNode(<<>>, m \ Umask)
      <3>1. Shape(t) /\ r = Mkdir(t, bn, p, m)
        BY <1>1, KeepIs
      <3>2. MadeAs(t, r.t, r.ino, bn, p)
        BY <1>4, <1>5, <3>1, MkdirMakes
      <3>3. r.t[r.ino] = DirNode(<<>>, m \ Umask)
        BY <1>4, <1>5, <3>1, MkdirMakes
      <3>4. Named(t, bn, p) = Named(t, bn, b)
        BY <1>1, <1>4, StrippedNames
      <3> QED  BY <2>1, <3>2, <3>3, <3>4 DEF MadeAs
    <2>3. Shape(t1) /\ Filled(t1)
      BY <1>4, <2>1, RootedIsFilled DEF Grows
    <2>4. w.quiet => Known(l, w.before, t2, h, Confined, a, b)
      <3> HAVE w.quiet
      <3>1. w.before = t /\ Reaped(t, {}) /\ DirRead(t, h, bn, a)
        BY <1>1, <1>3, OutIs DEF Known, CopyingDir
      <3>2. MadeAs(t, t2, i, bn, b) /\ t2[i] = t1[i]
        BY <2>1, <2>2, <2>3, <3>1, KeepIs, MadeReap
      <3>3. DirMade(t, t2, i, bn, b) /\ i \in Ino
        <4>1. i \in Ino
          BY <3>2 DEF MadeAs
        <4>2. t2[i].kind = "dir" /\ t2[i].ents = <<>>
          BY <2>2, <3>2 DEF DirNode
        <4> QED  BY <3>2, <4>1, <4>2 DEF DirMade, IsDir, Kind
      <3>4. Entries(t) \subseteq Entries(t2)
        BY <3>2 DEF MadeAs, Extends
      <3> QED  BY <1>1, <3>1, <3>3, <3>4 DEF Known, Untouched, Ops, CopyingFile, CopyingDir
    <2>5. l # "idle" /\ l # "copy_dir.remove" /\ StepOf(l, call.op) /\ Goto(l, t1, h)
      BY <1>1, <1>3, <1>5, <2>1 DEF StepOf, Ops, FileSteps
    <2> QED  BY <2>1, <2>4, <2>5, GotoOut
  <1> QED  BY <1>2, <1>3, <1>4, <1>5, GrownOut

(* It opens what it made, and finds that again.                            *)
LEMMA CopyDirOpenOut ==
    ASSUME TreeInv, KeepInv, OutInv, CopyDirOpen
    PROVE  OutInv'
  <1>1. PICK p, bn, f, r : /\ p = SlashesStripped(b) /\ bn = Confined /\ f = FALSE
                           /\ r = OpenDir(t, bn, p, f)
    OBVIOUS
  <1>2. PICK i, e, hh, gg : /\ i = r.ino /\ hh = [h EXCEPT !.dst = i]
                            /\ e = r.err /\ gg = [h EXCEPT !.err = e]
    OBVIOUS
  <1>3. h = Handles(h.src, h.dst, h.mode, h.link, h.err)
    BY FineIs DEF IsHandles
  <1>4. /\ hh = Handles(h.src, i, h.mode, h.link, h.err)
        /\ gg = Handles(h.src, h.dst, h.mode, h.link, e)
    BY <1>2, <1>3 DEF Handles
  <1>5. hh.src = h.src /\ hh.dst = i /\ hh.mode = h.mode /\ gg.err = e
    BY <1>4 DEF Handles
  <1>6. pc = "copy_dir.open" /\ call.op = "copy_dir"
    BY OpIs DEF CopyDirOpen, DirSteps
  <1>7. \/ r.err = "ok" /\ Goto("copy_dir.chmod", t, hh)
        \/ r.err # "ok" /\ Goto("copy_dir.remove", t, gg)
    BY <1>1, <1>2 DEF CopyDirOpen
  <1>8. IsPath(b) /\ IsPath(p) /\ Shape(t) /\ Filled(t)
    BY <1>1, KeepIs, StrippedIs
  <1>9. ASSUME r.err = "ok", Goto("copy_dir.chmod", t, hh)  PROVE OutInv'
    <2>1. PICK l, open, t2 : l = "copy_dir.chmod" /\ open = Open(hh) /\ t2 = Reap(t, open)
      OBVIOUS
    <2>2. i = Look(t, bn, p, f).ino /\ i \in Ino
      <3>1. Reads(t, r)
        BY <1>1, <1>8, OpenReads
      <3>2. OpenDir(t, bn, p, f).err = "ok" => OpenDir(t, bn, p, f).ino = Look(t, bn, p, f).ino
        BY <1>8, OpenedIs
      <3> QED  BY <1>1, <1>2, <1>9, <3>1, <3>2 DEF Reads, Acts
    <2>3. open \in SUBSET Ino
      BY <1>5, <2>1, <2>2, KeepIs DEF Open
    <2>4. w.quiet => Known(l, w.before, t2, hh, Confined, a, b)
      <3> HAVE w.quiet
      <3>1. PICK u : u = w.before
        OBVIOUS
      <3>2. DirRead(u, h, bn, a) /\ Shape(u) /\ Reaped(u, {})
        BY <1>1, <1>6, <3>1, OutIs DEF Known, CopyingDir
      <3>3. PICK j \in Ino : DirMade(u, t, j, bn, b)
        BY <1>1, <1>6, <3>1, OutIs DEF Known, CopyingDir
      <3>4. MadeAs(u, t, j, bn, b) /\ IsDir(t, j) /\ t[j].ents = <<>> /\ Kind(t, j) # "link"
        BY <3>3 DEF DirMade, IsDir
      <3>5. Reaches(t, bn, p, j)
        BY <1>1, <1>8, <3>2, <3>4, MadeLeads
      <3>6. j = i
        BY <1>1, <2>2, <3>5 DEF Reaches
      <3>7. MadeAs(u, t2, i, bn, b) /\ t2[i] = t[i]
        BY <1>8, <2>1, <2>3, <3>2, <3>4, <3>6, MadeReap
      <3>8. DirMade(u, t2, i, bn, b)
        BY <3>4, <3>6, <3>7 DEF DirMade, IsDir, Kind
      <3>9. DirRead(u, hh, bn, a)
        BY <1>5, <3>2 DEF DirRead
      <3>10. Entries(u) \subseteq Entries(t2)
        BY <3>7 DEF MadeAs, Extends
      <3> QED  BY <1>1, <1>5, <2>1, <3>1, <3>8, <3>9, <3>10
            DEF Known, Untouched, Ops, CopyingFile, CopyingDir
    <2>5. l # "idle" /\ l # "copy_dir.remove" /\ StepOf(l, call.op) /\ Goto(l, t, hh)
      BY <1>6, <1>9, <2>1 DEF StepOf, Ops, FileSteps
    <2> QED  BY <2>1, <2>4, <2>5, GotoOut
  <1>10. ASSUME r.err # "ok", Goto("copy_dir.remove", t, gg)  PROVE OutInv'
    <2>1. PICK l : l = "copy_dir.remove"
      OBVIOUS
    <2>2. \A u, x, p0, q0 : Known(l, u, x, gg, Confined, p0, q0)
      BY <2>1 DEF Known, Untouched, Ops, Adding, CopyingFile, CopyingDir
    <2>3. l # "idle" /\ gg.err # "ok" /\ StepOf(l, call.op) /\ Goto(l, t, gg)
      BY <1>2, <1>5, <1>6, <1>10, <2>1 DEF StepOf, Ops, FileSteps
    <2> QED  BY <2>2, <2>3, GotoOut
  <1> QED  BY <1>7, <1>9, <1>10

(* The last step of a directory's copy that succeeds.                      *)
LEMMA DirCopyEnds ==
    ASSUME NEW u, Shape(u), Reaped(u, {}), NEW t0, Shape(t0), Filled(t0), NEW hh, NEW bn,
           NEW p, IsPath(p), NEW q, IsPath(q), DirRead(u, hh, bn, p),
           DirMade(u, t0, hh.dst, bn, q), NEW t1, t1 = SetMode(t0, hh.dst, hh.mode)
    PROVE  DirCopied(u, Reap(t1, {}), bn, p, q) /\ Entries(u) \subseteq Entries(t1)
  <1>1. PICK i, m, t2, open : i = hh.dst /\ m = hh.mode /\ open = {} /\ t2 = Reap(t1, open)
    OBVIOUS
  <1>2. /\ MadeAs(u, t0, i, bn, q) /\ i \in Ino /\ open \in SUBSET Ino /\ Kind(t0, i) = "dir"
        /\ t0[i].ents = <<>>
    BY <1>1 DEF DirMade, MadeAs, IsDir
  <1>3. /\ SameNames(t0, t1) /\ Shape(t1) /\ Filled(t1)
        /\ t1[i] = DirNode(<<>>, m) /\ \A j \in Ino \ {i} : t1[j] = t0[j]
    BY <1>1, <1>2, ModeSame, ModeMade, SameKeeps DEF Kind
  <1>4. MadeAs(u, t1, i, bn, q)
    BY <1>1, <1>2, <1>3, MadeNode
  <1>5. MadeAs(u, t2, i, bn, q) /\ t2[i] = t1[i] /\ Shape(t2)
    BY <1>1, <1>2, <1>3, <1>4, MadeReap, ReapTurns
  <1>6. Kind(t2, i) # "link"
    BY <1>3, <1>5 DEF DirNode, Kind
  <1>7. Named(t2, bn, q).ino = i
    BY <1>5, <1>6, MadeLeads
  <1>8. EntryAt(t2, bn, q)[3] = i
    BY <1>7 DEF EntryAt
  <1>9. PICK j : /\ j = Look(u, bn, p, FALSE).ino /\ j \in Ino /\ IsDir(u, j)
                 /\ m = CopyDirMode(u[j].mode)
    BY <1>1 DEF DirRead
  <1>10. t2[j].mode = u[j].mode
    <2>1. Extends(u, t2)
      BY <1>5 DEF MadeAs
    <2>2. u[j] # Free /\ u[j].kind = "dir"
      BY <1>9, DirIsNode DEF IsDir, Kind
    <2> QED  BY <1>9, <2>1, <2>2 DEF Extends, Alike
  <1>11. t2[i] = DirNode(<<>>, (t2[j].mode \ {"special"}) \cup {"owner"})
    BY <1>3, <1>5, <1>9, <1>10 DEF CopyDirMode, CopyMode
  <1>12. DirCopied(u, t2, bn, p, q)
    BY <1>8, <1>9, <1>11 DEF DirCopied
  <1>13. Entries(u) \subseteq Entries(t1)
    BY <1>4 DEF MadeAs, Extends
  <1> QED  BY <1>1, <1>12, <1>13

(* It sets the mode, or fails; then it is done.                            *)
LEMMA CopyDirChmodOut ==
    ASSUME TreeInv, KeepInv, OutInv, CopyDirChmod
    PROVE  OutInv'
  <1>1. h.dst # NoIno /\ IsDir(t, h.dst) /\ pc = "copy_dir.chmod" /\ call.op = "copy_dir"
    BY FineIs, OpIs DEF KindsIn, KindsAt, CopyDirChmod, DirSteps
  <1>2. h.dst \in Ino
    BY <1>1, FineIs DEF OpenIn, Open
  <1>3. PICK t1, gg, l, e, S, f, s :
           /\ t1 = SetMode(t, h.dst, h.mode) /\ gg = [h EXCEPT !.err = s] /\ s = "StorageFull"
           /\ l = "copy_dir.remove" /\ e = "ok" /\ S = {} /\ f = FALSE
    OBVIOUS
  <1>4. \/ AnswersAt(e, t1, S, f)
        \/ pc' = l /\ h' = gg /\ Injected /\ UNCHANGED <<call, host, a, b, result, calls>>
    BY <1>3 DEF CopyDirChmod, SetMode, Leave, Answers
  <1>5. CASE AnswersAt(e, t1, S, f)
    <2>1. Shape(t1) /\ Filled(t1)
      BY <1>1, <1>2, <1>3, KeepIs, ModeSame, SameKeeps DEF IsDir
    <2>2. w.quiet => /\ Takes(call.op, w.before, Entries(t1), Confined, a, b)
                     /\ CopyDone(call.op, w.before, Reap(t1, {}), Confined, a, b)
      <3> HAVE w.quiet
      <3>1. PICK u, bn, t2 : u = w.before /\ bn = Confined /\ t2 = Reap(t1, {})
        OBVIOUS
      <3>2. DirRead(u, h, bn, a) /\ DirMade(u, t, h.dst, bn, b) /\ Shape(u) /\ Reaped(u, {})
        BY <1>1, <3>1, OutIs DEF Known, CopyingDir
      <3>3. DirCopied(u, t2, bn, a, b) /\ Entries(u) \subseteq Entries(t1)
        BY <1>3, <3>1, <3>2, KeepIs, DirCopyEnds
      <3>4. CopyDone(call.op, u, t2, bn, a, b)
        BY <1>1, <3>3 DEF CopyDone
      <3>5. Takes(call.op, u, Entries(t1), bn, a, b)
        BY <1>1, <3>3, TakesIs DEF Removals
      <3> QED  BY <3>1, <3>4, <3>5
    <2>3. call.op # "rmtree"
      BY <1>1
    <2> QED  BY <1>5, <2>1, <2>2, <2>3, AnswerOut
  <1>6. CASE pc' = l /\ h' = gg /\ Injected /\ UNCHANGED <<call, host, a, b, result, calls>>
    <2>1. h = Handles(h.src, h.dst, h.mode, h.link, h.err)
      BY FineIs DEF IsHandles
    <2>2. gg = Handles(h.src, h.dst, h.mode, h.link, s)
      BY <1>3, <2>1 DEF Handles
    <2>3. gg.err = s /\ s # "ok"
      BY <1>3, <2>2 DEF Handles
    <2>4. h'.err # "ok" /\ StepOf(l, call.op) /\ l \in {"copy_file.same", "copy_dir.remove"}
      BY <1>1, <1>3, <1>6, <2>3 DEF StepOf, Ops, FileSteps
    <2> QED  BY <1>6, <2>4, InjectedOut
  <1> QED  BY <1>4, <1>5, <1>6

(* It removes what it made, having failed.                                 *)
LEMMA CopyDirRemoveOut ==
    ASSUME TreeInv, KeepInv, OutInv, CopyDirRemove
    PROVE  OutInv'
  <1>1. PICK e, r : e = h.err /\ r = Rmdir(t, Confined, SlashesStripped(b))
    OBVIOUS
  <1>2. Shape(r.t) /\ Filled(r.t)
    BY <1>1, KeepIs, StrippedIs, RmdirLoses DEF Loses
  <1>3. Leave(e, r.t) /\ e # "ok" /\ pc \in DirSteps
    BY <1>1 DEF CopyDirRemove, OutInv, DirSteps
  <1>4. call.op # "rmtree"
    BY <1>3, OpIs
  <1> QED  BY <1>2, <1>3, <1>4, FailOut

(* Every step of a call keeps the invariant,                               *)
LEMMA BodyOut ==
    ASSUME TreeInv, KeepInv, OutInv, Body
    PROVE  OutInv'
  BY ReadingOut, OpenDirOut, WriteOut, PutOut, CreateDirOut, SymlinkOut, RemoveNameOut,
     CreateDirAllOut, RemoveOneOut, RemoveTreeOpenOut, RemoveTreeEntryOut, RemoveTreeFailsOut,
     RemoveTreeLastOut, LooksOut, MoveOut,
     CopyFileOpenOut, CopyFileMakeOut, CopyFileDataOut, CopyFileChmodOut, CopyFileGoneOut,
     CopyDirStatOut, CopyDirNameOut, CopyDirMakeOut, CopyDirOpenOut, CopyDirChmodOut,
     CopyDirRemoveOut
  DEF Body

-----------------------------------------------------------------------------
(* The start of a call, other programs, and the whole.                     *)

(* Nothing is known, or need be, between two calls.                        *)
LEMMA IdleKnows ==
    /\ \A u, x, hh, bn, p, q : Known("idle", u, x, hh, bn, p, q)
    /\ \A op : StepOf("idle", op)
    /\ "idle" \notin Ops /\ "copy_dir.remove" \notin Ops
  BY DEF Known, Untouched, Ops, Adding, CopyingFile, CopyingDir, StepOf, FileSteps

(* A call starts in the tree that is its history.                          *)
LEMMA HistoryIsOf ==
    ASSUME NEW u, NEW x, x = History(u)
    PROVE  x.before = u /\ x.quiet
  BY DEF History

(* and so does the start of one,                                           *)
LEMMA StartOut ==
    ASSUME TreeInv, KeepInv, OutInv, NEW c \in Scene.calls, Start(c)
    PROVE  OutInv'
  <1>1. c.op \in Ops
    BY FineIs, SceneIs
  <1>2. t' = t /\ h' = h /\ call' = c /\ pc = "idle" /\ w' = History(t) /\ host' = host
    BY DEF Start
  <1>3. Open(h) = {} /\ Shape(t) /\ Reaped(t, {})
    BY <1>2, KeepIs DEF OutInv
  <1>4. w'.before = t /\ w'.quiet
    BY <1>2, HistoryIsOf
  <1>5. \/ pc' = c.op
        \/ pc' = "idle" /\ \E e : e # "ok" /\ result'.err = IoErr(e)
    BY <1>2 DEF Start
  <1>6. CASE pc' = c.op
    <2>1. PICK l : l = c.op
      OBVIOUS
    <2>2. StepOf(l, l) /\ l # "idle" /\ l # "copy_dir.remove"
      BY <1>1, <2>1, IdleKnows DEF StepOf, Ops, FileSteps
    <2>3. \A bn, p, q : Known(l, t, t, h, bn, p, q)
      BY <1>1, <2>1 DEF Known, Ops, Adding, CopyingFile, CopyingDir
    <2>4. w'.quiet => /\ Shape(w'.before) /\ Reaped(w'.before, {})
                      /\ Known(pc', w'.before, t', h', Confined', a', b')
      BY <1>2, <1>3, <1>4, <1>6, <2>1, <2>3
    <2>5. pc' # "idle" /\ pc' # "copy_dir.remove" /\ StepOf(pc', call'.op)
      BY <1>2, <1>6, <2>1, <2>2
    <2> QED  BY <2>4, <2>5 DEF OutInv
  <1>7. CASE pc' = "idle" /\ \E e : e # "ok" /\ result'.err = IoErr(e)
    <2>1. result'.err # "ok"
      <3>1. \A e : IoErr(e) = "ok" => e = "ok"
        BY DEF IoErr
      <3> QED  BY <1>7, <3>1
    <2>2. Open(h') = {} /\ StepOf(pc', call'.op)
      BY <1>2, <1>3, <1>7, IdleKnows
    <2>3. w'.quiet => /\ Shape(w'.before) /\ Reaped(w'.before, {})
                      /\ Known(pc', w'.before, t', h', Confined', a', b')
      BY <1>3, <1>4, <1>7, IdleKnows
    <2>4. TakesBelow(w.before, Entries(t), Confined, a)'
      <3>1. \A u, bn, p : TakesBelow(u, Entries(u), bn, p)
        BY DEF TakesBelow
      <3> QED  BY <1>2, <1>4, <3>1
    <2> QED  BY <1>7, <2>1, <2>2, <2>3, <2>4 DEF OutInv
  <1> QED  BY <1>5, <1>6, <1>7

(* and a move of another program, after which little is claimed.           *)
LEMMA OthersOut ==
    ASSUME TreeInv, KeepInv, OutInv, Others
    PROVE  OutInv'
  <1>1. Moved
    BY DEF Others, Exchange, Replace
  <1>2. UNCHANGED <<host, pc, call, a, b, h, result, calls>>
    BY <1>1 DEF Moved
  <1>3. ~w'.quiet
    <2>1. PICK f, v, x : f = FALSE /\ v = TRUE /\ x = w'
      OBVIOUS
    <2>2. x = [w EXCEPT !.moved = v, !.quiet = f]
      BY <1>1, <2>1 DEF Moved
    <2>3. IsHistory(w)
      BY FineIs
    <2>4. \A k, y : y = [w EXCEPT !.moved = k, !.quiet = f] => y.quiet = f
      BY <2>3, HistoryKept
    <2>5. x.quiet = f
      BY <2>2, <2>4
    <2> QED  BY <2>1, <2>5
  <1> QED  BY <1>2, <1>3 DEF OutInv

(* It is so at the start,                                                  *)
LEMMA StartsOut ==
    ASSUME Init, TreeInv, KeepInv
    PROVE  OutInv
  <1>1. pc = "idle" /\ h = NoHandles /\ calls = 0 /\ w = History(t)
    BY DEF Init
  <1>2. Open(h) = {} /\ Shape(t) /\ Reaped(t, {})
    BY <1>1, KeepIs, NoneOpen
  <1>3. w.before = t
    BY <1>1, HistoryIsOf
  <1>4. ~(calls > 0)
    BY <1>1
  <1> QED  BY <1>1, <1>2, <1>3, <1>4, IdleKnows DEF OutInv

(* and after every step.                                                   *)
LEMMA StepsOut ==
    ASSUME TreeInv, KeepInv, OutInv, [Next]_vars
    PROVE  OutInv'
  <1>1. CASE UNCHANGED vars
    BY <1>1 DEF vars, OutInv, Confined
  <1> QED  BY <1>1, BodyOut, StartOut, OthersOut DEF Next

(* At every step of a call, as long as no other program moves, the tree is *)
(* what the calls the step follows have made of the one the call started   *)
(* in; and so it is when the call has answered.                            *)
THEOREM OutcomesStand == Spec => []OutInv
  <1>1. Init /\ TreeInv /\ KeepInv => OutInv
    BY StartsOut
  <1>2. TreeInv /\ KeepInv /\ OutInv /\ [Next]_vars => OutInv'
    BY StepsOut
  <1> QED  BY <1>1, <1>2, TreeInvariant, TreeStaysWhole, PTL DEF Spec

(* A call that succeeded took no entry but the ones it names: the link and *)
(* not what it leads to, and what is below only in a recursive removal;    *)
(* one that was stopped took nothing but what is below: for any tree,      *)
(* path, spelling and backend (lib.rs:785-813, 874-909).                   *)
THEOREM NamedEntriesGo == Spec => []OnlyNamedEntriesGo
  <1>1. OutInv => OnlyNamedEntriesGo
    <2>1. \A u, p : EntryOf(u, p) = EntryAt(u, Confined, p)
      BY DEF EntryOf, EntryAt
    <2>2. SUFFICES ASSUME OutInv, pc = "idle" /\ calls > 0 /\ w.quiet
                   PROVE  OnlyNamedEntriesGo
      BY DEF OnlyNamedEntriesGo
    <2>3. CASE result.err = "ok"
      <3>1. Takes(result.op, w.before, Entries(t), Confined, a, b)
        BY <2>2, <2>3 DEF OutInv
      <3> QED  BY <2>1, <2>3, <3>1 DEF Takes, OnlyNamedEntriesGo
    <2>4. CASE result.err # "ok"
      <3>1. result.op = "rmtree" => TakesBelow(w.before, Entries(t), Confined, a)
        BY <2>2, <2>4 DEF OutInv
      <3> QED  BY <2>1, <2>4, <3>1 DEF TakesBelow, OnlyNamedEntriesGo
    <2> QED  BY <2>3, <2>4
  <1> QED  BY <1>1, OutcomesStand, PTL

(* A copy that succeeded holds what its source holds, under the source's   *)
(* permission bits less the special ones, and whatever the umask           *)
(* (copy.rs:20-43, 62-80, 108-126).                                        *)
THEOREM CopiesAreFaithful == Spec => []CopyIsFaithful
  <1>1. OutInv => CopyIsFaithful
    <2>1. \A u, p : EntryOf(u, p) = EntryAt(u, Confined, p)
      BY DEF EntryOf, EntryAt
    <2>2. ASSUME OutInv, Succeeded({"copy_file"}), w.quiet
          PROVE  FileCopied(w.before, t, Confined, a, b)
      BY <2>2 DEF OutInv, Succeeded, Answered, CopyDone
    <2>3. ASSUME OutInv, Succeeded({"copy_dir"}), w.quiet
          PROVE  DirCopied(w.before, t, Confined, a, b)
      BY <2>3 DEF OutInv, Succeeded, Answered, CopyDone
    <2> QED  BY <2>1, <2>2, <2>3 DEF CopyIsFaithful, FileCopied, DirCopied
  <1> QED  BY <1>1, OutcomesStand, PTL

-----------------------------------------------------------------------------
(* The name a walk ends at.                                                *)

(* A walk that follows no last link comes last to the component c.         *)
EndsAs(s, c) ==
    /\ s.out = "go" /\ s.todo # <<>> => Last(s.todo) = c
    /\ s.out = "found" \/ (s.out = "go" /\ s.todo = <<>>) => c = ".." \/ s.name = c
    /\ s.out = "absent" => c # ".." /\ s.name = c

(* The last of a sequence, and of what is left of it.                      *)
LEMMA LastIs ==
    ASSUME NEW q \in Seq(Comps), q # <<>>
    PROVE  /\ Tail(q) = <<>> => Last(q) = Head(q)
           /\ Tail(q) # <<>> => Last(Tail(q)) = Last(q)
           /\ Tail(q) \in Seq(Comps) /\ Last(q) \in Comps
           /\ \A x \in Seq(Comps) : x \o q # <<>> /\ Last(x \o q) = Last(q)
  <1>1. q # <<>> /\ Len(q) > 0 /\ Len(q) \in Nat /\ Tail(q) \in Seq(Comps) /\ Len(Tail(q)) = Len(q) - 1
    OBVIOUS
  <1>2. Tail(q) = <<>> => Len(q) = 1
    <2>1. Len(<<>>) = 0
      OBVIOUS
    <2>2. PICK y : y = Tail(q)
      OBVIOUS
    <2>3. y = <<>> => Len(y) = 0
      BY <2>1
    <2> QED  BY <1>1, <2>2, <2>3
  <1>3. Tail(q) # <<>> => Len(q) > 1 /\ Tail(q)[Len(q) - 1] = q[Len(q)]
    BY <1>1
  <1>4. \A x \in Seq(Comps) : x \o q # <<>> /\ (x \o q)[Len(x \o q)] = q[Len(q)]
    BY <1>1
  <1> QED  BY <1>1, <1>2, <1>3, <1>4 DEF Last

(* One step more.                                                          *)
LEMMA EndsAgain ==
    ASSUME NEW t0, Shape(t0), NEW s, IsWalk(t0, s), s.out = "go", NEW c, EndsAs(s, c),
           NEW base, NEW bn, NEW f, NEW r, r = WalkStep(t0, s, base, f, bn)
    PROVE  f \/ EndsAs(r, c)
  <1>1. s = Place("go", s.at, s.todo, s.hops, s.dir, s.name) /\ s.todo \in Seq(Comps)
    BY DEF IsWalk, Place
  <1>2. CASE s.todo = <<>>
    <2>1. r = [s EXCEPT !.out = "found"]
      BY <1>2, Zenon DEF WalkStep
    <2>2. r = Place("found", s.at, s.todo, s.hops, s.dir, s.name)
      BY <1>1, <2>1 DEF Place
    <2>3. r.out = "found" /\ r.name = s.name
      BY <2>2, PlaceIs
    <2> QED  BY <1>2, <2>3 DEF EndsAs
  <1>3. CASE s.todo # <<>> /\ Head(s.todo) = ".."
    <2>1. r = IF s.at = base /\ bn THEN [s EXCEPT !.out = "PermissionDenied"]
              ELSE [s EXCEPT !.at   = IF s.at = base THEN s.at ELSE ParentOf(t0, s.at),
                             !.todo = Tail(s.todo), !.name = ""]
      BY <1>3, Zenon DEF WalkStep
    <2>2. CASE s.at = base /\ bn
      <3>1. r = [s EXCEPT !.out = "PermissionDenied"]
        BY <2>1, <2>2, Zenon
      <3>2. r.out = "PermissionDenied"
        BY <1>1, <3>1 DEF Place
      <3> QED  BY <3>2 DEF EndsAs
    <2>3. CASE ~(s.at = base /\ bn)
      <3>1. PICK x : x = IF s.at = base THEN s.at ELSE ParentOf(t0, s.at)
        OBVIOUS
      <3>2. r = [s EXCEPT !.at = x, !.todo = Tail(s.todo), !.name = ""]
        BY <2>1, <2>3, <3>1
      <3>3. r = Place("go", x, Tail(s.todo), s.hops, s.dir, "")
        BY <1>1, <3>2 DEF Place
      <3>4. r.out = "go" /\ r.todo = Tail(s.todo)
        BY ONLY <3>3 DEF Place
      <3> QED  BY <1>1, <1>3, <3>4, LastIs DEF EndsAs
    <2> QED  BY <2>2, <2>3
  <1>4. CASE s.todo # <<>> /\ Head(s.todo) # ".."
    <2>1. r = WalkName(t0, s, f, bn)
      BY <1>4, Zenon DEF WalkStep
    <2>2. PICK n, rest, e, i : /\ n = Head(s.todo) /\ rest = Tail(s.todo)
                               /\ e = Ents(t0, s.at) /\ i = e[n]
      OBVIOUS
    <2>3. Leads(t0, s, f, bn, n, rest, e, i, r)
      BY <2>1, <2>2, NameLeads
    <2>4. /\ Last(s.todo) = c /\ n # ".." /\ rest \in Seq(Comps)
          /\ rest = <<>> => n = c
          /\ rest # <<>> => Last(rest) = c
      BY <1>1, <1>4, <2>2, LastIs DEF EndsAs
    <2>5. CASE n \notin DOMAIN e
      <3>1. r = Place(IF rest = <<>> THEN "absent" ELSE "NotFound", s.at, s.todo, s.hops, s.at, n)
        BY <2>3, <2>5 DEF Leads
      <3>2. r.out = (IF rest = <<>> THEN "absent" ELSE "NotFound") /\ r.name = n
        BY <3>1, PlaceIs
      <3> QED  BY <2>4, <3>2 DEF EndsAs
    <2>6. CASE n \in DOMAIN e /\ t0[i].kind = "link" /\ (rest # <<>> \/ f)
      <3>1. CASE r.out \in {"PermissionDenied", "FilesystemLoop"}
        BY <3>1 DEF EndsAs
      <3>2. CASE r.out \notin {"PermissionDenied", "FilesystemLoop"}
        <4>1. r = Place("go", IF t0[i].to.abs THEN Top ELSE s.at,
                        t0[i].to.comps \o rest, s.hops + 1, s.dir, "")
          BY <2>3, <2>6, <3>2 DEF Leads
        <4>2. PICK x, td, k : /\ x = (IF t0[i].to.abs THEN Top ELSE s.at)
                              /\ td = t0[i].to.comps \o rest /\ k = s.hops + 1
          OBVIOUS
        <4>3. r = Place("go", x, td, k, s.dir, "")
          BY <4>1, <4>2
        <4>4. r.out = "go" /\ r.todo = td
          BY ONLY <4>3 DEF Place
        <4>5. t0[i].to.comps \in Seq(Comps)
          <5>1. IsTree(t0) /\ s.at \in Ino /\ IsDir(t0, s.at)
            BY DEF Shape, IsWalk
          <5>2. Has(t0, s.at, n, i)
            BY <2>2, <2>6, <5>1 DEF Has
          <5>3. i \in Ino
            BY <5>1, <5>2, HasIs
          <5>4. IsNode(t0, t0[i])
            BY <5>1, <5>3 DEF IsTree
          <5>5. IsPath(t0[i].to)
            BY <2>6, <5>4, KindIs
          <5> QED  BY <5>5 DEF IsPath
        <4>6. f \/ (td # <<>> /\ Last(td) = c)
          BY <2>4, <2>6, <4>2, <4>5, LastIs
        <4> QED  BY <4>4, <4>6 DEF EndsAs
      <3> QED  BY <3>1, <3>2
    <2>7. CASE n \in DOMAIN e /\ ~(t0[i].kind = "link" /\ (rest # <<>> \/ f))
      <3>1. CASE t0[i].kind # "dir" /\ rest # <<>>
        <4>1. r.out = "NotADirectory"
          BY <2>3, <2>7, <3>1 DEF Leads
        <4> QED  BY <4>1 DEF EndsAs
      <3>2. CASE ~(t0[i].kind # "dir" /\ rest # <<>>)
        <4>1. r = Place(IF t0[i].kind = "dir" THEN "go" ELSE "found", i, rest, s.hops, s.at, n)
          BY <2>3, <2>7, <3>2 DEF Leads
        <4>2. /\ r.out = (IF t0[i].kind = "dir" THEN "go" ELSE "found")
              /\ r.todo = rest /\ r.name = n
          BY <4>1, PlaceIs
        <4> QED  BY <2>4, <3>2, <4>2 DEF EndsAs
      <3> QED  BY <3>1, <3>2
    <2> QED  BY <2>5, <2>6, <2>7
  <1> QED  BY <1>2, <1>3, <1>4


(* Where the walk of a name ends, from the directory it starts at.         *)
BaseOf(bn) == IF bn THEN Root ELSE Top
WalkOf(t0, bn, p) == WalkFrom(t0, BaseOf(bn), BaseOf(bn), p, FALSE, bn)

(* A name is that.                                                         *)
LEMMA NamedIs ==
    ASSUME NEW t0, NEW p, IsPath(p), NEW bn, ~(p.abs /\ bn), NEW l, l = Named(t0, bn, p),
           NEW q, q = WalkOf(t0, bn, p)
    PROVE  l.is = q.out /\ l.ino = q.at /\ l.dir = q.dir /\ l.name = q.name
  <1>1. PICK np : np = NoTail(p)
    OBVIOUS
  <1>2. IsPath(np) /\ np.abs = p.abs /\ np.comps = p.comps /\ np.tail = ""
    BY <1>1, PathsAre DEF IsPath, Path, NoTail
  <1>3. PICK base : base = (IF bn THEN Root ELSE Top)
    OBVIOUS
  <1>4. WalkFrom(t0, base, base, np, FALSE, bn) = q
    BY <1>3, <1>2 DEF WalkFrom, WalkOf, BaseOf
  <1>5. l = Ended(t0, WalkFrom(t0, base, base, np, FALSE \/ np.tail # "", bn), np.tail # "")
    BY <1>3, <1>1, <1>2 DEF Named, Look
  <1>6. (FALSE \/ np.tail # "") = FALSE /\ (np.tail # "") = FALSE
    BY <1>2
  <1>7. PICK must, m : must = FALSE /\ m = l /\ m = Ended(t0, q, must)
    BY <1>4, <1>5, <1>6
  <1>8. /\ m.is = IF q.out = "found" /\ must /\ ~IsDir(t0, q.at) THEN "NotADirectory" ELSE q.out
        /\ m.ino = q.at /\ m.dir = q.dir /\ m.name = q.name
    BY <1>7 DEF Ended
  <1> QED  BY <1>7, <1>8

(* The last component is the entry's name, unless it is "..", and nothing  *)
(* can be made under "..".                                                 *)
LEMMA NamesEnd ==
    ASSUME NEW t0, Shape(t0), NEW p, IsPath(p), p.comps # <<>>, NEW bn, NEW l, l = Named(t0, bn, p)
    PROVE  /\ l.is = "absent" => Last(p.comps) # ".." /\ l.name = Last(p.comps)
           /\ Found(l) => Last(p.comps) = ".." \/ l.name = Last(p.comps)
  <1>1. CASE p.abs /\ bn
    <2>1. NoTail(p).abs = p.abs
      BY DEF IsPath, Path, NoTail
    <2>2. l.is = "PermissionDenied"
      BY <1>1, <2>1 DEF Named, Look
    <2> QED  BY <2>2 DEF Found
  <1>2. CASE ~(p.abs /\ bn)
    <2>1. PICK base, f, c : base = BaseOf(bn) /\ f = FALSE /\ c = Last(p.comps)
      OBVIOUS
    <2>2. PICK q, F, x : /\ q = WalkOf(t0, bn, p) /\ Walking(t0, base, f, bn, F)
                         /\ x = StartWalk(base, p.comps)
      BY WalkLoops
    <2>3. q = WalkFrom(t0, base, base, p, f, bn)
      BY <2>1, <2>2 DEF WalkOf
    <2>4. l.is = q.out /\ l.name = q.name
      BY <1>2, <2>2, NamedIs
    <2>5. base \in Ino /\ IsDir(t0, base)
      BY <2>1, TreeAssumption DEF Shape, BaseOf
    <2> DEFINE S == {s \in Walks(t0) : EndsAs(s, c)}
    <2>6. x \in S
      <3>1. p.comps \in Seq(Comps)
        BY DEF IsPath
      <3>2. IsWalk(t0, x) /\ x.out = "go" /\ x.todo = p.comps
        BY <2>2, <2>5, <3>1, StartIs
      <3>3. EndsAs(x, c)
        BY <2>1, <3>2 DEF EndsAs
      <3> QED  BY <3>2, <3>3, WalkIs
    <2>7. ASSUME NEW s \in S, s.out = "go"  PROVE WalkStep(t0, s, base, f, bn) \in S
      <3>1. IsWalk(t0, s) /\ EndsAs(s, c)
        BY <2>7, WalkIs
      <3>2. Onto(t0, s, WalkStep(t0, s, base, f, bn))
        BY <2>7, <3>1, WalkGoes
      <3>3. f \/ EndsAs(WalkStep(t0, s, base, f, bn), c)
        BY <2>7, <3>1, EndsAgain
      <3>4. IsWalk(t0, WalkStep(t0, s, base, f, bn))
        BY <3>2 DEF Onto
      <3> QED  BY <2>1, <3>3, <3>4, WalkIs
    <2>8. F[x] \in S /\ q = F[x]
      <3>1. S \in SUBSET Walks(t0)
        OBVIOUS
      <3> HIDE DEF S
      <3> QED  BY <2>2, <2>6, <2>7, <2>3, <3>1 DEF Walking
    <2>9. EndsAs(q, c)
      BY <2>8
    <2> QED  BY <2>1, <2>4, <2>9 DEF EndsAs, Found
  <1> QED  BY <1>1, <1>2

(* A path of nothing names the base, which has no name; and beneath the    *)
(* root ".." leads nowhere.                                                *)
LEMMA NamesNothing ==
    ASSUME NEW t0, Shape(t0), NEW p, IsPath(p), NEW bn, NEW l, l = Named(t0, bn, p)
    PROVE  /\ p.comps = <<>> => l.is # "absent"
           /\ p.comps = <<"..">> /\ Found(l) => ~bn
  <1>1. CASE p.abs /\ bn
    <2>1. NoTail(p).abs = p.abs
      BY DEF IsPath, Path, NoTail
    <2>2. l.is = "PermissionDenied"
      BY <1>1, <2>1 DEF Named, Look
    <2> QED  BY <2>2 DEF Found
  <1>2. CASE ~(p.abs /\ bn)
    <2>1. PICK base, f : base = BaseOf(bn) /\ f = FALSE
      OBVIOUS
    <2>2. PICK q, F, x, r : /\ q = WalkOf(t0, bn, p) /\ Walking(t0, base, f, bn, F)
                            /\ x = StartWalk(base, p.comps) /\ r = WalkStep(t0, x, base, f, bn)
      BY WalkLoops
    <2>3. q = WalkFrom(t0, base, base, p, f, bn)
      BY <2>1, <2>2 DEF WalkOf
    <2>4. l.is = q.out
      BY <1>2, <2>2, NamedIs
    <2>5. base \in Ino /\ IsDir(t0, base)
      BY <2>1, TreeAssumption DEF Shape, BaseOf
    <2>6. IsWalk(t0, x) /\ x.out = "go" /\ x.todo = p.comps /\ x.at = base
      <3>1. p.comps \in Seq(Comps)
        BY DEF IsPath
      <3> QED  BY <2>2, <2>5, <3>1, StartIs
    <2>7. IsWalk(t0, r)
      BY <2>2, <2>6, WalkGoes DEF Onto
    <2>8. q = F[x] /\ F[x] = F[r] /\ (r.out # "go" => F[r] = r)
      BY <2>2, <2>6, <2>7, <2>3, WalkIs DEF Walking
    <2>9. x = Place("go", x.at, x.todo, x.hops, x.dir, x.name)
      BY <2>6 DEF IsWalk, Place
    <2>10. ASSUME p.comps = <<>>  PROVE r.out = "found"
      <3>1. r = [x EXCEPT !.out = "found"]
        BY <2>2, <2>6, <2>10, Zenon DEF WalkStep
      <3> QED  BY <2>9, <3>1 DEF Place
    <2>11. ASSUME p.comps = <<"..">>, bn  PROVE r.out = "PermissionDenied"
      <3>1. x.todo # <<>> /\ Head(x.todo) = ".."
        BY <2>6, <2>11
      <3>2. r = [x EXCEPT !.out = "PermissionDenied"]
        BY <2>2, <2>6, <2>11, <3>1, Zenon DEF WalkStep
      <3> QED  BY <2>9, <3>2 DEF Place
    <2> QED  BY <2>4, <2>8, <2>10, <2>11 DEF Found
  <1> QED  BY <1>1, <1>2


-----------------------------------------------------------------------------
(* What a copy made, and how it is taken back.                             *)

(* i, childless, is all that tree has more than u: without its name, the   *)
(* rest is what it was.                                                    *)
Without(u, tree, i, c, m) == \A j \in Ino \ {i} : Detach(tree, c, m)[j] = u[j]
Alone(u, tree, i, bn, p) ==
    LET l == Named(u, bn, p)
    IN  /\ MadeAs(u, tree, i, bn, p) /\ Childless(tree[i])
        /\ Without(u, tree, i, l.dir, l.name)

(* What is left of a node when a name is taken depends on that node only.  *)
LEMMA DetachAt ==
    ASSUME NEW t0, IsTree(t0), NEW t1, IsTree(t1), NEW c, NEW m, NEW j \in Ino, t0[j] = t1[j]
    PROVE  Detach(t0, c, m)[j] = Detach(t1, c, m)[j]
  <1>1. t0 = [i \in Ino |-> t0[i]] /\ t1 = [i \in Ino |-> t1[i]]
    BY DEF IsTree
  <1>2. PICK x0, x1 : /\ x0 = [t0[c] EXCEPT !.ents = Restrict(t0[c].ents, DOMAIN t0[c].ents \ {m})]
                      /\ x1 = [t1[c] EXCEPT !.ents = Restrict(t1[c].ents, DOMAIN t1[c].ents \ {m})]
    OBVIOUS
  <1>3. Detach(t0, c, m) = [t0 EXCEPT ![c] = x0] /\ Detach(t1, c, m) = [t1 EXCEPT ![c] = x1]
    BY <1>2 DEF Detach
  <1>4. j # c => [t0 EXCEPT ![c] = x0][j] = t0[j] /\ [t1 EXCEPT ![c] = x1][j] = t1[j]
    BY <1>1
  <1>5. j = c => [t0 EXCEPT ![c] = x0][j] = x0 /\ [t1 EXCEPT ![c] = x1][j] = x1
    BY <1>1
  <1>6. j = c => x0 = x1
    BY <1>2
  <1> QED  BY <1>3, <1>4, <1>5, <1>6

(* A new node, and nothing else, is what a create adds.                    *)
LEMMA CreateUndone ==
    ASSUME NEW t0, Shape(t0), NEW c \in Ino, IsDir(t0, c), FreeInos(t0) # {}, NEW m,
           \A i : ~Has(t0, c, m, i), NEW x, IsNode(t0, x), Childless(x),
           NEW k, k = Fresh(t0), NEW t1, t1 = Create(t0, c, m, x)
    PROVE  Without(t0, t1, k, c, m)
  <1>1. IsTree(t0) /\ k \in Ino /\ t0[k] = Free /\ c # k
    <2>1. IsTree(t0)
      BY DEF Shape
    <2> QED  BY <2>1, FreshIs, DirIsNode
  <1>2. PICK y : y = SetNode(t0, k, x)
    OBVIOUS
  <1>3. IsTree(y) /\ y[k] = x /\ \A j \in Ino \ {k} : y[j] = t0[j]
    BY <1>1, <1>2, SetNodeIs
  <1>4. t1 = Attach(y, c, m, k)
    BY <1>2 DEF Create, SetNode
  <1>5. y[c] = t0[c] /\ IsDir(y, c) /\ Ents(y, c) = Ents(t0, c) /\ y[k] # Free
    BY <1>1, <1>3 DEF IsDir, Kind, Ents, Childless
  <1>6. /\ IsTree(t1) /\ \A j \in Ino \ {c} : t1[j] = y[j]
        /\ t1[c] = DirNode(With(Ents(y, c), m, k), y[c].mode)
    BY <1>1, <1>3, <1>4, <1>5, AttachIs
  <1>7. PICK e, f, n : e = Ents(t0, c) /\ f = With(e, m, k) /\ n = t0[c].mode
    OBVIOUS
  <1>8. t0[c] = DirNode(e, n) /\ e = [z \in DOMAIN e |-> e[z]] /\ m \notin DOMAIN e
    BY <1>1, <1>7, EntryIs DEF Has
  <1>9. Restrict(f, DOMAIN f \ {m}) = e
    <2>1. f = [z \in DOMAIN e \cup {m} |-> IF z = m THEN k ELSE e[z]]
      BY <1>7 DEF With
    <2>2. DOMAIN f \ {m} = DOMAIN e /\ \A z \in DOMAIN e : f[z] = e[z]
      BY <1>8, <2>1
    <2>3. Restrict(f, DOMAIN f \ {m}) = [z \in DOMAIN e |-> f[z]]
      BY <2>2 DEF Restrict
    <2> QED  BY <1>8, <2>2, <2>3
  <1>10. PICK t2 : t2 = Detach(t1, c, m)
    OBVIOUS
  <1>11. \A j \in Ino \ {c} : t2[j] = t1[j]
    BY <1>5, <1>6, <1>10, AttachIs, DetachIs DEF DirNode, IsDir, Kind
  <1>12. t2[c] = t0[c]
    <2>1. t1[c] = DirNode(f, n) /\ t1 = [j \in Ino |-> t1[j]]
      BY <1>5, <1>6, <1>7 DEF IsTree
    <2>2. PICK z : z = [t1[c] EXCEPT !.ents = Restrict(t1[c].ents, DOMAIN t1[c].ents \ {m})]
      OBVIOUS
    <2>3. t2 = [t1 EXCEPT ![c] = z]
      BY <1>10, <2>2 DEF Detach
    <2>4. t1[c].ents = f
      BY <2>1 DEF DirNode
    <2>5. z = [t1[c] EXCEPT !.ents = e]
      BY <1>9, <2>2, <2>4
    <2>6. z = DirNode(e, n)
      BY <2>1, <2>5 DEF DirNode
    <2> QED  BY <1>8, <2>1, <2>3, <2>6
  <1> QED  BY <1>3, <1>6, <1>10, <1>11, <1>12 DEF Without


(* The name that lacks leads to a directory that was there.                *)
LEMMA AloneIs ==
    ASSUME NEW u, Shape(u), NEW t0, Shape(t0), NEW i, NEW bn, NEW p, IsPath(p),
           Alone(u, t0, i, bn, p), NEW l, l = Named(u, bn, p)
    PROVE  /\ l.is = "absent" /\ l.dir \in Ino /\ IsDir(u, l.dir) /\ IsDir(t0, l.dir) /\ l.dir # i
           /\ i \in Ino /\ u[i] = Free /\ Extends(u, t0) /\ Has(t0, l.dir, l.name, i)
           /\ Childless(t0[i]) /\ Without(u, t0, i, l.dir, l.name)
           /\ \A x : ~Has(u, l.dir, l.name, x)
  <1>1. /\ l.is = "absent" /\ i \in Ino /\ u[i] = Free /\ Extends(u, t0)
        /\ Has(t0, l.dir, l.name, i) /\ Childless(t0[i]) /\ Without(u, t0, i, l.dir, l.name)
    BY EntriesAre DEF Alone, MadeAs
  <1>2. l.dir \in Ino /\ IsDir(u, l.dir) /\ \A x : ~Has(u, l.dir, l.name, x)
    BY <1>1, NamedSees DEF Sees
  <1>3. l.dir # i
    BY <1>1, <1>2, DirIsNode
  <1>4. IsDir(t0, l.dir)
    BY <1>1 DEF Has
  <1> QED  BY <1>1, <1>2, <1>3, <1>4

(* A new node written over is still alone,                                 *)
LEMMA AloneNode ==
    ASSUME NEW u, Shape(u), NEW t0, Shape(t0), NEW i, NEW bn, NEW p, IsPath(p),
           Alone(u, t0, i, bn, p), NEW t1, Shape(t1), SameNames(t0, t1), Childless(t1[i]),
           \A j \in Ino \ {i} : t1[j] = t0[j]
    PROVE  Alone(u, t1, i, bn, p)
  <1>1. PICK l : l = Named(u, bn, p)
    OBVIOUS
  <1>2. Without(u, t0, i, l.dir, l.name)
    BY <1>1, AloneIs
  <1>3. IsTree(t0) /\ IsTree(t1)
    BY DEF Shape
  <1>4. \A j \in Ino \ {i} : Detach(t1, l.dir, l.name)[j] = Detach(t0, l.dir, l.name)[j]
    BY <1>3, DetachAt
  <1>5. Without(u, t1, i, l.dir, l.name)
    BY <1>2, <1>4 DEF Without
  <1>6. MadeAs(u, t1, i, bn, p)
    BY MadeNode DEF Alone
  <1> QED  BY <1>1, <1>5, <1>6 DEF Alone

(* and it leaves nothing to reap.                                          *)
LEMMA AloneReap ==
    ASSUME NEW u, Shape(u), Reaped(u, {}), NEW t0, Shape(t0), NEW i, NEW bn, NEW p, IsPath(p),
           Alone(u, t0, i, bn, p), NEW open \in SUBSET Ino
    PROVE  Reap(t0, open) = t0
  <1>1. PICK l, t1 : l = Named(u, bn, p) /\ t1 = Detach(t0, l.dir, l.name)
    OBVIOUS
  <1>2. /\ l.dir \in Ino /\ IsDir(t0, l.dir) /\ i \in Ino /\ Extends(u, t0)
        /\ Has(t0, l.dir, l.name, i) /\ Without(u, t0, i, l.dir, l.name)
    BY <1>1, AloneIs
  <1>3. IsTree(t0)
    BY DEF Shape
  <1>4. \A j \in Ino : t1[j] = Free <=> t0[j] = Free
    BY <1>1, <1>2, <1>3, DetachIs
  <1>5. ASSUME NEW j \in Ino, t0[j] # Free  PROVE Anchored(t0, j)
    <2>1. CASE j = i
      BY <1>2, <2>1 DEF Anchored
    <2>2. CASE j # i
      <3>1. u[j] # Free
        BY <1>1, <1>2, <1>4, <1>5, <2>2 DEF Without
      <3>2. Anchored(u, j)
        BY <3>1 DEF Reaped
      <3>3. \A d, n : Has(u, d, n, j) => Has(t0, d, n, j)
        BY <1>2, ExtendsIs
      <3> QED  BY <3>2, <3>3 DEF Anchored
    <2> QED  BY <2>1, <2>2
  <1>6. Reaped(t0, open)
    BY <1>5 DEF Reaped
  <1> QED  BY <1>6, ReapNone

(* Its name taken, the tree is the one it was made in.                     *)
LEMMA Undo ==
    ASSUME NEW u, Shape(u), Reaped(u, {}), NEW t0, Shape(t0), NEW i, NEW bn, NEW p, IsPath(p),
           Alone(u, t0, i, bn, p), NEW l, l = Named(u, bn, p),
           NEW t1, t1 = Detach(t0, l.dir, l.name), NEW open, open = {}
    PROVE  Reap(t1, open) = u
  <1>1. /\ l.dir \in Ino /\ IsDir(u, l.dir) /\ IsDir(t0, l.dir) /\ l.dir # i /\ i \in Ino
        /\ u[i] = Free /\ Childless(t0[i]) /\ Without(u, t0, i, l.dir, l.name)
    BY AloneIs
  <1>2. IsTree(t0) /\ IsTree(u) /\ IsDir(u, Top) /\ IsDir(u, Root)
    BY DEF Shape
  <1>3. Shape(t1) /\ t1[i] = t0[i] /\ \A j \in Ino \ {i} : t1[j] = u[j]
    BY <1>1, <1>2, DetachIs, DetachTurns DEF Without, Turns
  <1>4. \A d, n, j : ~Has(u, i, n, j) /\ ~Has(t1, i, n, j)
    <2>1. \A n, j : ~Has(u, i, n, j)
      BY <1>1, DirIsNode DEF Has
    <2>2. ASSUME NEW n, NEW j, Has(t1, i, n, j)  PROVE FALSE
      <3>1. t0[i].kind = "dir" /\ n \in DOMAIN t0[i].ents
        BY <1>3, <2>2 DEF Has, IsDir, Kind, Ents
      <3>2. t0[i].ents = <<>>
        BY <1>1, <3>1 DEF Childless, DirNode
      <3> QED  BY <3>1, <3>2
    <2> QED  BY <2>1, <2>2
  <1>5. SameNames(u, t1)
    BY <1>3, <1>4 DEF SameNames, Has, IsDir, Kind, Ents
  <1>6. Filled(u)
    <2>1. \A d, n, j : Has(u, d, n, j) => d \in Ino /\ u[d] # Free
      BY DirIsNode DEF Has
    <2>2. \A d \in Ino : u[d] # Free => Anchored(u, d)
      BY DEF Reaped
    <2> QED  BY <2>1, <2>2 DEF Filled
  <1>7. Filled(t1)
    BY <1>5, <1>6, SameKeeps
  <1>8. PICK t2 : t2 = Reap(t1, open)
    OBVIOUS
  <1>9. open \in SUBSET Ino
    OBVIOUS
  <1>10. /\ Shape(t2) /\ \A j \in Ino : t2[j] \in {t1[j], Free}
         /\ \A j \in {Top, Root} : t2[j] = t1[j]
         /\ \A d, n, j : Has(t2, d, n, j) => Has(t1, d, n, j)
         /\ \A d, n, j : Has(t1, d, n, j) => t2[j] = t1[j]
    BY <1>3, <1>8, <1>9, ReapTurns
  <1>11. Reaped(t2, open)
    BY <1>3, <1>7, <1>8, <1>9, ReapKeeps
  <1>12. ASSUME NEW j \in Ino, u[j] # Free  PROVE t2[j] = u[j]
    <2>1. Anchored(u, j)
      BY <1>12 DEF Reaped
    <2>2. t2[j] = t1[j]
      BY <1>5, <1>10, <2>1 DEF Anchored, SameNames
    <2> QED  BY <1>1, <1>3, <1>12, <2>2
  <1>13. ASSUME NEW j \in Ino, u[j] = Free  PROVE t2[j] = u[j]
    <2>1. CASE j # i
      BY <1>3, <1>10, <1>13, <2>1
    <2>2. CASE j = i /\ t2[j] # Free
      <3>1. Anchored(t2, j)
        BY <1>8, <1>11, <2>2 DEF Reaped
      <3>2. j \notin {Top, Root}
        BY <1>2, <1>13, DirIsNode
      <3>3. PICK d, n : Has(t2, d, n, j)
        BY <3>1, <3>2 DEF Anchored
      <3>4. Has(u, d, n, j)
        BY <1>5, <1>10, <3>3 DEF SameNames
      <3> QED  BY <1>2, <1>13, <3>4, HasIs
    <2> QED  BY <1>13, <2>1, <2>2
  <1>14. t2 = u
    <2>1. t2 = [j \in Ino |-> t2[j]] /\ u = [j \in Ino |-> u[j]]
      BY <1>2, <1>10 DEF Shape, IsTree
    <2> QED  BY <1>12, <1>13, <2>1
  <1> QED  BY <1>8, <1>14

(* A node made where a name was absent is alone there.                     *)
LEMMA MakeAlone ==
    ASSUME NEW t0, Shape(t0), NEW bn, NEW p, NEW l, l = Named(t0, bn, p), Sees(t0, l),
           l.is = "absent", NEW x, IsNode(t0, x), Childless(x),
           NEW r, r = MakeAt(t0, l, x), r.err = "ok"
    PROVE  Alone(t0, r.t, r.ino, bn, p)
  <1>1. MadeAs(t0, r.t, r.ino, bn, p) /\ r.t[r.ino] = x
    BY MakeMakes
  <1>2. FreeInos(t0) # {} /\ r = Ans("ok", Create(t0, l.dir, l.name, x), Fresh(t0))
    <2>1. \A e : Fail(e, t0).err = e
      BY DEF Fail, Ans
    <2> QED  BY <2>1 DEF MakeAt
  <1>3. PICK c, m, k, t1 : /\ c = l.dir /\ m = l.name /\ k = Fresh(t0)
                           /\ t1 = Create(t0, c, m, x)
    OBVIOUS
  <1>4. r.t = t1 /\ r.ino = k
    BY <1>2, <1>3 DEF Ans
  <1>5. Without(t0, t1, k, c, m)
    BY <1>2, <1>3, CreateUndone DEF Sees
  <1> QED  BY <1>1, <1>3, <1>4, <1>5 DEF Alone

(* An exclusive create makes its node alone, at a name without slashes.     *)
LEMMA CreateNewAlone ==
    ASSUME NEW t0, Shape(t0), NEW p, IsPath(p), NEW mode, NEW bn,
           NEW r, r = CreateNew(t0, bn, p, mode), r.err = "ok"
    PROVE  Alone(t0, r.t, r.ino, bn, p) /\ p.tail = ""
  <1> DEFINE l == Named(t0, bn, p)
             x == FileNode("empty", mode \ Umask)
  <1>1. Sees(t0, l) /\ l.is # "ok"
    BY NamedSees DEF Sees, Outcomes
  <1>2. r = CASE p.tail # "" -> Fail(IF bn THEN "InvalidInput" ELSE "NotFound", t0)
              [] bn /\ EndsInDotDot(p) -> Fail("NotFound", t0)
              [] Found(l) -> Fail(IF bn /\ l.ino = Root THEN "IsADirectory" ELSE "AlreadyExists", t0)
              [] l.is = "absent" /\ p.tail = "" -> MakeAt(t0, l, x)
              [] OTHER -> Fail(l.is, t0)
    BY Zenon DEF CreateNew
  <1>3. IsNode(t0, x) /\ Childless(x)
    BY NodesAre
  <1>4. \A e : Fail(e, t0).err = e
    BY DEF Fail, Ans
  <1> HIDE DEF l, x
  <1>5. r = MakeAt(t0, l, x) /\ l.is = "absent"
    BY <1>1, <1>2, <1>4
  <1>6. p.tail = ""
    <2>1. ASSUME p.tail # ""  PROVE \E e : e # "ok" /\ r = Fail(e, t0)
      BY <1>1, <1>2, <2>1
    <2> QED  BY <1>4, <2>1
  <1>7. l = Named(t0, bn, p)
    BY DEF l
  <1>8. Alone(t0, r.t, r.ino, bn, p)
    BY <1>1, <1>3, <1>5, <1>7, MakeAlone
  <1> QED  BY <1>8, <1>6

(* A mkdir makes its directory alone, at a name that does not end in a dot. *)
LEMMA MkdirAlone ==
    ASSUME NEW t0, Shape(t0), NEW p, IsPath(p), NEW mode, NEW bn,
           NEW r, r = Mkdir(t0, bn, p, mode), r.err = "ok"
    PROVE  Alone(t0, r.t, r.ino, bn, p) /\ p.tail # "/."
  <1> DEFINE l == Named(t0, bn, p)
             x == DirNode(<<>>, mode \ Umask)
  <1>1. Sees(t0, l) /\ l.is # "ok"
    BY NamedSees DEF Sees, Outcomes
  <1>2. r = CASE Found(l) -> Fail("AlreadyExists", t0)
              [] l.is = "absent" /\ p.tail = "/." -> Fail("NotFound", t0)
              [] l.is = "absent" /\ p.tail # "/." -> MakeAt(t0, l, x)
              [] OTHER -> Fail(l.is, t0)
    BY Zenon DEF Mkdir
  <1>3. IsNode(t0, x) /\ Childless(x)
    BY NodesAre
  <1>4. \A e : Fail(e, t0).err = e
    BY DEF Fail, Ans
  <1> HIDE DEF l, x
  <1>5. r = MakeAt(t0, l, x) /\ l.is = "absent"
    BY <1>1, <1>2, <1>4
  <1>6. p.tail # "/."
    <2>1. ASSUME p.tail = "/."  PROVE \E e : e # "ok" /\ r = Fail(e, t0)
      BY <1>1, <1>2, <2>1
    <2> QED  BY <1>4, <2>1
  <1>7. l = Named(t0, bn, p)
    BY DEF l
  <1>8. Alone(t0, r.t, r.ino, bn, p)
    BY <1>1, <1>3, <1>5, <1>7, MakeAlone
  <1> QED  BY <1>8, <1>6


-----------------------------------------------------------------------------
(* What a call that fails must be able to take back.                       *)

(* The path as a recursive removal's name check has let it through.        *)
Emptiable(bn, p) == p.tail # "/." /\ ~EndsInParent(p) /\ (bn => p.comps # <<>>)

(* The steps at which a directory's copy has made it.                      *)
HeldSteps == {"copy_dir.open", "copy_dir.chmod", "copy_dir.remove"}

(* What a step finds that its clearing up, or its removal, needs.          *)
Undoable(l, u, tree, hh, bn, p, q) ==
    /\ l \in FileSteps => Alone(u, tree, hh.dst, bn, q) /\ Kind(tree, hh.dst) = "file" /\ q.tail = ""
    /\ l \in HeldSteps => q.tail # "/." /\ \E i \in Ino : Alone(u, tree, i, bn, q) /\ IsDir(tree, i)
    /\ l \in {"rmtree.open", "rmtree.empty"} => Emptiable(bn, p)

(* Which call a step is of, where that decides what its failure promises.  *)
StepFor(l, op) ==
    /\ l \in {"write.data", "append.data"} => op \in {"write", "append"}
    /\ l \in {"mkdir_all.name", "mkdir_all.climb", "mkdir_all.make", "mkdir_all.taken"}
          => op = "mkdir_all"

(* What is so between the steps of a call, until another program moves.    *)
FailInv ==
    /\ pc # "idle" => Confined \/ a.abs
    /\ StepFor(pc, call.op)
    /\ w.quiet => Undoable(pc, w.before, t, h, Confined, a, b)
    /\ FailureLeavesTheTree

(* The failures that promise the tree as it was.                           *)
Blames(op, f, u, tree, bn, p) ==
    /\ op \in {"write", "append", "rmtree"} => ~f
    /\ op # "mkdir_all"
    /\ op = "rmtree" => StillLeads(u, tree, bn, p)

-----------------------------------------------------------------------------
(* The frame of every step.                                                *)

(* Going on to the next step.                                              *)
LEMMA GotoFail ==
    ASSUME TreeInv, FailInv, pc # "idle", NEW l, NEW tree, NEW hh, Goto(l, tree, hh), l # "idle",
           StepFor(l, call.op),
           w.quiet => Undoable(l, w.before, Reap(tree, Open(hh)), hh, Confined, a, b)
    PROVE  FailInv'
  <1>1. PICK m, t1 : m = Made(tree) /\ t1 = Reap(tree, Open(hh))
    OBVIOUS
  <1>2. /\ pc' = l /\ h' = hh /\ t' = t1 /\ call' = call /\ a' = a /\ b' = b /\ host' = host
        /\ w' = [w EXCEPT !.moved = FALSE, !.made = m]
    BY <1>1 DEF Goto, Made
  <1>3. w'.before = w.before /\ w'.quiet = w.quiet
    <2>1. PICK x : x = w'
      OBVIOUS
    <2>2. x = [w EXCEPT !.moved = FALSE, !.made = m]
      BY <1>2, <2>1
    <2>3. x.before = w.before /\ x.quiet = w.quiet
      BY <2>2, FineIs, HistoryKept, Zenon
    <2> QED  BY <2>1, <2>3
  <1>4. Confined' = Confined
    BY <1>2 DEF Confined
  <1>5. Confined \/ a.abs
    BY DEF FailInv
  <1>6. (w.quiet => Undoable(pc, w.before, t, h, Confined, a, b))'
    BY <1>1, <1>2, <1>3, <1>4
  <1>7. FailureLeavesTheTree'
    BY <1>2 DEF FailureLeavesTheTree
  <1> QED  BY <1>2, <1>4, <1>5, <1>6, <1>7 DEF FailInv

(* Answering.                                                              *)
LEMMA AnswerFail ==
    ASSUME TreeInv, FailInv, NEW e, NEW tree, NEW S, NEW fault, AnswersAt(e, tree, S, fault),
           \/ e = "ok" \/ ~w.quiet \/ Reap(tree, {}) = w.before
           \/ ~Blames(call.op, w.injected \/ fault, w.before, Reap(tree, {}), Confined, a)
    PROVE  FailInv'
  <1>1. PICK m, f, t1 : m = Made(tree) /\ f = (w.injected \/ fault) /\ t1 = Reap(tree, {})
    OBVIOUS
  <1>2. /\ pc' = "idle" /\ h' = NoHandles /\ t' = t1 /\ a' = a /\ b' = b
        /\ call' = call /\ host' = host
        /\ result' = [op |-> call.op, err |-> IoErr(e), saw |-> S]
        /\ w' = [w EXCEPT !.moved = FALSE, !.injected = f, !.made = m]
    BY <1>1 DEF AnswersAt, Made
  <1>3. w'.before = w.before /\ w'.quiet = w.quiet /\ w'.injected = f
    <2>1. PICK x : x = w'
      OBVIOUS
    <2>2. x = [w EXCEPT !.moved = FALSE, !.injected = f, !.made = m]
      BY <1>2, <2>1
    <2>3. w = Told(w.before, w.quiet, w.moved, w.injected, w.made)
      BY FineIs DEF IsHistory
    <2>4. x = Told(w.before, w.quiet, FALSE, f, m)
      BY <2>2, <2>3 DEF Told
    <2>5. x.before = w.before /\ x.quiet = w.quiet /\ x.injected = f
      BY <2>4 DEF Told
    <2> QED  BY <2>1, <2>5
  <1>4. Confined' = Confined
    BY <1>2 DEF Confined
  <1>5. result'.op = call.op /\ (result'.err # "ok" => e # "ok")
    <2>1. IoErr("ok") = "ok"
      BY DEF IoErr
    <2> QED  BY <1>2, <2>1
  <1>6. PICK op, u, bn : op = call.op /\ u = w.before /\ bn = Confined
    OBVIOUS
  <1>7. e = "ok" \/ ~w.quiet \/ t1 = u \/ ~Blames(op, f, u, t1, bn, a)
    BY <1>1, <1>6
  <1>8. /\ result'.op = op /\ w'.injected = f /\ w'.before = u /\ t' = t1 /\ Confined' = bn
        /\ a' = a
    BY <1>2, <1>3, <1>4, <1>5, <1>6
  <1>9. Blames(result.op, w.injected, w.before, t, Confined, a)' => Blames(op, f, u, t1, bn, a)
    BY <1>8 DEF Blames, StillLeads
  <1>10. FailureLeavesTheTree'
    <2>1. (pc' = "idle" /\ result'.err # "ok" /\ w'.quiet
              /\ Blames(result.op, w.injected, w.before, t, Confined, a)') => t' = w'.before
      BY <1>3, <1>5, <1>7, <1>8, <1>9
    <2> QED  BY <2>1 DEF FailureLeavesTheTree, Blames
  <1>11. \A op0, u0, x0, hh, bn0, p, q : StepFor("idle", op0) /\ Undoable("idle", u0, x0, hh, bn0, p, q)
    BY DEF StepFor, Undoable, FileSteps, HeldSteps
  <1> QED  BY <1>2, <1>10, <1>11 DEF FailInv

(* The steps that have something to take back, or a name to have checked.  *)
Careful == FileSteps \cup HeldSteps \cup {"rmtree.open", "rmtree.empty"}

(* Going on to any other.                                                  *)
LEMMA OnFail ==
    ASSUME TreeInv, FailInv, pc # "idle", NEW l, NEW tree, NEW hh, Goto(l, tree, hh), l # "idle",
           StepFor(l, call.op), l \notin Careful
    PROVE  FailInv'
  <1>1. \A u, x, g, bn, p, q : Undoable(l, u, x, g, bn, p, q)
    BY DEF Undoable, Careful
  <1> QED  BY <1>1, GotoFail

(* An answer from a step before which nothing was changed, when what fails *)
(* changes nothing.                                                        *)
LEMMA LeftFail ==
    ASSUME TreeInv, KeepInv, OutInv, FailInv, pc \in Untouched, NEW e, NEW tree, NEW S, NEW fault,
           AnswersAt(e, tree, S, fault), e = "ok" \/ tree = t
    PROVE  FailInv'
  <1>1. ASSUME w.quiet, e # "ok"  PROVE Reap(tree, {}) = w.before
    <2>1. tree = w.before /\ Reaped(tree, {}) /\ Shape(tree)
      BY <1>1, OutIs
    <2>2. PICK open : open = {}
      OBVIOUS
    <2>3. open \in SUBSET Ino
      BY <2>2
    <2>4. Reap(tree, open) = tree
      BY <2>1, <2>2, <2>3, ReapNone
    <2> QED  BY <2>1, <2>2, <2>4
  <1> QED  BY <1>1, AnswerFail

(* Where a call is answered by a system call.                              *)
LEMMA PassFail ==
    ASSUME TreeInv, KeepInv, OutInv, FailInv, pc \in Untouched, NEW r, Pass(r) \/ Tell(r),
           Reverts(t, r)
    PROVE  FailInv'
  <1>1. PICK e, x, S, f : e = r.err /\ x = r.t /\ AnswersAt(e, x, S, f)
    BY DEF Pass, Tell, Leave, Answers
  <1> QED  BY <1>1, LeftFail DEF Reverts

(* Where it is refused, or has nothing to do.                              *)
LEMMA StayFail ==
    ASSUME TreeInv, KeepInv, OutInv, FailInv, pc \in Untouched, NEW e, Leave(e, t)
    PROVE  FailInv'
  <1>1. PICK S, f : S = {} /\ f = FALSE
    OBVIOUS
  <1>2. AnswersAt(e, t, S, f)
    BY <1>1 DEF Leave, Answers
  <1> QED  BY <1>2, LeftFail


-----------------------------------------------------------------------------
(* The calls but the copies and the recursive removal.                     *)

(* Reading changes nothing.                                                *)
LEMMA ReadingFail ==
    ASSUME TreeInv, KeepInv, OutInv, FailInv,
           ReadFileAt \/ StatAt \/ ReadDirAt \/ ReadlinkAt \/ OpenReadAt \/ OpenDirAt
    PROVE  FailInv'
  <1>1. PICK f : f = (pc = "open")
    OBVIOUS
  <1>2. /\ Reads(t, OpenRead(t, Confined, a, TRUE)) /\ Reads(t, OpenRead(t, Confined, a, f))
        /\ Reads(t, OpenDir(t, Confined, a, TRUE))
    BY FineIs, OpenReads
  <1>3. Reads(t, ReadLink(t, Confined, a))
    BY FineIs, ReadLinkReads
  <1>4. Reads(t, MetadataFollowed(t, a)) /\ Reads(t, MetadataAsNamed(t, a))
    BY FineIs, AsNamedReads
  <1>5. \A r : Reads(t, r) => Reverts(t, r)
    BY DEF Reads, Reverts
  <1>6. pc \in Untouched
    BY DEF ReadFileAt, StatAt, ReadDirAt, ReadlinkAt, OpenReadAt, OpenDirAt, Untouched, Ops
  <1>7. CASE ReadFileAt
    <2>1. PICK r, e : r = OpenRead(t, Confined, a, TRUE) /\ e = "IsADirectory"
      OBVIOUS
    <2>2. Leave(e, t) \/ Tell(r)
      BY <1>7, <2>1 DEF ReadFileAt
    <2> QED  BY <1>2, <1>5, <1>6, <2>1, <2>2, StayFail, PassFail
  <1>8. CASE StatAt
    BY <1>4, <1>5, <1>6, <1>8, PassFail DEF StatAt
  <1>9. CASE ReadDirAt
    BY <1>2, <1>5, <1>6, <1>9, PassFail DEF ReadDirAt
  <1>10. CASE ReadlinkAt
    BY <1>3, <1>5, <1>6, <1>10, PassFail DEF ReadlinkAt
  <1>11. CASE OpenReadAt
    <2>1. Tell(OpenRead(t, Confined, a, f))
      BY <1>1, <1>11 DEF OpenReadAt
    <2> QED  BY <1>2, <1>5, <1>6, <2>1, PassFail
  <1>12. CASE OpenDirAt
    <2>1. PICK e, S, f0 : /\ e = OpenDir(t, Confined, a, pc = "open_dir").err /\ S = {} /\ f0 = FALSE
      OBVIOUS
    <2>2. AnswersAt(e, t, S, f0)
      BY <1>12, <2>1 DEF OpenDirAt
    <2> QED  BY <1>6, <2>2, LeftFail
  <1> QED  BY <1>7, <1>8, <1>9, <1>10, <1>11, <1>12

(* An open for writing that fails has made and cut nothing.                *)
LEMMA WriteFail ==
    ASSUME TreeInv, KeepInv, OutInv, FailInv, WriteOpen \/ OpenWriteAt
    PROVE  FailInv'
  <1>1. pc \in Untouched /\ call.op = pc /\ pc # "idle"
    <2>1. pc \in {"write"} \cup DOMAIN WriteFlags
      BY Zenon DEF WriteOpen, OpenWriteAt
    <2>2. pc \in {"write", "open_write", "open_append", "open_new", "open_cut", "append"}
      BY <2>1 DEF WriteFlags
    <2> QED  BY <2>2, OpIs DEF Ops, Untouched
  <1>2. PICK e, r :
           \/ Leave(e, t)
           \/ Reverts(t, r) /\ (Pass(r) \/ Tell(r))
           \/ pc = "write" /\ Goto("write.data", r.t, [h EXCEPT !.dst = r.ino])
           \/ pc = "append" /\ Goto("append.data", r.t, [h EXCEPT !.dst = r.ino])
    <2>1. CASE WriteOpen
      <3>1. PICK e, r : /\ e = RefuseDirectoryName(t, a)
                        /\ r = OpenWrite(t, Confined, a, {"create", "truncate"})
        OBVIOUS
      <3>2. Reverts(t, r)
        BY <3>1, MakingReverts
      <3>3. \/ Leave(e, t) \/ Pass(r)
            \/ pc = "write" /\ Goto("write.data", r.t, [h EXCEPT !.dst = r.ino])
        BY <2>1, <3>1 DEF WriteOpen
      <3> QED  BY <3>2, <3>3
    <2>2. CASE OpenWriteAt
      <3>1. PICK flags : flags = WriteFlags[pc]
        OBVIOUS
      <3>2. PICK r : r = OpenWrite(t, Confined, a, flags)
        OBVIOUS
      <3>3. Reverts(t, r)
        BY <3>2, MakingReverts
      <3>4. \/ \E e : Leave(e, t)
            \/ Pass(r) \/ Tell(r)
            \/ pc = "append" /\ Goto("append.data", r.t, [h EXCEPT !.dst = r.ino])
        BY <2>2, <3>1, <3>2 DEF OpenWriteAt
      <3> QED  BY <3>3, <3>4
    <2> QED  BY <2>1, <2>2
  <1>3. ASSUME NEW l \in {"write.data", "append.data"}, NEW hh, Goto(l, r.t, hh),
               pc \in {"write", "append"}
        PROVE  FailInv'
    <2>1. l # "idle" /\ StepFor(l, call.op) /\ l \notin Careful
      BY <1>1, <1>3 DEF StepFor, Careful, FileSteps, HeldSteps
    <2> QED  BY <1>1, <1>3, <2>1, OnFail
  <1> QED  BY <1>1, <1>2, <1>3, StayFail, PassFail

(* A write that is cut short is not promised to.                           *)
LEMMA PutFail ==
    ASSUME TreeInv, KeepInv, OutInv, FailInv, WriteData \/ AppendData
    PROVE  FailInv'
  <1>1. call.op \in {"write", "append"}
    BY DEF WriteData, AppendData, FailInv, StepFor
  <1>2. PICK e, x, S, f : AnswersAt(e, x, S, f) /\ (e = "ok" \/ f = TRUE)
    BY DEF WriteData, AppendData, Leave, Answers
  <1>3. \A g, u, y, bn, p : g => ~Blames(call.op, g, u, y, bn, p)
    BY <1>1 DEF Blames
  <1>4. e = "ok" \/ (w.injected \/ f)
    BY <1>2
  <1> QED  BY <1>2, <1>3, <1>4, AnswerFail

(* create_dir,                                                             *)
LEMMA CreateDirFail ==
    ASSUME TreeInv, KeepInv, OutInv, FailInv, CreateDirName \/ CreateDirMake
    PROVE  FailInv'
  <1>1. pc \in Untouched /\ pc # "idle"
    BY DEF CreateDirName, CreateDirMake, Untouched, Ops
  <1>2. CASE CreateDirName
    <2>1. PICK e, l : l = "mkdir.make" /\ (Leave(e, t) \/ Goto(l, t, h))
      BY <1>2 DEF CreateDirName
    <2>2. l # "idle" /\ StepFor(l, call.op) /\ l \notin Careful
      BY <2>1 DEF StepFor, Careful, FileSteps, HeldSteps, AllSteps
    <2> QED  BY <1>1, <2>1, <2>2, StayFail, OnFail
  <1>3. CASE CreateDirMake
    BY <1>1, <1>3, MakingReverts, PassFail DEF CreateDirMake
  <1> QED  BY <1>2, <1>3

(* and create_dir_all, which is not promised to.                           *)
LEMMA CreateDirAllFail ==
    ASSUME TreeInv, KeepInv, OutInv, FailInv,
           CreateDirAllThere \/ CreateDirAllName \/ CreateDirAllMake \/ CreateDirAllTaken
    PROVE  FailInv'
  <1>1. pc \in {"mkdir_all"} \cup AllSteps
    BY DEF CreateDirAllThere, CreateDirAllName, CreateDirAllMake, CreateDirAllTaken, AllSteps
  <1>2. call.op = "mkdir_all" /\ pc # "idle"
    BY <1>1, OpIs DEF FailInv, StepFor, Ops, AllSteps
  <1>3. PICK x, e, l, hh : /\ l \in AllSteps
                           /\ Leave(e, x) \/ Goto(l, x, hh)
    BY KeepIs, FineIs, MakesAre
  <1>4. CASE Leave(e, x)
    <2>1. PICK S, f : AnswersAt(e, x, S, f)
      BY <1>4 DEF Leave, Answers
    <2>2. \A g, u, y, bn, p : ~Blames(call.op, g, u, y, bn, p)
      BY <1>2 DEF Blames
    <2> QED  BY <2>1, <2>2, AnswerFail
  <1>5. CASE Goto(l, x, hh)
    <2>1. l # "idle" /\ StepFor(l, call.op) /\ l \notin Careful
      BY <1>2, <1>3 DEF StepFor, Careful, FileSteps, HeldSteps, AllSteps
    <2> QED  BY <1>2, <1>5, <2>1, OnFail
  <1> QED  BY <1>3, <1>4, <1>5

(* symlink.                                                                *)
LEMMA SymlinkFail ==
    ASSUME TreeInv, KeepInv, OutInv, FailInv, SymlinkCheck \/ SymlinkMake
    PROVE  FailInv'
  <1>1. pc \in Untouched /\ pc # "idle"
    BY DEF SymlinkCheck, SymlinkMake, Untouched, Ops
  <1>2. CASE SymlinkCheck
    <2>1. PICK l : l = "symlink.make"
      OBVIOUS
    <2>2. Goto(l, t, h) \/ \E e : Leave(e, t)
      BY <1>2, <2>1 DEF SymlinkCheck
    <2>3. l # "idle" /\ StepFor(l, call.op) /\ l \notin Careful
      BY <2>1 DEF StepFor, Careful, FileSteps, HeldSteps
    <2> QED  BY <1>1, <2>2, <2>3, StayFail, OnFail
  <1>3. CASE SymlinkMake
    BY <1>1, <1>3, MakingReverts, PassFail DEF SymlinkMake
  <1> QED  BY <1>2, <1>3

(* A removal's name is judged first; then unlink and remove_dir are one    *)
(* system call.                                                            *)
LEMMA RemoveFail ==
    ASSUME TreeInv, KeepInv, OutInv, FailInv,
           RemoveDirName \/ RemoveDirAllName \/ RemoveDirRemove \/ UnlinkAt
    PROVE  FailInv'
  <1>1. pc \in Untouched /\ pc # "idle"
    BY DEF RemoveDirName, RemoveDirAllName, RemoveDirRemove, UnlinkAt, Untouched, Ops
  <1>2. CASE RemoveDirName
    <2>1. PICK l : l = "rmdir.remove"
      OBVIOUS
    <2>2. Goto(l, t, h) \/ \E e : Leave(e, t)
      BY <1>2, <2>1 DEF RemoveDirName
    <2>3. l # "idle" /\ StepFor(l, call.op) /\ l \notin Careful
      BY <2>1 DEF StepFor, Careful, FileSteps, HeldSteps
    <2> QED  BY <1>1, <2>2, <2>3, StayFail, OnFail
  <1>3. CASE RemoveDirAllName
    <2>1. PICK l : l = "rmtree.open"
      OBVIOUS
    <2>2. \/ \E e : Leave(e, t)
          \/ /\ Goto(l, t, h) /\ ~RefuseTrailingDot(a) /\ ~RefuseConfinedRoot(a)
             /\ ExistingDirectoryName(t, a) = "ok"
      BY <1>3, <2>1 DEF RemoveDirAllName
    <2>3. ASSUME ~RefuseTrailingDot(a), ~RefuseConfinedRoot(a), ExistingDirectoryName(t, a) = "ok"
          PROVE  Emptiable(Confined, a)
      <3>1. ~EndsInParent(a)
        BY <2>3 DEF ExistingDirectoryName
      <3> QED  BY <2>3, <3>1 DEF RefuseTrailingDot, RefuseConfinedRoot, Emptiable
    <2>4. l # "idle" /\ StepFor(l, call.op)
      BY <2>1 DEF StepFor
    <2>5. ASSUME Emptiable(Confined, a), NEW u, NEW x, NEW hh, NEW q
          PROVE  Undoable(l, u, x, hh, Confined, a, q)
      BY <2>1, <2>5 DEF Undoable, FileSteps, HeldSteps
    <2> QED  BY <1>1, <2>2, <2>3, <2>4, <2>5, StayFail, GotoFail
  <1>4. CASE RemoveDirRemove
    BY <1>1, <1>4, TakingReverts, PassFail DEF RemoveDirRemove
  <1>5. CASE UnlinkAt
    BY <1>1, <1>5, TakingReverts, PassFail DEF UnlinkAt
  <1> QED  BY <1>2, <1>3, <1>4, <1>5

(* rename and hard_link.                                                   *)
LEMMA MoveFail ==
    ASSUME TreeInv, KeepInv, OutInv, FailInv,
           RenameAt \/ LinkAt \/ StayKind \/ StayRead \/ StayAim \/ Move
    PROVE  FailInv'
  <1>1. pc \in Untouched /\ pc # "idle"
    BY DEF RenameAt, LinkAt, StayKind, StayRead, StayAim, Move, Untouched, Ops
  <1>2. CASE Move
    <2>1. PICK r : r \in {Rename(t, Confined, a, b), HardLink(t, Confined, a, b)} /\ Pass(r)
      BY <1>2 DEF Move
    <2> QED  BY <1>1, <2>1, TakingReverts, PassFail
  <1>3. CASE RenameAt \/ LinkAt \/ StayKind \/ StayAim
    <2>1. \/ \E l \in {"stay.kind", "stay.read", "move"} : Goto(l, t, h)
          \/ \E e : Leave(e, t)
      BY <1>3 DEF RenameAt, LinkAt, StayKind, StayAim, MoveNow
    <2>2. \A l \in {"stay.kind", "stay.read", "move"} :
             l # "idle" /\ StepFor(l, call.op) /\ l \notin Careful
      BY DEF StepFor, Careful, FileSteps, HeldSteps
    <2> QED  BY <1>1, <2>1, <2>2, StayFail, OnFail
  <1>4. CASE StayRead
    <2>1. PICK r, bn : r = ReadLink(t, bn, a) /\ bn = TRUE
      OBVIOUS
    <2>2. Reads(t, ReadLink(t, bn, a))
      BY FineIs, ReadLinkReads
    <2>3. PICK l, hh : \/ Pass(r)
                       \/ l \in {"move", "stay.aim"} /\ Goto(l, t, hh)
      BY <1>4, <2>1 DEF StayRead
    <2>4. l \in {"move", "stay.aim"} => l # "idle" /\ StepFor(l, call.op) /\ l \notin Careful
      BY DEF StepFor, Careful, FileSteps, HeldSteps
    <2>5. Reverts(t, r)
      BY <2>1, <2>2 DEF Reads, Reverts
    <2> QED  BY <1>1, <2>3, <2>4, <2>5, PassFail, OnFail
  <1> QED  BY <1>2, <1>3, <1>4


-----------------------------------------------------------------------------
(* The names that can be taken back.                                       *)

(* A path that does not end in ".." or "/." loses its slashes.             *)
LEMMA TailGoes ==
    ASSUME NEW p, IsPath(p), p.tail # "/.", p.comps # <<>>, Last(p.comps) # ".."
    PROVE  SlashesStripped(p).tail = ""
  <1>1. ~EndsInDotDot(p)
    BY DEF EndsInDotDot
  <1>2. p.tail \in {"", "/", "/."}
    BY DEF IsPath
  <1>3. HasSlashes(p) <=> p.tail = "/"
    BY <1>1 DEF HasSlashes
  <1>4. NoTail(p).tail = ""
    BY StrippedNames
  <1> QED  BY <1>2, <1>3, <1>4 DEF SlashesStripped

(* A directory found under its name, past the checks of that name, is an   *)
(* entry, and the path has no slashes left.                                *)
LEMMA EntryEnds ==
    ASSUME NEW t0, Shape(t0), NEW p, IsPath(p), NEW bn, Emptiable(bn, p), bn \/ p.abs,
           p.comps # <<>>, NEW l, l = Named(t0, bn, p), Found(l)
    PROVE  SlashesStripped(p).tail = "" /\ l.name # ""
  <1>1. p.comps \in Seq(Comps) /\ "" \notin Comps
    BY DEF IsPath, Comps
  <1>2. Last(p.comps) # ".."
    <2>1. ASSUME Last(p.comps) = ".."  PROVE FALSE
      <3>1. EndsInDotDot(p) /\ ~EndsInParent(p) /\ p.tail # "/."
        BY <2>1 DEF EndsInDotDot, Emptiable
      <3>2. ~p.abs /\ ~(Len(p.comps) > 1)
        BY <3>1 DEF EndsInParent
      <3>3. PICK y : y = p.comps
        OBVIOUS
      <3>4. y \in Seq(Comps) /\ y # <<>> /\ Last(y) = ".." /\ ~(Len(y) > 1)
        BY ONLY <1>1, <2>1, <3>2, <3>3, p.comps # <<>>
      <3>5. Len(y) = 1
        <4>1. ASSUME NEW z \in Seq(Comps), z # <<>>  PROVE Len(z) > 0 /\ Len(z) \in Nat
          BY ONLY <4>1
        <4> QED  BY ONLY <3>4, <4>1
      <3>6. y[1] = ".."
        BY ONLY <3>4, <3>5 DEF Last
      <3>7. y = <<"..">>
        BY ONLY <3>4, <3>5, <3>6
      <3> QED  BY <3>2, <3>3, <3>7, NamesNothing
    <2> QED  BY <2>1
  <1>3. l.name = Last(p.comps)
    BY <1>2, NamesEnd
  <1>4. Last(p.comps) \in Comps
    BY <1>1, LastIs
  <1> QED  BY <1>1, <1>2, <1>3, <1>4, TailGoes DEF Emptiable

(* The calls that take a name do, where nothing stands against it.         *)
LEMMA RmdirGoes ==
    ASSUME NEW t0, Shape(t0), NEW bn, NEW p, p.tail = "", NEW l, l = Named(t0, bn, p), Found(l),
           IsDir(t0, l.ino), l.name # "", Ents(t0, l.ino) = <<>>
    PROVE  Rmdir(t0, bn, p) = Ans("ok", Detach(t0, l.dir, l.name), l.ino)
  <1>1. Rmdir(t0, bn, p) =
           CASE bn /\ p.tail = "/" -> Fail("InvalidInput", t0)
             [] ~Found(l) -> Fail(ErrorOf(l), t0)
             [] ~IsDir(t0, l.ino) -> Fail("NotADirectory", t0)
             [] l.name = "" \/ p.tail = "/." -> Fail("InvalidInput", t0)
             [] Ents(t0, l.ino) # <<>> -> Fail("DirectoryNotEmpty", t0)
             [] OTHER -> Ans("ok", Detach(t0, l.dir, l.name), l.ino)
    BY Zenon DEF Rmdir
  <1> QED  BY <1>1

(* Unlink too.                                                             *)
LEMMA UnlinkGoes ==
    ASSUME NEW t0, NEW bn, NEW p, p.tail = "", NEW l, l = Named(t0, bn, p), Found(l),
           ~IsDir(t0, l.ino)
    PROVE  Unlink(t0, bn, p) = Ans("ok", Detach(t0, l.dir, l.name), l.ino)
  <1>1. Unlink(t0, bn, p) =
           CASE ~Found(l) -> Fail(ErrorOf(l), t0)
             [] IsDir(t0, l.ino) -> Fail("IsADirectory", t0)
             [] p.tail # "" -> Fail("NotADirectory", t0)
             [] OTHER -> Ans("ok", Detach(t0, l.dir, l.name), l.ino)
    BY Zenon DEF Unlink
  <1> QED  BY <1>1

(* What was made is found under the name it was made by.                   *)
LEMMA AloneFound ==
    ASSUME NEW u, Shape(u), NEW t0, Shape(t0), NEW i, NEW bn, NEW p, IsPath(p),
           Alone(u, t0, i, bn, p), Kind(t0, i) # "link", NEW l, l = Named(u, bn, p)
    PROVE  /\ Lands(Named(t0, bn, p), l, i)
           /\ p.tail = "" => \A f \in BOOLEAN : Lands(Look(t0, bn, p, f), l, i)
  <1>1. l.is = "absent" /\ Extends(u, t0) /\ Has(t0, l.dir, l.name, i)
    BY AloneIs
  <1>2. ASSUME NEW q, IsPath(q), Named(u, bn, q) = l, q.tail = "", NEW f \in BOOLEAN
        PROVE  Lands(Look(t0, bn, q, f), l, i)
    BY <1>1, <1>2, MadeFound
  <1>3. PICK f : f = FALSE
    OBVIOUS
  <1>4. Lands(Look(t0, bn, NoTail(p), f), l, i)
    BY <1>2, <1>3, PathsAre, StrippedNames
  <1>5. Lands(Named(t0, bn, p), l, i)
    BY <1>3, <1>4, Zenon DEF Named
  <1>6. p.tail = "" => \A g \in BOOLEAN : Lands(Look(t0, bn, p, g), l, i)
    BY <1>2
  <1> QED  BY <1>5, <1>6

(* A directory with no children has no entries.                            *)
LEMMA NoEntries ==
    ASSUME NEW t0, IsTree(t0), NEW i \in Ino, IsDir(t0, i), Children(t0, i) = {}
    PROVE  Ents(t0, i) = <<>>
  <1>1. PICK e : e = Ents(t0, i)
    OBVIOUS
  <1>2. e = [z \in DOMAIN e |-> e[z]]
    BY <1>1, EntryIs
  <1>3. DOMAIN e = {}
    BY <1>1 DEF Children, Range
  <1>4. e = <<>>
    BY <1>2, <1>3
  <1> QED  BY <1>1, <1>4


-----------------------------------------------------------------------------
(* The recursive removal, and the copies.                                  *)

(* A write or chmod that was made to fail leads on to the clearing up.     *)
LEMMA InjectedFail ==
    ASSUME TreeInv, FailInv, pc # "idle", NEW l, pc' = l, l # "idle", Injected,
           StepFor(l, call.op), UNCHANGED <<call, host, a, b>>,
           w.quiet => Undoable(l, w.before, t', h', Confined, a, b)
    PROVE  FailInv'
  <1>1. w'.before = w.before /\ w'.quiet = w.quiet
    <2>1. PICK f, x : f = TRUE /\ x = w'
      OBVIOUS
    <2>2. x = [w EXCEPT !.moved = FALSE, !.injected = f]
      BY <2>1 DEF Injected
    <2>3. IsHistory(w)
      BY FineIs
    <2>4. \A y : y = [w EXCEPT !.moved = FALSE, !.injected = f]
                    => y.before = w.before /\ y.quiet = w.quiet
      BY <2>3, HistoryKept
    <2> QED  BY <2>1, <2>2, <2>4, Zenon
  <1>2. Confined' = Confined /\ (Confined \/ a.abs)
    BY DEF Confined, FailInv
  <1>3. (w.quiet => Undoable(pc, w.before, t, h, Confined, a, b))'
    BY <1>1, <1>2
  <1>4. FailureLeavesTheTree'
    BY DEF FailureLeavesTheTree
  <1> QED  BY <1>2, <1>3, <1>4 DEF FailInv

(* A recursive removal opens its directory, or removes a link itself.      *)
LEMMA RemoveTreeOpenFail ==
    ASSUME TreeInv, KeepInv, OutInv, FailInv, RemoveTreeOpen
    PROVE  FailInv'
  <1>1. pc \in Untouched /\ pc # "idle" /\ pc = "rmtree.open"
    BY DEF RemoveTreeOpen, Untouched
  <1>2. PICK l, hh, r, e : /\ l = "rmtree.empty" /\ r = Unlink(t, Confined, SlashesStripped(a))
                           /\ Leave(e, t) \/ Pass(r) \/ Goto(l, t, hh)
    BY DEF RemoveTreeOpen
  <1>3. Reverts(t, r)
    BY <1>2, TakingReverts
  <1>4. CASE Goto(l, t, hh)
    <2>1. l # "idle" /\ StepFor(l, call.op)
      BY <1>2 DEF StepFor
    <2>2. w.quiet => Emptiable(Confined, a)
      BY <1>1 DEF FailInv, Undoable
    <2>3. \A u, x : Emptiable(Confined, a) => Undoable(l, u, x, hh, Confined, a, b)
      BY <1>2 DEF Undoable, FileSteps, HeldSteps
    <2> QED  BY <1>1, <1>4, <2>1, <2>2, <2>3, GotoFail
  <1> QED  BY <1>1, <1>2, <1>3, <1>4, StayFail, PassFail

(* It takes a name from below it.                                          *)
LEMMA RemoveTreeEntryFail ==
    ASSUME TreeInv, KeepInv, OutInv, FailInv, RemoveTreeEntry
    PROVE  FailInv'
  <1>1. PICK l, tree : l = "rmtree.empty" /\ pc = l /\ Goto(l, tree, h)
    BY DEF RemoveTreeEntry
  <1>2. l # "idle" /\ StepFor(l, call.op)
    BY <1>1 DEF StepFor
  <1>3. w.quiet => Emptiable(Confined, a)
    BY <1>1 DEF FailInv, Undoable
  <1>4. \A u, x : Emptiable(Confined, a) => Undoable(l, u, x, h, Confined, a, b)
    BY <1>1 DEF Undoable, FileSteps, HeldSteps
  <1> QED  BY <1>1, <1>2, <1>3, <1>4, GotoFail

(* It is stopped, and promises nothing.                                    *)
LEMMA RemoveTreeFailsFail ==
    ASSUME TreeInv, KeepInv, OutInv, FailInv, RemoveTreeFails
    PROVE  FailInv'
  <1>1. PICK e, S, f : /\ e = "PermissionDenied" /\ S = {} /\ f = TRUE
                       /\ AnswersAt(e, t, S, f)
    BY DEF RemoveTreeFails, Answers
  <1>2. call.op = "rmtree" /\ (w.injected \/ f)
    BY <1>1, OpIs DEF RemoveTreeFails, StepOf
  <1>3. \A g, u, y, bn, p : g => ~Blames(call.op, g, u, y, bn, p)
    BY <1>2 DEF Blames
  <1> QED  BY <1>1, <1>2, <1>3, AnswerFail

(* When it is empty, the name that still leads to it can be taken.         *)
LEMMA EmptiedGoes ==
    ASSUME NEW u, Shape(u), NEW t0, Shape(t0), Filled(t0), NEW i \in Ino, NEW bn, NEW p, IsPath(p),
           Emptying(u, t0, i, bn, p), Children(t0, i) = {}, IsDir(t0, i), Emptiable(bn, p),
           bn \/ p.abs, StillLeads(u, Reap(t0, {}), bn, p)
    PROVE  Rmdir(t0, bn, SlashesStripped(p)).err = "ok"
  <1>1. PICK open, t2 : open = {} /\ t2 = Reap(t0, open)
    OBVIOUS
  <1>2. open \in SUBSET Ino
    BY <1>1
  <1>3. Shape(t2) /\ SameNames(t0, t2) /\ \A j \in Ino : t2[j] \in {t0[j], Free}
    BY <1>1, <1>2, ReapTurns, ReapKeeps
  <1>4. Extends(t2, t0)
    <2>1. Entries(t2) = Entries(t0)
      BY <1>3, EntriesKept
    <2>2. \A j \in Ino : t2[j] # Free => Alike(t2[j], t0[j])
      BY <1>3 DEF Alike
    <2> QED  BY <2>1, <2>2 DEF Extends
  <1>5. PICK l : l = Named(u, bn, p)
    OBVIOUS
  <1>6. Found(l) /\ l.ino = i
    BY <1>5 DEF Emptying, EntryAt
  <1>7. Named(t2, bn, p) = l /\ (bn \/ p.comps # <<>>)
    BY <1>1, <1>5 DEF StillLeads
  <1>8. Named(t0, bn, p) = l
    BY <1>3, <1>4, <1>6, <1>7, NamedAgain
  <1>9. p.comps # <<>>
    BY <1>7 DEF Emptiable
  <1>10. PICK q : q = SlashesStripped(p)
    OBVIOUS
  <1>11. q.tail = "" /\ l.name # ""
    BY <1>6, <1>8, <1>9, <1>10, EntryEnds
  <1>12. IsTree(t0)
    BY DEF Shape
  <1>13. Ents(t0, i) = <<>>
    BY <1>12, NoEntries
  <1>14. l = Named(t0, bn, q)
    BY <1>8, <1>10, StrippedNames
  <1>15. Rmdir(t0, bn, q) = Ans("ok", Detach(t0, l.dir, l.name), l.ino)
    BY <1>6, <1>11, <1>13, <1>14, RmdirGoes
  <1> QED  BY <1>10, <1>15 DEF Ans

(* So the last step of a recursive removal does not fail.                  *)
LEMMA RemoveTreeLastFail ==
    ASSUME TreeInv, KeepInv, OutInv, FailInv, RemoveTreeLast
    PROVE  FailInv'
  <1>1. PICK bn, p, r, i : /\ bn = Confined /\ p = SlashesStripped(a) /\ r = Rmdir(t, bn, p)
                           /\ i = h.src
    OBVIOUS
  <1>2. Pass(r) /\ Children(t, i) = {} /\ pc = "rmtree.empty" /\ call.op = "rmtree"
    BY <1>1, OpIs DEF RemoveTreeLast, StepOf
  <1>3. IsPath(a) /\ Shape(t) /\ Filled(t)
    BY KeepIs
  <1>4. i \in Ino /\ IsDir(t, i)
    BY <1>1, <1>2, FineIs DEF KindsIn, KindsAt, OpenIn, Open
  <1>5. PICK er, x, S, f : er = r.err /\ x = r.t /\ AnswersAt(er, x, S, f)
    BY <1>2 DEF Pass, Leave, Answers
  <1>6. Reverts(t, r)
    BY <1>1, TakingReverts
  <1>7. ASSUME w.quiet, er # "ok", Blames(call.op, w.injected \/ f, w.before, Reap(x, {}), Confined, a)
        PROVE  FALSE
    <2>1. PICK u : u = w.before
      OBVIOUS
    <2>2. Shape(u) /\ Emptying(u, t, i, bn, a)
      BY <1>1, <1>2, <1>7, <2>1, OutIs DEF Known
    <2>3. x = t
      BY <1>5, <1>6, <1>7 DEF Reverts
    <2>4. StillLeads(u, Reap(t, {}), bn, a)
      BY <1>1, <1>2, <1>7, <2>1, <2>3 DEF Blames
    <2>5. Emptiable(bn, a) /\ (bn \/ a.abs)
      BY <1>1, <1>2, <1>7 DEF FailInv, Undoable
    <2>6. Rmdir(t, bn, SlashesStripped(a)).err = "ok"
      BY <1>2, <1>3, <1>4, <2>2, <2>4, <2>5, EmptiedGoes
    <2> QED  BY <1>1, <1>5, <1>7, <2>6
  <1> QED  BY <1>5, <1>7, AnswerFail


(* copy_file has changed nothing before it makes its destination,          *)
LEMMA CopyFileOpenFail ==
    ASSUME TreeInv, KeepInv, OutInv, FailInv, CopyFileOpen
    PROVE  FailInv'
  <1>1. PICK r, l : r = OpenRead(t, Confined, a, TRUE) /\ l = "copy_file.make"
    OBVIOUS
  <1>2. Reverts(t, r)
    <2>1. Reads(t, r)
      BY <1>1, FineIs, OpenReads
    <2> QED  BY <2>1 DEF Reads, Reverts
  <1>3. pc \in Untouched /\ pc # "idle"
    BY DEF CopyFileOpen, Untouched, Ops
  <1>4. (\E e : Leave(e, t)) \/ Pass(r) \/ \E hh : Goto(l, t, hh)
    BY <1>1 DEF CopyFileOpen
  <1>5. l # "idle" /\ StepFor(l, call.op) /\ l \notin Careful
    BY <1>1 DEF StepFor, Careful, FileSteps, HeldSteps
  <1> QED  BY <1>2, <1>3, <1>4, <1>5, StayFail, PassFail, OnFail

(* which is then all the tree has more.                                    *)
LEMMA CopyFileMakeFail ==
    ASSUME TreeInv, KeepInv, OutInv, FailInv, CopyFileMake
    PROVE  FailInv'
  <1>1. PICK m, r, e, bn : /\ m = h.mode /\ bn = Confined /\ r = CreateNew(t, bn, b, m)
                           /\ e = IF Confined /\ r.err = "IsADirectory" THEN "AlreadyExists" ELSE r.err
    OBVIOUS
  <1>2. \/ r.err = "ok" /\ Goto("copy_file.data", r.t, [h EXCEPT !.dst = r.ino])
        \/ Leave(e, t)
    BY <1>1 DEF CopyFileMake
  <1>3. pc = "copy_file.make" /\ pc \in Untouched /\ pc # "idle" /\ Rooted(t)
    <2>1. pc = "copy_file.make" /\ pc \notin Holding
      BY DEF CopyFileMake, Holding
    <2> QED  BY <2>1, KeepIs DEF Untouched
  <1>4. ASSUME r.err = "ok", Goto("copy_file.data", r.t, [h EXCEPT !.dst = r.ino])  PROVE FailInv'
    <2>1. PICK i, hh, t1, l, open : /\ i = r.ino /\ hh = [h EXCEPT !.dst = i] /\ t1 = r.t
                                    /\ l = "copy_file.data" /\ open = Open(hh)
      OBVIOUS
    <2>2. h = Handles(h.src, h.dst, h.mode, h.link, h.err)
      BY FineIs DEF IsHandles
    <2>3. hh = Handles(h.src, i, h.mode, h.link, h.err)
      BY <2>1, <2>2 DEF Handles
    <2>4. hh.src = h.src /\ hh.dst = i
      BY <2>3 DEF Handles
    <2>5. Shape(t) /\ IsPath(b) /\ r = CreateNew(t, bn, b, m)
      BY <1>1, KeepIs
    <2>6. Alone(t, t1, i, bn, b) /\ b.tail = ""
      <3>1. Alone(t, r.t, r.ino, bn, b) /\ b.tail = ""
        BY <1>4, <2>5, CreateNewAlone
      <3> QED  BY <2>1, <3>1
    <2>7. Kind(t1, i) = "file"
      <3>1. r.t[r.ino] = FileNode("empty", m \ Umask)
        BY <1>4, <2>5, CreateNewMakes
      <3> QED  BY <2>1, <3>1 DEF Kind, FileNode
    <2>8. Shape(t1)
      BY <1>1, <1>3, <2>1, <2>5, CreateNewGrows DEF Grows
    <2>9. open \in SUBSET Ino
      <3>1. i \in Ino
        BY <2>6 DEF Alone, MadeAs
      <3> QED  BY <2>1, <2>4, <3>1, KeepIs DEF Open
    <2>10. w.quiet => Undoable(l, w.before, Reap(t1, open), hh, Confined, a, b)
      <3> HAVE w.quiet
      <3>1. PICK u : u = w.before
        OBVIOUS
      <3>2. u = t /\ Reaped(u, {})
        BY <1>3, <3>1, OutIs
      <3>3. Alone(u, t1, i, bn, b) /\ Shape(u)
        BY <2>5, <2>6, <3>2
      <3>4. Reap(t1, open) = t1
        BY <2>5, <2>8, <2>9, <3>2, <3>3, AloneReap
      <3>5. Undoable(l, u, t1, hh, bn, a, b)
        BY <2>1, <2>4, <2>6, <2>7, <3>3 DEF Undoable, FileSteps, HeldSteps
      <3> QED  BY <1>1, <3>1, <3>4, <3>5
    <2>11. l # "idle" /\ StepFor(l, call.op) /\ Goto(l, t1, hh)
      BY <1>4, <2>1 DEF StepFor
    <2> QED  BY <1>3, <2>1, <2>10, <2>11, GotoFail
  <1> QED  BY <1>2, <1>3, <1>4, StayFail

(* What a step after the making finds.                                     *)
LEMMA FileAlone ==
    ASSUME TreeInv, KeepInv, OutInv, FailInv, w.quiet, pc \in FileSteps
    PROVE  /\ Alone(w.before, t, h.dst, Confined, b) /\ Kind(t, h.dst) = "file" /\ b.tail = ""
           /\ h.dst \in Ino /\ Shape(w.before) /\ Reaped(w.before, {}) /\ Shape(t) /\ IsPath(b)
           /\ Open(h) \in SUBSET Ino
  <1>1. Alone(w.before, t, h.dst, Confined, b) /\ Kind(t, h.dst) = "file" /\ b.tail = ""
    BY DEF FailInv, Undoable
  <1>2. h.dst \in Ino
    BY <1>1 DEF Alone, MadeAs
  <1> QED  BY <1>1, <1>2, OutIs, KeepIs

(* It is still all, once it is written to, and nothing is reaped.          *)
LEMMA FileStill ==
    ASSUME TreeInv, KeepInv, OutInv, FailInv, pc \in FileSteps, h.dst \in Ino,
           Kind(t, h.dst) = "file", NEW d, NEW l \in FileSteps, w.quiet,
           NEW t1, t1 = SetData(t, h.dst, d)
    PROVE  Undoable(l, w.before, t1, h, Confined, a, b) /\ Reap(t1, Open(h)) = t1
  <1>1. PICK i, u, bn, open : i = h.dst /\ u = w.before /\ bn = Confined /\ open = Open(h)
    OBVIOUS
  <1>2. /\ Alone(u, t, i, bn, b) /\ b.tail = "" /\ Shape(u) /\ Reaped(u, {}) /\ Shape(t)
        /\ IsPath(b) /\ open \in SUBSET Ino
    BY <1>1, FileAlone
  <1>3. /\ SameNames(t, t1) /\ Shape(t1) /\ t1[i] = FileNode(d, t[i].mode)
        /\ \A j \in Ino \ {i} : t1[j] = t[j]
    <2>1. i \in Ino /\ Kind(t, i) = "file" /\ t1 = SetData(t, i, d) /\ Shape(t)
      BY <1>1, <1>2
    <2>2. SameNames(t, t1) /\ Shape(t1)
      BY <2>1, DataSame
    <2>3. t1[i] = FileNode(d, t[i].mode) /\ \A j \in Ino \ {i} : t1[j] = t[j]
      BY <2>1, DataMade
    <2> QED  BY <2>2, <2>3
  <1>4. Childless(t1[i]) /\ Kind(t1, i) = "file"
    BY <1>3, NodesAre DEF Kind
  <1>5. Alone(u, t1, i, bn, b)
    BY <1>2, <1>3, <1>4, AloneNode
  <1>6. Reap(t1, open) = t1
    BY <1>2, <1>3, <1>5, AloneReap
  <1>7. Undoable(l, u, t1, h, bn, a, b)
    BY <1>1, <1>2, <1>4, <1>5 DEF Undoable, FileSteps, HeldSteps
  <1> QED  BY <1>1, <1>6, <1>7

(* It writes the destination, or fails and clears up.                      *)
LEMMA CopyFileDataFail ==
    ASSUME TreeInv, KeepInv, OutInv, FailInv, CopyFileData
    PROVE  FailInv'
  <1>1. h.dst # NoIno /\ Kind(t, h.dst) = "file" /\ pc \in FileSteps /\ pc # "idle"
    BY FineIs DEF KindsIn, KindsAt, CopyFileData, FileSteps
  <1>2. h.dst \in Ino
    BY <1>1, FineIs DEF OpenIn, Open
  <1>3. PICK k, l, d, x : /\ k = "copy_file.chmod" /\ l = "copy_file.same"
                          /\ d = t[h.src].data /\ x = "part"
    OBVIOUS
  <1>4. k \in FileSteps /\ l \in FileSteps /\ k # "idle" /\ l # "idle"
        /\ StepFor(k, call.op) /\ StepFor(l, call.op)
    BY <1>3 DEF FileSteps, StepFor
  <1>5. \/ Goto(k, SetData(t, h.dst, d), h)
        \/ CopyFails /\ t' = SetData(t, h.dst, x)
    BY <1>3 DEF CopyFileData, SetData
  <1>6. CASE Goto(k, SetData(t, h.dst, d), h)
    <2>1. PICK t1 : t1 = SetData(t, h.dst, d)
      OBVIOUS
    <2>2. w.quiet => Undoable(k, w.before, t1, h, Confined, a, b) /\ Reap(t1, Open(h)) = t1
      BY <1>1, <1>2, <1>4, <2>1, FileStill
    <2>3. Goto(k, t1, h)
      BY <1>6, <2>1
    <2>4. w.quiet => Undoable(k, w.before, Reap(t1, Open(h)), h, Confined, a, b)
      BY <2>2
    <2> QED  BY <1>1, <1>4, <2>3, <2>4, GotoFail
  <1>7. CASE CopyFails /\ t' = SetData(t, h.dst, x)
    <2>1. w.quiet => Undoable(l, w.before, t', h, Confined, a, b)
      BY <1>1, <1>2, <1>4, <1>7, FileStill
    <2>2. pc' = l /\ Injected /\ UNCHANGED <<call, host, a, b>> /\ h' = h
      BY <1>3, <1>7 DEF CopyFails
    <2> QED  BY <1>1, <1>4, <2>1, <2>2, InjectedFail
  <1> QED  BY <1>5, <1>6, <1>7

(* It sets the mode, or fails and clears up.                               *)
LEMMA CopyFileChmodFail ==
    ASSUME TreeInv, KeepInv, OutInv, FailInv, CopyFileChmod
    PROVE  FailInv'
  <1>1. PICK l, e : l = "copy_file.same" /\ e = "ok"
    OBVIOUS
  <1>2. pc \in FileSteps /\ pc # "idle" /\ l \in FileSteps /\ l # "idle" /\ StepFor(l, call.op)
    BY <1>1 DEF CopyFileChmod, FileSteps, StepFor
  <1>3. (\E tree, S, f : AnswersAt(e, tree, S, f)) \/ (CopyFails /\ UNCHANGED t)
    BY <1>1 DEF CopyFileChmod, Answers
  <1>4. CASE CopyFails /\ UNCHANGED t
    <2>1. w.quiet => Undoable(l, w.before, t, h, Confined, a, b)
      BY <1>1, <1>2, FileAlone DEF Undoable, FileSteps, HeldSteps
    <2>2. pc' = l /\ Injected /\ UNCHANGED <<call, host, a, b>> /\ h' = h /\ t' = t
      BY <1>1, <1>4 DEF CopyFails
    <2> QED  BY <1>2, <2>1, <2>2, InjectedFail
  <1> QED  BY <1>1, <1>3, <1>4, AnswerFail

(* Undisturbed, the comparison before the clearing up finds the copy,      *)
LEMMA CopyFileSameFail ==
    ASSUME TreeInv, KeepInv, OutInv, FailInv, CopyFileSame
    PROVE  FailInv'
  <1>1. PICK l, e, m : l = "copy_file.remove" /\ e = "StorageFull" /\ m = Lstat(t, Confined, b)
    OBVIOUS
  <1>2. pc \in FileSteps /\ pc # "idle" /\ l \in FileSteps /\ l # "idle" /\ StepFor(l, call.op)
    BY <1>1 DEF CopyFileSame, FileSteps, StepFor
  <1>3. Goto(l, t, h) \/ (~(m.err = "ok" /\ m.ino = h.dst) /\ Leave(e, t))
    BY <1>1 DEF CopyFileSame
  <1>4. ASSUME w.quiet  PROVE m.err = "ok" /\ m.ino = h.dst
    <2>1. PICK i, u, bn, f : i = h.dst /\ u = w.before /\ bn = Confined /\ f = FALSE
      OBVIOUS
    <2>2. /\ Alone(u, t, i, bn, b) /\ b.tail = "" /\ Shape(u) /\ Shape(t)
          /\ IsPath(b) /\ Kind(t, i) = "file"
      BY <1>2, <1>4, <2>1, FileAlone
    <2>3. PICK l0 : l0 = Named(u, bn, b)
      OBVIOUS
    <2>4. Kind(t, i) # "link" /\ f \in BOOLEAN
      BY <2>1, <2>2
    <2>5. Lands(Look(t, bn, b, f), l0, i)
      BY <2>2, <2>3, <2>4, AloneFound
    <2>6. m = Answer(t, Look(t, bn, b, f))
      BY <1>1, <2>1, <2>2 DEF Lstat
    <2> QED  BY <2>1, <2>5, <2>6 DEF Lands, Answer, Ans
  <1>5. CASE Goto(l, t, h)
    <2>1. w.quiet => Undoable(l, w.before, t, h, Confined, a, b)
      BY <1>2, FileAlone DEF Undoable, FileSteps, HeldSteps
    <2>2. w.quiet => Reap(t, Open(h)) = t
      BY <1>2, FileAlone, AloneReap
    <2>3. w.quiet => Undoable(l, w.before, Reap(t, Open(h)), h, Confined, a, b)
      BY <2>1, <2>2
    <2> QED  BY <1>2, <1>5, <2>3, GotoFail
  <1>6. CASE ~w.quiet /\ Leave(e, t)
    <2>1. PICK S, f : S = {} /\ f = FALSE
      OBVIOUS
    <2>2. AnswersAt(e, t, S, f)
      BY <1>6, <2>1 DEF Leave, Answers
    <2> QED  BY <1>6, <2>2, AnswerFail
  <1> QED  BY <1>3, <1>4, <1>5, <1>6

(* and the removal takes it back.                                          *)
LEMMA CopyFileRemoveFail ==
    ASSUME TreeInv, KeepInv, OutInv, FailInv, CopyFileRemove
    PROVE  FailInv'
  <1>1. PICK e, bn, r, S, f : /\ e = "StorageFull" /\ bn = Confined /\ r = Unlink(t, bn, b)
                              /\ S = {} /\ f = FALSE
    OBVIOUS
  <1>2. AnswersAt(e, r.t, S, f) /\ pc \in FileSteps
    BY <1>1 DEF CopyFileRemove, FileSteps, Leave, Answers
  <1>3. ASSUME w.quiet  PROVE Reap(r.t, {}) = w.before
    <2>1. PICK i, u : i = h.dst /\ u = w.before
      OBVIOUS
    <2>2. /\ Alone(u, t, i, bn, b) /\ b.tail = "" /\ Shape(u) /\ Reaped(u, {}) /\ Shape(t)
          /\ IsPath(b) /\ Kind(t, i) = "file"
      BY <1>1, <1>2, <1>3, <2>1, FileAlone
    <2>3. PICK l, k : l = Named(u, bn, b) /\ k = Named(t, bn, b)
      OBVIOUS
    <2>4. Lands(Named(t, bn, b), l, i)
      <3>1. Kind(t, i) # "link"
        BY <2>2
      <3> QED  BY <2>2, <2>3, <3>1, AloneFound
    <2>5. Found(k) /\ k.ino = i /\ k.dir = l.dir /\ k.name = l.name /\ ~IsDir(t, k.ino)
      BY <2>2, <2>3, <2>4 DEF Lands, IsDir
    <2>6. Unlink(t, bn, b) = Ans("ok", Detach(t, k.dir, k.name), k.ino)
      BY <2>2, <2>3, <2>5, UnlinkGoes
    <2>7. r.t = Detach(t, l.dir, l.name)
      BY <1>1, <2>5, <2>6 DEF Ans
    <2>8. PICK t1, open : t1 = r.t /\ t1 = Detach(t, l.dir, l.name) /\ open = {}
      BY <2>7
    <2>9. Reap(t1, open) = u
      <3>1. Alone(u, t, i, bn, b) /\ Shape(u) /\ Reaped(u, {}) /\ Shape(t) /\ IsPath(b)
        BY <2>2
      <3> QED  BY <2>3, <2>8, <3>1, Undo
    <2> QED  BY <2>1, <2>8, <2>9
  <1> QED  BY <1>2, <1>3, AnswerFail


(* copy_dir changes nothing before its mkdir,                              *)
LEMMA CopyDirReadFail ==
    ASSUME TreeInv, KeepInv, OutInv, FailInv, CopyDirStat \/ CopyDirName
    PROVE  FailInv'
  <1>1. PICK r : r = MetadataAsNamed(t, a)
    OBVIOUS
  <1>2. Reverts(t, r)
    <2>1. Reads(t, r)
      BY <1>1, FineIs, AsNamedReads
    <2> QED  BY <2>1 DEF Reads, Reverts
  <1>3. pc \in Untouched /\ pc # "idle"
    BY DEF CopyDirStat, CopyDirName, Untouched, Ops
  <1>4. \/ (\E e : Leave(e, t)) \/ Pass(r)
        \/ \E l \in {"copy_dir.name", "copy_dir.make"} : \E hh : Goto(l, t, hh)
    BY <1>1 DEF CopyDirStat, CopyDirName
  <1>5. \A l \in {"copy_dir.name", "copy_dir.make"} :
           l # "idle" /\ StepFor(l, call.op) /\ l \notin Careful
    BY DEF StepFor, Careful, FileSteps, HeldSteps
  <1> QED  BY <1>2, <1>3, <1>4, <1>5, StayFail, PassFail, OnFail

(* which adds a directory and nothing else.                                *)
LEMMA CopyDirMakeFail ==
    ASSUME TreeInv, KeepInv, OutInv, FailInv, CopyDirMake
    PROVE  FailInv'
  <1>1. PICK p, bn, m, r, l : /\ p = SlashesStripped(b) /\ bn = Confined /\ m = {"owner"}
                              /\ r = Mkdir(t, bn, p, m) /\ l = "copy_dir.open"
    OBVIOUS
  <1>2. (r.err = "ok" /\ Goto(l, r.t, h)) \/ Pass(r)
    BY <1>1 DEF CopyDirMake
  <1>3. pc = "copy_dir.make" /\ pc \in Untouched /\ pc # "idle" /\ Rooted(t)
    <2>1. pc = "copy_dir.make" /\ pc \notin Holding
      BY DEF CopyDirMake, Holding
    <2> QED  BY <2>1, KeepIs DEF Untouched
  <1>4. Shape(t) /\ IsPath(b) /\ IsPath(p) /\ Grows(t, r.t) /\ Reverts(t, r)
    BY <1>1, <1>3, KeepIs, StrippedIs, MkdirGrows, MakingReverts
  <1>5. ASSUME r.err = "ok", Goto(l, r.t, h)  PROVE FailInv'
    <2>1. PICK i, t1, open : i = r.ino /\ t1 = r.t /\ open = Open(h)
      OBVIOUS
    <2>2. Alone(t, t1, i, bn, b) /\ b.tail # "/."
      <3>1. r = Mkdir(t, bn, p, m)
        BY <1>1
      <3>2. Alone(t, r.t, r.ino, bn, p) /\ p.tail # "/."
        BY <1>4, <1>5, <3>1, MkdirAlone
      <3>3. Named(t, bn, p) = Named(t, bn, b)
        BY <1>1, <1>4, StrippedNames
      <3>4. Alone(t, t1, i, bn, b)
        BY <2>1, <3>2, <3>3 DEF Alone, MadeAs
      <3>5. b.tail = "/." => p = b
        BY <1>1 DEF SlashesStripped, HasSlashes
      <3> QED  BY <3>2, <3>4, <3>5
    <2>3. IsDir(t1, i) /\ i \in Ino
      <3>1. r = Mkdir(t, bn, p, m)
        BY <1>1
      <3>2. r.t[r.ino] = DirNode(<<>>, m \ Umask)
        BY <1>4, <1>5, <3>1, MkdirMakes
      <3>3. t1[i].kind = "dir"
        BY <2>1, <3>2 DEF DirNode
      <3> QED  BY <2>2, <3>3 DEF IsDir, Kind, Alone, MadeAs
    <2>4. Shape(t1) /\ open \in SUBSET Ino
      BY <1>4, <2>1, KeepIs DEF Grows
    <2>5. w.quiet => Undoable(l, w.before, Reap(t1, open), h, Confined, a, b)
      <3> HAVE w.quiet
      <3>1. PICK u : u = w.before
        OBVIOUS
      <3>2. u = t /\ Reaped(u, {})
        BY <1>3, <3>1, OutIs
      <3>3. Shape(u) /\ Alone(u, t1, i, bn, b) /\ IsPath(b)
        BY <1>4, <2>2, <3>2
      <3>4. Reap(t1, open) = t1
        BY <2>4, <3>2, <3>3, AloneReap
      <3>5. Undoable(l, u, t1, h, bn, a, b)
        BY <1>1, <2>2, <2>3, <3>3 DEF Undoable, FileSteps, HeldSteps
      <3> QED  BY <1>1, <3>1, <3>4, <3>5
    <2>6. l # "idle" /\ StepFor(l, call.op) /\ Goto(l, t1, h)
      BY <1>1, <1>5, <2>1 DEF StepFor
    <2> QED  BY <1>3, <2>1, <2>5, <2>6, GotoFail
  <1> QED  BY <1>2, <1>3, <1>4, <1>5, PassFail

(* What a step after the mkdir finds, and that nothing is to be reaped.    *)
LEMMA DirAlone ==
    ASSUME TreeInv, KeepInv, OutInv, FailInv, w.quiet, pc \in HeldSteps
    PROVE  /\ b.tail # "/." /\ \E i \in Ino : Alone(w.before, t, i, Confined, b) /\ IsDir(t, i)
           /\ Shape(w.before) /\ Reaped(w.before, {}) /\ Shape(t) /\ IsPath(b)
           /\ \A open \in SUBSET Ino : Reap(t, open) = t
           /\ \A l \in HeldSteps : \A hh : Undoable(l, w.before, t, hh, Confined, a, b)
  <1>1. PICK u, bn : u = w.before /\ bn = Confined
    OBVIOUS
  <1>2. b.tail # "/." /\ \E i \in Ino : Alone(u, t, i, bn, b) /\ IsDir(t, i)
    BY <1>1 DEF FailInv, Undoable
  <1>3. Shape(u) /\ Reaped(u, {}) /\ Shape(t) /\ IsPath(b)
    BY <1>1, OutIs, KeepIs
  <1>4. \A open \in SUBSET Ino : Reap(t, open) = t
    BY <1>2, <1>3, AloneReap
  <1>5. \A l \in HeldSteps : \A hh : Undoable(l, u, t, hh, bn, a, b)
    BY <1>2 DEF Undoable, FileSteps, HeldSteps
  <1> QED  BY <1>1, <1>2, <1>3, <1>4, <1>5

(* It opens the directory, or goes on to remove it.                        *)
LEMMA CopyDirOpenFail ==
    ASSUME TreeInv, KeepInv, OutInv, FailInv, CopyDirOpen
    PROVE  FailInv'
  <1>1. PICK r, i, e, hh, gg :
           /\ r = OpenDir(t, Confined, SlashesStripped(b), FALSE) /\ i = r.ino /\ e = r.err
           /\ hh = [h EXCEPT !.dst = i] /\ gg = [h EXCEPT !.err = e]
    OBVIOUS
  <1>2. h = Handles(h.src, h.dst, h.mode, h.link, h.err)
    BY FineIs DEF IsHandles
  <1>3. /\ hh = Handles(h.src, i, h.mode, h.link, h.err)
        /\ gg = Handles(h.src, h.dst, h.mode, h.link, e)
    BY <1>1, <1>2 DEF Handles
  <1>4. hh.src = h.src /\ hh.dst = i /\ gg.src = h.src /\ gg.dst = h.dst
    BY <1>3 DEF Handles
  <1>5. pc \in HeldSteps /\ pc # "idle"
    BY DEF CopyDirOpen, HeldSteps
  <1>6. /\ \/ r.err = "ok" /\ Goto("copy_dir.chmod", t, hh)
           \/ Goto("copy_dir.remove", t, gg)
    BY <1>1 DEF CopyDirOpen
  <1>7. r.err = "ok" => i \in Ino
    <2>1. IsPath(SlashesStripped(b)) /\ Shape(t)
      BY KeepIs, StrippedIs
    <2>2. Reads(t, r)
      BY <1>1, <2>1, OpenReads
    <2> QED  BY <1>1, <2>2 DEF Reads, Acts
  <1>8. (r.err = "ok" => Open(hh) \in SUBSET Ino) /\ Open(gg) \in SUBSET Ino
    BY <1>4, <1>7, KeepIs DEF Open
  <1>9. ASSUME NEW l \in HeldSteps, NEW x, Goto(l, t, x), Open(x) \in SUBSET Ino, StepFor(l, call.op)
        PROVE  FailInv'
    <2>1. l # "idle"
      BY DEF HeldSteps
    <2>2. w.quiet => Undoable(l, w.before, Reap(t, Open(x)), x, Confined, a, b)
      <3> HAVE w.quiet
      <3>1. Reap(t, Open(x)) = t /\ Undoable(l, w.before, t, x, Confined, a, b)
        BY <1>5, <1>9, DirAlone
      <3> QED  BY <3>1
    <2> QED  BY <1>5, <1>9, <2>1, <2>2, GotoFail
  <1>10. \A l \in HeldSteps : StepFor(l, call.op)
    BY DEF HeldSteps, StepFor
  <1>11. PICK l, k : l = "copy_dir.chmod" /\ k = "copy_dir.remove" /\ l \in HeldSteps /\ k \in HeldSteps
    BY DEF HeldSteps
  <1> QED  BY <1>6, <1>8, <1>9, <1>10, <1>11

(* It sets the mode, or fails and goes on to remove it.                    *)
LEMMA CopyDirChmodFail ==
    ASSUME TreeInv, KeepInv, OutInv, FailInv, CopyDirChmod
    PROVE  FailInv'
  <1>1. PICK l, e : l = "copy_dir.remove" /\ e = "ok"
    OBVIOUS
  <1>2. pc \in HeldSteps /\ pc # "idle" /\ l \in HeldSteps /\ l # "idle" /\ StepFor(l, call.op)
    BY <1>1 DEF CopyDirChmod, HeldSteps, StepFor
  <1>3. \/ \E tree, S, f : AnswersAt(e, tree, S, f)
        \/ pc' = l /\ Injected /\ UNCHANGED <<call, host, a, b>> /\ t' = t
    BY <1>1 DEF CopyDirChmod, Leave, Answers
  <1>4. CASE pc' = l /\ Injected /\ UNCHANGED <<call, host, a, b>> /\ t' = t
    <2>1. PICK x : x = h'
      OBVIOUS
    <2>2. w.quiet => Undoable(l, w.before, t, x, Confined, a, b)
      BY <1>2, DirAlone
    <2> QED  BY <1>2, <1>4, <2>1, <2>2, InjectedFail
  <1> QED  BY <1>1, <1>3, <1>4, AnswerFail

(* The directory it made is there to be removed, and is.                   *)
LEMMA MadeDirGoes ==
    ASSUME NEW u, Shape(u), Reaped(u, {}), NEW t0, Shape(t0), NEW i \in Ino, NEW bn, NEW p, IsPath(p),
           Alone(u, t0, i, bn, p), IsDir(t0, i), p.tail # "/.",
           NEW r, r = Rmdir(t0, bn, SlashesStripped(p)), NEW open, open = {}
    PROVE  Reap(r.t, open) = u
  <1>1. PICK l, q, k : l = Named(u, bn, p) /\ q = SlashesStripped(p) /\ k = Named(t0, bn, q)
    OBVIOUS
  <1>2. l.is = "absent" /\ Childless(t0[i])
    BY <1>1, AloneIs
  <1>3. p.comps # <<>>
    BY <1>1, <1>2, NamesNothing
  <1>4. Last(p.comps) # ".." /\ l.name = Last(p.comps)
    BY <1>1, <1>2, <1>3, NamesEnd
  <1>5. l.name # ""
    <2>1. p.comps \in Seq(Comps) /\ "" \notin Comps
      BY DEF IsPath, Comps
    <2>2. Last(p.comps) \in Comps
      BY <1>3, <2>1, LastIs
    <2> QED  BY <1>4, <2>1, <2>2
  <1>6. q.tail = ""
    BY <1>1, <1>3, <1>4, TailGoes
  <1>7. Lands(Named(t0, bn, p), l, i)
    <2>1. Kind(t0, i) # "link"
      BY DEF IsDir
    <2> QED  BY <1>1, <2>1, AloneFound
  <1>8. k = Named(t0, bn, p)
    BY <1>1, StrippedNames
  <1>9. Found(k) /\ k.ino = i /\ k.dir = l.dir /\ k.name = l.name
    BY <1>7, <1>8 DEF Lands
  <1>10. Ents(t0, k.ino) = <<>>
    <2>1. t0[i] = DirNode(<<>>, t0[i].mode)
      BY <1>2 DEF Childless, IsDir, Kind
    <2> QED  BY <1>9, <2>1 DEF Ents, DirNode
  <1>11. Rmdir(t0, bn, q) = Ans("ok", Detach(t0, k.dir, k.name), k.ino)
    BY <1>1, <1>5, <1>6, <1>9, <1>10, RmdirGoes
  <1>12. PICK t1 : t1 = r.t /\ t1 = Detach(t0, l.dir, l.name)
    BY <1>1, <1>9, <1>11 DEF Ans
  <1>13. Reap(t1, open) = u
    BY <1>1, <1>12, Undo
  <1> QED  BY <1>12, <1>13

(* So a directory's copy that fails is taken back.                         *)
LEMMA CopyDirRemoveFail ==
    ASSUME TreeInv, KeepInv, OutInv, FailInv, CopyDirRemove
    PROVE  FailInv'
  <1>1. PICK e, bn, r, S, f, open : /\ e = h.err /\ bn = Confined
                                    /\ r = Rmdir(t, bn, SlashesStripped(b))
                                    /\ S = {} /\ f = FALSE /\ open = {}
    OBVIOUS
  <1>2. AnswersAt(e, r.t, S, f) /\ pc \in HeldSteps
    BY <1>1 DEF CopyDirRemove, HeldSteps, Leave, Answers
  <1>3. ASSUME w.quiet  PROVE Reap(r.t, {}) = w.before
    <2>1. PICK u : u = w.before
      OBVIOUS
    <2>2. PICK i \in Ino : Alone(u, t, i, bn, b) /\ IsDir(t, i)
      BY <1>1, <1>2, <1>3, <2>1, DirAlone
    <2>3. Shape(u) /\ Reaped(u, {}) /\ Shape(t) /\ IsPath(b) /\ b.tail # "/."
      BY <1>2, <1>3, <2>1, DirAlone
    <2>4. Reap(r.t, open) = u
      BY <1>1, <2>2, <2>3, MadeDirGoes
    <2> QED  BY <1>1, <2>1, <2>4
  <1> QED  BY <1>2, <1>3, AnswerFail


(* Every step of a call keeps the invariant,                               *)
LEMMA BodyFail ==
    ASSUME TreeInv, KeepInv, OutInv, FailInv, Body
    PROVE  FailInv'
  BY ReadingFail, WriteFail, PutFail, CreateDirFail, CreateDirAllFail, SymlinkFail, RemoveFail,
     MoveFail, RemoveTreeOpenFail, RemoveTreeEntryFail, RemoveTreeFailsFail, RemoveTreeLastFail,
     CopyFileOpenFail,
     CopyFileMakeFail, CopyFileDataFail, CopyFileChmodFail, CopyFileSameFail, CopyFileRemoveFail,
     CopyDirReadFail, CopyDirMakeFail, CopyDirOpenFail, CopyDirChmodFail, CopyDirRemoveFail
  DEF Body

-----------------------------------------------------------------------------
(* The start of a call, other programs, and the whole.                     *)

(* Nothing is to be taken back at the first step of a call, or between two. *)
LEMMA NothingToUndo ==
    ASSUME NEW l \in Ops \cup {"idle"}
    PROVE  /\ \A u, x, hh, bn, p, q : Undoable(l, u, x, hh, bn, p, q)
           /\ \A op : StepFor(l, op)
  <1>1. l \notin {"copy_file.data", "copy_file.chmod", "copy_file.same", "copy_file.remove"}
    BY DEF Ops
  <1>2. l \notin {"copy_dir.open", "copy_dir.chmod", "copy_dir.remove", "rmtree.open", "rmtree.empty"}
    BY DEF Ops
  <1>3. l \notin {"write.data", "append.data", "mkdir_all.name", "mkdir_all.climb",
                 "mkdir_all.make", "mkdir_all.taken"}
    BY DEF Ops
  <1>4. l \notin FileSteps /\ l \notin HeldSteps
    BY <1>1, <1>2 DEF FileSteps, HeldSteps
  <1>5. \A u, x, hh, bn, p, q : Undoable(l, u, x, hh, bn, p, q)
    BY <1>2, <1>4 DEF Undoable
  <1>6. \A op : StepFor(l, op)
    BY <1>3 DEF StepFor
  <1> QED  BY <1>5, <1>6

(* A path resolved from "/" is absolute.                                   *)
LEMMA ResolvedIs ==
    ASSUME ~Confined, NEW p, NEW r, r = Resolve(t, p), r.err = "ok"
    PROVE  r.path.abs
  <1>1. PICK c, e : c = Candidate(p) /\ e = "NotFound"
    OBVIOUS
  <1>2. c.abs
    BY <1>1 DEF Candidate, Path
  <1>3. r = [err |-> e, path |-> p] \/ r = [err |-> "ok", path |-> c]
    BY <1>1 DEF Resolve
  <1> QED  BY <1>1, <1>2, <1>3

(* and so does the start of one,                                           *)
LEMMA StartFail ==
    ASSUME TreeInv, KeepInv, OutInv, FailInv, NEW c \in Scene.calls, Start(c)
    PROVE  FailInv'
  <1>1. c.op \in Ops
    BY FineIs, SceneIs
  <1>2. t' = t /\ call' = c /\ pc = "idle" /\ w' = History(t) /\ host' = host
    BY DEF Start
  <1>3. w'.before = t /\ Confined' = Confined
    BY <1>2, HistoryIsOf DEF Confined
  <1>4. PICK ra : ra = Resolve(t, c.a)
    OBVIOUS
  <1>5. (pc' = c.op /\ ra.err = "ok" /\ a' = ra.path) \/ pc' = "idle"
    BY <1>2, <1>4 DEF Start
  <1>6. (pc # "idle" => Confined \/ a.abs)'
    BY <1>3, <1>4, <1>5, ResolvedIs
  <1>7. pc' \in Ops \cup {"idle"}
    BY <1>1, <1>5
  <1>8. StepFor(pc', call'.op) /\ Undoable(pc', w'.before, t', h', Confined', a', b')
    BY <1>7, NothingToUndo
  <1>9. FailureLeavesTheTree'
    BY <1>2, <1>3 DEF FailureLeavesTheTree
  <1> QED  BY <1>6, <1>8, <1>9 DEF FailInv

(* and a move of another program, after which little is claimed.           *)
LEMMA OthersFail ==
    ASSUME TreeInv, FailInv, Others
    PROVE  FailInv'
  <1>1. Moved
    BY DEF Others, Exchange, Replace
  <1>2. UNCHANGED <<host, pc, call, a>>
    BY <1>1 DEF Moved
  <1>3. ~w'.quiet
    <2>1. PICK f, v, x : f = FALSE /\ v = TRUE /\ x = w'
      OBVIOUS
    <2>2. x = [w EXCEPT !.moved = v, !.quiet = f]
      BY <1>1, <2>1 DEF Moved
    <2>3. IsHistory(w)
      BY FineIs
    <2>4. \A k, y : y = [w EXCEPT !.moved = k, !.quiet = f] => y.quiet = f
      BY <2>3, HistoryKept
    <2>5. x.quiet = f
      BY <2>2, <2>4
    <2> QED  BY <2>1, <2>5
  <1>4. FailureLeavesTheTree'
    BY <1>3 DEF FailureLeavesTheTree
  <1>5. (pc # "idle" => Confined \/ a.abs)' /\ StepFor(pc', call'.op)
    BY <1>2 DEF FailInv, Confined
  <1> QED  BY <1>3, <1>4, <1>5 DEF FailInv

(* It is so at the start,                                                  *)
LEMMA StartsFail ==
    ASSUME Init
    PROVE  FailInv
  <1>1. pc = "idle" /\ w = History(t)
    BY DEF Init
  <1>2. w.before = t
    BY <1>1, HistoryIsOf
  <1>3. FailureLeavesTheTree
    BY <1>2 DEF FailureLeavesTheTree
  <1>4. StepFor(pc, call.op) /\ Undoable(pc, w.before, t, h, Confined, a, b)
    BY <1>1, NothingToUndo
  <1> QED  BY <1>1, <1>3, <1>4 DEF FailInv

(* and after every step.                                                   *)
LEMMA StepsFail ==
    ASSUME TreeInv, KeepInv, OutInv, FailInv, [Next]_vars
    PROVE  FailInv'
  <1>1. CASE UNCHANGED vars
    BY <1>1 DEF vars, FailInv, Confined, FailureLeavesTheTree, StillLeads
  <1> QED  BY <1>1, BodyFail, StartFail, OthersFail DEF Next

(* A call that fails undisturbed has changed nothing, for any tree, paths, *)
(* spellings and backend, whichever system call of a copy failed: what it  *)
(* made is taken back, and a removal refused has emptied nothing           *)
(* (lib.rs:795-803; copy.rs:38, 119).  Not promised of create_dir_all, of  *)
(* a write that fails once its file is open, nor of a recursive removal    *)
(* that takes the way to its own name.                                     *)
THEOREM FailuresLeaveTheTree == Spec => []FailureLeavesTheTree
  <1>1. Init => FailInv
    BY StartsFail
  <1>2. TreeInv /\ KeepInv /\ OutInv /\ FailInv /\ [Next]_vars => FailInv'
    BY StepsFail
  <1>3. FailInv => FailureLeavesTheTree
    BY DEF FailInv
  <1> QED  BY <1>1, <1>2, <1>3, TreeInvariant, TreeStaysWhole, OutcomesStand, PTL DEF Spec
=============================================================================
