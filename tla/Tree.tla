-------------------------------- MODULE Tree --------------------------------
(***************************************************************************)
(* The directory tree the filesystem hosts act on, and how a path is       *)
(* walked in it: by the kernel from "/" (the unconfined host hands its     *)
(* path to std::fs) or by cap-std beneath a directory handle (the confined *)
(* host).  None of this is code of the repository: it is modelled from the *)
(* way components/fs-core uses std and cap-std and from what its comments  *)
(* record of them.                                                         *)
(*                                                                         *)
(* A tree is a function from inode numbers to nodes.  A path is a record   *)
(* [abs, comps, tail]: whether it starts at "/", its components (names and *)
(* "..", none of them empty: slashes in a row are one), and its trailing   *)
(* spelling "", "/" or "/.".                                               *)
(***************************************************************************)
EXTENDS Integers, Sequences, FiniteSets, SequencesExt, TLC

CONSTANTS Ino,      \* inode numbers
          Top,      \* the inode of "/"
          Root,     \* the directory the confined root handle is open on
          MaxHops   \* links followed in one walk before ELOOP

ASSUME TreeAssumption ==
    /\ Ino \subseteq Nat /\ IsFiniteSet(Ino)
    /\ {Top, Root} \subseteq Ino
    /\ MaxHops \in Nat

-----------------------------------------------------------------------------
(* Nodes.  Permission bits are the sets of Bits: the owner's, everybody    *)
(* else's, and the special ones (setuid, setgid, sticky).                  *)

Bits == {"owner", "others", "special"}

Free           == [kind |-> "free"]
DirNode(e, m)  == [kind |-> "dir",  ents |-> e, mode |-> m]
FileNode(d, m) == [kind |-> "file", data |-> d, mode |-> m]
LinkNode(p)    == [kind |-> "link", to |-> p]
OtherNode      == [kind |-> "other"]            \* a FIFO, socket or device

Comps == STRING \ {""}
Path(absolute, comps, tail) == [abs |-> absolute, comps |-> comps, tail |-> tail]
Rel(c) == Path(FALSE, c, "")
Abs(c) == Path(TRUE, c, "")
IsPath(p) == /\ p = Path(p.abs, p.comps, p.tail)
             /\ p.abs \in BOOLEAN /\ p.comps \in Seq(Comps) /\ p.tail \in {"", "/", "/."}

Kind(t, i)     == t[i].kind
IsDir(t, i)    == Kind(t, i) = "dir"
Ents(t, d)     == t[d].ents
Children(t, d) == IF IsDir(t, d) THEN Range(Ents(t, d)) ELSE {}

ParentOf(t, d) ==
    IF \E p \in Ino : d \in Children(t, p)
    THEN CHOOSE p \in Ino : d \in Children(t, p)
    ELSE d

(* A tree: nodes of those kinds, and entries of directories that name some. *)
IsEnts(t, e) == /\ e = [n \in DOMAIN e |-> e[n]]
                /\ \A n \in DOMAIN e : e[n] \in Ino /\ t[e[n]] # Free
IsNode(t, x) ==
    \/ x \in {Free, OtherNode}
    \/ x.kind = "file" /\ x = FileNode(x.data, x.mode)
    \/ x.kind = "link" /\ x = LinkNode(x.to) /\ IsPath(x.to)
    \/ x.kind = "dir" /\ x = DirNode(x.ents, x.mode) /\ IsEnts(t, x.ents)
IsTree(t) == t = [i \in Ino |-> t[i]] /\ \A i \in Ino : IsNode(t, t[i])

(* A directory has one name.                                               *)
OneName(t) ==
    \A c, d \in {i \in Ino : IsDir(t, i)} : \A m \in DOMAIN Ents(t, c), n \in DOMAIN Ents(t, d) :
       Ents(t, c)[m] = Ents(t, d)[n] /\ IsDir(t, Ents(t, c)[m]) => c = d /\ m = n

(* The nodes In are the root's: no name leads in but the root's own, and   *)
(* none out.                                                               *)
Walled(t, In) ==
    /\ IsDir(t, Root) /\ IsDir(t, Top) /\ Root \in In /\ (Top \in In => Top = Root)
    /\ \A i \in In : t[i] # Free
    /\ \A d \in Ino : \A i \in Children(t, d) : d \in In <=> i \in In \ {Root}

-----------------------------------------------------------------------------
(* Edits, as one system call makes them.                                   *)

With(e, n, i)      == [x \in DOMAIN e \cup {n} |-> IF x = n THEN i ELSE e[x]]
Attach(t, d, n, i) == [t EXCEPT ![d].ents = With(@, n, i)]
Detach(t, d, n)    == [t EXCEPT ![d].ents = Restrict(@, DOMAIN @ \ {n})]

FreeInos(t) == {i \in Ino : Kind(t, i) = "free"}
Fresh(t)    == CHOOSE i \in FreeInos(t) : \A j \in FreeInos(t) : i <= j
Create(t, d, n, node) ==
    LET i == Fresh(t) IN Attach([t EXCEPT ![i] = node], d, n, i)

(* A node no entry names and no handle holds is gone.  The root's handle   *)
(* is held throughout.                                                     *)
Reap(t, open) ==
    LET named == (UNION {Children(t, d) : d \in Ino}) \cup {Top, Root} \cup open
    IN  [i \in Ino |-> IF i \in named THEN t[i] ELSE Free]

-----------------------------------------------------------------------------
(* A walk.  `out' is "go" until it ends: "found" (with the entry it came   *)
(* through), "absent" (the last name is missing from directory `dir') or   *)
(* an error kind; while it goes on it is at a directory.                   *)

Outcomes == {"go", "found", "absent", "NotFound", "PermissionDenied", "FilesystemLoop",
             "NotADirectory"}
Walks(t) == {s \in [out : Outcomes, at : Ino, todo : Seq(Comps), hops : 0..MaxHops,
                    dir : Ino, name : Comps \cup {""}] : s.out = "go" => IsDir(t, s.at)}

StartWalk(at, todo) ==
    [out |-> "go", at |-> at, todo |-> todo, hops |-> 0, dir |-> at, name |-> ""]

WalkName(t, s, follow, beneath) ==
    LET n    == Head(s.todo)
        rest == Tail(s.todo)
        i    == Ents(t, s.at)[n]
        node == t[i]
        last == rest = <<>>
    IN  IF n \notin DOMAIN Ents(t, s.at)
        THEN [s EXCEPT !.out = IF last THEN "absent" ELSE "NotFound", !.dir = s.at, !.name = n]
        ELSE IF node.kind = "link" /\ (~last \/ follow)
        THEN IF node.to.abs /\ beneath THEN [s EXCEPT !.out = "PermissionDenied"]
             ELSE IF s.hops = MaxHops  THEN [s EXCEPT !.out = "FilesystemLoop"]
             ELSE [s EXCEPT !.at   = IF node.to.abs THEN Top ELSE @,
                            !.todo = node.to.comps \o rest,
                            !.name = "",
                            !.hops = @ + 1]
        ELSE IF node.kind # "dir" /\ ~last
        THEN [s EXCEPT !.out = "NotADirectory"]
        ELSE [s EXCEPT !.dir = s.at, !.name = n, !.at = i, !.todo = rest,
                       !.out = IF node.kind = "dir" THEN "go" ELSE "found"]

WalkStep(t, s, base, follow, beneath) ==
    CASE s.todo = <<>> -> [s EXCEPT !.out = "found"]
      [] s.todo # <<>> /\ Head(s.todo) = ".." ->
           IF s.at = base /\ beneath THEN [s EXCEPT !.out = "PermissionDenied"]
           ELSE [s EXCEPT !.at   = IF @ = base THEN @ ELSE ParentOf(t, @),
                          !.todo = Tail(@), !.name = ""]
      [] OTHER -> WalkName(t, s, follow, beneath)

(* From directory d, in a tree that ends at base.                          *)
WalkFrom(t, base, d, p, follow, beneath) ==
    LET walk[s \in Walks(t)] ==
            IF s.out # "go" THEN s ELSE walk[WalkStep(t, s, base, follow, beneath)]
    IN  walk[StartWalk(d, p.comps)]

Ended(t, s, must) ==
    [is |-> IF s.out = "found" /\ must /\ ~IsDir(t, s.at) THEN "NotADirectory" ELSE s.out,
     ino |-> s.at, dir |-> s.dir, name |-> s.name]

(* The kernel's walk from "/" (Beneath = FALSE) or cap-std's from the root *)
(* handle.  A path spelled with a trailing "/" or "/." follows its last    *)
(* link and must be a directory.                                           *)
Look(t, beneath, p, follow) ==
    IF p.abs /\ beneath
    THEN [is |-> "PermissionDenied", ino |-> Root, dir |-> Root, name |-> ""]
    ELSE LET base == IF beneath THEN Root ELSE Top
         IN  Ended(t, WalkFrom(t, base, base, p, follow \/ p.tail # "", beneath), p.tail # "")

Found(w)   == w.is = "found"
ErrorOf(w) == IF w.is = "absent" THEN "NotFound" ELSE w.is

(* Everything reachable from directory d without following a link.         *)
Below(t, d) ==
    LET reach[S \in SUBSET Ino] ==
            LET R == S \cup UNION {Children(t, x) : x \in S}
            IN  IF R = S THEN S ELSE reach[R]
    IN  reach[{d}]
=============================================================================
