------------------------------- MODULE FsProps -------------------------------
(***************************************************************************)
(* What the path operations of components/fs-core promise.                 *)
(***************************************************************************)
EXTENDS FsCalls

(* What is beside the root, and not beneath it.                            *)
Outside(tree) == Below(tree, Top) \ Below(tree, Root)

Entries(tree) ==
    UNION {{<<d, n, Ents(tree, d)[n]>> : n \in DOMAIN Ents(tree, d)} :
              d \in {i \in Ino : IsDir(tree, i)}}

EntryOf(tree, p) == LET e == Named(tree, Confined, p) IN <<e.dir, e.name, e.ino>>

Answered(ops) == pc = "idle" /\ calls > 0 /\ result.op \in ops
Succeeded(ops) == Answered(ops) /\ result.err = "ok"
CopySteps == {"copy_file.make", "copy_file.data", "copy_file.chmod",
              "copy_file.same", "copy_file.remove", "copy_dir.name", "copy_dir.make",
              "copy_dir.open", "copy_dir.chmod", "copy_dir.remove"}
AppStep == moves' = moves

(* Every variable holds a value of its kind, and the tree is a tree: no    *)
(* entry names a free node and a directory has one name; a step that uses  *)
(* an open node has one of the kind it was opened for.                     *)
TypeOK ==
    /\ IsTree(t) /\ OneName(t)
    /\ calls \in 0..Scene.max /\ moves \in 0..Scene.moves
    /\ result.err \in Tags \cup {"ok", "Other"}
    /\ Open(h) \subseteq Ino
    /\ pc \in {"write.data", "append.data", "copy_file.data", "copy_file.chmod", "copy_file.same"} =>
          h.dst # NoIno /\ ~IsDir(t, h.dst)
    /\ pc \in {"copy_file.data", "copy_file.chmod"} => Kind(t, h.src) = "file"
    /\ pc = "copy_dir.chmod" => IsDir(t, h.dst)
    /\ pc = "rmtree.empty" => IsDir(t, h.src)
    /\ w.made \subseteq Ino

(* A confined call changes nothing outside the root, whatever other        *)
(* programs swap between its system calls (lib.rs:53-63, copy.rs:9-10).    *)
ConfinedWritesInside ==
    [][Confined /\ AppStep => \A i \in Outside(t) : t'[i] = t[i]]_vars

(* A confined call tells nothing of a node outside the root: neither what  *)
(* it holds nor its metadata (lib.rs:53-59, 216-219).                      *)
ConfinedReadsInside ==
    [][(Confined /\ AppStep /\ pc # "idle" /\ pc' = "idle")
         => result'.saw \cap Outside(t) = {}]_vars

(* The path p leads in tree to the entry it led to in u: what was taken    *)
(* meanwhile was not on its way; nor is it "/", which has no entry.        *)
StillLeads(u, tree, bn, p) == (bn \/ p.comps # <<>>) /\ Named(tree, bn, p) = Named(u, bn, p)

(* A call that fails, with no other program interfering, leaves the tree   *)
(* as it found it: a refused removal has emptied nothing (lib.rs:795-803)  *)
(* and a failed copy leaves nothing behind to make the retry AlreadyExists *)
(* (copy.rs:38, 119).  A write that fails part way is an exception; so are *)
(* create_dir_all, which keeps the directories it made before the one it   *)
(* could not make, and a recursive removal that is stopped below, or takes *)
(* away the way to its own name ("d/sub/../../d"): std and cap-std take    *)
(* back neither.                                                           *)
FailureLeavesTheTree ==
    (/\ pc = "idle" /\ result.err # "ok" /\ w.quiet
     /\ result.op \in {"write", "append", "rmtree"} => ~w.injected
     /\ result.op # "mkdir_all"
     /\ result.op = "rmtree" => StillLeads(w.before, t, Confined, a))
    => t = w.before

(* A file's copy replaces no entry and removes none but the one it made,   *)
(* unless another program moves between the comparison and the removal     *)
(* (copy.rs:81-83).                                                        *)
FileCopyKeepsTheRest ==
    [][(AppStep /\ pc \in CopySteps /\ call.op = "copy_file" /\ ~w.moved) =>
          \A e \in Entries(t) \ Entries(t') : e[3] \in w.made]_vars

(* The comments at copy.rs:119 and 148-150: a directory's copy that fails  *)
(* removes the directory just made, and that has nothing inside.  As of a  *)
(* file's copy, it is asked only while nobody moves between the removal    *)
(* and the step before it.                                                 *)
DirCopyRemovesItsOwn ==
    [][(AppStep /\ pc \in CopySteps /\ call.op = "copy_dir" /\ ~w.moved) =>
          \A e \in Entries(t) \ Entries(t') : e[3] \in w.made]_vars

(* At no moment while it is there is a copy, file or directory, open to    *)
(* more than the copied source allows (copy.rs:35, 99-101).                *)
CopyNeverBroader ==
    pc \in CopySteps => \A i \in w.made \ FreeInos(t) : t[i].mode \subseteq h.mode

(* A copy that succeeded, undisturbed, holds what the source holds under   *)
(* the source's permission bits, less the special ones and, for a          *)
(* directory, with the owner's: the umask is not applied to it.            *)
CopyIsFaithful ==
    /\ (Succeeded({"copy_file"}) /\ w.quiet) =>
          LET s == t[Look(w.before, Confined, a, TRUE).ino]
          IN  t[EntryOf(t, b)[3]] = FileNode(s.data, s.mode \ {"special"})
    /\ (Succeeded({"copy_dir"}) /\ w.quiet) =>
          LET s == t[Look(w.before, Confined, a, FALSE).ino]
          IN  t[EntryOf(t, b)[3]] = DirNode(<<>>, (s.mode \ {"special"}) \cup {"owner"})

(* A successful call removes only the entries it names, the link and not   *)
(* what the link leads to; only a recursive removal takes what is below,   *)
(* and only a rename replaces.  A recursive removal that fails has taken   *)
(* nothing but what is below.                                              *)
OnlyNamedEntriesGo ==
    (pc = "idle" /\ calls > 0 /\ w.quiet) =>
        LET gone  == Entries(w.before) \ Entries(t)
            below == {e \in Entries(w.before) : e[1] \in Below(w.before, EntryOf(w.before, a)[3])}
            named(p) == EntryOf(w.before, p)
        IN  IF result.err # "ok" THEN result.op = "rmtree" => gone \subseteq below
            ELSE CASE result.op \in {"unlink", "rmdir"} -> gone = {named(a)}
                   [] result.op = "rmtree" ->
                         gone = {named(a)} \cup IF IsDir(w.before, named(a)[3]) THEN below ELSE {}
                   [] result.op = "rename" -> gone \subseteq {named(a), named(b)}
                   [] OTHER -> gone = {}

(* The call just answered made, moved or hard-linked the symlink at p.     *)
MadeLinkAt(p) ==
    /\ Confined /\ calls > 0 /\ pc = "idle" /\ result.err = "ok" /\ w.quiet
    /\ result.op \in {"symlink", "rename", "link"}
    /\ p = IF result.op = "symlink" THEN a ELSE b
    /\ LET i == EntryOf(t, p)[3]
       IN  /\ Kind(t, i) = "link"
           /\ result.op = "symlink" \/ (~t[i].to.abs /\ Parent(a) # Parent(b))

(* Where an unconfined program following that link gets to.                *)
FollowedFrom(p) == Look(t, FALSE, Abs(Base \o p.comps), TRUE)

(* A symlink a confined call makes, or takes to another directory, leads   *)
(* an unconfined program to something beneath the root, as the tree stands *)
(* when the call answers; one that was renamed may at worst lead nowhere   *)
(* (lib.rs:933-937, 998-1003).                                             *)
LinksLeadInside ==
    \A p \in {a, b} : MadeLinkAt(p) =>
        LET f == FollowedFrom(p)
        IN  /\ result.op # "rename" => Found(f)
            /\ f.is \in {"found", "absent"}
            /\ (IF Found(f) THEN f.ino ELSE f.dir) \in Below(t, Root)

(* The comment at lib.rs:936-937: beneath the root a move must leave the   *)
(* target of the moved link existing inside.                               *)
MovedLinkKeepsATarget ==
    \A p \in {a, b} : MadeLinkAt(p) => Found(FollowedFrom(p))

(* While the name a directory descriptor was opened at still leads to that *)
(* directory, a path given against it leads where it leads from there,     *)
(* through links and "..", on either host and whatever was moved between   *)
(* the open and the use (lib.rs:161-167, 368-384; Fs.roc:26-29).           *)
DescriptorNamesItsDirectory ==
    LET named == Look(w.before, FALSE, Abs(dir.comps), TRUE)
        from  == WalkFrom(w.before, Top, dir.ino, call.a, TRUE, FALSE)
    IN  (Succeeded({"read", "stat", "open"}) /\ w.quiet /\ ~call.a.abs
            /\ Found(named) /\ named.ino = dir.ino) => result.saw = {from.at}

(* copy_dir sets the mode on what stands under the copy's own name when it *)
(* is opened, and never on what a link put there after the mkdir leads to; *)
(* on either host, and also when the name was given with slashes, through  *)
(* which O_NOFOLLOW would follow (copy.rs:104-107).  Between the open and  *)
(* the chmod that directory may get another name.                          *)
ModeSetUnderItsName ==
    [][(AppStep /\ call.op = "copy_dir" /\ ~w.moved) =>
          \A i \in Ino : (IsDir(t, i) /\ IsDir(t', i) /\ t'[i].mode # t[i].mode) =>
             \E e \in Entries(t) : e[2] = Last(b.comps) /\ e[3] = i]_vars

(* The comment at copy.rs:148-149: the mode is set on the directory just   *)
(* made, even if the name is swapped.                                      *)
ModeSetOnTheMadeDirectory ==
    [][\A i \in Ino : (AppStep /\ IsDir(t, i) /\ IsDir(t', i) /\ t'[i].mode # t[i].mode)
          => i \in w.made]_vars
=============================================================================
