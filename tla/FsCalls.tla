------------------------------ MODULE FsCalls ------------------------------
(***************************************************************************)
(* components/fs-core: the path operations of the filesystem host, one     *)
(* caller at a time (the hosted calls block), each system call a step, so  *)
(* that other programs can change the tree between two of them.            *)
(*                                                                         *)
(* Confined selects the backend: TRUE is fs-confined (every path walked by *)
(* cap-std beneath the root handle), FALSE is fs-unconfined (std::fs).     *)
(* A call is [op, a, b]: the operation, its path, and its second path, the *)
(* contents of a symlink, or nothing.                                      *)
(***************************************************************************)
EXTENDS SysCalls

CONSTANTS Hosts,      \* the hosts that may run a program: backend, umask and scene
          Base,       \* the components of the path the root handle was opened at
          Scenes      \* what happens in each scene:
                      \*   trees  the trees the program may start in
                      \*   calls  the calls it may make
                      \*   max    how many of them it makes
                      \*   dirs   the directories other programs change
                      \*   moves  how many changes they make
                      \*   fails  whether writing, chmod and a recursive removal may fail
                      \*          part-way (ENOSPC, EIO, EACCES)

Ops == {"read", "stat", "lstat", "list", "readlink", "write", "append", "open", "open_nofollow",
        "open_write", "open_append", "open_new", "open_cut", "open_dir", "open_dir_nofollow",
        "mkdir", "mkdir_all", "rmdir", "rmtree", "unlink", "rename", "link", "symlink",
        "copy_file", "copy_dir"}

ASSUME FsAssumption ==
    /\ \A o \in Hosts : o.confined \in BOOLEAN /\ o.scene \in DOMAIN Scenes
    /\ \A s \in Range(Scenes) : /\ s.fails \in BOOLEAN
                                /\ {s.max, s.moves} \subseteq Nat
                                /\ s.dirs \subseteq Ino
                                /\ \A c \in s.calls : c.op \in Ops /\ IsPath(c.a) /\ IsPath(c.b)
                                /\ \A t0 \in s.trees : /\ IsTree(t0) /\ OneName(t0) /\ Reap(t0, {}) = t0
                                                       /\ Walled(t0, Below(t0, Root))
    /\ Base \in Seq(Comps)

VARIABLES t,        \* the tree
          dir,      \* the directory descriptor relative paths are given against:
                    \* the path it names, and (history) where that led at the open
          pc,       \* "idle", or the step the running call is at
          call,     \* the running (or last) call
          a, b,     \* its paths, resolved
          h,        \* what it holds: open nodes, a mode, a link's contents or the
                    \* directory to make next
          result,   \* what the last call answered
          calls, moves,
          w         \* history, for the properties: see NoHistory

vars == <<host, t, dir, pc, call, a, b, h, result, calls, moves, w>>

Confined == host.confined
Scene    == Scenes[host.scene]

Nothing   == Path(FALSE, <<>>, "")     \* the empty path, and no path
NoHandles == [src |-> NoIno, dst |-> NoIno, mode |-> {}, link |-> Nothing, err |-> "ok"]

(* before: the tree the call started in.  quiet: no other program moved    *)
(* since.  moved: one did since the call's last step.  injected: a write   *)
(* or chmod was made to fail.  made: the nodes the call created.           *)
History(tree) == [before |-> tree, quiet |-> TRUE, moved |-> FALSE,
                  injected |-> FALSE, made |-> {}]

-----------------------------------------------------------------------------
(* Path resolution: dir_of, resolve, relative_to_root, aliased_rest.       *)

RootPath == IF Confined THEN Base ELSE <<>>

CandidateAtRoot(p) ==                  \* variant: every descriptor is the root's
    IF p.abs THEN p ELSE Path(TRUE, RootPath \o p.comps, p.tail)
Candidate(p) ==
    IF p.abs THEN p ELSE Path(TRUE, dir.comps \o p.comps, p.tail)

(* Where the shortest prefix of plain names that canonicalizes to the base *)
(* ends; the walk stops at the first prefix that does not canonicalize.    *)
Canonical(tree, comps) == Look(tree, FALSE, Abs(comps), TRUE)
AliasEnds(tree, base, comps) ==
    LET canon(k) == Canonical(tree, SubSeq(comps, 1, k))
    IN  {k \in 0..Len(comps) : /\ \A j \in 1..k : comps[j] # ".." /\ Found(canon(j))
                               /\ canon(k).ino = base}

RelativeToRoot(tree, p) ==
    LET beneath(k) == [err  |-> "ok",
                       path |-> Path(FALSE, SubSeq(p.comps, k + 1, Len(p.comps)), p.tail)]
        refused(e) == [err |-> e, path |-> p]
        base == Canonical(tree, Base)
        ends == AliasEnds(tree, base.ino, p.comps)
    IN  IF IsPrefix(Base, p.comps) THEN beneath(Len(Base))
        ELSE IF ~Found(base) THEN refused(ErrorOf(base))
        ELSE IF ends # {} THEN beneath(CHOOSE k \in ends : \A j \in ends : k <= j)
        ELSE refused("PermissionDenied")

Resolve(tree, p) ==
    CASE p = Nothing -> [err |-> "NotFound", path |-> p]
      [] Confined    -> RelativeToRoot(tree, Candidate(p))
      [] OTHER       -> [err |-> "ok", path |-> Candidate(p)]

-----------------------------------------------------------------------------
(* How a name is spelled.                                                  *)

NamesDirectory(p) == p.tail # ""
EndsInParent(p)   == /\ EndsInDotDot(p) /\ p.tail # "/."
                     /\ p.abs \/ Len(p.comps) > 1
HasSlashes(p)     == p.tail = "/" /\ p.comps # <<>> /\ ~EndsInDotDot(p)
SlashesKept(p)    == p                 \* variant: the name keeps its slashes
SlashesStripped(p) == IF HasSlashes(p) THEN NoTail(p) ELSE p
Parent(p)         == IF p.comps = <<>> THEN <<>> ELSE Front(p.comps)

(* beneath_lstat and metadata_as_named: both backends follow a link named  *)
(* with a trailing slash.                                                  *)
MetadataUnfollowed(tree, p) == Lstat(tree, Confined, p)     \* variant
MetadataAsNamed(tree, p) ==
    IF Confined /\ NamesDirectory(p) THEN Stat(tree, TRUE, p) ELSE Lstat(tree, Confined, p)
MetadataFollowed(tree, p) == Stat(tree, Confined, p)

IsDirAnswer(r) == r.err = "ok" /\ IsDir(r.t, r.ino)

RefuseDirectoryName(tree, p) ==
    LET m == MetadataFollowed(tree, p)
    IN  CASE EndsInParent(p)   -> IF m.err = "ok" THEN "AlreadyExists" ELSE m.err
          [] NamesDirectory(p) -> "NotADirectory"
          [] OTHER             -> "ok"

NewDirectoryName(tree, p) ==
    LET m == Lstat(tree, Confined, SlashesStripped(p))
    IN  CASE ~HasSlashes(p) -> "ok"
          [] m.err = "ok" -> "AlreadyExists"
          [] m.err = "NotFound" -> "ok"
          [] OTHER -> m.err

ExistingDirectoryName(tree, p) ==
    LET m == MetadataAsNamed(tree, SlashesStripped(p))
    IN  IF EndsInParent(p) THEN "Unsupported"
        ELSE IF ~HasSlashes(p) \/ IsDirAnswer(m) THEN "ok"
        ELSE IF m.err = "ok" THEN "NotADirectory" ELSE m.err

RefuseNothing(p)      == FALSE         \* variant: the check is missing
RefuseTrailingDot(p)  == p.tail = "/."
RefuseConfinedRoot(p) == Confined /\ p.comps = <<>>

(* A rename where either name names a directory renames a directory.       *)
RenamedSource(tree, p, q) ==
    LET m == MetadataAsNamed(tree, p)
    IN  CASE ~NamesDirectory(p) /\ ~NamesDirectory(q) -> "ok"
          [] IsDirAnswer(m) -> "ok"
          [] m.err = "ok"   -> "NotADirectory"
          [] OTHER          -> m.err

(* Where a link at p with those contents leads, walked beneath the root.   *)
TargetInside(tree, p, contents) ==
    LET joined == IF contents.abs THEN contents
                  ELSE Path(FALSE, Parent(p) \o contents.comps, contents.tail)
    IN  Stat(tree, TRUE, joined).err

-----------------------------------------------------------------------------
(* The frame of a step: go on to the next one, or answer the call.         *)

Open(hh) == {hh.src, hh.dst} \ {NoIno}

Goto(l, tree, hh) ==
    /\ pc' = l
    /\ h'  = hh
    /\ t'  = Reap(tree, Open(hh))
    /\ w'  = [w EXCEPT !.moved = FALSE, !.made = @ \cup (FreeInos(t) \ FreeInos(tree))]
    /\ UNCHANGED <<host, dir, call, a, b, result, calls, moves>>

(* ioerr_ctor: the error kinds that reach Roc under their names.           *)
Tags == {"NotFound", "PermissionDenied", "AlreadyExists", "BrokenPipe", "Interrupted",
         "Unsupported", "IsADirectory", "NotADirectory", "OutOfMemory"}
IoErrKind(kind) == kind                \* variant: the kind crosses as it is
IoErr(kind) == IF kind \in Tags \cup {"ok"} THEN kind ELSE "Other"

(* S: the nodes whose contents or metadata the answer tells of.            *)
AnswersAt(e, tree, S, fault) ==
    /\ pc' = "idle"
    /\ result' = [op |-> call.op, err |-> IoErr(e), saw |-> S]
    /\ t' = Reap(tree, {})
    /\ h' = NoHandles
    /\ w' = [w EXCEPT !.moved = FALSE, !.injected = @ \/ fault,
                       !.made = @ \cup (FreeInos(t) \ FreeInos(tree))]
    /\ UNCHANGED <<host, call, a, b, calls, moves>>

Answers(e, tree, S, fault) == AnswersAt(e, tree, S, fault) /\ UNCHANGED dir
Leave(e, tree) == Answers(e, tree, {}, FALSE)
Pass(r)        == Leave(r.err, r.t)
Tell(r)        == Answers(r.err, r.t, {r.ino} \ {NoIno}, FALSE)

TwoPaths == {"rename", "link", "copy_file", "copy_dir"}

(* with_path, two and the copies resolve every path before the body, the   *)
(* source first.                                                           *)
Second(c) == IF c.op \in TwoPaths THEN Resolve(t, c.b) ELSE [err |-> "ok", path |-> c.b]

Start(c) ==
    LET ra == Resolve(t, c.a)
        rb == Second(c)
        e  == IF ra.err # "ok" THEN ra.err ELSE rb.err
    IN  /\ pc = "idle"
        /\ calls < Scene.max
        /\ calls' = calls + 1
        /\ call' = c
        /\ w' = History(t)
        /\ IF e = "ok"
           THEN pc' = c.op /\ a' = ra.path /\ b' = rb.path /\ UNCHANGED result
           ELSE /\ result' = [op |-> c.op, err |-> IoErr(e), saw |-> {}]
                /\ UNCHANGED <<pc, a, b>>
        /\ UNCHANGED <<host, t, dir, h, moves>>

-----------------------------------------------------------------------------
(* Reading.                                                                *)

(* Variant: the path is checked beneath the root, then used from "/".      *)
ReadFileAmbient ==
    /\ pc = "read"
    /\ Tell(OpenRead(t, FALSE, Abs(Base \o a.comps), TRUE))

ReadFileAt ==
    LET r == OpenRead(t, Confined, a, TRUE)
    IN  /\ pc = "read"
        /\ IF IsDirAnswer(r) THEN Leave("IsADirectory", t) ELSE Tell(r)

StatAt ==
    \/ pc = "stat"  /\ Tell(MetadataFollowed(t, a))
    \/ pc = "lstat" /\ Tell(MetadataAsNamed(t, a))

ReadDirAt ==
    /\ pc = "list"
    /\ Tell(OpenDir(t, Confined, a, TRUE))

ReadlinkAt ==
    /\ pc = "readlink"
    /\ Tell(ReadLink(t, Confined, a))

-----------------------------------------------------------------------------
(* Writing a file: truncate it, then write it.                             *)

(* Variant: the same, for a write.                                         *)
WriteOpenAmbient ==
    LET r == OpenWrite(t, FALSE, Abs(Base \o a.comps), {"create", "truncate"})
    IN  /\ pc = "write"
        /\ IF r.err # "ok" THEN Pass(r)
           ELSE Goto("write.data", r.t, [h EXCEPT !.dst = r.ino])

WriteOpen ==
    LET refused == RefuseDirectoryName(t, a)
        r       == OpenWrite(t, Confined, a, {"create", "truncate"})
    IN  /\ pc = "write"
        /\ CASE refused # "ok" -> Leave(refused, t)
             [] r.err # "ok"   -> Pass(r)
             [] OTHER          -> Goto("write.data", r.t, [h EXCEPT !.dst = r.ino])

Put(d) == IF Kind(t, h.dst) = "file" THEN [t EXCEPT ![h.dst].data = d] ELSE t

WriteData ==
    /\ pc = "write.data"
    /\ \/ Leave("ok", Put("new"))
       \/ Scene.fails /\ Answers("StorageFull", Put("part"), {}, TRUE)

-----------------------------------------------------------------------------
(* open_at!: a descriptor on a file, or on a directory.  The first is used *)
(* in OpenFiles; here it matters what was opened, made or truncated.       *)

OpenReadAt ==
    /\ pc \in {"open", "open_nofollow"}
    /\ Tell(OpenRead(t, Confined, a, pc = "open"))

(* open_writer!, open_append!, exclusive and truncating opens, and append!,*)
(* which opens and then writes.                                            *)
WriteFlags == [open_write |-> {"create", "truncate"}, open_append |-> {"create"},
               open_new   |-> {"create", "excl"},     open_cut    |-> {"truncate"},
               append     |-> {"create"}]

OpenWriteAt ==
    LET flags == WriteFlags[pc]
        r     == OpenWrite(t, Confined, a, flags)
    IN  /\ pc \in DOMAIN WriteFlags
        /\ CASE "create" \in flags /\ NamesDirectory(a) ->
                  Leave(IF IsDirAnswer(MetadataFollowed(t, a)) THEN "IsADirectory"
                        ELSE "NotADirectory", t)
             [] r.err # "ok" -> Pass(r)
             [] OTHER -> IF pc = "append" THEN Goto("append.data", r.t, [h EXCEPT !.dst = r.ino])
                         ELSE Tell(r)

AppendData ==
    /\ pc = "append.data"
    /\ \/ Leave("ok", Put("longer"))
       \/ Scene.fails /\ Answers("StorageFull", Put("part"), {}, TRUE)

(* A directory descriptor is the path, not what was opened.                *)
OpenDirAt ==
    LET r == OpenDir(t, Confined, a, pc = "open_dir")
    IN  /\ pc \in {"open_dir", "open_dir_nofollow"}
        /\ AnswersAt(r.err, t, {}, FALSE)
        /\ dir' = IF r.err # "ok" THEN dir
                  ELSE [comps |-> (IF Confined THEN Base ELSE <<>>) \o a.comps, ino |-> r.ino]

-----------------------------------------------------------------------------
(* Making and removing directories.                                        *)

CreateDirName ==
    LET e == NewDirectoryName(t, a)
    IN  /\ pc = "mkdir"
        /\ IF e = "ok" THEN Goto("mkdir.make", t, h) ELSE Leave(e, t)

CreateDirMake ==
    /\ pc = "mkdir.make"
    /\ Pass(Mkdir(t, Confined, SlashesStripped(a), {"owner", "others"}))

CreateDirAllThere ==
    /\ pc = "mkdir_all"
    /\ IF HasSlashes(a) /\ IsDirAnswer(MetadataFollowed(t, a)) THEN Leave("ok", t)
       ELSE Goto("mkdir_all.name", t, h)

CreateDirAllName ==
    LET e == NewDirectoryName(t, a)
    IN  /\ pc = "mkdir_all.name"
        /\ IF e = "ok" THEN Goto("mkdir_all.climb", t, [h EXCEPT !.link = SlashesStripped(a)])
           ELSE Leave(e, t)

(* The create_dir_all std and cap-std share: a mkdir of the whole path,    *)
(* and while the parent is missing of that; then down again to the whole.  *)
(* What is there already must be a directory, and not what mkdir says.     *)
UpFrom(p)        == Path(p.abs, Parent(p), "")
DownFrom(p, all) == LET n == Len(p.comps) + 1
                    IN  IF n >= Len(all.comps) THEN all ELSE Path(all.abs, SubSeq(all.comps, 1, n), "")

MakeNext(tree) ==
    LET all == SlashesStripped(a)
    IN  IF h.link = all THEN Leave("ok", tree)
        ELSE Goto("mkdir_all.make", tree, [h EXCEPT !.link = DownFrom(@, all)])

CreateDirAllMake ==
    LET r == Mkdir(t, Confined, h.link, {"owner", "others"})
    IN  /\ pc \in {"mkdir_all.climb", "mkdir_all.make"}
        /\ IF r.err = "ok" THEN MakeNext(r.t)
           ELSE IF r.err = "NotFound" /\ pc = "mkdir_all.climb"
           THEN Goto("mkdir_all.climb", t, [h EXCEPT !.link = UpFrom(@)])
           ELSE Goto("mkdir_all.taken", t, [h EXCEPT !.err = r.err])

CreateDirAllTaken ==
    /\ pc = "mkdir_all.taken"
    /\ IF IsDirAnswer(Stat(t, Confined, h.link)) THEN MakeNext(t) ELSE Leave(h.err, t)

RemoveDirName ==
    LET e == ExistingDirectoryName(t, a)
    IN  /\ pc = "rmdir"
        /\ IF e = "ok" THEN Goto("rmdir.remove", t, h) ELSE Leave(e, t)

RemoveDirRemove ==
    /\ pc = "rmdir.remove"
    /\ Pass(Rmdir(t, Confined, SlashesStripped(a)))

RemoveDirAllName ==
    LET e == ExistingDirectoryName(t, a)
    IN  /\ pc = "rmtree"
        /\ CASE RefuseTrailingDot(a) \/ RefuseConfinedRoot(a) -> Leave("Unsupported", t)
             [] e # "ok" -> Leave(e, t)
             [] OTHER    -> Goto("rmtree.open", t, h)

(* The recursive removal std and cap-std share: a link is removed itself,  *)
(* a directory is held open and emptied entry by entry, then removed by    *)
(* its name.                                                               *)
RemoveTreeOpen ==
    LET p == SlashesStripped(a)
        l == Named(t, Confined, p)
    IN  /\ pc = "rmtree.open"
        /\ CASE ~Found(l) -> Leave(ErrorOf(l), t)
             [] Kind(t, l.ino) = "link" -> Pass(Unlink(t, Confined, p))
             [] ~IsDir(t, l.ino) -> Leave("NotADirectory", t)
             [] OTHER -> Goto("rmtree.empty", t, [h EXCEPT !.src = l.ino])

RemoveTreeEntry ==
    /\ pc = "rmtree.empty"
    /\ \E d \in {x \in Below(t, h.src) : IsDir(t, x)} : \E n \in DOMAIN Ents(t, d) :
          /\ Children(t, Ents(t, d)[n]) = {}
          /\ Goto("rmtree.empty", Detach(t, d, n), h)

(* A directory below that cannot be read, or a failing disk, stops it.     *)
RemoveTreeFails ==
    /\ pc = "rmtree.empty"
    /\ Scene.fails
    /\ Answers("PermissionDenied", t, {}, TRUE)

RemoveTreeLast ==
    /\ pc = "rmtree.empty"
    /\ Children(t, h.src) = {}
    /\ Pass(Rmdir(t, Confined, SlashesStripped(a)))

(* Variant: the path is canonicalized before it is deleted.                *)
UnlinkTarget ==
    LET l == Look(t, Confined, a, TRUE)
    IN  /\ pc = "unlink"
        /\ IF Found(l) /\ ~IsDir(t, l.ino) /\ l.name # ""
           THEN Leave("ok", Detach(t, l.dir, l.name))
           ELSE Pass(Unlink(t, Confined, a))

UnlinkAt ==
    /\ pc = "unlink"
    /\ Pass(Unlink(t, Confined, a))

-----------------------------------------------------------------------------
(* Renaming and hard-linking.  Beneath the root a symlink that moves to    *)
(* another directory must still lead to something inside: its kind, its    *)
(* contents and what they lead to are three looks, and the move a fourth   *)
(* call.                                                                   *)

MoveNow == IF Confined THEN "stay.kind" ELSE "move"

RenameAt ==
    LET e == RenamedSource(t, a, b)
    IN  /\ pc = "rename"
        /\ IF e = "ok" THEN Goto(MoveNow, t, h) ELSE Leave(e, t)

LinkAt ==
    /\ pc = "link"
    /\ IF NamesDirectory(b) THEN Leave("NotADirectory", t) ELSE Goto(MoveNow, t, h)

StayKind ==
    LET m == Lstat(t, TRUE, a)
    IN  /\ pc = "stay.kind"
        /\ Goto(IF m.err = "ok" /\ Kind(t, m.ino) = "link" THEN "stay.read" ELSE "move", t, h)

StayUnread ==                          \* variant: a moved link is not judged
    /\ pc = "stay.read"
    /\ Goto("move", t, h)

StayRead ==
    LET r == ReadLink(t, TRUE, a)
    IN  /\ pc = "stay.read"
        /\ CASE r.err # "ok" -> Pass(r)
             [] t[r.ino].to.abs \/ Parent(a) = Parent(b) -> Goto("move", t, h)
             [] OTHER -> Goto("stay.aim", t, [h EXCEPT !.link = t[r.ino].to])

StayAim ==
    /\ pc = "stay.aim"
    /\ IF TargetInside(t, b, h.link) = "ok" THEN Goto("move", t, h)
       ELSE Leave("PermissionDenied", t)

Move ==
    /\ pc = "move"
    /\ Pass(IF call.op = "rename" THEN Rename(t, Confined, a, b) ELSE HardLink(t, Confined, a, b))

(* symlink_at: call.b is the contents, stored as given.                    *)
SymlinkCheck ==
    LET refused == RefuseDirectoryName(t, a)
        inside  == TargetInside(t, a, b)
    IN  /\ pc = "symlink"
        /\ CASE b = Nothing -> Leave("NotFound", t)
             [] refused # "ok" -> Leave(refused, t)
             [] Confined /\ inside # "ok" -> Leave(inside, t)
             [] OTHER -> Goto("symlink.make", t, h)

SymlinkMake ==
    /\ pc = "symlink.make"
    /\ Pass(Symlink(t, Confined, b, a))

-----------------------------------------------------------------------------
(* copy_file: from a to b, between open handles.                           *)

CopyMode(m) == m \ {"special"}

CopyFileOpen ==
    LET refused == RefuseDirectoryName(t, b)
        r       == OpenRead(t, Confined, a, TRUE)
    IN  /\ pc = "copy_file"
        /\ CASE refused # "ok"              -> Leave(refused, t)
             [] r.err # "ok"                -> Pass(r)
             [] IsDir(t, r.ino)             -> Leave("IsADirectory", t)
             [] Kind(t, r.ino) # "file"     -> Leave("InvalidInput", t)
             [] OTHER -> Goto("copy_file.make", t,
                              [h EXCEPT !.src = r.ino, !.mode = CopyMode(t[r.ino].mode)])

CopyFileMake ==
    LET r == CreateNew(t, Confined, b, h.mode)
        e == IF Confined /\ r.err = "IsADirectory" THEN "AlreadyExists" ELSE r.err
    IN  /\ pc = "copy_file.make"
        /\ IF e = "ok" THEN Goto("copy_file.data", r.t, [h EXCEPT !.dst = r.ino])
           ELSE Leave(e, t)

Injected == w' = [w EXCEPT !.moved = FALSE, !.injected = TRUE]

CopyFails ==
    /\ Scene.fails
    /\ pc' = "copy_file.same"
    /\ Injected
    /\ UNCHANGED <<host, dir, call, a, b, h, result, calls, moves>>

CopyFileData ==
    /\ pc = "copy_file.data"
    /\ \/ Goto("copy_file.chmod", [t EXCEPT ![h.dst].data = t[h.src].data], h)
       \/ CopyFails /\ t' = [t EXCEPT ![h.dst].data = "part"]

CopyFileMasked ==                      \* variant: the mode is left to the open
    /\ pc = "copy_file.chmod"
    /\ Answers("ok", t, {h.src}, FALSE)

CopyFileChmod ==
    /\ pc = "copy_file.chmod"
    /\ \/ Answers("ok", [t EXCEPT ![h.dst].mode = h.mode], {h.src}, FALSE)
       \/ CopyFails /\ UNCHANGED t

CopyFileByName ==                      \* variant: removed by name alone
    /\ pc = "copy_file.same"
    /\ Goto("copy_file.remove", t, h)

CopyFileLeft ==                        \* variant: the partial copy stays
    /\ pc = "copy_file.same"
    /\ Leave("StorageFull", t)

(* remove_if_same: compare the name with the open file, then remove by name. *)
CopyFileSame ==
    LET m == Lstat(t, Confined, b)
    IN  /\ pc = "copy_file.same"
        /\ IF m.err = "ok" /\ m.ino = h.dst THEN Goto("copy_file.remove", t, h)
           ELSE Leave("StorageFull", t)

CopyFileRemove ==
    LET r == Unlink(t, Confined, b)
    IN  /\ pc = "copy_file.remove"
        /\ Leave("StorageFull", r.t)

-----------------------------------------------------------------------------
(* copy_dir: a directory with the source's permission bits.                *)

CopyDirMode(m) == CopyMode(m) \cup {"owner"}

CopyDirStat ==
    LET m == MetadataAsNamed(t, a)
    IN  /\ pc = "copy_dir"
        /\ CASE m.err # "ok"     -> Pass(m)
             [] ~IsDirAnswer(m)  -> Leave("NotADirectory", t)
             [] OTHER -> Goto("copy_dir.name", t,
                              [h EXCEPT !.mode = CopyDirMode(t[m.ino].mode)])

CopyDirName ==
    LET e == NewDirectoryName(t, b)
    IN  /\ pc = "copy_dir.name"
        /\ IF e = "ok" THEN Goto("copy_dir.make", t, h) ELSE Leave(e, t)

CopyDirMakeOpen ==                     \* variant: mkdir with the default mode
    LET r == Mkdir(t, Confined, SlashesStripped(b), {"owner", "others"})
    IN  /\ pc = "copy_dir.make"
        /\ IF r.err = "ok" THEN Goto("copy_dir.open", r.t, h) ELSE Pass(r)

CopyDirMake ==
    LET r == Mkdir(t, Confined, SlashesStripped(b), {"owner"})
    IN  /\ pc = "copy_dir.make"
        /\ IF r.err = "ok" THEN Goto("copy_dir.open", r.t, h) ELSE Pass(r)

CopyDirFollow ==                       \* variant: the open follows a link
    LET r == OpenDir(t, Confined, SlashesStripped(b), TRUE)
    IN  /\ pc = "copy_dir.open"
        /\ IF r.err = "ok" THEN Goto("copy_dir.chmod", t, [h EXCEPT !.dst = r.ino])
           ELSE Goto("copy_dir.remove", t, [h EXCEPT !.err = r.err])

CopyDirLeft ==                         \* variant: what cannot be opened stays
    LET r == OpenDir(t, Confined, SlashesStripped(b), FALSE)
    IN  /\ pc = "copy_dir.open"
        /\ IF r.err = "ok" THEN Goto("copy_dir.chmod", t, [h EXCEPT !.dst = r.ino])
           ELSE Pass(r)

CopyDirOpenAny ==                      \* variant: without O_DIRECTORY
    LET r == OpenRead(t, Confined, SlashesStripped(b), FALSE)
    IN  /\ pc = "copy_dir.open"
        /\ IF r.err = "ok" THEN Goto("copy_dir.chmod", t, [h EXCEPT !.dst = r.ino])
           ELSE Goto("copy_dir.remove", t, [h EXCEPT !.err = r.err])

CopyDirOpen ==
    LET r == OpenDir(t, Confined, SlashesStripped(b), FALSE)
    IN  /\ pc = "copy_dir.open"
        /\ IF r.err = "ok" THEN Goto("copy_dir.chmod", t, [h EXCEPT !.dst = r.ino])
           ELSE Goto("copy_dir.remove", t, [h EXCEPT !.err = r.err])

CopyDirChmod ==
    /\ pc = "copy_dir.chmod"
    /\ \/ Leave("ok", [t EXCEPT ![h.dst].mode = h.mode])
       \/ /\ Scene.fails
          /\ pc' = "copy_dir.remove"
          /\ h' = [h EXCEPT !.err = "StorageFull"]
          /\ Injected
          /\ UNCHANGED <<host, t, dir, call, a, b, result, calls, moves>>

CopyDirRemove ==
    LET r == Rmdir(t, Confined, SlashesStripped(b))
    IN  /\ pc = "copy_dir.remove"
        /\ Leave(h.err, r.t)

-----------------------------------------------------------------------------
(* Other programs: they exchange two names of a directory, or put a file   *)
(* of their own in the place of one.                                       *)

Moved ==
    /\ moves < Scene.moves
    /\ moves' = moves + 1
    /\ w' = [w EXCEPT !.moved = TRUE, !.quiet = FALSE]
    /\ UNCHANGED <<host, dir, pc, call, a, b, h, result, calls>>

Exchange ==
    /\ Moved
    /\ \E d \in {x \in Scene.dirs : IsDir(t, x)} : \E m, n \in DOMAIN Ents(t, d) :
          /\ m # n
          /\ t' = Attach(Attach(t, d, m, Ents(t, d)[n]), d, n, Ents(t, d)[m])

Replace ==
    /\ Moved
    /\ FreeInos(t) # {}
    /\ \E d \in {x \in Scene.dirs : IsDir(t, x)} : \E n \in DOMAIN Ents(t, d) :
          /\ Kind(t, Ents(t, d)[n]) = "file"
          /\ t' = Reap(Create(t, d, n, FileNode("theirs", {"owner"})), Open(h))

-----------------------------------------------------------------------------
Init ==
    /\ host \in Hosts
    /\ t \in Scene.trees
    /\ dir = [comps |-> RootPath, ino |-> IF Confined THEN Root ELSE Top]
    /\ pc = "idle"
    /\ call = [op |-> "none", a |-> Nothing, b |-> Nothing]
    /\ a = Nothing /\ b = Nothing
    /\ h = NoHandles
    /\ result = [op |-> "none", err |-> "ok", saw |-> {}]
    /\ calls = 0 /\ moves = 0
    /\ w = History(t)

Body ==
    \/ ReadFileAt \/ StatAt \/ ReadDirAt \/ ReadlinkAt
    \/ WriteOpen \/ WriteData
    \/ OpenReadAt \/ OpenWriteAt \/ AppendData \/ OpenDirAt
    \/ CreateDirName \/ CreateDirMake
    \/ CreateDirAllThere \/ CreateDirAllName \/ CreateDirAllMake \/ CreateDirAllTaken
    \/ RemoveDirName \/ RemoveDirRemove
    \/ RemoveDirAllName \/ RemoveTreeOpen \/ RemoveTreeEntry \/ RemoveTreeFails \/ RemoveTreeLast
    \/ UnlinkAt
    \/ RenameAt \/ LinkAt \/ StayKind \/ StayRead \/ StayAim \/ Move
    \/ SymlinkCheck \/ SymlinkMake
    \/ CopyFileOpen \/ CopyFileMake \/ CopyFileData \/ CopyFileChmod
    \/ CopyFileSame \/ CopyFileRemove
    \/ CopyDirStat \/ CopyDirName \/ CopyDirMake \/ CopyDirOpen
    \/ CopyDirChmod \/ CopyDirRemove

(* Between the steps of a call, and between two calls.                     *)
Others == (pc # "idle" \/ calls \in 1..(Scene.max - 1)) /\ (Exchange \/ Replace)

Next == (\E c \in Scene.calls : Start(c)) \/ Body \/ Others

Spec == Init /\ [][Next]_vars
=============================================================================
