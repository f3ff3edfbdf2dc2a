------------------------------ MODULE SysCalls ------------------------------
(***************************************************************************)
(* The filesystem calls components/fs-core makes on its two backends: the  *)
(* kernel through std::fs (bn = FALSE) and cap-std beneath the root handle *)
(* (bn = TRUE).  External code, modelled from its use; where the comments  *)
(* of fs-core record that the backends answer differently, the difference  *)
(* is here, so that what the host does about it can be checked.            *)
(*                                                                         *)
(* A call answers [err, t, ino]: "ok" or the std::io::ErrorKind, the tree  *)
(* after it, and the node it opened or found.                              *)
(***************************************************************************)
EXTENDS Tree

CONSTANT NoIno      \* not an inode
ASSUME NoInoAssumption == NoIno \notin Ino

VARIABLE host       \* the running host: [confined, umask, scene], a umask being
                    \* a set of Bits and a scene what happens to it in a run

Umask == host.umask

Ans(e, t, i) == [err |-> e, t |-> t, ino |-> i]
Fail(e, t)   == Ans(e, t, NoIno)
NoTail(p)    == [p EXCEPT !.tail = ""]

(* The entry a name stands for, not following a last link.                 *)
Named(t, bn, p) == Look(t, bn, NoTail(p), FALSE)

Answer(t, w) == IF Found(w) THEN Ans("ok", t, w.ino) ELSE Fail(ErrorOf(w), t)

Stat(t, bn, p) == Answer(t, Look(t, bn, p, TRUE))

(* lstat follows a link named with a trailing slash; cap-std's             *)
(* symlink_metadata refuses it.                                            *)
Lstat(t, bn, p) ==
    LET w == Named(t, bn, p)
    IN  IF bn /\ p.tail # "" /\ Found(w) /\ Kind(t, w.ino) = "link"
        THEN Fail("NotADirectory", t)
        ELSE Answer(t, Look(t, bn, p, FALSE))

ReadLink(t, bn, p) ==
    LET r == Answer(t, Look(t, bn, p, FALSE))
    IN  IF r.err = "ok" /\ Kind(t, r.ino) # "link" THEN Fail("InvalidInput", t) ELSE r

(* Opening for reading; a directory opens, and its node says what it is.   *)
OpenRead(t, bn, p, follow) ==
    LET r == Answer(t, Look(t, bn, p, follow))
    IN  CASE r.err # "ok" -> r
          [] Kind(t, r.ino) = "link" -> Fail("FilesystemLoop", t)
          [] Kind(t, r.ino) \in {"dir", "file"} /\ "owner" \notin t[r.ino].mode ->
               Fail("PermissionDenied", t)
          [] OTHER -> r

(* O_DIRECTORY is looked at before O_NOFOLLOW: a link is not a directory.  *)
OpenDir(t, bn, p, follow) ==
    LET r == OpenRead(t, bn, p, follow)
    IN  IF r.err = "FilesystemLoop" \/ (r.err = "ok" /\ ~IsDir(t, r.ino))
        THEN Fail("NotADirectory", t) ELSE r

MakeAt(t, w, node) ==
    IF FreeInos(t) = {} THEN Fail("StorageFull", t)
    ELSE Ans("ok", Create(t, w.dir, w.name, node), Fresh(t))

EndsInDotDot(p) == p.comps # <<>> /\ Last(p.comps) = ".."

(* O_CREAT|O_EXCL: never follows, never replaces.                          *)
CreateNew(t, bn, p, mode) ==
    LET w == Named(t, bn, p)
    IN  CASE p.tail # "" -> Fail(IF bn THEN "InvalidInput" ELSE "NotFound", t)
          [] bn /\ EndsInDotDot(p) -> Fail("NotFound", t)
          [] Found(w) -> Fail(IF bn /\ w.ino = Root THEN "IsADirectory"
                              ELSE "AlreadyExists", t)
          [] w.is = "absent" /\ p.tail = "" -> MakeAt(t, w, FileNode("empty", mode \ Umask))
          [] OTHER -> Fail(w.is, t)

(* O_WRONLY with flags out of create, truncate and excl.  It follows, so a *)
(* dangling link's target is made; a name ending in ".." is a directory on *)
(* both backends (tests/path-spellings, open-create).                      *)
OpenWrite(t, bn, p, flags) ==
    LET creates == "create" \in flags
        mode    == {"owner", "others"}
        w       == Look(t, bn, IF creates THEN NoTail(p) ELSE p, TRUE)
        file    == Kind(t, w.ino) = "file"
    IN  CASE "excl" \in flags -> CreateNew(t, bn, p, mode)
          [] creates /\ p.tail # "" -> Fail(IF bn THEN "InvalidInput" ELSE "NotFound", t)
          [] Found(w) /\ IsDir(t, w.ino) -> Fail("IsADirectory", t)
          [] Found(w) /\ file /\ "owner" \notin t[w.ino].mode -> Fail("PermissionDenied", t)
          [] Found(w) /\ ~IsDir(t, w.ino) ->
               Ans("ok", IF file /\ "truncate" \in flags
                         THEN [t EXCEPT ![w.ino].data = "empty"] ELSE t, w.ino)
          [] w.is = "absent" /\ creates -> MakeAt(t, w, FileNode("empty", mode \ Umask))
          [] OTHER -> Fail(ErrorOf(w), t)

Mkdir(t, bn, p, mode) ==
    LET w == Named(t, bn, p)
    IN  CASE Found(w) -> Fail("AlreadyExists", t)
          [] w.is = "absent" /\ p.tail = "/." -> Fail("NotFound", t)
          [] w.is = "absent" /\ p.tail # "/." -> MakeAt(t, w, DirNode(<<>>, mode \ Umask))
          [] OTHER -> Fail(w.is, t)

Symlink(t, bn, contents, p) ==
    LET w == Named(t, bn, p)
    IN  CASE bn /\ EndsInDotDot(p) -> Fail("NotFound", t)
          [] Found(w) -> Fail("AlreadyExists", t)
          [] w.is = "absent" -> MakeAt(t, w, LinkNode(contents))
          [] OTHER -> Fail(w.is, t)

Unlink(t, bn, p) ==
    LET w == Named(t, bn, p)
    IN  CASE ~Found(w) -> Fail(ErrorOf(w), t)
          [] IsDir(t, w.ino) -> Fail("IsADirectory", t)
          [] p.tail # "" -> Fail("NotADirectory", t)
          [] OTHER -> Ans("ok", Detach(t, w.dir, w.name), w.ino)

(* rmdir; cap-std refuses a name with a trailing slash (EINVAL).           *)
Rmdir(t, bn, p) ==
    LET w == Named(t, bn, p)
    IN  CASE bn /\ p.tail = "/" -> Fail("InvalidInput", t)
          [] ~Found(w) -> Fail(ErrorOf(w), t)
          [] ~IsDir(t, w.ino) -> Fail("NotADirectory", t)
          [] w.name = "" \/ p.tail = "/." -> Fail("InvalidInput", t)
          [] Ents(t, w.ino) # <<>> -> Fail("DirectoryNotEmpty", t)
          [] OTHER -> Ans("ok", Detach(t, w.dir, w.name), w.ino)

HardLink(t, bn, a, b) ==
    LET s == Named(t, bn, a)
        d == Named(t, bn, b)
    IN  CASE ~Found(s) -> Fail(ErrorOf(s), t)
          [] a.tail # "" /\ ~IsDir(t, s.ino) -> Fail("NotADirectory", t)
          [] Found(d) -> Fail("AlreadyExists", t)
          [] d.is # "absent" -> Fail(d.is, t)
          [] IsDir(t, s.ino) -> Fail("PermissionDenied", t)
          [] OTHER -> Ans("ok", Attach(t, d.dir, d.name, s.ino), s.ino)

(* rename(2).  cap-std drops the trailing slash of the new name of what is *)
(* not a directory, where the kernel refuses it.                           *)
Rename(t, bn, a, b) ==
    LET s  == Named(t, bn, a)
        d  == Named(t, bn, b)
        sd == IsDir(t, s.ino)
    IN  CASE ~Found(s) -> Fail(ErrorOf(s), t)
          [] ~Found(d) /\ d.is # "absent" -> Fail(d.is, t)
          [] s.name = "" \/ d.name = "" -> Fail("ResourceBusy", t)
          [] ~sd /\ (a.tail # "" \/ (~bn /\ b.tail # "")) -> Fail("NotADirectory", t)
          [] a.tail = "/." \/ b.tail = "/." -> Fail("ResourceBusy", t)
          [] Found(d) /\ d.ino = s.ino -> Ans("ok", t, s.ino)
          [] sd /\ d.dir \in Below(t, s.ino) -> Fail("InvalidInput", t)
          [] Found(d) /\ sd /\ ~IsDir(t, d.ino) -> Fail("NotADirectory", t)
          [] Found(d) /\ IsDir(t, d.ino) /\ ~sd -> Fail("IsADirectory", t)
          [] Found(d) /\ sd /\ Ents(t, d.ino) # <<>> -> Fail("DirectoryNotEmpty", t)
          [] OTHER -> Ans("ok", Attach(Detach(t, s.dir, s.name), d.dir, d.name, s.ino), s.ino)
=============================================================================
