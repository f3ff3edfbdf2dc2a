-------------------------------- MODULE MCFs --------------------------------
(***************************************************************************)
(* Three scenes.  race: one call of either host while other programs swap  *)
(* names under it; `sub' is a directory of the root and `alt' a link that  *)
(* leads out of it, as in tests/confined-race, to a directory with a file  *)
(* and a directory of the names the calls use.  links: the confined host   *)
(* making, moving, hard-linking and deleting symlinks in and between two   *)
(* levels of directories, undisturbed.  descriptors: directories are       *)
(* opened, through links and "..", and paths given against them, while     *)
(* another program swaps names.                                            *)
(***************************************************************************)
EXTENDS FsProps

All == {"owner", "others", "special"}
In(c)  == Abs(<<"root">> \o c)
OneOf(op, ps) == {[op |-> op, a |-> p, b |-> Nothing] : p \in ps}
TwoOf(op, ps, qs) == {[op |-> op, a |-> p, b |-> q] : p \in ps, q \in qs}
One(op, p) == [op |-> op, a |-> In(p), b |-> Nothing]
Two(op, p, q) == [op |-> op, a |-> In(p), b |-> In(q)]

RaceTree(out) ==
    [i \in Ino |->
       CASE i = 0 -> DirNode([root |-> 1, out |-> 2, alias |-> 9], {"owner"})
         [] i = 1 -> DirNode([sub |-> 4, alt |-> 6, g |-> 7, priv |-> 8], {"owner"})
         [] i = 2 -> DirNode([f |-> 3, m |-> 10], {"owner", "others"})
         [] i = 3 -> FileNode("secret", All)
         [] i = 4 -> DirNode([f |-> 5], {"others", "owner"})
         [] i = 5 -> FileNode("old", All)
         [] i = 6 -> LinkNode(out)
         [] i = 7 -> FileNode("old", {"owner"})
         [] i = 8 -> DirNode(<<>>, {"owner"})
         [] i = 9 -> LinkNode(Abs(<<"root">>))
         [] i = 10 -> DirNode(<<>>, {"owner"})
         [] OTHER -> Free]

Race ==
    [trees |-> {RaceTree(Abs(<<"out">>)), RaceTree(Rel(<<"..", "out">>))},
     calls |->
       {One(op, <<"sub", "f">>) : op \in {"read", "stat", "lstat", "write", "unlink", "readlink",
                                          "open", "open_write", "open_cut", "append"}}
       \cup {One(op, <<"sub", "n">>) : op \in {"open_new", "open_append", "append", "mkdir", "mkdir_all"}}
       \cup {One(op, <<"sub">>) : op \in {"rmdir", "rmtree", "list"}}
       \cup {One("open_nofollow", <<"alt">>)}
       \cup {Two("copy_file", <<"sub", "f">>, <<"sub", "n">>),
             Two("copy_file", <<"g">>, <<"sub", "f">>),
             Two("copy_dir", <<"sub">>, <<"sub", "m">>), Two("copy_dir", <<"priv">>, <<"n">>),
             [op |-> "copy_dir", a |-> In(<<"sub">>), b |-> Path(TRUE, <<"root", "n">>, "/")],
             Two("rename", <<"g">>, <<"sub", "n">>), Two("rename", <<"sub">>, <<"n">>),
             Two("link", <<"sub", "f">>, <<"n">>),
             [op |-> "symlink", a |-> In(<<"sub", "n">>), b |-> Rel(<<"f">>)]}
       \cup OneOf("read", {Abs(<<"alias", "sub", "f">>), Abs(<<"out", "f">>)}),
     max |-> 1, dirs |-> {1, 4}, moves |-> 2, fails |-> TRUE]

-----------------------------------------------------------------------------
Places == {In(<<"l">>), In(<<"x", "l">>), In(<<"x", "y", "l">>)}

LinkTree ==
    [i \in Ino |->
       CASE i = 0 -> DirNode([root |-> 1, out |-> 2], {"owner"})
         [] i = 1 -> DirNode([x |-> 3, f |-> 5], {"owner"})
         [] i = 2 -> DirNode([f |-> 6], {"owner"})
         [] i = 3 -> DirNode([y |-> 4], {"owner"})
         [] i = 4 -> DirNode(<<>>, {"owner"})
         [] i = 5 -> FileNode("old", {"owner"})
         [] i = 6 -> FileNode("secret", {"owner"})
         [] OTHER -> Free]

Links ==
    [trees |-> {LinkTree},
     calls |->
       TwoOf("symlink", Places, {Rel(<<"f">>), Rel(<<"..", "f">>), Rel(<<"..", "..", "f">>),
                                 Rel(<<"y">>), Rel(<<"..", "l">>), Abs(<<"root", "f">>)})
       \cup TwoOf("rename", Places, Places)
       \cup TwoOf("link", Places, Places)
       \cup OneOf("unlink", Places \cup {Rel(<<"x", "l">>)})
       \cup OneOf("readlink", Places \cup {Rel(<<"x", "l">>)})
       \cup OneOf("rmtree", {In(<<"x", "l">>), Path(TRUE, <<"root", "x">>, "/."),
                             Path(TRUE, <<"root">>, "/")})
       \cup OneOf("rmdir", {In(<<"x", "y">>)})
       \cup OneOf("read", {Nothing}),
     max |-> 3, dirs |-> {}, moves |-> 0, fails |-> FALSE]

-----------------------------------------------------------------------------
(* sub holds a file, a directory d, and a link `up' to its parent's g;     *)
(* `alt' is a second name of sub, by a link, and `leave' leads out.        *)
DirTree ==
    [i \in Ino |->
       CASE i = 0 -> DirNode([root |-> 1, out |-> 2, alias |-> 9], {"owner"})
         [] i = 1 -> DirNode([sub |-> 4, alt |-> 6, leave |-> 8, g |-> 7], {"owner"})
         [] i = 2 -> DirNode([f |-> 3], {"owner"})
         [] i = 3 -> FileNode("secret", {"owner"})
         [] i = 4 -> DirNode([f |-> 5, up |-> 10], {"owner"})
         [] i = 5 -> FileNode("old", {"owner"})
         [] i = 6 -> LinkNode(Rel(<<"sub">>))
         [] i = 7 -> FileNode("old", {"owner"})
         [] i = 8 -> LinkNode(Rel(<<"..", "out">>))
         [] i = 9 -> LinkNode(Abs(<<"root">>))
         [] i = 10 -> LinkNode(Rel(<<"..", "g">>))
         [] OTHER -> Free]

Descriptors ==
    [trees |-> {DirTree},
     calls |->
       OneOf("open_dir", {In(<<"alt">>), Abs(<<"alias", "alt">>), Rel(<<"..">>), Rel(<<"sub">>),
                          Rel(<<"leave">>)})
       \cup OneOf("open_dir_nofollow", {In(<<"sub">>), In(<<"alt">>), Path(TRUE, <<"root", "alt">>, "/")})
       \cup OneOf("read", {Rel(<<"f">>), Rel(<<"up">>), Rel(<<"..", "g">>), Rel(<<"..", "out", "f">>)})
       \cup OneOf("stat", {Rel(<<"..">>), Rel(<<"sub", "f">>), Rel(<<"leave", "f">>)})
       \cup OneOf("open", {Rel(<<"f">>)})
       \cup OneOf("write", {Rel(<<"f">>), Rel(<<"..", "f">>)})
       \cup TwoOf("rename", {In(<<"sub">>), Rel(<<"f">>)}, {Rel(<<"n">>)}),
     max |-> 3, dirs |-> {0, 1}, moves |-> 1, fails |-> FALSE]

-----------------------------------------------------------------------------
AllScenes == [race |-> Race, links |-> Links, descriptors |-> Descriptors]

(* A umask that takes nothing, one that takes every bit, and the usual one. *)
RaceHosts == [confined : BOOLEAN, umask : {{}, {"owner", "others"}}, scene : {"race"}]
LinkHosts == [confined : {TRUE}, umask : {{"others"}}, scene : {"links"}]
DirHosts  == [confined : BOOLEAN, umask : {{"others"}}, scene : {"descriptors"}]
AllHosts  == RaceHosts \cup LinkHosts \cup DirHosts
ConfinedRaceHosts == {o \in RaceHosts : o.confined /\ o.umask = {}}
RootBase == <<"root">>
PlainRaceHosts == {o \in RaceHosts : o.umask = {}}
Thirteen == 0..12
=============================================================================
