------------------------------- MODULE MCAgree -------------------------------
(***************************************************************************)
(* Spellings of names inside the root: a file, a directory, links to each, *)
(* a dangling link, a missing name; bare, with "/" and with "/.", and      *)
(* through "..".  Removing the root itself is left out: only the confined  *)
(* host refuses it (lib.rs:815-819).                                       *)
(***************************************************************************)
EXTENDS BackendsAgree

Spelled(c) == {Path(TRUE, <<"root">> \o c, s) : s \in {"", "/", "/."}}
Names      == UNION {Spelled(c) : c \in
                {<<"f">>, <<"d">>, <<"lf">>, <<"ld">>, <<"gone">>, <<"n">>, <<"d", "x">>}}
Dotted     == {Path(TRUE, <<"root">> \o c, "") : c \in {<<"d", "..">>, <<"n", "..">>}}
Roots      == Spelled(<<>>)
One(op, ps)     == {[op |-> op, a |-> p, b |-> Path(FALSE, <<>>, "")] : p \in ps}
Two(op, ps, qs) == {[op |-> op, a |-> p, b |-> q] : p \in ps, q \in qs}
Few == UNION {Spelled(c) : c \in {<<"f">>, <<"d">>, <<"n">>, <<"lf">>}}

AgreeCalls ==
    UNION {One(op, Names \cup Dotted \cup Roots) :
             op \in {"lstat", "stat", "list", "write", "open", "open_write", "append", "open_cut",
                     "open_dir"}}
    \cup UNION {One(op, Names \cup Dotted) : op \in {"rmtree", "read"}}
    \cup UNION {One(op, Names) : op \in {"unlink", "rmdir", "mkdir", "readlink", "mkdir_all",
                                         "open_new", "open_nofollow", "open_dir_nofollow"}}
    \cup Two("rename", Few, Few)
    \cup Two("link", Few, Few)
    \cup Two("copy_file", Few, Few \cup Dotted \cup Roots)
    \cup Two("copy_dir", Few, Few)
    \cup Two("symlink", Few \cup Dotted,
             {Path(FALSE, c, "") : c \in {<<>>, <<"f">>, <<"d">>}})

(* For sequences of two calls: those that change the tree, then any.       *)
(* Symlinks are left out: beneath the root one must lead somewhere, which  *)
(* after a removal it may not, and that difference is meant (Fs.roc:130).  *)
Bare(c) == {Path(TRUE, <<"root">> \o c, "")}
Slashed == UNION {{Path(TRUE, <<"root">> \o c, s) : s \in {"", "/"}} : c \in {<<"d">>, <<"ld">>, <<"n">>}}
SequenceCalls ==
    UNION {One(op, Slashed) : op \in {"lstat", "rmtree", "rmdir", "unlink", "mkdir", "mkdir_all"}}
    \cup One("write", Bare(<<"f">>) \cup Bare(<<"gone">>) \cup Bare(<<"d", "x">>))
    \cup Two("rename", Slashed, Slashed \cup Bare(<<"f">>))
    \cup Two("link", Bare(<<"ld">>) \cup Bare(<<"f">>), Bare(<<"n">>))
    \cup Two("copy_file", Bare(<<"f">>) \cup Bare(<<"gone">>), Slashed)
    \cup Two("copy_dir", Slashed, Slashed)

AllCalls == AgreeCalls \cup SequenceCalls

AgreeTree ==
    [i \in Ino |->
       CASE i = 0 -> DirNode([root |-> 1], {"owner"})
         [] i = 1 -> DirNode([f |-> 2, d |-> 3, lf |-> 5, ld |-> 6, gone |-> 7], {"owner"})
         [] i = 2 -> FileNode("old", {"owner", "others"})
         [] i = 3 -> DirNode([x |-> 4], {"owner"})
         [] i = 4 -> DirNode(<<>>, {"owner", "others"})
         [] i = 5 -> LinkNode(Rel(<<"f">>))
         [] i = 6 -> LinkNode(Rel(<<"d">>))
         [] i = 7 -> LinkNode(Rel(<<"m">>))
         [] OTHER -> Free]
AgreeTrees == {AgreeTree}
RootBase == <<"root">>
Ten == 0..10
=============================================================================
