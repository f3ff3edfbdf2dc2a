--------------------------- MODULE BackendsAgree ---------------------------
(***************************************************************************)
(* fs-confined and fs-unconfined are one implementation over two backends  *)
(* that answer some spellings differently.  Here both hosts make the same  *)
(* calls on a tree of their own, the confined one first, and the answers   *)
(* and the trees are compared when both are done.                          *)
(***************************************************************************)
EXTENDS Tree

CONSTANTS NoIno, Mask, Base, Calls, MaxCalls, Trees,
          Sequence       \* the calls that are made one after another

VARIABLES ct, cdir, cpc, ccall, ca, cb, ch, cresult, ccalls, cmoves, cw,
          ut, udir, upc, ucall, ua, ub, uh, uresult, ucalls, umoves, uw

cvars == <<ct, cdir, cpc, ccall, ca, cb, ch, cresult, ccalls, cmoves, cw>>
uvars == <<ut, udir, upc, ucall, ua, ub, uh, uresult, ucalls, umoves, uw>>

Host(c) == [confined |-> c, umask |-> Mask, scene |-> "alone"]
Alone == [alone |-> [trees |-> Trees, calls |-> Calls, max |-> MaxCalls,
                     dirs |-> {}, moves |-> 0, fails |-> FALSE]]

C == INSTANCE FsCalls WITH
       Hosts <- {Host(TRUE)}, host <- Host(TRUE), Scenes <- Alone,
       t <- ct, dir <- cdir, pc <- cpc, call <- ccall, a <- ca, b <- cb, h <- ch,
       result <- cresult, calls <- ccalls, moves <- cmoves, w <- cw

U == INSTANCE FsCalls WITH
       Hosts <- {Host(FALSE)}, host <- Host(FALSE), Scenes <- Alone,
       t <- ut, dir <- udir, pc <- upc, call <- ucall, a <- ua, b <- ub, h <- uh,
       result <- uresult, calls <- ucalls, moves <- umoves, w <- uw

Init == C!Init /\ U!Init /\ ct = ut

Begin ==
    \/ ccalls = 0 /\ \E c \in Calls : C!Start(c) /\ U!Start(c)
    \/ ccalls > 0 /\ cpc = "idle" /\ ccall \in Sequence
         /\ \E c \in Sequence : C!Start(c) /\ U!Start(c)
RunConfined   == C!Body /\ UNCHANGED uvars
RunUnconfined == cpc = "idle" /\ U!Body /\ UNCHANGED cvars

Next == Begin \/ RunConfined \/ RunUnconfined

Spec == Init /\ [][Next]_<<cvars, uvars>>

(* Whatever the call and however its paths are spelled, the two hosts      *)
(* answer the same and leave the same tree (copy.rs:1-4, lib.rs:201-204,   *)
(* 409-410, 525-528, 619-622, 832-844).                                    *)
Agree ==
    (cpc = "idle" /\ upc = "idle") =>
        ct = ut /\ cresult.err = uresult.err /\ cresult.saw = uresult.saw
=============================================================================
