----------------------------- MODULE WorkingDir -----------------------------
(***************************************************************************)
(* Where a path of an app leads: the userland working directory (FsOps.roc *)
(* over cwd-host's one slot), the process's, and the root that the confined*)
(* host finds and opens at the first call that needs it and then keeps     *)
(* (fs-core lib.rs, Root and Confinement), while other programs rename,    *)
(* remove and remake the directories those paths name.                     *)
(*                                                                         *)
(* A path is [abs, comps]; the empty relative path is the empty path.  A   *)
(* name is bytes; what text it decodes to is Lossy's, which leaves a name  *)
(* that is UTF-8 as it is.                                                 *)
(***************************************************************************)
EXTENDS Naturals, Sequences, SequencesExt

CONSTANTS Hosts,     \* the hosts to check, of the two: whether each is confined
          Dir,       \* directories
          Top,       \* "/"
          Home,      \* the directory the process was started in
          Name, Depth,
          Lossy,     \* the name that each name is after a lossy decoding
          Starts,    \* the entries of each directory, one such tree for each start
          Locked0,   \* the directories nobody may open then
          Paths,     \* the paths the app uses
          MaxCalls, MaxMoves

Place == UNION {[1..n -> Name] : n \in 0..Depth}
PathOf(a, c) == [abs |-> a, comps |-> c]
Empty == PathOf(FALSE, <<>>)

ASSUME WorkingDirAssumption ==
    /\ Hosts \subseteq BOOLEAN
    /\ {Top, Home} \subseteq Dir
    /\ Lossy \in [Name -> Name]
    /\ \A n \in Name : Lossy[Lossy[n]] = Lossy[n]
    /\ Starts \subseteq [Dir -> UNION {[S -> Dir] : S \in SUBSET Name}]
    /\ Paths \subseteq [abs : BOOLEAN, comps : Place]
    /\ {MaxCalls, MaxMoves, Depth} \subseteq Nat

VARIABLES confined,       \* the host of this run
          ents, locked,   \* the world: entries of directories, unreadable ones
          memo,           \* Confinement.opened: unset, failed or opened
          slot,           \* cwd-host's SLOT: Empty, or a path
          pc, call, cand, \* the running call, and its path as resolved
          based,          \* the path find_base answered
          result, calls, moves,
          acted, told,    \* history: where calls acted, what was told of no root
          lost, set, still \* and what the cwd was, for the properties

world == <<confined, ents, locked>>
past  == <<acted, told, lost, set, still>>
vars == <<world, memo, slot, pc, call, cand, based, result, calls, moves, past>>

Unset     == [is |-> "unset"]
Failed(e) == [is |-> "failed", err |-> e]
Opened(b, d) == [is |-> "opened", base |-> b, dir |-> d]

-----------------------------------------------------------------------------
(* Where comps lead from directory d: one directory, or none.              *)
At(d, comps) ==
    LET step(S, n) == {ents[x][n] : x \in {y \in S : n \in DOMAIN ents[y]}}
        walk[i \in 0..Len(comps)] == IF i = 0 THEN {d} ELSE step(walk[i - 1], comps[i])
    IN  walk[Len(comps)]

(* getcwd: the path of the directory the process is in, while it has one.  *)
CwdPaths == {c \in Place : Home \in At(Top, c)}

(* FsOps.resolve!: against the slot if it is set, else the process's.      *)
ResolveAtProcess(p) ==                 \* variant: the slot is not read
    IF p.abs \/ p = Empty THEN {p} ELSE {PathOf(TRUE, c \o p.comps) : c \in CwdPaths}
ResolveAtTop(p) ==                     \* variant: no cwd reads as ""
    IF p.abs \/ p = Empty THEN {p}
    ELSE IF slot # Empty THEN {PathOf(TRUE, slot.comps \o p.comps)}
    ELSE {PathOf(TRUE, c \o p.comps) : c \in IF CwdPaths = {} THEN {<<>>} ELSE CwdPaths}
ResolvedPaths(p) ==
    IF p.abs \/ p = Empty THEN {p}
    ELSE IF slot # Empty THEN {PathOf(TRUE, slot.comps \o p.comps)}
    ELSE IF CwdPaths = {} THEN {Empty}
    ELSE {PathOf(TRUE, c \o p.comps) : c \in CwdPaths}

-----------------------------------------------------------------------------
(* A call: Use(path) stands for every operation that acts on a path, and   *)
(* Set(path) is set_cwd!.                                                  *)

Answer(e, at) ==
    /\ pc' = "idle"
    /\ result' = [call |-> call, err |-> e, at |-> at]

Start(op, p) ==
    /\ pc = "idle"
    /\ calls < MaxCalls
    /\ calls' = calls + 1
    /\ call' = [op |-> op, path |-> p]
    /\ pc' = "resolve"
    /\ lost' = (CwdPaths = {} /\ slot = Empty)
    /\ UNCHANGED <<world, memo, slot, cand, based, result, moves, acted, told, set, still>>

(* set_cwd! takes text, and resolves it to text: a name that is not UTF-8  *)
(* is refused when it is given, and decoded when it is the process's own.  *)
Decoded(p)     == [p EXCEPT !.comps = [i \in DOMAIN p.comps |-> Lossy[p.comps[i]]]]
Candidates     == IF call.op = "set" THEN {Decoded(p) : p \in ResolvedPaths(call.path)}
                  ELSE ResolvedPaths(call.path)

Refused(e) == Answer(e, {}) /\ UNCHANGED <<slot, acted, set, still>>

RefuseBytes ==
    /\ pc = "resolve"
    /\ call.op = "set" /\ Decoded(call.path) # call.path
    /\ Refused("Other")
    /\ UNCHANGED <<world, memo, call, cand, based, calls, moves, told, lost>>

(* The first call that needs the confined root finds it.                   *)
Resolve ==
    /\ pc = "resolve"
    /\ call.op = "set" => Decoded(call.path) = call.path
    /\ cand' \in Candidates
    /\ pc' = IF confined /\ memo = Unset THEN "find" ELSE "act"
    /\ UNCHANGED <<world, memo, slot, call, based, result, calls, moves, past>>

(* Variant: a root that could not be established is looked for again.      *)
KeepRetry(e) == Unset
KeepFailure(e) == Failed(e)

NoRoot(e) ==
    /\ memo' = KeepFailure(e)
    /\ Answer(e, {})
    /\ told' = {e}

FindBase ==
    /\ pc = "find"
    /\ IF CwdPaths = {} THEN NoRoot("NotFound") /\ UNCHANGED based
       ELSE /\ based' \in CwdPaths
            /\ pc' = "open"
            /\ UNCHANGED <<memo, result, told>>
    /\ UNCHANGED <<world, slot, call, cand, calls, moves, acted, lost, set, still>>

OpenRoot ==
    /\ pc = "open"
    /\ \/ At(Top, based) = {} /\ NoRoot("NotFound")
       \/ At(Top, based) \cap locked # {} /\ NoRoot("PermissionDenied")
       \/ \E d \in At(Top, based) \ locked :
             /\ memo' = Opened(based, d)
             /\ pc' = "act"
             /\ UNCHANGED <<result, told>>
    /\ UNCHANGED <<world, slot, call, cand, based, calls, moves, acted, lost, set, still>>

(* relative_to_root: the path below the root, if it is spelled below it.   *)
Beneath(c) == IF IsPrefix(memo.base, c) THEN {SubSeq(c, Len(memo.base) + 1, Len(c))} ELSE {}

(* set_cwd! stores the path it resolved.                                   *)
StoredSlot  == cand

(* The root acts by its handle; the variant opens its path anew each time.  *)
RootByName == At(Top, memo.base)
RootUsed   == {memo.dir}

Reached(from, c) ==
    /\ acted' = acted \cup {from}
    /\ IF call.op = "set" /\ At(from, c) # {}
       THEN slot' = StoredSlot /\ set' = At(from, c) /\ still' = TRUE
       ELSE UNCHANGED <<slot, set, still>>
    /\ Answer(IF At(from, c) = {} THEN "NotFound" ELSE "ok", At(from, c))

Act ==
    /\ pc = "act"
    /\ \/ memo.is = "failed" /\ Refused(memo.err)
       \/ memo.is # "failed" /\ cand = Empty /\ Refused("NotFound")
       \/ memo.is = "unset" /\ cand # Empty /\ Reached(Top, cand.comps)
       \/ /\ memo.is = "opened" /\ cand # Empty
          /\ \/ \E d \in RootUsed : \E c \in Beneath(cand.comps) : Reached(d, c)
             \/ /\ Beneath(cand.comps) = {}
                /\ Refused(IF At(Top, memo.base) = {} THEN "NotFound" ELSE "PermissionDenied")
    /\ UNCHANGED <<world, memo, call, cand, based, calls, moves, told, lost>>

-----------------------------------------------------------------------------
(* Other programs: a directory beside the process's is renamed, removed    *)
(* (with all below it), made, or made unreadable or readable; locked means *)
(* that it may be searched and not opened.                                 *)

Moved ==
    /\ moves < MaxMoves
    /\ moves' = moves + 1
    /\ still' = FALSE
    /\ UNCHANGED <<confined, memo, slot, pc, call, cand, based, result, calls,
                  acted, told, lost, set>>

TopWith(f) == ents' = [ents EXCEPT ![Top] = f]
Without(n) == [m \in DOMAIN ents[Top] \ {n} |-> ents[Top][m]]
New == {d \in Dir \ {Top, Home} :
          ents[d] = <<>> /\ \A e \in Dir : \A n \in DOMAIN ents[e] : ents[e][n] # d}

RenameDir ==
    /\ Moved
    /\ \E m \in DOMAIN ents[Top] : \E n \in Name \ DOMAIN ents[Top] :
          TopWith([x \in (DOMAIN ents[Top] \ {m}) \cup {n} |->
                      IF x = n THEN ents[Top][m] ELSE ents[Top][x]])
    /\ UNCHANGED locked
RemoveDir ==
    /\ Moved
    /\ \E n \in DOMAIN ents[Top] : TopWith(Without(n))
    /\ UNCHANGED locked
MakeDir ==
    /\ Moved
    /\ \E n \in Name \ DOMAIN ents[Top] : \E d \in New :
          TopWith([x \in DOMAIN ents[Top] \cup {n} |-> IF x = n THEN d ELSE ents[Top][x]])
    /\ UNCHANGED locked
Chmod ==
    /\ Moved
    /\ locked' = IF Home \in locked THEN locked \ {Home} ELSE locked \cup {Home}
    /\ UNCHANGED ents

-----------------------------------------------------------------------------
Init ==
    /\ confined \in Hosts
    /\ ents \in Starts /\ locked = Locked0
    /\ memo = Unset /\ slot = Empty
    /\ pc = "idle" /\ call = [op |-> "none", path |-> Empty]
    /\ cand = Empty /\ based = <<>>
    /\ result = [call |-> call, err |-> "ok", at |-> {}]
    /\ calls = 0 /\ moves = 0
    /\ acted = {} /\ told = {}
    /\ lost = FALSE /\ set = {} /\ still = TRUE

Next == \/ \E p \in Paths : Start("use", p) \/ Start("set", p)
        \/ RefuseBytes \/ Resolve \/ FindBase \/ OpenRoot \/ Act
        \/ RenameDir \/ RemoveDir \/ MakeDir \/ Chmod

Spec == Init /\ [][Next]_vars

-----------------------------------------------------------------------------
TypeOK ==
    /\ memo \in {Unset} \cup {Failed(e) : e \in {"NotFound", "PermissionDenied"}}
                \cup {Opened(b, d) : b \in Place, d \in Dir}
    /\ slot = Empty \/ slot.abs      \* FsOps.roc:28, "Stores an ABSOLUTE path"
    /\ cand = Empty \/ cand.abs
    /\ pc \in {"idle", "resolve", "find", "open", "act"}
    /\ call.op \in {"none", "use", "set"}
    /\ calls \in 0..MaxCalls /\ moves \in 0..MaxMoves

(* One run never resolves a path under two roots, whatever happens to the  *)
(* directory the root was found at (lib.rs:85-96).                         *)
OneRoot == \A d, e \in acted : d = e

(* A root that could not be established stays so: once a call has answered *)
(* the error, no later call acts anywhere, and each answers that error, or *)
(* that it takes no such path, whatever has been done to the directory     *)
(* since (lib.rs:85-89, 126-127).                                          *)
FailureStays ==
    [][told # {} => told' = told /\ acted' = acted /\ result'.err \in told \cup {"Other"}]_vars

(* With no working directory a relative path acts nowhere; it is not the   *)
(* same name under "/" (FsOps.roc:12-15, 66-70).                           *)
LostCwdActsNowhere ==
    (pc = "idle" /\ lost /\ calls > 0 /\ ~result.call.path.abs) => result.err # "ok"

(* A relative path leads below the directory set_cwd! accepted, however    *)
(* that was spelled, while nothing is renamed: one call, one directory     *)
(* (FsOps.roc:30-37).                                                      *)
SetCwdIsUsed ==
    (pc = "idle" /\ slot # Empty /\ still /\ result.call.op = "use"
        /\ ~result.call.path.abs /\ result.err = "ok")
    => result.at = UNION {At(d, result.call.path.comps) : d \in set}

(* The first directory that is set, by a relative path and while nothing   *)
(* moves, is the one that path leads to from the process's own: names are  *)
(* not lost on the way (basic-cli-lib Env.roc:6, FsOps.roc:28-37).         *)
FirstSetIsNamed ==
    (pc = "idle" /\ calls = 1 /\ moves = 0 /\ result.call.op = "set"
        /\ ~result.call.path.abs /\ result.err = "ok")
    => result.at = At(Home, result.call.path.comps)
=============================================================================
