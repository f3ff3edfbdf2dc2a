----------------------------- MODULE Environment -----------------------------
(***************************************************************************)
(* What the process was started with, as an app reads it (cli-host lib.rs  *)
(* under Host.roc): arguments, the environment as a list of pairs and one  *)
(* variable by its name; and the paths the system has for it.              *)
(*                                                                         *)
(* Native strings are sequences of symbols; Raw is a byte that is not      *)
(* UTF-8, Half half of a UTF-16 pair, and Mark what a lossy conversion     *)
(* puts for either.                                                        *)
(***************************************************************************)
EXTENDS Naturals, Sequences, SequencesExt

CONSTANTS Raw, Half, Mark, Nul,
          Starts,      \* [environ, argv]: what a process is started with
          Names,       \* the names the app asks for of its own, as OsStr
          OsPaths,     \* what the system may give as cwd, executable or temp dir
          None

VARIABLES environ, argv,   \* the process's: entries and arguments
          dict,            \* the pairs the app was told, as OsStr
          answer

vars == <<environ, argv, dict, answer>>

Utf8(s)        == [tag |-> "Utf8", units |-> s]
UnixBytes(s)   == [tag |-> "UnixBytes", units |-> s]
WindowsU16s(s) == [tag |-> "WindowsU16s", units |-> s]

-----------------------------------------------------------------------------
(* Crossing to Roc and back.                                               *)
Lossy(s, t) == [i \in DOMAIN s |-> IF s[i] = t THEN Mark ELSE s[i]]

NativeLossy(s) == Utf8(Lossy(s, Raw))                  \* variant
Native(s) == IF Contains(s, Raw) THEN UnixBytes(s) ELSE Utf8(s)

OsString(o) == IF o.tag = "WindowsU16s" THEN Lossy(o.units, Half) ELSE o.units

-----------------------------------------------------------------------------
(* Asking the C library.                                                   *)
Least(S) == IF S = {} THEN 0 ELSE Min(S)

(* vars_os: a name ends at the first `=' after its first byte.             *)
EndOfName(e)  == Least({i \in 1..(Len(e) - 1) : e[i + 1] = "="})
IsPair(e)     == EndOfName(e) # 0
NameOf(e)     == SubSeq(e, 1, EndOfName(e))
ValueOf(e)    == SubSeq(e, EndOfName(e) + 2, Len(e))

(* getenv: the first entry that the name and a `=' begin.                  *)
GetEnv(key) ==
    LET i == Least({j \in DOMAIN environ : IsPrefix(Append(key, "="), environ[j])})
    IN  IF i = 0 THEN None ELSE SubSeq(environ[i], Len(key) + 2, Len(environ[i]))

-----------------------------------------------------------------------------
(* The leaves.                                                             *)
Args == [i \in DOMAIN argv |-> Native(argv[i])]

Dict == LET pairs == SelectSeq(environ, IsPair)
        IN  [i \in DOMAIN pairs |-> <<Native(NameOf(pairs[i])), Native(ValueOf(pairs[i]))>>]

ValidIfAny(key)  == key # <<>> /\ ~Contains(key, Nul)                  \* variant
ValidEnvKey(key) == key # <<>> /\ ~Contains(key, Nul) /\ ~Contains(key, "=")

Var(name) ==
    LET key == OsString(name)
    IN  IF ~ValidEnvKey(key) THEN [err |-> "Other", val |-> None]
        ELSE IF GetEnv(key) = None THEN [err |-> "VarNotFound", val |-> Native(key)]
        ELSE [err |-> "ok", val |-> Native(GetEnv(key))]

PathResult(p) == IF p = None THEN [err |-> "Unavailable", val |-> None]
                 ELSE [err |-> "ok", val |-> Native(p)]

-----------------------------------------------------------------------------
AskArgs == answer' = [op |-> "args", list |-> Args] /\ UNCHANGED <<environ, argv, dict>>
AskDict == dict' = Dict /\ answer' = [op |-> "dict", list |-> Dict] /\ UNCHANGED <<environ, argv>>

(* A name of the app's own, or one that it was told.                       *)
AskVar ==
    /\ \E name \in Names \cup {dict[i][1] : i \in DOMAIN dict} :
          answer' = [op |-> "var", name |-> name, got |-> Var(name)]
    /\ UNCHANGED <<environ, argv, dict>>

AskPath ==
    /\ \E p \in OsPaths \cup {None} : answer' = [op |-> "path", os |-> p, got |-> PathResult(p)]
    /\ UNCHANGED <<environ, argv, dict>>

Init == /\ \E s \in Starts : environ = s.environ /\ argv = s.argv
        /\ dict = <<>> /\ answer = [op |-> "none"]
Next == AskArgs \/ AskDict \/ AskVar \/ AskPath
Spec == Init /\ [][Next]_vars

-----------------------------------------------------------------------------
(* A variable is what the pairs say it is: the first that has its name, or *)
(* not found when none has; and a name that no pair could have is neither  *)
(* (cli-host lib.rs:227-233,257-261).                                      *)
VarIsInDict ==
    answer.op = "var" =>
       LET key  == OsString(answer.name)
           told == SelectSeq(Dict, LAMBDA p : OsString(p[1]) = key)
       IN  CASE answer.got.err = "ok" -> told # <<>> /\ told[1][2] = answer.got.val
             [] answer.got.err = "VarNotFound" -> told = <<>> /\ OsString(answer.got.val) = key
             [] OTHER -> key = <<>> \/ {"=", Nul} \cap ToSet(key) # {}

(* Arguments, names, values and paths cross as they are, whatever their    *)
(* bytes, and a path that there is not is none (cli-host lib.rs:132-139,   *)
(* 202-208,289-293).                                                       *)
NothingIsLost ==
    /\ answer.op = "args" => [i \in DOMAIN answer.list |-> OsString(answer.list[i])] = argv
    /\ answer.op = "dict" =>
          [i \in DOMAIN answer.list |-> OsString(answer.list[i][1]) \o <<"=">> \o OsString(answer.list[i][2])]
             = SelectSeq(environ, IsPair)
    /\ answer.op = "path" =>
          IF answer.got.err = "ok" THEN OsString(answer.got.val) = answer.os ELSE answer.os = None
=============================================================================
