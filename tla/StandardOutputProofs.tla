------------------------- MODULE StandardOutputProofs -------------------------
(***************************************************************************)
(* What was answered Ok is on the terminal, once and in its order: proved  *)
(* for every text, every capacity of the buffer, any number of calls,      *)
(* failures and children, and whichever streams are closed.                *)
(*                                                                         *)
(* The bytes are in a line: those shown, those held, those the running     *)
(* call has yet to write, each call's in its order; and a call that writes *)
(* to stdout is not done before it has emptied the buffer.                 *)
(***************************************************************************)
EXTENDS StandardOutput, SequenceTheorems, WellFoundedInduction, TLAPS

Elements(s) == {s[i] : i \in DOMAIN s}

Byte     == [call : Nat, at : Nat, nl : BOOLEAN]
Commands == [do : {"direct", "put", "drain"}, bytes : Seq(Byte)]
Calls    == [to : Streams, bytes : Seq(Byte), err : {"running", "ok", "Other"}]

Types ==
    /\ shut \subseteq Streams
    /\ held \in Seq(Byte) /\ out \in Seq(Byte)
    /\ todo \in Seq(Commands) /\ given \in Seq(Calls)
    /\ call \in [op : {"idle", "write", "exit", "main"}, to : Streams]
    /\ child \in Nat

(* Each call's bytes in their order, in one sequence and from one to       *)
(* another.                                                                *)
Ordered(s)   == \A i, j \in DOMAIN s : i < j /\ s[j].at # 0 /\ s[i].call = s[j].call => s[i].at < s[j].at
Before(s, r) == \A x \in Elements(s), y \in Elements(r) : x.call = y.call => x.at < y.at

InLine ==
    /\ Ordered(out) /\ Ordered(held) /\ Before(out, held)
    /\ \A i \in DOMAIN todo :
          /\ Ordered(todo[i].bytes) /\ Before(out, todo[i].bytes) /\ Before(held, todo[i].bytes)
          /\ \A j \in DOMAIN todo : i < j => Before(todo[i].bytes, todo[j].bytes)

(* Whose they are: no call that was answered Ok has bytes waiting, and none*)
(* that is still to come has bytes shown.                                  *)
Running == call # Idle
Last    == Len(given)
Newest  == IF Running THEN Last ELSE Last + 1
Unanswered(b) == b.at # 0 /\ b.call \in 1..Last /\ given[b.call].err # "ok"

Whose ==
    /\ child <= Newest
    /\ \A x \in Elements(out) : x.call <= Newest /\ (x.at # 0 => x.call \in 1..Last)
    /\ \A x \in Elements(held) : Unanswered(x) /\ given[x.call].to = "stdout"
    /\ \A i \in DOMAIN todo : \A x \in Elements(todo[i].bytes) : x.at # 0 /\ x.call = Last
    /\ IF Running THEN Last # 0 /\ given[Last].to = call.to /\ given[Last].err = "running"
       ELSE todo = <<>>

(* What overtook a call was not answered Ok.                               *)
NoOvertaking ==
    \A i, j \in DOMAIN out :
       i < j /\ out[j].at # 0 /\ out[j].call < out[i].call => given[out[j].call].err # "ok"

(* The commands of a call: on stdout the last drains the buffer, and what  *)
(* passes the buffer by does so first and while it is empty.               *)
Shape ==
    /\ \A i \in DOMAIN todo :
          /\ todo[i].do = "drain" => todo[i].bytes = <<>>
          /\ call.to = "stderr" => todo[i].do = "direct"
          /\ call.to = "stdout" /\ todo[i].do = "direct" => i = 1 /\ held = <<>>
    /\ Running /\ call.to = "stdout" =>
          IF todo = <<>> THEN held = <<>> ELSE todo[Len(todo)].do = "drain"

(* Where the bytes of a call are.                                          *)
Waiting == (IF call.to = "stdout" THEN Elements(held) ELSE {})
              \cup UNION {Elements(todo[i].bytes) : i \in DOMAIN todo}
Kept ==
    /\ \A n \in DOMAIN given :
          given[n].to \notin shut /\ given[n].err = "ok" => Elements(given[n].bytes) \subseteq Elements(out)
    /\ Running /\ call.to \notin shut =>
          Elements(given[Last].bytes) \subseteq Elements(out) \cup Waiting

OutputInv == Types /\ InLine /\ Whose /\ NoOvertaking /\ Shape /\ Kept

-----------------------------------------------------------------------------
(* Two sequences, one after the other.                                     *)
LEMMA Joined ==
    ASSUME NEW s \in Seq(Byte), NEW r \in Seq(Byte)
    PROVE  /\ s \o r \in Seq(Byte)
           /\ Elements(s \o r) = Elements(s) \cup Elements(r)
           /\ Ordered(s) /\ Ordered(r) /\ Before(s, r) => Ordered(s \o r)
  <1> DEFINE t == s \o r
  <1>1. /\ t \in Seq(Byte) /\ Len(t) = Len(s) + Len(r)
        /\ \A i \in 1..Len(t) : t[i] = IF i <= Len(s) THEN s[i] ELSE r[i - Len(s)]
    OBVIOUS
  <1>2. /\ DOMAIN s = 1..Len(s) /\ DOMAIN r = 1..Len(r) /\ DOMAIN t = 1..Len(t)
        /\ Len(s) \in Nat /\ Len(r) \in Nat
    BY <1>1
  <1>3. \A i \in DOMAIN t : \/ i \in DOMAIN s /\ t[i] = s[i]
                            \/ i > Len(s) /\ i - Len(s) \in DOMAIN r /\ t[i] = r[i - Len(s)]
    BY <1>1, <1>2
  <1>4. /\ \A i \in DOMAIN s : i \in DOMAIN t /\ t[i] = s[i]
        /\ \A i \in DOMAIN r : i + Len(s) \in DOMAIN t /\ t[i + Len(s)] = r[i]
    BY <1>1, <1>2
  <1> HIDE DEF t
  <1>5. Elements(t) \subseteq Elements(s) \cup Elements(r)
    BY <1>3, Zenon DEF Elements
  <1>6. Elements(s) \cup Elements(r) \subseteq Elements(t)
    BY <1>4, Zenon DEF Elements
  <1>7. ASSUME Ordered(s), Ordered(r), Before(s, r)  PROVE Ordered(t)
    <2> SUFFICES ASSUME NEW i \in DOMAIN t, NEW j \in DOMAIN t,
                        i < j, t[j].at # 0, t[i].call = t[j].call
                 PROVE  t[i].at < t[j].at
      BY DEF Ordered
    <2>1. CASE i \in DOMAIN s /\ j \in DOMAIN s
      BY <1>4, <1>7, <2>1, SMT DEF Ordered
    <2>2. CASE i \in DOMAIN s /\ j > Len(s) /\ j - Len(s) \in DOMAIN r /\ t[j] = r[j - Len(s)]
      <3>1. t[i] \in Elements(s) /\ t[j] \in Elements(r)
        BY <1>4, <2>2 DEF Elements
      <3> QED  BY <3>1, <1>7 DEF Before
    <2>3. CASE i > Len(s) /\ j > Len(s)
      <3>1. /\ i - Len(s) \in DOMAIN r /\ t[i] = r[i - Len(s)]
            /\ j - Len(s) \in DOMAIN r /\ t[j] = r[j - Len(s)]
        BY <1>2, <1>3, <2>3, SMT
      <3>2. i - Len(s) < j - Len(s)
        BY <1>2, <2>3, SMT
      <3> QED  BY <1>7, <3>1, <3>2 DEF Ordered
    <2> QED  BY <1>2, <1>3, <2>1, <2>2, <2>3, SMT
  <1> QED  BY <1>1, <1>5, <1>6, <1>7 DEF t

(* A sequence of waiting bytes, cut in two.                                *)
LEMMA Halves ==
    ASSUME NEW s \in Seq(Byte), NEW n \in 0..Len(s)
    PROVE  LET a == SubSeq(s, 1, n)
               b == SubSeq(s, n + 1, Len(s))
           IN  /\ a \in Seq(Byte) /\ b \in Seq(Byte)
               /\ Elements(s) = Elements(a) \cup Elements(b)
               /\ Ordered(s) /\ (\A x \in Elements(s) : x.at # 0) =>
                     Ordered(a) /\ Ordered(b) /\ Before(a, b)
  <1> DEFINE a == SubSeq(s, 1, n)
             b == SubSeq(s, n + 1, Len(s))
  <1>0. Len(s) \in Nat /\ n \in Nat /\ n <= Len(s)
    OBVIOUS
  <1>1. /\ Len(s) \in Nat /\ n \in Nat /\ n <= Len(s) /\ DOMAIN s = 1..Len(s)
        /\ \A i \in 1..Len(s) : s[i] \in Byte
    OBVIOUS
  <1>2. a \in Seq(Byte) /\ Len(a) = n /\ DOMAIN a = 1..n /\ \A i \in 1..n : a[i] = s[i]
    BY <1>1
  <1>3. /\ b \in Seq(Byte) /\ Len(b) = Len(s) - n /\ DOMAIN b = 1..(Len(s) - n)
        /\ \A i \in 1..(Len(s) - n) : b[i] = s[n + i]
    <2>1. \A i \in (n + 1)..Len(s) : s[i] \in Byte
      BY <1>1
    <2>2. /\ b \in Seq(Byte)
          /\ Len(b) = IF n + 1 <= Len(s) THEN Len(s) - (n + 1) + 1 ELSE 0
          /\ \A i \in 1..(Len(s) - (n + 1) + 1) : b[i] = s[(n + 1) + i - 1]
      BY <1>1, <2>1, SubSeqProperties
    <2> HIDE DEF b
    <2>3. Len(b) = Len(s) - n
      <3>1. CASE n = Len(s)
        <4>1. ~(n + 1 <= Len(s)) /\ Len(s) - n = 0
          BY <1>0, <3>1, SMT
        <4> QED  BY <2>2, <4>1
      <3>2. CASE n # Len(s)
        <4>1. n + 1 <= Len(s) /\ Len(s) - (n + 1) + 1 = Len(s) - n
          BY <1>0, <3>2, SMT
        <4> QED  BY <2>2, <4>1
      <3> QED  BY <3>1, <3>2
    <2>4. Len(s) - (n + 1) + 1 = Len(s) - n /\ \A i \in 1..(Len(s) - n) : (n + 1) + i - 1 = n + i
      BY <1>0, SMT
    <2>5. DOMAIN b = 1..(Len(s) - n)
      BY <2>2, <2>3, LenProperties
    <2> QED  BY <2>2, <2>3, <2>4, <2>5
  <1> HIDE DEF a, b
  <1>4. \A i \in DOMAIN s : \/ i \in DOMAIN a /\ s[i] = a[i]
                            \/ i - n \in DOMAIN b /\ s[i] = b[i - n]
    <2> TAKE i \in DOMAIN s
    <2>1. CASE i <= n
      BY <1>1, <1>2, <2>1
    <2>2. CASE ~(i <= n)
      <3>1. i - n \in 1..(Len(s) - n) /\ n + (i - n) = i
        BY <1>1, <2>2, SMT
      <3> QED  BY <1>3, <3>1
    <2> QED  BY <2>1, <2>2
  <1>5. \A i \in DOMAIN a : i \in DOMAIN s /\ s[i] = a[i] /\ i <= n
    BY <1>1, <1>2, SMT
  <1>6. \A i \in DOMAIN b : n + i \in DOMAIN s /\ s[n + i] = b[i] /\ n < n + i
    BY <1>1, <1>3, SMT
  <1>7. Elements(s) = Elements(a) \cup Elements(b)
    <2>1. Elements(s) \subseteq Elements(a) \cup Elements(b)
      BY <1>4, Zenon DEF Elements
    <2>2. Elements(a) \cup Elements(b) \subseteq Elements(s)
      BY <1>5, <1>6, Zenon DEF Elements
    <2> QED  BY <2>1, <2>2
  <1>8. ASSUME Ordered(s), \A x \in Elements(s) : x.at # 0
        PROVE  Ordered(a) /\ Ordered(b) /\ Before(a, b)
    <2>1. Ordered(a)
      BY <1>5, <1>8, SMT DEF Ordered
    <2>2. \A i, j \in DOMAIN b : i < j => n + i < n + j
      BY <1>1, <1>3, SMT
    <2>3. Ordered(b)
      BY <1>6, <1>8, <2>2 DEF Ordered
    <2>4. \A i \in DOMAIN a, j \in DOMAIN b : i < n + j /\ s[n + j].at # 0
      <3>1. \A i \in DOMAIN a, j \in DOMAIN b : i < n + j
        BY <1>1, <1>2, <1>3, SMT
      <3> QED  BY <1>6, <1>8, <3>1 DEF Elements
    <2>5. \A i \in DOMAIN a, j \in DOMAIN b : a[i].call = b[j].call => a[i].at < b[j].at
      BY <1>5, <1>6, <1>8, <2>4 DEF Ordered
    <2> QED  BY <2>1, <2>3, <2>5 DEF Before, Elements
  <1> QED  BY <1>2, <1>3, <1>7, <1>8 DEF a, b

(* A sequence of commands with another head.                               *)
LEMMA NewHead ==
    ASSUME NEW s \in Seq(Commands), s # <<>>, NEW x \in Commands
    PROVE  LET t == <<x>> \o Tail(s)
           IN  /\ t \in Seq(Commands) /\ t # <<>> /\ Len(t) = Len(s) /\ DOMAIN t = DOMAIN s
               /\ 1 \in DOMAIN t /\ t[1] = x
               /\ \A i \in DOMAIN t : i # 1 => t[i] = s[i]
  <1> DEFINE t == <<x>> \o Tail(s)
  <1>1. /\ Tail(s) \in Seq(Commands) /\ Len(s) \in Nat \ {0} /\ Len(Tail(s)) = Len(s) - 1
        /\ \A i \in 1..(Len(s) - 1) : Tail(s)[i] = s[i + 1]
    BY HeadTailProperties, EmptySeq, LenProperties
  <1>2. <<x>> \in Seq(Commands) /\ Len(<<x>>) = 1 /\ <<x>>[1] = x
    OBVIOUS
  <1>3. /\ t \in Seq(Commands) /\ Len(t) = 1 + (Len(s) - 1)
        /\ \A i \in 1..(1 + (Len(s) - 1)) : t[i] = IF i <= 1 THEN <<x>>[i] ELSE Tail(s)[i - 1]
    BY <1>1, <1>2, ConcatProperties
  <1>4. Len(s) \in Nat /\ Len(s) # 0 /\ 1 + (Len(s) - 1) = Len(s)
    BY <1>1
  <1>5. Len(t) = Len(s) /\ DOMAIN t = 1..Len(s) /\ DOMAIN s = 1..Len(s)
    BY <1>3, <1>4, LenProperties
  <1> HIDE DEF t
  <1>6. 1 \in 1..Len(s) /\ t[1] = x
    <2>1. 1 \in 1..Len(s) /\ 1 <= 1
      BY <1>4, SMT
    <2> QED  BY <1>2, <1>3, <1>4, <2>1
  <1>7. ASSUME NEW i \in 1..Len(s), i # 1  PROVE t[i] = s[i]
    <2>1. i \in Nat /\ ~(i <= 1) /\ i - 1 \in 1..(Len(s) - 1) /\ (i - 1) + 1 = i
      BY <1>4, <1>7, SMT
    <2> QED  BY <1>1, <1>3, <1>4, <2>1
  <1>8. t # <<>>
    BY <1>4, <1>5, <1>3, EmptySeq
  <1> QED  BY <1>3, <1>5, <1>6, <1>7, <1>8 DEF t

(* A sequence of commands with one more in front.                          *)
LEMMA Pushed ==
    ASSUME NEW s \in Seq(Commands), NEW x \in Commands
    PROVE  LET t == <<x>> \o s
           IN  /\ t \in Seq(Commands) /\ t # <<>> /\ Len(t) = Len(s) + 1
               /\ 1 \in DOMAIN t /\ t[1] = x
               /\ \A i \in DOMAIN t : i # 1 => i - 1 \in DOMAIN s /\ t[i] = s[i - 1]
               /\ \A i \in DOMAIN s : i + 1 \in DOMAIN t /\ t[i + 1] = s[i]
  <1> DEFINE t == <<x>> \o s
  <1>1. Len(s) \in Nat /\ DOMAIN s = 1..Len(s)
    BY LenProperties
  <1>2. <<x>> \in Seq(Commands) /\ Len(<<x>>) = 1 /\ <<x>>[1] = x
    OBVIOUS
  <1>3. /\ t \in Seq(Commands) /\ Len(t) = 1 + Len(s)
        /\ \A i \in 1..(1 + Len(s)) : t[i] = IF i <= 1 THEN <<x>>[i] ELSE s[i - 1]
    BY <1>2, ConcatProperties
  <1>4. DOMAIN t = 1..(1 + Len(s))
    BY <1>3, LenProperties
  <1> HIDE DEF t
  <1>6. 1 \in 1..(1 + Len(s)) /\ t[1] = x
    <2>1. 1 \in 1..(1 + Len(s)) /\ 1 <= 1
      BY <1>1, SMT
    <2> QED  BY <1>2, <1>3, <2>1
  <1>7. ASSUME NEW i \in 1..(1 + Len(s)), i # 1  PROVE i - 1 \in 1..Len(s) /\ t[i] = s[i - 1]
    <2>1. i \in Nat /\ ~(i <= 1) /\ i - 1 \in 1..Len(s)
      BY <1>1, <1>7, SMT
    <2> QED  BY <1>3, <2>1
  <1>8. ASSUME NEW i \in 1..Len(s)  PROVE i + 1 \in 1..(1 + Len(s)) /\ t[i + 1] = s[i]
    <2>1. i + 1 \in 1..(1 + Len(s)) /\ ~(i + 1 <= 1) /\ (i + 1) - 1 = i
      BY <1>1, <1>8, SMT
    <2> QED  BY <1>3, <2>1
  <1>9. t # <<>> /\ Len(t) = Len(s) + 1
    BY <1>1, <1>3, EmptySeq
  <1> QED  BY <1>1, <1>3, <1>4, <1>6, <1>7, <1>8, <1>9 DEF t

(* A sequence of commands without its first.                               *)
LEMMA Dropped ==
    ASSUME NEW s \in Seq(Commands), s # <<>>
    PROVE  LET t == Tail(s)
           IN  /\ t \in Seq(Commands) /\ Len(s) = Len(t) + 1
               /\ 1 \in DOMAIN s /\ Head(s) = s[1] /\ s[1] \in Commands
               /\ \A i \in DOMAIN t : i + 1 \in DOMAIN s /\ t[i] = s[i + 1]
               /\ \A i \in DOMAIN s : i # 1 => i - 1 \in DOMAIN t /\ s[i] = t[i - 1]
  <1> DEFINE t == Tail(s)
  <1>1. /\ t \in Seq(Commands) /\ Len(s) \in Nat \ {0} /\ Len(t) = Len(s) - 1
        /\ \A i \in 1..(Len(s) - 1) : t[i] = s[i + 1]
    BY HeadTailProperties, EmptySeq, LenProperties
  <1>2. Len(s) \in Nat /\ Len(s) # 0
    BY <1>1
  <1>3. DOMAIN s = 1..Len(s) /\ DOMAIN t = 1..(Len(s) - 1)
    BY <1>1, LenProperties
  <1>4. 1 \in 1..Len(s) /\ Len(s) = (Len(s) - 1) + 1
    BY <1>2, SMT
  <1>5. Head(s) = s[1] /\ s[1] \in Commands
    BY <1>3, <1>4, HeadTailProperties, ElementOfSeq
  <1> HIDE DEF t
  <1>6. ASSUME NEW i \in 1..(Len(s) - 1)  PROVE i + 1 \in 1..Len(s)
    BY <1>2, <1>6, SMT
  <1>7. ASSUME NEW i \in 1..Len(s), i # 1  PROVE i - 1 \in 1..(Len(s) - 1) /\ (i - 1) + 1 = i
    BY <1>2, <1>7, SMT
  <1> QED  BY <1>1, <1>3, <1>4, <1>5, <1>6, <1>7 DEF t

-----------------------------------------------------------------------------
(* The bytes of a call, as they are given.                                 *)
LEMMA CallBytes ==
    ASSUME NEW n \in Nat, NEW text \in Seq(BOOLEAN)
    PROVE  /\ Bytes(n, text) \in Seq(Byte)
           /\ Ordered(Bytes(n, text))
           /\ \A x \in Elements(Bytes(n, text)) : x.at # 0 /\ x.call = n
  <1> DEFINE b == Bytes(n, text)
  <1>1. Len(text) \in Nat /\ DOMAIN text = 1..Len(text) /\ \A i \in 1..Len(text) : text[i] \in BOOLEAN
    OBVIOUS
  <1>2. b = [i \in 1..Len(text) |-> [call |-> n, at |-> i, nl |-> text[i]]]
    BY <1>1 DEF Bytes
  <1>3. \A i \in 1..Len(text) : [call |-> n, at |-> i, nl |-> text[i]] \in Byte
    BY <1>1 DEF Byte
  <1>4. b \in Seq(Byte)
    BY <1>1, <1>2, <1>3
  <1>5. DOMAIN b = 1..Len(text) /\ \A i \in DOMAIN b : b[i].at = i /\ b[i].call = n /\ i # 0
    BY <1>1, <1>2
  <1> HIDE DEF b
  <1>6. Ordered(b)
    BY <1>5, Zenon DEF Ordered
  <1>7. \A x \in Elements(b) : x.at # 0 /\ x.call = n
    <2> TAKE x \in Elements(b)
    <2>1. PICK i \in DOMAIN b : x = b[i]
      BY DEF Elements
    <2> QED  BY <1>5, <2>1
  <1> QED  BY <1>4, <1>6, <1>7 DEF b

(* What the commands w of a call that writes b have to do with b.          *)
Carries(w, to, b) ==
    /\ w \in Seq(Commands)
    /\ to = "stdout" => w # <<>> /\ w[Len(w)].do = "drain"
    /\ \A i \in DOMAIN w :
          /\ w[i].do = "drain" => w[i].bytes = <<>>
          /\ to = "stderr" => w[i].do = "direct"
          /\ to = "stdout" /\ w[i].do = "direct" => i = 1 /\ held = <<>>
          /\ Ordered(w[i].bytes) /\ Elements(w[i].bytes) \subseteq Elements(b)
          /\ \A j \in DOMAIN w : i < j => Before(w[i].bytes, w[j].bytes)
    /\ Elements(b) \subseteq UNION {Elements(w[i].bytes) : i \in DOMAIN w}

(* Of the newlines in a text, one is the last.                             *)
LEMMA LastOf ==
    ASSUME NEW m \in Nat, NEW S \in SUBSET (1..m), S # {}
    PROVE  (CHOOSE i \in S : \A j \in S : j <= i) \in S
  <1> DEFINE T == {k \in Nat : m - k \in S}
  <1>1. PICK i \in S : TRUE
    OBVIOUS
  <1>2. i \in 1..m
    BY <1>1
  <1>3. m - i \in Nat /\ m - (m - i) = i
    BY <1>2, SMT
  <1>4. m - i \in T
    BY <1>1, <1>3
  <1>5. PICK k \in T : \A l \in T : ~ (<<l, k>> \in OpToRel(<, Nat))
    <2>1. T # {} /\ T \subseteq Nat
      BY <1>4
    <2> HIDE DEF T
    <2> QED  BY <2>1, NatLessThanWellFounded, WFMin
  <1>6. \A j \in S : j <= m - k
    <2> TAKE j \in S
    <2>1. j \in 1..m
      OBVIOUS
    <2>2. j \in Nat /\ m - j \in Nat /\ m - (m - j) = j /\ k \in Nat
      BY <2>1, SMT
    <2>3. m - j \in T
      BY <2>2
    <2>4. ~ (m - j < k)
      BY <1>5, <2>2, <2>3, Zenon DEF OpToRel
    <2> QED  BY <2>2, <2>4, SMT
  <1> QED  BY <1>5, <1>6

(* Two or three of them carry a text whole or in halves.                   *)
LEMMA Carried ==
    ASSUME NEW b \in Seq(Byte), Ordered(b), \A x \in Elements(b) : x.at # 0
    PROVE  /\ Carries(<<Put(b), Drain>>, "stdout", b)
           /\ Carries(<<Drain, Put(b), Drain>>, "stdout", b)
           /\ Carries(<<Direct(b)>>, "stderr", b)
           /\ \A n \in 0..Len(b) :
                 /\ held = <<>> => Carries(<<Direct(SubSeq(b, 1, n)), Put(SubSeq(b, n + 1, Len(b))), Drain>>, "stdout", b)
                 /\ Carries(<<Put(SubSeq(b, 1, n)), Drain, Put(SubSeq(b, n + 1, Len(b))), Drain>>, "stdout", b)
  <1>1. Elements(<<>>) = {} /\ Ordered(<<>>) /\ <<>> \in Seq(Byte)
    BY EmptySeq DEF Elements, Ordered
  <1>2. \A s : Before(s, <<>>) /\ Before(<<>>, s)
    BY <1>1 DEF Before
  <1>3. \A s \in Seq(Byte) : /\ Put(s) \in Commands /\ Put(s).do = "put" /\ Put(s).bytes = s
                              /\ Direct(s) \in Commands /\ Direct(s).do = "direct" /\ Direct(s).bytes = s
    BY DEF Put, Direct, Commands
  <1>4. Drain \in Commands /\ Drain.do = "drain" /\ Drain.bytes = <<>>
    BY <1>1 DEF Drain, Commands
  <1>5. ASSUME NEW x \in Commands, NEW y \in Commands
        PROVE  /\ <<x, y>> \in Seq(Commands) /\ Len(<<x, y>>) = 2 /\ DOMAIN <<x, y>> = {1, 2}
               /\ <<x, y>>[1] = x /\ <<x, y>>[2] = y
    OBVIOUS
  <1>6. ASSUME NEW x \in Commands, NEW y \in Commands, NEW z \in Commands
        PROVE  /\ <<x, y, z>> \in Seq(Commands) /\ Len(<<x, y, z>>) = 3 /\ DOMAIN <<x, y, z>> = {1, 2, 3}
               /\ <<x, y, z>>[1] = x /\ <<x, y, z>>[2] = y /\ <<x, y, z>>[3] = z
    OBVIOUS
  <1>7. ASSUME NEW x \in Commands, NEW y \in Commands, NEW z \in Commands, NEW v \in Commands
        PROVE  /\ <<x, y, z, v>> \in Seq(Commands) /\ Len(<<x, y, z, v>>) = 4
               /\ DOMAIN <<x, y, z, v>> = {1, 2, 3, 4}
               /\ <<x, y, z, v>>[1] = x /\ <<x, y, z, v>>[2] = y /\ <<x, y, z, v>>[3] = z
               /\ <<x, y, z, v>>[4] = v
    OBVIOUS
  <1>8. ASSUME NEW x \in Commands
        PROVE  /\ <<x>> \in Seq(Commands) /\ Len(<<x>>) = 1 /\ DOMAIN <<x>> = {1} /\ <<x>>[1] = x
    OBVIOUS
  <1> HIDE DEF Put, Direct, Drain
  <1>9. Carries(<<Put(b), Drain>>, "stdout", b)
    <2> DEFINE w == <<Put(b), Drain>>
    <2>1. /\ w \in Seq(Commands) /\ Len(w) = 2 /\ DOMAIN w = {1, 2} /\ w # <<>>
          /\ w[1] = Put(b) /\ w[2] = Drain
      BY <1>3, <1>4, <1>5, EmptySeq
    <2> HIDE DEF w
    <2>2. Carries(w, "stdout", b)
      BY <1>1, <1>2, <1>3, <1>4, <2>1 DEF Carries
    <2> QED  BY <2>2 DEF w
  <1>10. Carries(<<Drain, Put(b), Drain>>, "stdout", b)
    <2> DEFINE w == <<Drain, Put(b), Drain>>
    <2>1. /\ w \in Seq(Commands) /\ Len(w) = 3 /\ DOMAIN w = {1, 2, 3} /\ w # <<>>
          /\ w[1] = Drain /\ w[2] = Put(b) /\ w[3] = Drain
      BY <1>3, <1>4, <1>6, EmptySeq
    <2> HIDE DEF w
    <2>2. Carries(w, "stdout", b)
      BY <1>1, <1>2, <1>3, <1>4, <2>1 DEF Carries
    <2> QED  BY <2>2 DEF w
  <1>11. Carries(<<Direct(b)>>, "stderr", b)
    <2> DEFINE w == <<Direct(b)>>
    <2>1. /\ w \in Seq(Commands) /\ Len(w) = 1 /\ DOMAIN w = {1} /\ w # <<>> /\ w[1] = Direct(b)
      BY <1>3, <1>8, EmptySeq
    <2> HIDE DEF w
    <2>2. Carries(w, "stderr", b)
      BY <1>1, <1>2, <1>3, <1>4, <2>1 DEF Carries
    <2> QED  BY <2>2 DEF w
  <1>12. ASSUME NEW n \in 0..Len(b)
         PROVE  /\ held = <<>> => Carries(<<Direct(SubSeq(b, 1, n)), Put(SubSeq(b, n + 1, Len(b))), Drain>>, "stdout", b)
                /\ Carries(<<Put(SubSeq(b, 1, n)), Drain, Put(SubSeq(b, n + 1, Len(b))), Drain>>, "stdout", b)
    <2> DEFINE l == SubSeq(b, 1, n)
               r == SubSeq(b, n + 1, Len(b))
    <2>1. /\ l \in Seq(Byte) /\ r \in Seq(Byte)
          /\ Elements(b) = Elements(l) \cup Elements(r)
          /\ Ordered(l) /\ Ordered(r) /\ Before(l, r)
      BY Halves
    <2> HIDE DEF l, r
    <2>2. ASSUME held = <<>>  PROVE Carries(<<Direct(l), Put(r), Drain>>, "stdout", b)
      <3> DEFINE w == <<Direct(l), Put(r), Drain>>
      <3>1. /\ w \in Seq(Commands) /\ Len(w) = 3 /\ DOMAIN w = {1, 2, 3} /\ w # <<>>
            /\ w[1] = Direct(l) /\ w[2] = Put(r) /\ w[3] = Drain
        BY <1>3, <1>4, <1>6, <2>1, EmptySeq
      <3> HIDE DEF w
      <3>2. Carries(w, "stdout", b)
        BY <1>1, <1>2, <1>3, <1>4, <2>1, <2>2, <3>1 DEF Carries
      <3> QED  BY <3>2 DEF w
    <2>3. Carries(<<Put(l), Drain, Put(r), Drain>>, "stdout", b)
      <3> DEFINE w == <<Put(l), Drain, Put(r), Drain>>
      <3>1. /\ w \in Seq(Commands) /\ Len(w) = 4 /\ DOMAIN w = {1, 2, 3, 4} /\ w # <<>>
            /\ w[1] = Put(l) /\ w[2] = Drain /\ w[3] = Put(r) /\ w[4] = Drain
        BY <1>3, <1>4, <1>7, <2>1, EmptySeq
      <3> HIDE DEF w
      <3>2. Carries(w, "stdout", b)
        BY <1>1, <1>2, <1>3, <1>4, <2>1, <3>1 DEF Carries
      <3> QED  BY <3>2 DEF w
    <2> QED  BY <2>2, <2>3 DEF l, r
  <1> QED  BY <1>9, <1>10, <1>11, <1>12

(* One more at the end of one.                                             *)
LEMMA OfTwo ==
    ASSUME NEW S, NEW x \in S, NEW y \in S
    PROVE  <<x>> \o <<y>> = <<x, y>>
  <1> DEFINE s == <<x>> \o <<y>>
             u == <<x, y>>
  <1>1. s \in Seq(S) /\ Len(s) = 2 /\ s[1] = x /\ s[2] = y
    <2>1. <<x>> \in Seq(S) /\ <<y>> \in Seq(S)
      OBVIOUS
    <2> QED  BY <2>1, ConcatProperties
  <1>2. u \in Seq(S) /\ Len(u) = 2 /\ u[1] = x /\ u[2] = y
    OBVIOUS
  <1> HIDE DEF s, u
  <1>3. Len(s) = Len(u) /\ \A i \in 1..Len(s) : s[i] = u[i]
    BY <1>1, <1>2
  <1>4. s = u
    BY <1>1, <1>2, <1>3, SeqEqual, Zenon
  <1> QED  BY <1>4 DEF s, u

(* One more at the end of two.                                             *)
LEMMA OfThree ==
    ASSUME NEW S, NEW x \in S, NEW y \in S, NEW z \in S
    PROVE  <<x, y>> \o <<z>> = <<x, y, z>>
  <1> DEFINE s == <<x, y>> \o <<z>>
             u == <<x, y, z>>
  <1>1. s \in Seq(S) /\ Len(s) = 3 /\ s[1] = x /\ s[2] = y /\ s[3] = z
    <2>1. <<x, y>> \in Seq(S) /\ <<z>> \in Seq(S)
      OBVIOUS
    <2> QED  BY <2>1, ConcatProperties
  <1>2. u \in Seq(S) /\ Len(u) = 3 /\ u[1] = x /\ u[2] = y /\ u[3] = z
    OBVIOUS
  <1> HIDE DEF s, u
  <1>3. Len(s) = Len(u) /\ \A i \in 1..Len(s) : s[i] = u[i]
    BY <1>1, <1>2
  <1>4. s = u
    BY <1>1, <1>2, <1>3, SeqEqual, Zenon
  <1> QED  BY <1>4 DEF s, u

(* One more at the end of three.                                           *)
LEMMA OfFour ==
    ASSUME NEW S, NEW x \in S, NEW y \in S, NEW z \in S, NEW v \in S
    PROVE  <<x, y, z>> \o <<v>> = <<x, y, z, v>>
  <1> DEFINE s == <<x, y, z>> \o <<v>>
             u == <<x, y, z, v>>
  <1>1. s \in Seq(S) /\ Len(s) = 4 /\ s[1] = x /\ s[2] = y /\ s[3] = z /\ s[4] = v
    <2>1. <<x, y, z>> \in Seq(S) /\ <<v>> \in Seq(S)
      OBVIOUS
    <2> QED  BY <2>1, ConcatProperties
  <1>2. u \in Seq(S) /\ Len(u) = 4 /\ u[1] = x /\ u[2] = y /\ u[3] = z /\ u[4] = v
    OBVIOUS
  <1> HIDE DEF s, u
  <1>3. Len(s) = Len(u) /\ \A i \in 1..Len(s) : s[i] = u[i]
    BY <1>1, <1>2
  <1>4. s = u
    BY <1>1, <1>2, <1>3, SeqEqual, Zenon
  <1> QED  BY <1>4 DEF s, u

(* What a call writes, however the buffer stands: LineCommands and a flush.*)
LEMMA WriteCommands ==
    ASSUME held \in Seq(Byte), NEW to \in Streams,
           NEW b \in Seq(Byte), Ordered(b), \A x \in Elements(b) : x.at # 0
    PROVE  Carries(Write(to, b), to, b)
  <1>1. \A s \in Seq(Byte) : Put(s) \in Commands /\ Direct(s) \in Commands
    BY DEF Put, Direct, Commands
  <1>2. Drain \in Commands
    BY DEF Drain, Commands
  <1>3. ASSUME NEW x \in Commands, NEW y \in Commands
        PROVE  <<x>> \o <<>> = <<x>> /\ <<>> \o <<x>> = <<x>> /\ <<x>> \o <<y>> = <<x, y>>
    <2>1. <<x>> \o <<y>> = <<x, y>>
      BY OfTwo
    <2> QED  BY <2>1
  <1>4. ASSUME NEW x \in Commands, NEW y \in Commands, NEW z \in Commands
        PROVE  <<x, y>> \o <<z>> = <<x, y, z>>
    BY OfThree
  <1>5. ASSUME NEW x \in Commands, NEW y \in Commands, NEW z \in Commands, NEW v \in Commands
        PROVE  <<x, y, z>> \o <<v>> = <<x, y, z, v>>
    BY OfFour
  <1>6. Len(b) \in Nat /\ DOMAIN b = 1..Len(b)
    OBVIOUS
  <1> DEFINE ends == {i \in DOMAIN b : b[i].nl}
             n    == CHOOSE i \in ends : \A j \in ends : j <= i
             l    == SubSeq(b, 1, n)
             r    == SubSeq(b, n + 1, Len(b))
  <1>7. ends # {} => n \in 0..Len(b)
    <2> HAVE ends # {}
    <2>1. ends \in SUBSET (1..Len(b))
      BY <1>6
    <2> HIDE DEF ends
    <2>2. n \in ends
      BY <1>6, <2>1, LastOf
    <2> HIDE DEF n
    <2>3. n \in 1..Len(b)
      BY <2>1, <2>2
    <2> QED  BY <1>6, <2>3, SMT
  <1>8. ends # {} => /\ l \in Seq(Byte) /\ r \in Seq(Byte)
                     /\ held = <<>> => Carries(<<Direct(l), Put(r), Drain>>, "stdout", b)
                     /\ Carries(<<Put(l), Drain, Put(r), Drain>>, "stdout", b)
    <2> HAVE ends # {}
    <2>1. n \in 0..Len(b)
      BY <1>7
    <2> HIDE DEF n
    <2>2. l \in Seq(Byte) /\ r \in Seq(Byte)
      BY <2>1, Halves
    <2>3. /\ held = <<>> => Carries(<<Direct(l), Put(r), Drain>>, "stdout", b)
          /\ Carries(<<Put(l), Drain, Put(r), Drain>>, "stdout", b)
      BY <2>1, Carried, Zenon
    <2> QED  BY <2>2, <2>3
  <1>9. CASE to = "stderr"
    <2>1. Write(to, b) = <<Direct(b)>>
      BY <1>1, <1>3, <1>9 DEF Write, WriteAll, Flush
    <2> QED  BY <1>9, <2>1, Carried
  <1>10. CASE to = "stdout"
    <2>1. Write(to, b) = LineCommands(b) \o <<Drain>>
      BY <1>10 DEF Write, WriteAll, Flush
    <2>2. LineCommands(b) = CASE ends = {} -> (IF CompleteLine(held) THEN <<Drain>> ELSE <<>>) \o <<Put(b)>>
                              [] ends # {} /\ held = <<>> -> <<Direct(l), Put(r)>>
                              [] OTHER -> <<Put(l), Drain, Put(r)>>
      BY DEF LineCommands
    <2> HIDE DEF ends, n, l, r
    <2>3. CASE ends = {} /\ CompleteLine(held)
      <3>1. LineCommands(b) = <<Drain, Put(b)>>
        BY <1>1, <1>2, <1>3, <2>2, <2>3
      <3>2. Write(to, b) = <<Drain, Put(b), Drain>>
        BY <1>1, <1>2, <1>4, <2>1, <3>1
      <3> QED  BY <1>10, <3>2, Carried
    <2>4. CASE ends = {} /\ ~CompleteLine(held)
      <3>1. LineCommands(b) = <<Put(b)>>
        BY <1>1, <1>2, <1>3, <2>2, <2>4
      <3>2. Write(to, b) = <<Put(b), Drain>>
        BY <1>1, <1>2, <1>3, <2>1, <3>1
      <3> QED  BY <1>10, <3>2, Carried
    <2>5. CASE ends # {} /\ held = <<>>
      <3>1. LineCommands(b) = <<Direct(l), Put(r)>>
        BY <2>2, <2>5
      <3>2. Write(to, b) = <<Direct(l), Put(r), Drain>>
        BY <1>1, <1>2, <1>4, <1>8, <2>1, <2>5, <3>1
      <3> QED  BY <1>8, <1>10, <2>5, <3>2
    <2>6. CASE ends # {} /\ held # <<>>
      <3>1. LineCommands(b) = <<Put(l), Drain, Put(r)>>
        BY <2>2, <2>6
      <3>2. Write(to, b) = <<Put(l), Drain, Put(r), Drain>>
        BY <1>1, <1>2, <1>5, <1>8, <2>1, <2>6, <3>1
      <3> QED  BY <1>8, <1>10, <2>6, <3>2
    <2> QED  BY <2>3, <2>4, <2>5, <2>6
  <1> QED  BY <1>9, <1>10 DEF Streams

-----------------------------------------------------------------------------
(* The elements of a sequence of bytes are bytes, and each has its place.  *)
LEMMA Bytewise ==
    ASSUME NEW s \in Seq(Byte)
    PROVE  /\ Elements(s) \subseteq Byte
           /\ \A x \in Elements(s) : x.call \in Nat /\ x.at \in Nat
           /\ \A i \in DOMAIN s : s[i] \in Elements(s) /\ s[i].call \in Nat /\ s[i].at \in Nat
           /\ s = <<>> => Elements(s) = {}
  <1>1. \A i \in DOMAIN s : s[i] \in Byte
    BY LenProperties, ElementOfSeq
  <1>2. Elements(s) \subseteq Byte
    BY <1>1 DEF Elements
  <1>3. \A x \in Byte : x.call \in Nat /\ x.at \in Nat
    BY DEF Byte
  <1>4. s = <<>> => DOMAIN s = {}
    BY EmptySeq
  <1> QED  BY <1>1, <1>2, <1>3, <1>4 DEF Elements

(* A call ends: with its answer, or with the process before it has one.    *)
LEMMA Ending ==
    ASSUME OutputInv, Running, NEW e \in {"running", "ok", "Other"}, e = "ok" => todo = <<>>,
           given' = [given EXCEPT ![Last].err = e], call' = Idle, todo' = <<>>,
           UNCHANGED <<shut, held, out, child>>
    PROVE  OutputInv'
  <1>1. Types /\ InLine /\ Whose /\ NoOvertaking /\ Shape /\ Kept
    BY DEF OutputInv
  <1>2. /\ Last \in Nat /\ DOMAIN given = 1..Last /\ Last # 0 /\ Last \in 1..Last
        /\ given[Last].to = call.to /\ given[Last].err = "running"
    BY <1>1, LenProperties DEF Types, Whose, Last
  <1>3. \A n \in DOMAIN given : given[n] \in Calls
    BY <1>1, <1>2, ElementOfSeq DEF Types, Last
  <1>4. /\ given' \in Seq(Calls) /\ Last' = Last /\ DOMAIN given' = DOMAIN given
        /\ \A n \in DOMAIN given : n # Last => given'[n] = given[n]
        /\ given'[Last].err = e /\ given'[Last].to = given[Last].to /\ given'[Last].bytes = given[Last].bytes
    <2> DEFINE c == [given[Last] EXCEPT !.err = e]
    <2>1. c \in Calls /\ c.err = e /\ c.to = given[Last].to /\ c.bytes = given[Last].bytes
      BY <1>2, <1>3 DEF Calls
    <2>2. given' = [given EXCEPT ![Last] = c]
      OBVIOUS
    <2> HIDE DEF c
    <2>3. given \in Seq(Calls) /\ Last \in 1..Len(given)
      BY <1>1, <1>2 DEF Types, Last
    <2>4. /\ given' \in Seq(Calls) /\ Len(given') = Len(given)
          /\ \A n \in 1..Len(given) : given'[n] = IF n = Last THEN c ELSE given[n]
      BY <2>1, <2>2, <2>3, ExceptSeq
    <2> QED  BY <1>2, <2>1, <2>3, <2>4, LenProperties DEF Last
  <1>5. Running' = FALSE
    BY DEF Running
  <1>6. DOMAIN todo' = {}
    BY EmptySeq
  <1>7. Types'
    BY <1>1, <1>4 DEF Types, Idle, Streams
  <1>8. InLine'
    BY <1>1, <1>6 DEF InLine
  <1>9. ASSUME NEW x \in Elements(held), e = "ok"  PROVE x.call # Last
    <2>1. given[x.call].to = "stdout"
      BY <1>1 DEF Whose
    <2>2. CASE call.to = "stdout"
      <3>1. held = <<>>
        BY <1>1, <1>9, <2>2 DEF Shape
      <3> QED  BY <1>1, <1>9, <3>1, Bytewise DEF Types
    <2>3. CASE call.to # "stdout"
      BY <1>2, <2>1, <2>3
    <2> QED  BY <2>2, <2>3
  <1>10. Whose'
    <2>1. Newest = Last /\ Newest' = Last + 1
      BY <1>4, <1>5 DEF Newest, Running
    <2>2. child' <= Newest'
      BY <1>1, <1>2, <2>1 DEF Whose, Types
    <2>3. \A x \in Elements(out') : x.call <= Newest' /\ (x.at # 0 => x.call \in 1..Last')
      <3>1. \A x \in Elements(out) : x.call \in Nat /\ x.call <= Last /\ (x.at # 0 => x.call \in 1..Last)
        BY <1>1, <2>1, Bytewise DEF Whose, Types
      <3> QED  BY <1>2, <1>4, <2>1, <3>1
    <2>4. \A x \in Elements(held') : Unanswered(x)' /\ given'[x.call].to = "stdout"
      <3> SUFFICES ASSUME NEW x \in Elements(held)
                   PROVE  Unanswered(x)' /\ given'[x.call].to = "stdout"
        OBVIOUS
      <3>1. Unanswered(x) /\ given[x.call].to = "stdout"
        BY <1>1 DEF Whose
      <3>2. x.call \in DOMAIN given /\ x.call \in 1..Last' /\ x.at # 0
        BY <1>2, <1>4, <3>1 DEF Unanswered
      <3>3. given'[x.call].err # "ok" /\ given'[x.call].to = "stdout"
        BY <1>4, <1>9, <3>1, <3>2 DEF Unanswered
      <3> QED  BY <3>2, <3>3 DEF Unanswered
    <2> QED  BY <1>5, <1>6, <2>2, <2>3, <2>4 DEF Whose
  <1>11. NoOvertaking'
    <2> SUFFICES ASSUME NEW i \in DOMAIN out, NEW j \in DOMAIN out,
                        i < j, out[j].at # 0, out[j].call < out[i].call
                 PROVE  given'[out[j].call].err # "ok"
      BY DEF NoOvertaking
    <2>1. given[out[j].call].err # "ok"
      BY <1>1 DEF NoOvertaking
    <2>2. out[i] \in Elements(out) /\ out[j] \in Elements(out) /\ out[i].call \in Nat /\ out[j].call \in Nat
      BY <1>1, Bytewise DEF Types
    <2>3. out[i].call <= Last /\ out[j].call \in 1..Last
      BY <1>1, <2>2 DEF Whose, Newest
    <2>4. out[j].call # Last
      BY <1>2, <2>2, <2>3
    <2> QED  BY <1>2, <1>4, <2>1, <2>3, <2>4
  <1>12. Shape'
    BY <1>5, <1>6 DEF Shape
  <1>13. Kept'
    <2> SUFFICES ASSUME NEW n \in DOMAIN given, given'[n].to \notin shut, given'[n].err = "ok"
                 PROVE  Elements(given'[n].bytes) \subseteq Elements(out)
      BY <1>4, <1>5 DEF Kept
    <2>1. CASE n # Last
      BY <1>1, <1>4, <2>1 DEF Kept
    <2>2. CASE n = Last
      <3>1. todo = <<>> /\ DOMAIN todo = {}
        BY <1>4, <2>2, EmptySeq
      <3>2. call.to = "stdout" => held = <<>> /\ Elements(held) = {}
        BY <1>1, <3>1, Bytewise DEF Shape, Types
      <3>3. Waiting = {}
        BY <3>1, <3>2 DEF Waiting
      <3> QED  BY <1>1, <1>2, <1>4, <2>2, <3>3 DEF Kept
    <2> QED  BY <2>1, <2>2
  <1> QED  BY <1>7, <1>8, <1>10, <1>11, <1>12, <1>13 DEF OutputInv

(* A call begins, with commands that carry its bytes.                      *)
LEMMA Beginning ==
    ASSUME OutputInv, call = Idle,
           NEW op \in {"write", "exit", "main"}, NEW to \in Streams, NEW b \in Seq(Byte), NEW w,
           \A x \in Elements(b) : x.at # 0 /\ x.call = Last + 1, Carries(w, to, b),
           call' = [op |-> op, to |-> to], todo' = w,
           given' = Append(given, [to |-> to, bytes |-> b, err |-> "running"]),
           UNCHANGED <<shut, held, out, child>>
    PROVE  OutputInv'
  <1>1. Types /\ InLine /\ Whose /\ NoOvertaking /\ Shape /\ Kept
    BY DEF OutputInv
  <1>2. Last \in Nat /\ DOMAIN given = 1..Last
    BY <1>1, LenProperties DEF Types, Last
  <1>3. ~Running
    BY DEF Running
  <1>4. /\ given' \in Seq(Calls) /\ Last' = Last + 1 /\ DOMAIN given' = 1..(Last + 1)
        /\ \A n \in 1..Last : given'[n] = given[n]
        /\ given'[Last + 1] = [to |-> to, bytes |-> b, err |-> "running"]
    <2> DEFINE c == [to |-> to, bytes |-> b, err |-> "running"]
    <2>1. c \in Calls
      BY DEF Calls
    <2> HIDE DEF c
    <2>2. given \in Seq(Calls) /\ given' = Append(given, c)
      BY <1>1 DEF Types, c
    <2>3. /\ given' \in Seq(Calls) /\ Len(given') = Len(given) + 1
          /\ \A n \in 1..Len(given) : given'[n] = given[n]
          /\ given'[Len(given) + 1] = c
      BY <2>1, <2>2
    <2>4. DOMAIN given' = 1..(Len(given) + 1)
      BY <2>3, LenProperties
    <2> QED  BY <2>3, <2>4 DEF Last, c
  <1>5. Running' /\ call'.to = to
    BY DEF Running, Idle
  <1>6. Newest = Last + 1 /\ Newest' = Last + 1
    BY <1>3, <1>4, <1>5 DEF Newest
  <1>7. /\ w \in Seq(Commands)
        /\ \A i \in DOMAIN w : Elements(w[i].bytes) \subseteq Elements(b) /\ w[i].bytes \in Seq(Byte)
    <2>1. w \in Seq(Commands)
      BY DEF Carries
    <2>2. \A i \in DOMAIN w : w[i] \in Commands
      BY <2>1, LenProperties, ElementOfSeq
    <2> QED  BY <2>1, <2>2 DEF Carries, Commands
  <1>8. /\ \A x \in Elements(b) : x.call = Last + 1 /\ x.at \in Nat \ {0}
        /\ \A x \in Elements(out) : x.call \in Nat /\ x.at \in Nat /\ x.call <= Last + 1 /\ (x.at # 0 => x.call \in 1..Last)
        /\ \A x \in Elements(held) : x.call \in 1..Last
    <2>1. \A x \in Elements(b) : x.at \in Nat
      BY Bytewise
    <2>2. \A x \in Elements(out) : x.call \in Nat /\ x.at \in Nat
      BY <1>1, Bytewise DEF Types
    <2> QED  BY <1>1, <1>6, <2>1, <2>2 DEF Whose, Unanswered
  <1>9. Types'
    BY <1>1, <1>4, <1>7 DEF Types, Streams
  <1>10. Before(out, b) /\ Before(held, b)
    <2>1. ASSUME NEW x \in Elements(out), NEW y \in Elements(b), x.call = y.call  PROVE x.at < y.at
      <3>1. x.at = 0
        BY <1>2, <1>8, <2>1
      <3> QED  BY <1>8, <3>1
    <2>2. ASSUME NEW x \in Elements(held), NEW y \in Elements(b)  PROVE x.call # y.call
      BY <1>2, <1>8
    <2> QED  BY <2>1, <2>2 DEF Before
  <1>11. InLine'
    <2>1. \A i \in DOMAIN w : Before(out, w[i].bytes) /\ Before(held, w[i].bytes)
      BY <1>7, <1>10 DEF Before
    <2>2. \A i \in DOMAIN w : Ordered(w[i].bytes) /\ \A j \in DOMAIN w : i < j => Before(w[i].bytes, w[j].bytes)
      BY DEF Carries
    <2>3. Ordered(out) /\ Ordered(held) /\ Before(out, held)
      BY <1>1 DEF InLine
    <2> QED  BY <2>1, <2>2, <2>3 DEF InLine
  <1>12. Whose'
    <2>1. child' <= Newest'
      BY <1>1, <1>6 DEF Whose
    <2>2. \A x \in Elements(out') : x.call <= Newest' /\ (x.at # 0 => x.call \in 1..Last')
      BY <1>2, <1>4, <1>6, <1>8
    <2>3. \A x \in Elements(held') : Unanswered(x)' /\ given'[x.call].to = "stdout"
      <3> SUFFICES ASSUME NEW x \in Elements(held)
                   PROVE  Unanswered(x)' /\ given'[x.call].to = "stdout"
        OBVIOUS
      <3>1. x.at # 0 /\ x.call \in 1..Last /\ given[x.call].err # "ok" /\ given[x.call].to = "stdout"
        BY <1>1 DEF Whose, Unanswered
      <3>2. x.call \in 1..Last'
        BY <1>2, <1>4, <3>1
      <3> QED  BY <1>4, <3>1, <3>2 DEF Unanswered
    <2>4. \A i \in DOMAIN todo' : \A x \in Elements(todo'[i].bytes) : x.at # 0 /\ x.call = Last'
      BY <1>4, <1>7
    <2>5. Last' # 0 /\ given'[Last'].to = call'.to /\ given'[Last'].err = "running"
      BY <1>2, <1>4, <1>5
    <2> QED  BY <1>5, <2>1, <2>2, <2>3, <2>4, <2>5 DEF Whose
  <1>13. NoOvertaking'
    <2> SUFFICES ASSUME NEW i \in DOMAIN out, NEW j \in DOMAIN out,
                        i < j, out[j].at # 0, out[j].call < out[i].call
                 PROVE  given'[out[j].call].err # "ok"
      BY DEF NoOvertaking
    <2>1. given[out[j].call].err # "ok"
      BY <1>1 DEF NoOvertaking
    <2>2. out[j].call \in 1..Last
      BY <1>8 DEF Elements
    <2> QED  BY <1>4, <2>1, <2>2
  <1>14. Shape'
    BY <1>5 DEF Shape, Carries
  <1>15. Kept'
    <2>1. ASSUME NEW n \in DOMAIN given', given'[n].to \notin shut', given'[n].err = "ok"
          PROVE  Elements(given'[n].bytes) \subseteq Elements(out')
      <3>1. n \in 1..Last
        BY <1>2, <1>4, <2>1
      <3> QED  BY <1>1, <1>2, <1>4, <2>1, <3>1 DEF Kept
    <2>2. Elements(given'[Last'].bytes) \subseteq Elements(out') \cup Waiting'
      <3>1. given'[Last'].bytes = b
        BY <1>4
      <3>2. Elements(b) \subseteq UNION {Elements(w[i].bytes) : i \in DOMAIN w}
        BY DEF Carries
      <3> QED  BY <3>1, <3>2 DEF Waiting
    <2> QED  BY <2>1, <2>2 DEF Kept
  <1> QED  BY <1>9, <1>11, <1>12, <1>13, <1>14, <1>15 DEF OutputInv

(* What the commands left to do are made of.                               *)
LEMMA Commanded ==
    ASSUME Types, NEW i \in DOMAIN todo
    PROVE  /\ todo[i] \in Commands /\ todo[i].bytes \in Seq(Byte)
           /\ i \in Nat /\ i \in 1..Len(todo) /\ Len(todo) \in Nat
  <1>1. todo \in Seq(Commands) /\ DOMAIN todo = 1..Len(todo) /\ Len(todo) \in Nat
    BY LenProperties DEF Types
  <1>2. todo[i] \in Commands
    BY <1>1, ElementOfSeq
  <1> QED  BY <1>1, <1>2 DEF Commands

(* Where a place in the join of two is.                                    *)
LEMMA Within ==
    ASSUME NEW s \in Seq(Byte), NEW r \in Seq(Byte), NEW t, t = s \/ t = s \o r,
           NEW j \in DOMAIN t
    PROVE  /\ j \in DOMAIN s => t[j] = s[j] /\ \A i \in DOMAIN t : i < j => i \in DOMAIN s /\ t[i] = s[i]
           /\ j \notin DOMAIN s => t[j] \in Elements(r)
  <1>1. DOMAIN s = 1..Len(s) /\ DOMAIN r = 1..Len(r) /\ Len(s) \in Nat /\ Len(r) \in Nat
    BY LenProperties
  <1>2. CASE t = s
    BY <1>2
  <1>3. CASE t = s \o r
    <2>1. /\ t \in Seq(Byte) /\ Len(t) = Len(s) + Len(r)
          /\ \A i \in 1..(Len(s) + Len(r)) : t[i] = IF i <= Len(s) THEN s[i] ELSE r[i - Len(s)]
      BY <1>3, ConcatProperties
    <2>2. DOMAIN t = 1..(Len(s) + Len(r))
      BY <2>1, LenProperties
    <2>3. ASSUME NEW i \in DOMAIN t, i \in DOMAIN s  PROVE t[i] = s[i]
      <3>1. i <= Len(s)
        BY <1>1, <2>3
      <3> QED  BY <2>1, <2>2, <3>1
    <2>4. ASSUME j \in DOMAIN s, NEW i \in DOMAIN t, i < j  PROVE i \in DOMAIN s
      BY <1>1, <2>2, <2>4, SMT
    <2>5. ASSUME j \notin DOMAIN s  PROVE t[j] \in Elements(r)
      <3>1. j \in Nat /\ ~(j <= Len(s)) /\ j - Len(s) \in 1..Len(r)
        BY <1>1, <2>2, <2>5, SMT
      <3>2. t[j] = r[j - Len(s)]
        BY <2>1, <2>2, <3>1
      <3> QED  BY <1>1, <3>1, <3>2 DEF Elements
    <2> QED  BY <2>3, <2>4, <2>5
  <1> QED  BY <1>2, <1>3

(* Some of what passes the buffer by is written.                           *)
LEMMA Emitting ==
    ASSUME OutputInv, Running, todo # <<>>, Head(todo).do = "direct", WriteOut
    PROVE  OutputInv'
  <1>1. Types /\ InLine /\ Whose /\ NoOvertaking /\ Shape /\ Kept
    BY DEF OutputInv
  <1> DEFINE s == todo[1].bytes
  <1>2. /\ todo \in Seq(Commands) /\ 1 \in DOMAIN todo /\ Head(todo) = todo[1]
        /\ todo[1].do = "direct" /\ s \in Seq(Byte)
    BY <1>1, Dropped, Commanded DEF Types
  <1>3. PICK n \in Taken(s) : Emit(s, n) /\ Then(After(s, n))
    BY <1>2 DEF WriteOut
  <1>4. UNCHANGED <<shut, held, call, given, child>>
    BY DEF WriteOut
  <1>5. n \in 0..Len(s) /\ Len(s) \in Nat
    BY <1>2 DEF Taken
  <1> DEFINE a == SubSeq(s, 1, n)
             r == SubSeq(s, n + 1, Len(s))
  <1>6. \A x \in Elements(s) : x.at # 0 /\ x.call = Last /\ x.call \in Nat /\ x.at \in Nat
    BY <1>1, <1>2, Bytewise DEF Whose
  <1>7. Ordered(s) /\ Before(out, s) /\ Before(held, s)
    BY <1>1, <1>2 DEF InLine
  <1>8. /\ a \in Seq(Byte) /\ r \in Seq(Byte)
        /\ Elements(s) = Elements(a) \cup Elements(r)
        /\ Ordered(a) /\ Ordered(r) /\ Before(a, r)
    BY <1>2, <1>5, <1>6, <1>7, Halves
  <1>9. out' = IF call.to \in shut THEN out ELSE out \o a
    BY <1>3 DEF Emit
  <1>10. /\ todo' \in Seq(Commands) /\ DOMAIN todo' = DOMAIN todo /\ Len(todo') = Len(todo) /\ todo' # <<>>
         /\ todo'[1].do = "direct" /\ todo'[1].bytes = r
         /\ \A i \in DOMAIN todo : i # 1 => todo'[i] = todo[i]
    <2> DEFINE c == [todo[1] EXCEPT !.bytes = r]
    <2>1. c \in Commands /\ c.do = "direct" /\ c.bytes = r
      BY <1>1, <1>2, <1>8, Commanded DEF Commands
    <2>2. todo' = <<c>> \o Tail(todo)
      BY <1>2, <1>3 DEF Then, After
    <2> HIDE DEF c, r
    <2> QED  BY <1>2, <2>1, <2>2, NewHead
  <1> HIDE DEF a, r, s
  <1>11. Before(out, a) /\ Before(out, r) /\ Before(held, r)
    BY <1>7, <1>8 DEF Before
  <1>12. /\ out' \in Seq(Byte) /\ Ordered(out')
         /\ Elements(out') = Elements(out) \cup (IF call.to \in shut THEN {} ELSE Elements(a))
    BY <1>1, <1>8, <1>9, <1>11, Joined DEF Types, InLine
  <1>13. Before(a, held)
    <2> SUFFICES ASSUME NEW x \in Elements(a), NEW y \in Elements(held), x.call = y.call
                 PROVE  FALSE
      BY DEF Before
    <2>1. call.to = "stderr"
      <3>1. call.to = "stdout" => held = <<>>
        BY <1>1, <1>2 DEF Shape
      <3>2. held # <<>>
        BY <1>1, Bytewise DEF Types
      <3> QED  BY <1>1, <3>1, <3>2 DEF Types, Streams
    <2>2. x.call = Last /\ given[Last].to = "stdout"
      BY <1>1, <1>6, <1>8 DEF Whose
    <2>3. given[Last].to = call.to
      BY <1>1 DEF Whose
    <2> QED  BY <2>1, <2>2, <2>3
  <1>14. Types'
    BY <1>1, <1>4, <1>10, <1>12 DEF Types
  <1>15. InLine'
    <2>1. Ordered(held') /\ Before(out', held')
      BY <1>1, <1>4, <1>12, <1>13 DEF InLine, Before
    <2>2. ASSUME NEW i \in DOMAIN todo'
          PROVE  /\ Ordered(todo'[i].bytes) /\ Before(out', todo'[i].bytes) /\ Before(held', todo'[i].bytes)
                 /\ \A j \in DOMAIN todo' : i < j => Before(todo'[i].bytes, todo'[j].bytes)
      <3>1. CASE i = 1
        <4>1. Ordered(r) /\ Before(out', r) /\ Before(held', r)
          BY <1>4, <1>8, <1>11, <1>12 DEF Before
        <4>2. ASSUME NEW j \in DOMAIN todo', 1 < j  PROVE Before(r, todo'[j].bytes)
          <5>1. j \in DOMAIN todo /\ j # 1 /\ todo'[j] = todo[j]
            BY <1>10, <4>2
          <5>2. Before(s, todo[j].bytes)
            BY <1>1, <1>2, <4>2, <5>1 DEF InLine, s
          <5> QED  BY <1>8, <5>1, <5>2 DEF Before
        <4> QED  BY <1>10, <3>1, <4>1, <4>2
      <3>2. CASE i # 1
        <4>1. i \in DOMAIN todo /\ todo'[i] = todo[i] /\ 1 < i
          BY <1>1, <1>10, <3>2, Commanded
        <4>2. /\ Ordered(todo[i].bytes) /\ Before(out, todo[i].bytes) /\ Before(held, todo[i].bytes)
              /\ Before(s, todo[i].bytes)
          BY <1>1, <1>2, <4>1 DEF InLine, s
        <4>3. Before(out', todo'[i].bytes)
          BY <1>8, <1>12, <4>1, <4>2 DEF Before
        <4>4. ASSUME NEW j \in DOMAIN todo', i < j  PROVE Before(todo'[i].bytes, todo'[j].bytes)
          <5>1. j \in DOMAIN todo /\ j # 1
            BY <1>1, <1>10, <4>1, <4>4, Commanded
          <5> QED  BY <1>1, <1>10, <4>1, <4>4, <5>1 DEF InLine
        <4> QED  BY <1>4, <4>1, <4>2, <4>3, <4>4
      <3> QED  BY <3>1, <3>2
    <2> QED  BY <1>12, <2>1, <2>2 DEF InLine
  <1>16. Newest' = Newest /\ Newest = Last /\ Last' = Last /\ Last \in Nat /\ Last # 0 /\ Running'
    BY <1>1, <1>4, LenProperties DEF Newest, Last, Running, Whose, Types
  <1>17. Whose'
    <2>1. \A x \in Elements(out') : x.call <= Newest' /\ (x.at # 0 => x.call \in 1..Last')
      <3>1. \A x \in Elements(a) : x.call <= Last /\ x.call \in 1..Last
        BY <1>6, <1>8, <1>16
      <3> QED  BY <1>1, <1>12, <1>16, <3>1 DEF Whose
    <2>2. \A x \in Elements(held') : Unanswered(x)' /\ given'[x.call].to = "stdout"
      BY <1>1, <1>4, <1>16 DEF Whose, Unanswered
    <2>3. \A i \in DOMAIN todo' : \A x \in Elements(todo'[i].bytes) : x.at # 0 /\ x.call = Last'
      <3> TAKE i \in DOMAIN todo'
      <3>1. CASE i = 1
        BY <1>6, <1>8, <1>10, <1>16, <3>1
      <3>2. CASE i # 1
        BY <1>1, <1>10, <1>16, <3>2 DEF Whose
      <3> QED  BY <3>1, <3>2
    <2> QED  BY <1>1, <1>4, <1>16, <2>1, <2>2, <2>3 DEF Whose
  <1>18. NoOvertaking'
    <2> SUFFICES ASSUME NEW i \in DOMAIN out', NEW j \in DOMAIN out',
                        i < j, out'[j].at # 0, out'[j].call < out'[i].call
                 PROVE  given[out'[j].call].err # "ok"
      BY <1>4 DEF NoOvertaking
    <2>1. CASE j \in DOMAIN out
      <3>1. i \in DOMAIN out /\ out'[i] = out[i] /\ out'[j] = out[j]
        BY <1>1, <1>8, <1>9, <2>1, Within DEF Types
      <3> QED  BY <1>1, <2>1, <3>1 DEF NoOvertaking
    <2>2. CASE j \notin DOMAIN out
      <3>1. out'[j] \in Elements(a)
        BY <1>1, <1>8, <1>9, <2>2, Within DEF Types
      <3>2. out'[j].call = Last
        BY <1>6, <1>8, <3>1
      <3>3. out'[i].call <= Last /\ out'[i].call \in Nat
        BY <1>12, <1>16, <1>17, Bytewise DEF Whose
      <3> QED  BY <1>16, <3>2, <3>3
    <2> QED  BY <2>1, <2>2
  <1>19. Shape'
    <2>1. \A i \in DOMAIN todo' : todo'[i].do = todo[i].do /\ (i # 1 => todo'[i] = todo[i])
      BY <1>2, <1>10
    <2>2. \A i \in DOMAIN todo' :
            /\ todo'[i].do = "drain" => todo'[i].bytes = <<>>
            /\ call'.to = "stderr" => todo'[i].do = "direct"
            /\ call'.to = "stdout" /\ todo'[i].do = "direct" => i = 1 /\ held' = <<>>
      BY <1>1, <1>2, <1>4, <1>10, <2>1 DEF Shape
    <2>3. call'.to = "stdout" => todo'[Len(todo')].do = "drain"
      <3>1. Len(todo) \in DOMAIN todo
        BY <1>1, <1>2, Commanded, LenProperties
      <3> QED  BY <1>1, <1>2, <1>4, <1>10, <2>1, <3>1 DEF Shape
    <2> QED  BY <1>10, <2>2, <2>3 DEF Shape
  <1>20. Kept'
    <2>1. \A m \in DOMAIN given' :
             given'[m].to \notin shut' /\ given'[m].err = "ok" => Elements(given'[m].bytes) \subseteq Elements(out')
      BY <1>1, <1>4, <1>12 DEF Kept
    <2>2. ASSUME call.to \notin shut
          PROVE  Elements(given[Last].bytes) \subseteq Elements(out') \cup Waiting'
      <3>1. Elements(given[Last].bytes) \subseteq Elements(out) \cup Waiting
        BY <1>1, <2>2 DEF Kept
      <3>2. ASSUME NEW x \in Waiting  PROVE x \in Elements(out') \cup Waiting'
        <4>1. CASE call.to = "stdout" /\ x \in Elements(held)
          BY <1>4, <4>1 DEF Waiting
        <4>2. CASE \E i \in DOMAIN todo : x \in Elements(todo[i].bytes)
          <5>1. PICK i \in DOMAIN todo : x \in Elements(todo[i].bytes)
            BY <4>2
          <5>2. CASE i = 1
            <6>1. x \in Elements(a) \/ x \in Elements(todo'[1].bytes)
              BY <1>8, <1>10, <5>1, <5>2 DEF s
            <6> QED  BY <1>2, <1>10, <1>12, <2>2, <6>1 DEF Waiting
          <5>3. CASE i # 1
            BY <1>10, <5>1, <5>3 DEF Waiting
          <5> QED  BY <5>2, <5>3
        <4> QED  BY <4>1, <4>2 DEF Waiting
      <3> QED  BY <1>12, <3>1, <3>2
    <2> QED  BY <1>4, <1>16, <2>1, <2>2 DEF Kept
  <1> QED  BY <1>14, <1>15, <1>17, <1>18, <1>19, <1>20 DEF OutputInv

(* Some of the buffer is written.                                          *)
LEMMA Draining ==
    ASSUME OutputInv, Running, todo # <<>>, Head(todo).do = "drain", DrainOut
    PROVE  OutputInv'
  <1>1. Types /\ InLine /\ Whose /\ NoOvertaking /\ Shape /\ Kept
    BY DEF OutputInv
  <1>2. /\ todo \in Seq(Commands) /\ 1 \in DOMAIN todo /\ todo[1].do = "drain" /\ held \in Seq(Byte)
    BY <1>1, Dropped DEF Types
  <1>3. PICK n \in Taken(held) : Emit(held, n) /\ held' = After(held, n)
    BY DEF DrainOut
  <1>4. UNCHANGED <<shut, call, todo, given, child>>
    BY DEF DrainOut
  <1>5. n \in 0..Len(held) /\ Len(held) \in Nat
    BY <1>2 DEF Taken
  <1> DEFINE a == SubSeq(held, 1, n)
             r == SubSeq(held, n + 1, Len(held))
  <1>6. \A x \in Elements(held) : x.at # 0 /\ x.call \in 1..Last /\ given[x.call].err # "ok"
    BY <1>1 DEF Whose, Unanswered
  <1>7. Ordered(held) /\ Before(out, held)
    BY <1>1 DEF InLine
  <1>8. /\ a \in Seq(Byte) /\ r \in Seq(Byte)
        /\ Elements(held) = Elements(a) \cup Elements(r)
        /\ Ordered(a) /\ Ordered(r) /\ Before(a, r)
    BY <1>2, <1>5, <1>6, <1>7, Halves
  <1>9. held' = r /\ out' = IF call.to \in shut THEN out ELSE out \o a
    BY <1>3 DEF Emit, After
  <1> HIDE DEF a, r
  <1>10. call.to = "stdout"
    BY <1>1, <1>2 DEF Shape, Types, Streams
  <1>11. Before(out, a) /\ Before(out, r)
    BY <1>7, <1>8 DEF Before
  <1>12. /\ out' \in Seq(Byte) /\ Ordered(out')
         /\ Elements(out') = Elements(out) \cup (IF call.to \in shut THEN {} ELSE Elements(a))
    BY <1>1, <1>8, <1>9, <1>11, Joined DEF Types, InLine
  <1>13. Types'
    BY <1>1, <1>4, <1>8, <1>9, <1>12 DEF Types
  <1>14. InLine'
    <2>1. Ordered(held') /\ Before(out', held')
      BY <1>8, <1>9, <1>11, <1>12 DEF Before
    <2>2. ASSUME NEW i \in DOMAIN todo
          PROVE  /\ Ordered(todo[i].bytes) /\ Before(out', todo[i].bytes) /\ Before(held', todo[i].bytes)
                 /\ \A j \in DOMAIN todo : i < j => Before(todo[i].bytes, todo[j].bytes)
      <3>1. /\ Ordered(todo[i].bytes) /\ Before(out, todo[i].bytes) /\ Before(held, todo[i].bytes)
            /\ \A j \in DOMAIN todo : i < j => Before(todo[i].bytes, todo[j].bytes)
        BY <1>1 DEF InLine
      <3>2. Before(out', todo[i].bytes) /\ Before(held', todo[i].bytes)
        BY <1>8, <1>9, <1>12, <3>1 DEF Before
      <3> QED  BY <3>1, <3>2
    <2> QED  BY <1>4, <1>12, <2>1, <2>2 DEF InLine
  <1>15. Newest' = Newest /\ Newest = Last /\ Last' = Last /\ Last \in Nat /\ Last # 0 /\ Running'
    BY <1>1, <1>4, LenProperties DEF Newest, Last, Running, Whose, Types
  <1>16. Whose'
    <2>1. \A x \in Elements(out') : x.call <= Newest' /\ (x.at # 0 => x.call \in 1..Last')
      <3>1. \A x \in Elements(a) : x.call \in 1..Last
        BY <1>6, <1>8
      <3>2. \A x \in Elements(a) : x.call <= Last
        BY <1>15, <3>1
      <3> QED  BY <1>1, <1>12, <1>15, <3>1, <3>2 DEF Whose
    <2>2. \A x \in Elements(held') : Unanswered(x)' /\ given'[x.call].to = "stdout"
      BY <1>1, <1>4, <1>8, <1>9, <1>15 DEF Whose, Unanswered
    <2> QED  BY <1>1, <1>4, <1>15, <2>1, <2>2 DEF Whose
  <1>17. NoOvertaking'
    <2> SUFFICES ASSUME NEW i \in DOMAIN out', NEW j \in DOMAIN out',
                        i < j, out'[j].at # 0, out'[j].call < out'[i].call
                 PROVE  given[out'[j].call].err # "ok"
      BY <1>4 DEF NoOvertaking
    <2>1. CASE j \in DOMAIN out
      <3>1. i \in DOMAIN out /\ out'[i] = out[i] /\ out'[j] = out[j]
        BY <1>1, <1>8, <1>9, <2>1, Within DEF Types
      <3> QED  BY <1>1, <2>1, <3>1 DEF NoOvertaking
    <2>2. CASE j \notin DOMAIN out
      <3>1. out'[j] \in Elements(a)
        BY <1>1, <1>8, <1>9, <2>2, Within DEF Types
      <3> QED  BY <1>6, <1>8, <3>1
    <2> QED  BY <2>1, <2>2
  <1>18. Shape'
    <2>1. \A i \in DOMAIN todo : ~(call.to = "stdout" /\ todo[i].do = "direct")
      BY <1>1, <1>2 DEF Shape
    <2>2. todo # <<>> /\ todo[Len(todo)].do = "drain"
      BY <1>1, <1>10 DEF Shape
    <2> QED  BY <1>1, <1>4, <2>1, <2>2 DEF Shape
  <1>19. Kept'
    <2>1. \A m \in DOMAIN given' :
             given'[m].to \notin shut' /\ given'[m].err = "ok" => Elements(given'[m].bytes) \subseteq Elements(out')
      BY <1>1, <1>4, <1>12 DEF Kept
    <2>2. ASSUME call.to \notin shut
          PROVE  Elements(given[Last].bytes) \subseteq Elements(out') \cup Waiting'
      <3>1. Elements(given[Last].bytes) \subseteq Elements(out) \cup Waiting
        BY <1>1, <2>2 DEF Kept
      <3>2. Waiting \subseteq Elements(out') \cup Waiting'
        BY <1>4, <1>8, <1>9, <1>12, <2>2 DEF Waiting
      <3> QED  BY <1>12, <3>1, <3>2
    <2> QED  BY <1>4, <1>15, <2>1, <2>2 DEF Kept
  <1> QED  BY <1>13, <1>14, <1>16, <1>17, <1>18, <1>19 DEF OutputInv

(* The next command: the one done has nothing left to write, or has put it *)
(* in the buffer.                                                          *)
LEMMA NextOne ==
    ASSUME OutputInv, Running, todo # <<>>, Next1, NEW b \in Seq(Byte),
           \/ todo[1].bytes = <<>> /\ b = <<>> /\ (todo[1].do = "drain" => held = <<>>)
           \/ todo[1].do = "put" /\ b = todo[1].bytes,
           held' = held \o b, UNCHANGED <<shut, call, out, given, child>>
    PROVE  OutputInv'
  <1>1. Types /\ InLine /\ Whose /\ NoOvertaking /\ Shape /\ Kept
    BY DEF OutputInv
  <1>2. /\ todo' \in Seq(Commands) /\ Len(todo) = Len(todo') + 1 /\ 1 \in DOMAIN todo
        /\ \A i \in DOMAIN todo' : i + 1 \in DOMAIN todo /\ todo'[i] = todo[i + 1]
        /\ \A i \in DOMAIN todo : i # 1 => i - 1 \in DOMAIN todo' /\ todo[i] = todo'[i - 1]
    BY <1>1, Dropped DEF Types, Next1
  <1>3. /\ DOMAIN todo' = 1..Len(todo') /\ Len(todo') \in Nat
        /\ DOMAIN todo = 1..Len(todo) /\ Len(todo) \in Nat
    BY <1>1, <1>2, LenProperties DEF Types
  <1>4. b = <<>> \/ b = todo[1].bytes
    OBVIOUS
  <1>5. \A s \in Seq(Byte) : s = <<>> => Ordered(s) /\ Elements(s) = {}
    BY EmptySeq, Bytewise DEF Ordered
  <1>6. /\ Ordered(b) /\ Before(out, b) /\ Before(held, b)
        /\ \A i \in DOMAIN todo' : Before(b, todo'[i].bytes)
    <2>1. CASE b = <<>>
      BY <1>5, <2>1 DEF Before
    <2>2. CASE b = todo[1].bytes
      <3>1. Ordered(b) /\ Before(out, b) /\ Before(held, b)
        BY <1>1, <1>2, <2>2 DEF InLine
      <3>2. ASSUME NEW i \in DOMAIN todo'  PROVE 1 < i + 1 /\ i + 1 \in DOMAIN todo
        BY <1>2, <1>3
      <3>3. \A i \in DOMAIN todo' : Before(b, todo'[i].bytes)
        BY <1>1, <1>2, <2>2, <3>2 DEF InLine
      <3> QED  BY <3>1, <3>3
    <2> QED  BY <1>4, <2>1, <2>2
  <1>7. /\ held' \in Seq(Byte) /\ Elements(held') = Elements(held) \cup Elements(b) /\ Ordered(held')
    BY <1>1, <1>6, Joined DEF Types, InLine
  <1>8. Types'
    BY <1>1, <1>2, <1>7 DEF Types
  <1>9. InLine'
    <2>1. Before(out', held')
      BY <1>1, <1>6, <1>7 DEF InLine, Before
    <2>2. ASSUME NEW i \in DOMAIN todo'
          PROVE  /\ Ordered(todo'[i].bytes) /\ Before(out', todo'[i].bytes) /\ Before(held', todo'[i].bytes)
                 /\ \A j \in DOMAIN todo' : i < j => Before(todo'[i].bytes, todo'[j].bytes)
      <3>1. /\ Ordered(todo'[i].bytes) /\ Before(out, todo'[i].bytes) /\ Before(held, todo'[i].bytes)
        BY <1>1, <1>2 DEF InLine
      <3>2. Before(held', todo'[i].bytes)
        BY <1>6, <1>7, <3>1 DEF Before
      <3>3. ASSUME NEW j \in DOMAIN todo', i < j  PROVE Before(todo'[i].bytes, todo'[j].bytes)
        <4>1. i + 1 < j + 1
          BY <1>3, <3>3
        <4> QED  BY <1>1, <1>2, <4>1 DEF InLine
      <3> QED  BY <3>1, <3>2, <3>3
    <2> QED  BY <1>1, <1>7, <2>1, <2>2 DEF InLine
  <1>10. Newest' = Newest /\ Newest = Last /\ Last' = Last /\ Last \in Nat /\ Last # 0 /\ Running'
    BY <1>1, LenProperties DEF Newest, Last, Running, Whose, Types
  <1>11. b # <<>> => call.to = "stdout" /\ todo[1].do = "put"
    BY <1>1, <1>2 DEF Shape, Types, Streams
  <1>12. Whose'
    <2>1. ASSUME NEW x \in Elements(b)  PROVE Unanswered(x) /\ given[x.call].to = "stdout"
      <3>1. b # <<>>
        BY <1>5, <2>1
      <3>2. x \in Elements(todo[1].bytes)
        BY <1>4, <2>1, <3>1
      <3>3. x.at # 0 /\ x.call = Last /\ given[Last].to = call.to /\ given[Last].err = "running"
        BY <1>1, <1>2, <3>2 DEF Whose
      <3> QED  BY <1>10, <1>11, <3>1, <3>3 DEF Unanswered
    <2>2. \A x \in Elements(held') : Unanswered(x) /\ given[x.call].to = "stdout"
      BY <1>1, <1>7, <2>1 DEF Whose
    <2>3. \A x \in Elements(held') : Unanswered(x)' /\ given'[x.call].to = "stdout"
      BY <1>10, <2>2 DEF Unanswered
    <2>4. \A i \in DOMAIN todo' : \A x \in Elements(todo'[i].bytes) : x.at # 0 /\ x.call = Last'
      BY <1>1, <1>2, <1>10 DEF Whose
    <2> QED  BY <1>1, <1>10, <2>3, <2>4 DEF Whose
  <1>13. NoOvertaking'
    BY <1>1 DEF NoOvertaking
  <1>14. Shape'
    <2>1. ASSUME NEW i \in DOMAIN todo'
          PROVE  /\ todo'[i].do = "drain" => todo'[i].bytes = <<>>
                 /\ call.to = "stderr" => todo'[i].do = "direct"
                 /\ ~(call.to = "stdout" /\ todo'[i].do = "direct")
      <3>1. i + 1 # 1 /\ i + 1 \in DOMAIN todo /\ todo'[i] = todo[i + 1]
        BY <1>2, <1>3
      <3> QED  BY <1>1, <3>1 DEF Shape
    <2>2. ASSUME call.to = "stdout"
          PROVE  IF todo' = <<>> THEN held' = <<>> ELSE todo'[Len(todo')].do = "drain"
      <3>1. todo[Len(todo)].do = "drain"
        BY <1>1, <2>2 DEF Shape
      <3>2. CASE todo' = <<>>
        <4>1. Len(todo) = 1
          BY <1>2, <3>2, EmptySeq
        <4>2. b = <<>> /\ held = <<>>
          BY <3>1, <4>1
        <4> QED  BY <1>1, <3>2, <4>2, ConcatEmptySeq DEF Types
      <3>3. CASE todo' # <<>>
        <4>1. Len(todo') \in DOMAIN todo'
          BY <1>2, <1>3, <3>3, EmptySeq
        <4> QED  BY <1>2, <3>1, <3>3, <4>1
      <3> QED  BY <3>2, <3>3
    <2> QED  BY <2>1, <2>2 DEF Shape
  <1>15. Kept'
    <2>1. Waiting \subseteq Waiting'
      <3> SUFFICES ASSUME NEW x \in Waiting  PROVE x \in Waiting'
        OBVIOUS
      <3>1. CASE call.to = "stdout" /\ x \in Elements(held)
        BY <1>7, <3>1 DEF Waiting
      <3>2. CASE \E i \in DOMAIN todo : x \in Elements(todo[i].bytes)
        <4>1. PICK i \in DOMAIN todo : x \in Elements(todo[i].bytes)
          BY <3>2
        <4>2. CASE i = 1
          <5>1. todo[1].bytes # <<>>
            BY <1>5, <4>1, <4>2, EmptySeq
          <5>2. b = todo[1].bytes /\ call.to = "stdout"
            BY <1>11, <5>1
          <5> QED  BY <1>7, <4>1, <4>2, <5>2 DEF Waiting
        <4>3. CASE i # 1
          BY <1>2, <4>1, <4>3 DEF Waiting
        <4> QED  BY <4>2, <4>3
      <3> QED  BY <3>1, <3>2 DEF Waiting
    <2> QED  BY <1>1, <1>10, <2>1 DEF Kept
  <1> QED  BY <1>8, <1>9, <1>12, <1>13, <1>14, <1>15 DEF OutputInv

(* What is not enough room for waits for the buffer to drain.              *)
LEMMA DrainingFirst ==
    ASSUME OutputInv, Running, todo # <<>>, todo[1].do = "put", todo' = <<Drain>> \o todo,
           UNCHANGED <<shut, held, call, out, given, child>>
    PROVE  OutputInv'
  <1>1. Types /\ InLine /\ Whose /\ NoOvertaking /\ Shape /\ Kept
    BY DEF OutputInv
  <1>2. Drain \in Commands /\ Drain.do = "drain" /\ Drain.bytes = <<>> /\ Elements(<<>>) = {} /\ Ordered(<<>>)
    BY EmptySeq DEF Drain, Commands, Elements, Ordered
  <1>3. /\ todo' \in Seq(Commands) /\ todo' # <<>> /\ Len(todo') = Len(todo) + 1
        /\ 1 \in DOMAIN todo' /\ todo'[1] = Drain
        /\ \A i \in DOMAIN todo' : i # 1 => i - 1 \in DOMAIN todo /\ todo'[i] = todo[i - 1]
        /\ \A i \in DOMAIN todo : i + 1 \in DOMAIN todo' /\ todo'[i + 1] = todo[i]
    BY <1>1, <1>2, Pushed DEF Types
  <1>4. /\ DOMAIN todo' = 1..Len(todo') /\ Len(todo') \in Nat
        /\ DOMAIN todo = 1..Len(todo) /\ Len(todo) \in Nat /\ 1 \in DOMAIN todo
    BY <1>1, <1>3, LenProperties, Dropped DEF Types
  <1>5. Types'
    BY <1>1, <1>3 DEF Types
  <1>6. InLine'
    <2>1. ASSUME NEW i \in DOMAIN todo'
          PROVE  /\ Ordered(todo'[i].bytes) /\ Before(out, todo'[i].bytes) /\ Before(held, todo'[i].bytes)
                 /\ \A j \in DOMAIN todo' : i < j => Before(todo'[i].bytes, todo'[j].bytes)
      <3>1. CASE i = 1
        BY <1>2, <1>3, <3>1 DEF Before
      <3>2. CASE i # 1
        <4>1. i - 1 \in DOMAIN todo /\ todo'[i] = todo[i - 1]
          BY <1>3, <3>2
        <4>2. ASSUME NEW j \in DOMAIN todo', i < j  PROVE Before(todo'[i].bytes, todo'[j].bytes)
          <5>1. j # 1 /\ i - 1 < j - 1
            BY <1>4, <4>2
          <5>2. j - 1 \in DOMAIN todo /\ todo'[j] = todo[j - 1]
            BY <1>3, <5>1
          <5> QED  BY <1>1, <4>1, <5>1, <5>2 DEF InLine
        <4> QED  BY <1>1, <4>1, <4>2 DEF InLine
      <3> QED  BY <3>1, <3>2
    <2> QED  BY <1>1, <2>1 DEF InLine
  <1>7. Newest' = Newest /\ Newest = Last /\ Last' = Last /\ Running'
    BY DEF Newest, Last, Running
  <1>8. Whose'
    <2>1. \A x \in Elements(held') : Unanswered(x)' /\ given'[x.call].to = "stdout"
      BY <1>1, <1>7 DEF Whose, Unanswered
    <2>2. ASSUME NEW i \in DOMAIN todo', NEW x \in Elements(todo'[i].bytes)
          PROVE  x.at # 0 /\ x.call = Last'
      <3>1. i # 1
        BY <1>2, <1>3, <2>2
      <3> QED  BY <1>1, <1>3, <1>7, <2>2, <3>1 DEF Whose
    <2> QED  BY <1>1, <1>7, <2>1, <2>2 DEF Whose
  <1>9. NoOvertaking'
    BY <1>1 DEF NoOvertaking
  <1>10. call.to = "stdout"
    BY <1>1, <1>4 DEF Shape, Types, Streams
  <1>11. Shape'
    <2>1. ASSUME NEW i \in DOMAIN todo'
          PROVE  todo'[i].do # "direct" /\ (todo'[i].do = "drain" => todo'[i].bytes = <<>>)
      <3>1. CASE i = 1
        BY <1>2, <1>3, <3>1
      <3>2. CASE i # 1
        <4>1. i - 1 \in DOMAIN todo /\ todo'[i] = todo[i - 1]
          BY <1>3, <3>2
        <4> QED  BY <1>1, <1>10, <4>1 DEF Shape
      <3> QED  BY <3>1, <3>2
    <2>2. todo'[Len(todo')].do = "drain"
      <3>1. todo'[Len(todo')] = todo[Len(todo)]
        BY <1>3, <1>4
      <3> QED  BY <1>1, <1>10, <3>1 DEF Shape
    <2> QED  BY <1>3, <1>10, <2>1, <2>2 DEF Shape
  <1>12. Kept'
    <2>1. Waiting \subseteq Waiting'
      <3> SUFFICES ASSUME NEW x \in Waiting  PROVE x \in Waiting'
        OBVIOUS
      <3>1. CASE \E i \in DOMAIN todo : x \in Elements(todo[i].bytes)
        <4>1. PICK i \in DOMAIN todo : x \in Elements(todo[i].bytes)
          BY <3>1
        <4>2. i + 1 \in DOMAIN todo' /\ x \in Elements(todo'[i + 1].bytes)
          BY <1>3, <4>1
        <4> QED  BY <4>2 DEF Waiting
      <3> QED  BY <3>1 DEF Waiting
    <2> QED  BY <1>1, <1>7, <2>1 DEF Kept
  <1> QED  BY <1>5, <1>6, <1>8, <1>9, <1>11, <1>12 DEF OutputInv

(* What would fill an empty buffer passes it by.                           *)
LEMMA PassingBy ==
    ASSUME OutputInv, Running, todo # <<>>, todo[1].do = "put", held = <<>>,
           todo' = <<Direct(todo[1].bytes)>> \o Tail(todo),
           UNCHANGED <<shut, held, call, out, given, child>>
    PROVE  OutputInv'
  <1>1. Types /\ InLine /\ Whose /\ NoOvertaking /\ Shape /\ Kept
    BY DEF OutputInv
  <1>2. todo \in Seq(Commands) /\ 1 \in DOMAIN todo /\ todo[1].bytes \in Seq(Byte)
    BY <1>1, Dropped, Commanded DEF Types
  <1>3. /\ todo' \in Seq(Commands) /\ todo' # <<>> /\ Len(todo') = Len(todo) /\ DOMAIN todo' = DOMAIN todo
        /\ todo'[1].do = "direct" /\ todo'[1].bytes = todo[1].bytes
        /\ \A i \in DOMAIN todo : i # 1 => todo'[i] = todo[i]
    <2> DEFINE c == Direct(todo[1].bytes)
    <2>1. c \in Commands /\ c.do = "direct" /\ c.bytes = todo[1].bytes
      BY <1>2 DEF Direct, Commands
    <2>2. todo' = <<c>> \o Tail(todo)
      OBVIOUS
    <2> HIDE DEF c
    <2> QED  BY <1>2, <2>1, <2>2, NewHead
  <1>4. \A i \in DOMAIN todo' : i \in DOMAIN todo /\ todo'[i].bytes = todo[i].bytes
    BY <1>3
  <1>5. Types'
    BY <1>1, <1>3 DEF Types
  <1>6. InLine'
    BY <1>1, <1>3, <1>4 DEF InLine
  <1>7. Newest' = Newest /\ Last' = Last /\ Running'
    BY DEF Newest, Last, Running
  <1>8. Whose'
    BY <1>1, <1>4, <1>7 DEF Whose, Unanswered
  <1>9. NoOvertaking'
    BY <1>1 DEF NoOvertaking
  <1>10. call.to = "stdout"
    BY <1>1, <1>2 DEF Shape, Types, Streams
  <1>11. Shape'
    <2>1. ASSUME NEW i \in DOMAIN todo'
          PROVE  (todo'[i].do = "drain" => todo'[i].bytes = <<>>) /\ (todo'[i].do = "direct" => i = 1)
      BY <1>1, <1>3, <1>10, <2>1 DEF Shape
    <2>2. todo'[Len(todo')].do = "drain"
      <3>1. Len(todo) \in DOMAIN todo /\ todo[Len(todo)].do = "drain"
        BY <1>1, <1>2, <1>10, Commanded, LenProperties DEF Shape
      <3> QED  BY <1>3, <3>1
    <2> QED  BY <1>3, <1>10, <2>1, <2>2 DEF Shape
  <1>12. Kept'
    <2>1. Waiting \subseteq Waiting'
      <3>1. \A i \in DOMAIN todo : i \in DOMAIN todo' /\ todo'[i].bytes = todo[i].bytes
        BY <1>3
      <3> SUFFICES ASSUME NEW x \in Waiting  PROVE x \in Waiting'
        OBVIOUS
      <3>2. CASE \E i \in DOMAIN todo : x \in Elements(todo[i].bytes)
        <4>1. PICK i \in DOMAIN todo : x \in Elements(todo[i].bytes)
          BY <3>2
        <4>2. i \in DOMAIN todo' /\ x \in Elements(todo'[i].bytes)
          BY <3>1, <4>1
        <4> QED  BY <4>2 DEF Waiting
      <3> QED  BY <3>2 DEF Waiting
    <2> QED  BY <1>1, <1>7, <2>1 DEF Kept
  <1> QED  BY <1>5, <1>6, <1>8, <1>9, <1>11, <1>12 DEF OutputInv

(* A child writes a byte of its own.                                       *)
LEMMA ChildWriting ==
    ASSUME OutputInv, ChildWrites
    PROVE  OutputInv'
  <1>1. Types /\ InLine /\ Whose /\ NoOvertaking /\ Shape /\ Kept
    BY DEF OutputInv
  <1> DEFINE c == [call |-> child, at |-> 0, nl |-> FALSE]
  <1>2. out' = Append(out, c) /\ UNCHANGED <<shut, held, call, todo, given, child>>
    BY DEF ChildWrites
  <1>3. c \in Byte /\ c.at = 0 /\ c.call = child
    BY <1>1 DEF Types, Byte
  <1> HIDE DEF c
  <1>4. /\ out' \in Seq(Byte) /\ Len(out') = Len(out) + 1
        /\ DOMAIN out = 1..Len(out) /\ DOMAIN out' = 1..(Len(out) + 1) /\ Len(out) \in Nat
        /\ \A i \in 1..Len(out) : out'[i] = out[i]
        /\ out'[Len(out) + 1] = c
    <2>1. /\ out \in Seq(Byte) /\ out' \in Seq(Byte) /\ Len(out') = Len(out) + 1
          /\ \A i \in 1..Len(out) : out'[i] = out[i]
          /\ out'[Len(out) + 1] = c
      BY <1>1, <1>2, <1>3 DEF Types
    <2> QED  BY <2>1, LenProperties
  <1>5. \A i \in DOMAIN out' : (i \in DOMAIN out /\ out'[i] = out[i]) \/ (i = Len(out) + 1 /\ out'[i] = c)
    <2>1. Len(out) \in Nat /\ DOMAIN out = 1..Len(out) /\ DOMAIN out' = 1..(Len(out) + 1)
      BY <1>4
    <2>2. \A i \in DOMAIN out' : i \in DOMAIN out \/ i = Len(out) + 1
      BY <2>1, SMT
    <2> QED  BY <1>4, <2>2
  <1>6. Elements(out') = Elements(out) \cup {c}
    <2>1. Elements(out') \subseteq Elements(out) \cup {c}
      BY <1>5, Zenon DEF Elements
    <2>2. Len(out) + 1 \in DOMAIN out' /\ \A i \in DOMAIN out : i \in DOMAIN out' /\ out'[i] = out[i]
      BY <1>4
    <2>3. Elements(out) \cup {c} \subseteq Elements(out')
      BY <1>4, <2>2 DEF Elements
    <2> QED  BY <2>1, <2>3
  <1>7. ASSUME NEW i \in DOMAIN out', NEW j \in DOMAIN out', i < j, out'[j].at # 0
        PROVE  i \in DOMAIN out /\ j \in DOMAIN out /\ out'[i] = out[i] /\ out'[j] = out[j]
    <2>1. j \in DOMAIN out /\ out'[j] = out[j]
      BY <1>3, <1>5, <1>7
    <2>2. i \in DOMAIN out
      BY <1>4, <1>7, <2>1
    <2> QED  BY <1>4, <2>1, <2>2
  <1>8. Types'
    BY <1>1, <1>2, <1>4 DEF Types
  <1>9. InLine'
    <2>1. Ordered(out')
      BY <1>1, <1>7 DEF InLine, Ordered
    <2>2. \A s \in Seq(Byte) : Before(out, s) /\ (\A y \in Elements(s) : y.at # 0) => Before(out', s)
      <3> SUFFICES ASSUME NEW s \in Seq(Byte), Before(out, s), \A y \in Elements(s) : y.at # 0,
                          NEW x \in Elements(out'), NEW y \in Elements(s), x.call = y.call
                   PROVE  x.at < y.at
        BY DEF Before
      <3>1. CASE x \in Elements(out)
        BY <3>1 DEF Before
      <3>2. CASE x = c
        <4>1. y.at \in Nat /\ y.at # 0 /\ x.at = 0
          BY <1>3, <3>2, Bytewise
        <4> QED  BY <4>1
      <3> QED  BY <1>6, <3>1, <3>2
    <2>3. Before(out', held')
      BY <1>1, <1>2, <2>2 DEF InLine, Whose, Unanswered, Types
    <2>4. \A i \in DOMAIN todo' : Before(out', todo'[i].bytes)
      BY <1>1, <1>2, <2>2, Commanded DEF InLine, Whose
    <2> QED  BY <1>1, <1>2, <2>1, <2>3, <2>4 DEF InLine
  <1>10. Newest' = Newest /\ Last' = Last /\ Running' = Running
    BY <1>2 DEF Newest, Last, Running
  <1>11. Whose'
    <2>1. c.call <= Newest
      BY <1>1, <1>3 DEF Whose
    <2>2. \A x \in Elements(out') : x.call <= Newest /\ (x.at # 0 => x.call \in 1..Last)
      BY <1>1, <1>3, <1>6, <2>1 DEF Whose
    <2> QED  BY <1>1, <1>2, <1>10, <2>2 DEF Whose, Unanswered
  <1>12. NoOvertaking'
    BY <1>1, <1>2, <1>7 DEF NoOvertaking
  <1>13. Shape'
    BY <1>1, <1>2, <1>10 DEF Shape
  <1>14. Kept'
    <2>1. Waiting' = Waiting /\ Elements(out) \subseteq Elements(out')
      BY <1>2, <1>6 DEF Waiting
    <2> QED  BY <1>1, <1>2, <1>10, <2>1 DEF Kept
  <1> QED  BY <1>8, <1>9, <1>11, <1>12, <1>13, <1>14 DEF OutputInv

-----------------------------------------------------------------------------
(* A run starts with nothing written.                                      *)
LEMMA OutputStarts ==
    ASSUME Init
    PROVE  OutputInv
  <1>1. /\ shut \in ShutSets /\ held = <<>> /\ out = <<>> /\ given = <<>>
        /\ call = Idle /\ todo = <<>> /\ child = 0
    BY DEF Init
  <1>2. /\ DOMAIN <<>> = {} /\ Elements(<<>>) = {} /\ Len(<<>>) = 0 /\ \A S : <<>> \in Seq(S)
    BY EmptySeq DEF Elements
  <1>3. Types
    BY <1>1, <1>2, OutputAssumption DEF Types, Idle, Streams
  <1>4. InLine
    BY <1>1, <1>2 DEF InLine, Ordered, Before
  <1>5. Whose
    BY <1>1, <1>2 DEF Whose, Newest, Last, Running
  <1>6. NoOvertaking /\ Shape /\ Kept
    BY <1>1, <1>2 DEF NoOvertaking, Shape, Kept, Running
  <1> QED  BY <1>3, <1>4, <1>5, <1>6 DEF OutputInv

(* Every step keeps the line.                                              *)
LEMMA OutputSteps ==
    ASSUME OutputInv, [Next]_vars
    PROVE  OutputInv'
  <1>1. Types /\ InLine /\ Whose /\ NoOvertaking /\ Shape /\ Kept
    BY DEF OutputInv
  <1>2. /\ todo \in Seq(Commands) /\ held \in Seq(Byte) /\ call.to \in Streams /\ Len(given) = Last
        /\ given \in Seq(Calls) /\ Last \in Nat
    BY <1>1, LenProperties DEF Types, Last
  <1>3. todo # <<>> => Running /\ Head(todo) = todo[1] /\ 1 \in DOMAIN todo /\ todo[1].bytes \in Seq(Byte)
    BY <1>1, <1>2, Dropped, Commanded DEF Whose
  <1>4. Running <=> call # Idle
    BY DEF Running
  <1>5. ASSUME NEW op \in {"write", "main"}, NEW to \in Streams, NEW text \in Seq(BOOLEAN), Begin(op, to, text)
        PROVE  OutputInv'
    <2> DEFINE b == Bytes(Last + 1, text)
    <2>1. b \in Seq(Byte) /\ Ordered(b) /\ \A x \in Elements(b) : x.at # 0 /\ x.call = Last + 1
      <3>1. Last + 1 \in Nat
        BY <1>2
      <3> QED  BY <3>1, CallBytes, Zenon
    <2>2. /\ call = Idle /\ call' = [op |-> op, to |-> to] /\ todo' = Write(to, b)
          /\ given' = Append(given, [to |-> to, bytes |-> b, err |-> "running"])
          /\ UNCHANGED <<shut, held, out, child>>
      BY <1>2, <1>5 DEF Begin
    <2> HIDE DEF b
    <2>3. Carries(Write(to, b), to, b)
      BY <1>2, <2>1, WriteCommands
    <2> QED  BY <2>1, <2>2, <2>3, Beginning
  <1>6. ASSUME Exit  PROVE OutputInv'
    <2> DEFINE b == Bytes(Last + 1, <<>>)
    <2>1. b = <<>>
      BY DEF Bytes
    <2>2. /\ call = Idle /\ call' = [op |-> "exit", to |-> "stdout"] /\ todo' = <<Drain>>
          /\ given' = Append(given, [to |-> "stdout", bytes |-> b, err |-> "running"])
          /\ UNCHANGED <<shut, held, out, child>>
      BY <1>2, <1>6 DEF Exit, Begin, Flush
    <2>3. b \in Seq(Byte) /\ Elements(b) = {}
      BY <2>1, EmptySeq, Bytewise
    <2> HIDE DEF b
    <2>4. Carries(<<Drain>>, "stdout", b)
      <3> DEFINE w == <<Drain>>
      <3>1. Drain \in Commands /\ Drain.do = "drain" /\ Drain.bytes = <<>>
        BY EmptySeq DEF Drain, Commands
      <3>2. w \in Seq(Commands) /\ w # <<>> /\ Len(w) = 1 /\ DOMAIN w = {1} /\ w[1] = Drain
        BY <3>1
      <3>3. Ordered(<<>>) /\ Elements(<<>>) = {}
        BY EmptySeq DEF Ordered, Elements
      <3> HIDE DEF w
      <3>4. Carries(w, "stdout", b)
        BY <2>3, <3>1, <3>2, <3>3 DEF Carries
      <3> QED  BY <3>4 DEF w
    <2> QED  BY <2>2, <2>3, <2>4, Beginning DEF Streams
  <1>7. ASSUME WriteCall  PROVE OutputInv'
    BY <1>5, <1>7, OutputAssumption DEF WriteCall
  <1>8. ASSUME MainFails  PROVE OutputInv'
    BY <1>5, <1>8, OutputAssumption DEF MainFails, Streams
  <1>9. ASSUME MainReturns  PROVE OutputInv'
    BY <1>1, <1>9 DEF MainReturns, OutputInv, Types, InLine, Whose, NoOvertaking, Shape, Kept, Newest, Last,
                      Running, Unanswered, Waiting
  <1>10. ASSUME Spawn  PROVE OutputInv'
    <2>1. child' = Last + 1 /\ UNCHANGED <<shut, held, call, todo, out, given>> /\ ~Running
      BY <1>2, <1>4, <1>10 DEF Spawn, Last
    <2>2. Whose'
      <3>1. child' <= Newest'
        BY <1>2, <2>1 DEF Newest, Last, Running
      <3> QED  BY <1>1, <2>1, <3>1 DEF Whose, Newest, Last, Running, Unanswered
    <2>3. Types'
      BY <1>1, <1>2, <2>1 DEF Types
    <2>4. InLine' /\ NoOvertaking' /\ Shape' /\ Kept'
      BY <1>1, <2>1 DEF InLine, NoOvertaking, Shape, Kept, Last, Running, Waiting
    <2> QED  BY <2>2, <2>3, <2>4 DEF OutputInv
  <1>11. ASSUME Done  PROVE OutputInv'
    BY <1>4, <1>11, Ending DEF Done, Answer, Last
  <1>12. ASSUME WriteFails \/ DrainFails  PROVE OutputInv'
    <2>1. Running /\ (Failed \/ Killed)
      BY <1>3, <1>12 DEF WriteFails, DrainFails, Doing, Kernel
    <2>2. CASE Failed
      BY <2>1, <2>2, Ending DEF Failed, Fails, Answer, Last
    <2>3. CASE Killed
      <3>1. given' = [given EXCEPT ![Last].err = "running"]
        <4>1. given' = given /\ given[Last].err = "running" /\ Last \in 1..Len(given)
          BY <1>1, <1>2, <2>1, <2>3 DEF Whose, Killed
        <4>2. given[Last] \in Calls
          BY <1>2, <4>1, ElementOfSeq
        <4>3. [given[Last] EXCEPT !.err = "running"] = given[Last]
          BY <4>1, <4>2 DEF Calls
        <4> QED  BY <1>2, <4>1, <4>3
      <3> QED  BY <2>1, <2>3, <3>1, Ending DEF Killed
    <2> QED  BY <2>1, <2>2, <2>3
  <1>13. ASSUME WriteOut  PROVE OutputInv'
    BY <1>3, <1>13, Emitting DEF WriteOut, Doing
  <1>14. ASSUME DrainOut  PROVE OutputInv'
    BY <1>3, <1>14, Draining DEF DrainOut, Doing
  <1>15. ASSUME Written  PROVE OutputInv'
    <2>1. /\ todo # <<>> /\ Next1 /\ UNCHANGED <<shut, held, call, out, given, child>>
          /\ todo[1].bytes = <<>> /\ (todo[1].do = "drain" => held = <<>>)
      BY <1>1, <1>3, <1>15 DEF Written, Doing, Shape
    <2>2. held' = held \o <<>> /\ <<>> \in Seq(Byte)
      BY <1>2, <2>1, ConcatEmptySeq, EmptySeq
    <2> QED  BY <1>3, <2>1, <2>2, NextOne
  <1>16. ASSUME Buffer  PROVE OutputInv'
    <2> DEFINE b == todo[1].bytes
    <2>1. /\ todo # <<>> /\ todo[1].do = "put" /\ UNCHANGED <<shut, call, out, given, child>>
          /\ \/ todo' = <<Drain>> \o todo /\ UNCHANGED held
             \/ todo' = <<Direct(b)>> \o Tail(todo) /\ held = <<>> /\ UNCHANGED held
             \/ held' = held \o b /\ Next1
      BY <1>3, <1>16 DEF Buffer, Doing
    <2>2. CASE todo' = <<Drain>> \o todo /\ UNCHANGED held
      BY <1>3, <2>1, <2>2, DrainingFirst
    <2>3. CASE todo' = <<Direct(b)>> \o Tail(todo) /\ held = <<>> /\ UNCHANGED held
      BY <1>3, <2>1, <2>3, PassingBy
    <2>4. CASE held' = held \o b /\ Next1
      BY <1>3, <2>1, <2>4, NextOne
    <2> QED  BY <2>1, <2>2, <2>3, <2>4
  <1>17. ASSUME ChildWrites  PROVE OutputInv'
    BY <1>17, ChildWriting
  <1>18. ASSUME UNCHANGED vars  PROVE OutputInv'
    BY <1>1, <1>18 DEF vars, OutputInv, Types, InLine, Whose, NoOvertaking, Shape, Kept, Newest, Last,
                       Running, Unanswered, Waiting
  <1> QED  BY <1>6, <1>7, <1>8, <1>9, <1>10, <1>11, <1>12, <1>13, <1>14, <1>15, <1>16, <1>17, <1>18
           DEF Next, Step

(* In every reachable state the bytes are in a line.                       *)
THEOREM OutputAlways == Spec => []OutputInv
  <1>1. Init => OutputInv
    BY OutputStarts
  <1>2. OutputInv /\ [Next]_vars => OutputInv'
    BY OutputSteps
  <1> QED  BY <1>1, <1>2, PTL DEF Spec

(* What was answered Ok is on the terminal, unless its stream is closed.   *)
THEOREM OkIsAlwaysOut == Spec => []OkIsOut
  <1>1. OutputInv => OkIsOut
    <2> SUFFICES ASSUME OutputInv, NEW n \in DOMAIN given,
                        given[n].err = "ok", given[n].to \notin shut,
                        NEW i \in DOMAIN given[n].bytes
                 PROVE  given[n].bytes[i] \in {out[j] : j \in DOMAIN out}
      BY DEF OkIsOut
    <2>1. Elements(given[n].bytes) \subseteq Elements(out)
      BY DEF OutputInv, Kept
    <2> QED  BY <2>1 DEF Elements
  <1> QED  BY <1>1, OutputAlways, PTL

(* It is shown once and in its order, and nothing later is shown before    *)
(* what was answered Ok.                                                   *)
THEOREM AlwaysOnceInOrder == Spec => []OnceInOrder
  <1>1. OutputInv => OnceInOrder
    BY DEF OutputInv, InLine, Ordered, NoOvertaking, OnceInOrder
  <1> QED  BY <1>1, OutputAlways, PTL
===============================================================================
