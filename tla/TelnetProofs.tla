---------------------------- MODULE TelnetProofs ----------------------------
(***************************************************************************)
(* Proofs about Telnet.  Its two properties are about byte streams that    *)
(* two parsers cut up: where one is, and what it has read of what was      *)
(* meant, depends on all the bytes so far.  The parser of the terminal and *)
(* that of the server are therefore sets of transitions, and the invariant *)
(* says that the bytes under way are a path from what has been read to all *)
(* that has been written.  A step lengthens the path at its end, shortens  *)
(* it at its beginning, or leaves it alone.                                *)
(***************************************************************************)
EXTENDS Telnet, SequenceTheorems, TLAPS

Byte == 0 .. 255

-----------------------------------------------------------------------------
(* Paths: over the word s a set T of transitions leads from x to z. *)

Path(T, x, s, z) ==
  \E L : /\ L[1] = x /\ L[Len(s) + 1] = z
         /\ \A i \in 1 .. Len(s) : <<L[i], s[i], L[i + 1]>> \in T

LEMMA PathEmpty ==
  ASSUME NEW T, NEW x, NEW z
  PROVE  Path(T, x, <<>>, z) <=> x = z
<1>1. Len(<<>>) = 0
  OBVIOUS
<1>2. ASSUME x = z PROVE Path(T, x, <<>>, z)
  <2> DEFINE L == [i \in {1} |-> x]
  <2>1. L[1] = x /\ L[Len(<<>>) + 1] = z
    BY <1>1, <1>2
  <2>2. \A i \in 1 .. Len(<<>>) : <<L[i], <<>>[i], L[i + 1]>> \in T
    BY <1>1
  <2> HIDE DEF L
  <2> QED BY <2>1, <2>2 DEF Path
<1>3. ASSUME Path(T, x, <<>>, z) PROVE x = z
  BY <1>1, <1>3 DEF Path
<1> QED BY <1>2, <1>3

LEMMA PathOne ==
  ASSUME NEW T, NEW x, NEW z, NEW b \in Byte
  PROVE  Path(T, x, <<b>>, z) <=> <<x, b, z>> \in T
<1>1. Len(<<b>>) = 1 /\ <<b>>[1] = b
  OBVIOUS
<1>2. ASSUME <<x, b, z>> \in T PROVE Path(T, x, <<b>>, z)
  <2> DEFINE L == [i \in {1, 2} |-> IF i = 1 THEN x ELSE z]
  <2>1. L[1] = x /\ L[2] = z /\ L[1 + 1] = z
    OBVIOUS
  <2> HIDE DEF L
  <2> QED BY <1>1, <1>2, <2>1 DEF Path
<1>3. ASSUME Path(T, x, <<b>>, z) PROVE <<x, b, z>> \in T
  BY <1>1, <1>3 DEF Path
<1> QED BY <1>2, <1>3

LEMMA PathJoin ==
  ASSUME NEW T, NEW x, NEW y, NEW z, NEW s \in Seq(Byte), NEW t \in Seq(Byte),
         Path(T, x, s, y), Path(T, y, t, z)
  PROVE  Path(T, x, s \o t, z)
<1>1. PICK K : /\ K[1] = x /\ K[Len(s) + 1] = y
               /\ \A i \in 1 .. Len(s) : <<K[i], s[i], K[i + 1]>> \in T
  BY DEF Path
<1>2. PICK M : /\ M[1] = y /\ M[Len(t) + 1] = z
               /\ \A i \in 1 .. Len(t) : <<M[i], t[i], M[i + 1]>> \in T
  BY DEF Path
<1>3. /\ Len(s) \in Nat /\ Len(t) \in Nat /\ Len(s \o t) = Len(s) + Len(t)
      /\ \A i \in 1 .. Len(s) + Len(t) :
           (s \o t)[i] = IF i <= Len(s) THEN s[i] ELSE t[i - Len(s)]
  BY ConcatProperties, LenProperties
<1> DEFINE l == Len(s)
           L == [i \in 1 .. l + Len(t) + 1 |-> IF i <= l THEN K[i] ELSE M[i - l]]
<1>4. \A i \in 1 .. l + Len(t) + 1 : L[i] = IF i <= l THEN K[i] ELSE M[i - l]
  OBVIOUS
<1>5. L[l + 1] = y
  <2>1. l + 1 \in 1 .. l + Len(t) + 1 /\ ~ l + 1 <= l /\ (l + 1) - l = 1
    BY <1>3
  <2> QED BY <1>2, <1>4, <2>1
<1> HIDE DEF L
<1>6. L[1] = x
  BY <1>1, <1>3, <1>4, <1>5
<1>7. L[Len(s \o t) + 1] = z
  <2>1. l + Len(t) + 1 \in 1 .. l + Len(t) + 1 /\ ~ l + Len(t) + 1 <= l
        /\ (l + Len(t) + 1) - l = Len(t) + 1
    BY <1>3
  <2> QED BY <1>2, <1>3, <1>4, <2>1
<1>8. ASSUME NEW i \in 1 .. Len(s \o t)
      PROVE  <<L[i], (s \o t)[i], L[i + 1]>> \in T
  <2>1. CASE i < l
    <3>1. L[i] = K[i] /\ L[i + 1] = K[i + 1] /\ (s \o t)[i] = s[i] /\ i \in 1 .. l
      BY <1>3, <1>4, <2>1
    <3> QED BY <1>1, <3>1
  <2>2. CASE i = l
    <3>1. L[i] = K[i] /\ L[i + 1] = K[i + 1] /\ (s \o t)[i] = s[i] /\ i \in 1 .. l
      BY <1>1, <1>3, <1>4, <1>5, <2>2
    <3> QED BY <1>1, <3>1
  <2>3. CASE i > l
    <3> DEFINE j == i - l
    <3>1. /\ i \in 1 .. l + Len(t) + 1 /\ i + 1 \in 1 .. l + Len(t) + 1
          /\ ~ i <= l /\ ~ i + 1 <= l /\ (i + 1) - l = j + 1 /\ j \in 1 .. Len(t)
      BY <1>3, <2>3
    <3>2. L[i] = M[j] /\ L[i + 1] = M[j + 1] /\ (s \o t)[i] = t[j]
      BY <1>3, <1>4, <3>1
    <3> QED BY <1>2, <3>1, <3>2
  <2>4. i < l \/ i = l \/ i > l
    BY <1>3
  <2> QED BY <2>1, <2>2, <2>3, <2>4
<1> QED BY <1>6, <1>7, <1>8 DEF Path

LEMMA PathSplit ==
  ASSUME NEW T, NEW x, NEW z, NEW s \in Seq(Byte), NEW t \in Seq(Byte),
         Path(T, x, s \o t, z)
  PROVE  \E y : Path(T, x, s, y) /\ Path(T, y, t, z)
<1> DEFINE l == Len(s)
<1>1. PICK L : /\ L[1] = x /\ L[Len(s \o t) + 1] = z
               /\ \A i \in 1 .. Len(s \o t) : <<L[i], (s \o t)[i], L[i + 1]>> \in T
  BY DEF Path
<1>2. /\ l \in Nat /\ Len(t) \in Nat /\ Len(s \o t) = l + Len(t)
      /\ \A i \in 1 .. l + Len(t) : (s \o t)[i] = IF i <= l THEN s[i] ELSE t[i - l]
  BY ConcatProperties, LenProperties
<1>3. Path(T, x, s, L[l + 1])
  <2>1. \A i \in 1 .. l : <<L[i], s[i], L[i + 1]>> \in T
    BY <1>1, <1>2
  <2> QED BY <1>1, <2>1 DEF Path
<1>4. Path(T, L[l + 1], t, z)
  <2> DEFINE M == [i \in 1 .. Len(t) + 1 |-> L[l + i]]
  <2>1. M[1] = L[l + 1] /\ M[Len(t) + 1] = z
    BY <1>1, <1>2
  <2>2. ASSUME NEW i \in 1 .. Len(t)
        PROVE  <<M[i], t[i], M[i + 1]>> \in T
    <3>1. l + i \in 1 .. l + Len(t) /\ ~ l + i <= l /\ (l + i) - l = i /\ (l + i) + 1 = l + (i + 1)
          /\ i + 1 \in 1 .. Len(t) + 1 /\ i \in 1 .. Len(t) + 1
      BY <1>2
    <3>2. (s \o t)[l + i] = t[i]
      BY <1>2, <3>1
    <3>3. <<L[l + i], (s \o t)[l + i], L[l + (i + 1)]>> \in T
      BY <1>1, <1>2, <3>1
    <3> QED BY <3>1, <3>2, <3>3
  <2> HIDE DEF M
  <2> QED BY <2>1, <2>2 DEF Path
<1> QED BY <1>3, <1>4

LEMMA PathMore ==
  ASSUME NEW T, NEW U, T \subseteq U, NEW x, NEW s, NEW z, Path(T, x, s, z)
  PROVE  Path(U, x, s, z)
BY DEF Path

\* A path over a byte and what follows.
LEMMA PathHead ==
  ASSUME NEW T, NEW x, NEW z, NEW b \in Byte, NEW t \in Seq(Byte),
         Path(T, x, <<b>> \o t, z)
  PROVE  \E y : <<x, b, y>> \in T /\ Path(T, y, t, z)
<1>1. <<b>> \in Seq(Byte)
  OBVIOUS
<1>2. PICK y : Path(T, x, <<b>>, y) /\ Path(T, y, t, z)
  BY <1>1, PathSplit
<1> QED BY <1>2, PathOne

\* The first byte of a sequence, and the others.
LEMMA HeadThenTail ==
  ASSUME NEW s \in Seq(Byte), s # <<>>
  PROVE  /\ Head(s) \in Byte /\ Tail(s) \in Seq(Byte) /\ s = <<Head(s)>> \o Tail(s)
         /\ Len(s) = Len(Tail(s)) + 1 /\ s[1] = Head(s)
<1>1. /\ Head(s) \in Byte /\ Tail(s) \in Seq(Byte) /\ Len(s) = Len(Tail(s)) + 1 /\ Len(s) \in Nat
      /\ \A i \in 1 .. Len(Tail(s)) : Tail(s)[i] = s[i + 1]
  BY HeadTailProperties, LenProperties
<1>2. <<Head(s)>> \in Seq(Byte) /\ Len(<<Head(s)>>) = 1 /\ <<Head(s)>>[1] = Head(s)
  BY <1>1
<1> DEFINE t == <<Head(s)>> \o Tail(s)
<1>3. /\ t \in Seq(Byte) /\ Len(t) = 1 + Len(Tail(s))
      /\ \A i \in 1 .. 1 + Len(Tail(s)) :
           t[i] = IF i <= 1 THEN <<Head(s)>>[i] ELSE Tail(s)[i - 1]
  BY <1>1, <1>2, ConcatProperties
<1>4. s[1] = Head(s)
  OBVIOUS
<1>5. ASSUME NEW i \in 1 .. Len(s) PROVE s[i] = t[i]
  <2>1. CASE i = 1 BY <1>1, <1>2, <1>3, <1>4, <2>1
  <2>2. CASE i # 1
    <3>1. i - 1 \in 1 .. Len(Tail(s)) /\ (i - 1) + 1 = i /\ ~ i <= 1
      BY <1>1, <2>2
    <3> QED BY <1>1, <1>3, <3>1
  <2> QED BY <2>1, <2>2
<1>6. s = t
  BY <1>1, <1>3, <1>5, SeqEqual
<1> QED BY <1>1, <1>4, <1>6

-----------------------------------------------------------------------------
(* The points of start() and telnet_task, and what holds at each. *)

Starters == {"idle", "dial", "prepare", "hello", "spawn", "fail"}
Tasks == {"none", "created", "top", "cols", "rows", "recv", "parse", "tx", "end", "bye"}
Working == {"top", "cols", "rows", "recv", "parse", "tx"}

Points ==
  /\ starter \in Starters /\ task \in Tasks /\ then \in {"recv", "parse"}
  /\ starter # "idle" => task = "none"
  /\ running <=> starter \in {"hello", "spawn"} \/ task \in Working \cup {"created"}
  /\ taskAlive <=> task \in Working \cup {"end", "bye"}
  /\ starter = "dial" \/ (starter = "idle" /\ task = "none") \/ task \in {"end", "bye"} => ~link

LEMMA PointsBegin == Init => Points
BY DEF Init, Points, Starters, Tasks, Working

\* What a step does to them.
LEMMA MovesOfStart ==
  ASSUME Call \/ Start
  PROVE  \/ /\ starter = "idle" /\ starter' = "dial" /\ ~running /\ ~taskAlive
            /\ task' = task /\ then' = then /\ (link' <=> link) /\ (running' <=> running) /\ (taskAlive' <=> taskAlive)
         \/ /\ starter = "dial" /\ starter' = "prepare" /\ link'
            /\ task' = task /\ then' = then /\ (running' <=> running) /\ (taskAlive' <=> taskAlive)
         \/ /\ starter = "dial" /\ starter' = "idle"
            /\ task' = task /\ then' = then /\ (link' <=> link) /\ (running' <=> running) /\ (taskAlive' <=> taskAlive)
         \/ /\ starter = "prepare" /\ starter' = "idle" /\ ~link'
            /\ task' = task /\ then' = then /\ (running' <=> running) /\ (taskAlive' <=> taskAlive)
         \/ /\ starter = "prepare" /\ starter' = "hello" /\ running'
            /\ task' = task /\ then' = then /\ (link' <=> link) /\ (taskAlive' <=> taskAlive)
         \/ /\ starter = "hello" /\ starter' = "spawn"
            /\ task' = task /\ then' = then /\ (link' <=> link) /\ (running' <=> running) /\ (taskAlive' <=> taskAlive)
         \/ /\ starter = "spawn" /\ starter' = "idle" /\ task' = "created"
            /\ then' = then /\ (link' <=> link) /\ (running' <=> running) /\ (taskAlive' <=> taskAlive)
         \/ /\ starter = "spawn" /\ starter' = "fail" /\ ~running'
            /\ task' = task /\ then' = then /\ (link' <=> link) /\ (taskAlive' <=> taskAlive)
         \/ /\ starter = "fail" /\ starter' = "idle" /\ ~link'
            /\ task' = task /\ then' = then /\ (running' <=> running) /\ (taskAlive' <=> taskAlive)
<1>1. CASE Call BY <1>1 DEF Call, flags, world, worldButUp
<1>2. CASE Dial BY <1>2 DEF Dial, flags, world, worldButUp
<1>3. CASE NoBuffer BY <1>3 DEF NoBuffer, flags
<1>4. CASE Prepare BY <1>4 DEF Prepare, world, worldButUp
<1>5. CASE Hello BY <1>5 DEF Hello, flags, worldButUp
<1>6. CASE Spawn BY <1>6 DEF Spawn, world, worldButUp
<1>7. CASE GiveUp BY <1>7 DEF GiveUp, flags
<1> QED BY <1>1, <1>2, <1>3, <1>4, <1>5, <1>6, <1>7 DEF Start

LEMMA MovesOfTask ==
  ASSUME Task
  PROVE  /\ starter' = starter /\ (then' = then \/ then' \in {"recv", "parse"})
         /\ \/ /\ task = "created" /\ task' = "top" /\ taskAlive'
               /\ (link' <=> link) /\ (running' <=> running)
            \/ /\ task \in Working /\ (task' \in Working \/ task' = then)
               /\ (link' <=> link) /\ (running' <=> running) /\ (taskAlive' <=> taskAlive)
            \/ /\ task = "recv" /\ task' = "end" /\ ~running' /\ ~link
               /\ (link' <=> link) /\ (taskAlive' <=> taskAlive)
            \/ /\ task = "end" /\ task' = "bye" /\ ~link'
               /\ (running' <=> running) /\ (taskAlive' <=> taskAlive)
            \/ /\ task = "bye" /\ task' = "none" /\ ~taskAlive'
               /\ (link' <=> link) /\ (running' <=> running)
<1> USE DEF Working
<1>1. CASE Begin BY <1>1 DEF Begin, world, worldButUp
<1>2. CASE TakePending
  <2>1. /\ task = "top" /\ (task' = "cols" \/ task' = "recv") /\ then' = "recv"
        /\ starter' = starter /\ (link' <=> link) /\ (running' <=> running) /\ (taskAlive' <=> taskAlive)
    BY <1>2 DEF TakePending, flags, world, worldButUp
  <2> QED BY <2>1
<1>3. CASE LoadCols BY <1>3 DEF LoadCols, flags, world, worldButUp
<1>4. CASE SendNaws BY <1>4 DEF SendNaws, flags, worldButUp
<1>5. CASE Recv BY <1>5 DEF Recv
<1>6. CASE Parse
  <2>1. /\ task = "parse" /\ (task' = "cols" \/ task' = "parse") /\ (then' = then \/ then' = "parse")
        /\ starter' = starter /\ (link' <=> link) /\ (running' <=> running) /\ (taskAlive' <=> taskAlive)
    BY <1>6 DEF Parse, flags, worldButUp
  <2> QED BY <2>1
<1>7. CASE Show BY <1>7 DEF Show, flags, world, worldButUp
<1>8. CASE Drain
  <2>1. /\ task = "tx" /\ task' \in {"tx", "top"}
        /\ starter' = starter /\ then' = then /\ (link' <=> link) /\ (running' <=> running) /\ (taskAlive' <=> taskAlive)
    BY <1>8 DEF Drain, flags, worldButUp
  <2> QED BY <2>1
<1>9. CASE Shutdown BY <1>9 DEF Shutdown, flags
<1>10. CASE Bye BY <1>10 DEF Bye, world, worldButUp
<1> QED BY <1>1, <1>2, <1>3, <1>4, <1>5, <1>6, <1>7, <1>8, <1>9, <1>10 DEF Task

LEMMA MovesOfOthers ==
  ASSUME Resize \/ Server \/ (\E b \in Typed : Send(b)) \/ UNCHANGED vars
  PROVE  /\ starter' = starter /\ task' = task /\ then' = then /\ (running' <=> running) /\ (taskAlive' <=> taskAlive)
         /\ link' => link
<1>1. CASE Resize
  BY <1>1 DEF Resize, flags, world, worldButUp
<1>2. CASE LinkDrops BY <1>2 DEF LinkDrops, flags
<1>3. CASE Read BY <1>3 DEF Read, flags
<1>4. CASE \E b \in Shown : Say(b) BY <1>4 DEF Say, flags
<1>5. CASE \E o \in Offers : Offer(o) BY <1>5 DEF Offer, flags
<1>6. CASE \E b \in Typed : Send(b)
  BY <1>6 DEF Send, flags, world, worldButUp
<1>7. CASE UNCHANGED vars
  BY <1>7 DEF vars, flags, world, worldButUp
<1> QED BY <1>1, <1>2, <1>3, <1>4, <1>5, <1>6, <1>7 DEF Server

LEMMA PointsKept == Points /\ [Next]_vars => Points'
<1> SUFFICES ASSUME Points, [Next]_vars PROVE Points'
  OBVIOUS
<1> USE DEF Points, Starters, Tasks, Working
<1>1. CASE Call \/ Start
  BY <1>1, MovesOfStart
<1>2. CASE Task
  BY <1>2, MovesOfTask
<1>3. CASE Resize \/ Server \/ (\E b \in Typed : Send(b)) \/ UNCHANGED vars
  BY <1>3, MovesOfOthers
<1> QED BY <1>1, <1>2, <1>3 DEF Next

session ==
  IF running THEN "open"
  ELSE IF task # "none" \/ starter = "fail" THEN "closing"
  ELSE IF starter # "idle" THEN "opening" ELSE "down"

\* Every step of a telnet session is one of an IConnection, or none of its own.
THEOREM StepsOfASession == Spec => Abstract!Init /\ [][Abstract!Next]_session
<1>1. Init => Abstract!Init
  BY DEF Init, Abstract!Init
<1>2. ASSUME Points, [Next]_vars PROVE [Abstract!Next]_session
  <2> USE <1>2 DEF Points, Starters, Tasks, Working, session,
              Abstract!Begin, Abstract!Refuse, Abstract!Abort, Abstract!Establish,
              Abstract!Drop, Abstract!Finish, Abstract!Next
  <2>1. CASE Call \/ Start
    BY <2>1, MovesOfStart
  <2>2. CASE Task
    BY <2>2, MovesOfTask
  <2>3. CASE Resize \/ Server \/ (\E b \in Typed : Send(b)) \/ UNCHANGED vars
    BY <2>3, MovesOfOthers
  <2> QED BY <2>1, <2>2, <2>3 DEF Next
<1> QED BY <1>1, <1>2, PointsBegin, PointsKept, PTL DEF Spec

-----------------------------------------------------------------------------
(* What the terminal reads: its parser as a set of transitions, with n, the  *)
(* number of bytes it has pushed, and whether the window size was agreed on. *)
(* Each byte it pushes is the next one that the server's program said.       *)

Modes == {"Data", "Iac", "Iac2", "SbHead", "SbData", "SbIac"}
Reader == [st : Modes, cmd : Byte, n : Nat, naws : {"off", "on"}]

Asked == <<DO, NAWS>>
Pushes(st, b) == (st = "Data" /\ b # IAC) \/ (st = "Iac" /\ b = IAC)

Got(x, b) ==
  [st |-> NextState(x.st, b),
   cmd |-> IF x.st = "Iac" /\ b \in Commands THEN b ELSE x.cmd,
   n |-> IF Pushes(x.st, b) THEN x.n + 1 ELSE x.n,
   naws |-> IF x.st = "Iac2" /\ x.cmd = DO /\ b = NAWS THEN "on" ELSE x.naws]

Reads(S) ==
  {t \in Reader \X Byte \X Reader :
     /\ t[1].st = "Iac2" => t[1].cmd \in Commands /\ ~ (t[1].cmd = DONT /\ t[2] = NAWS)
     /\ Pushes(t[1].st, t[2]) => t[1].n < Len(S) /\ S[t[1].n + 1] = t[2]
     /\ t[3] = Got(t[1], t[2])}

\* A reader that has all.
Rests(z, S) == z \in Reader /\ z.st = "Data" /\ z.n = Len(S)

\* The bytes s bring a reader in state x all of S, and the request, if it is in O.
Comes(x, s, S, O) ==
  \E z : Path(Reads(S), x, s, z) /\ Rests(z, S) /\ (Asked \in O => z.naws = "on")

\* Pointwise, s is a prefix of S.
Begins(s, S) == Len(s) <= Len(S) /\ \A i \in 1 .. Len(s) : s[i] = S[i]

LEMMA Codes ==
  /\ {IAC, DONT, DO, WONT, WILL, SB, SE, NAWS, ECHO, SGA} \subseteq Byte /\ Commands \subseteq Byte
  /\ IAC \notin Commands /\ SB \notin Commands /\ IAC # SB /\ SE # IAC
BY DEF Byte, IAC, DONT, DO, WONT, WILL, SB, SE, NAWS, ECHO, SGA, Commands

LEMMA PushedIs ==
  ASSUME NEW st \in Modes, NEW b \in Byte
  PROVE  Pushed(st, b) = IF Pushes(st, b) THEN <<b>> ELSE <<>>
<1>1. CASE st = "Data" /\ b # IAC
  BY <1>1 DEF Pushed, Pushes
<1>2. CASE st = "Iac" /\ b = IAC
  BY <1>2 DEF Pushed, Pushes
<1>3. CASE ~ Pushes(st, b)
  BY <1>3 DEF Pushed, Pushes
<1> QED BY <1>1, <1>2, <1>3 DEF Pushes

LEMMA NextIs ==
  ASSUME NEW b
  PROVE  /\ NextState("Data", b) = IF b = IAC THEN "Iac" ELSE "Data"
         /\ NextState("Iac", b) =
              IF b = SB THEN "SbHead" ELSE IF b \in Commands THEN "Iac2" ELSE "Data"
         /\ NextState("Iac2", b) = "Data"
         /\ NextState("SbHead", b) = "SbData"
         /\ NextState("SbData", b) = IF b = IAC THEN "SbIac" ELSE "SbData"
         /\ NextState("SbIac", b) = IF b = IAC THEN "SbData" ELSE "Data"
BY DEF NextState

LEMMA GotIs ==
  ASSUME NEW x \in Reader, NEW b \in Byte
  PROVE  Got(x, b) \in Reader
<1>1. NextState(x.st, b) \in Modes
  BY NextIs DEF Modes, Reader
<1> QED BY <1>1 DEF Got, Reader

LEMMA ReadsOne ==
  ASSUME NEW S, NEW x \in Reader, NEW b \in Byte,
         x.st = "Iac2" => x.cmd \in Commands /\ ~ (x.cmd = DONT /\ b = NAWS),
         Pushes(x.st, b) => x.n < Len(S) /\ S[x.n + 1] = b
  PROVE  <<x, b, Got(x, b)>> \in Reads(S)
BY GotIs DEF Reads

LEMMA ReadsMore ==
  ASSUME NEW S \in Seq(Byte), NEW b \in Byte
  PROVE  Reads(S) \subseteq Reads(Append(S, b))
<1>1. /\ Len(Append(S, b)) = Len(S) + 1 /\ Len(S) \in Nat
      /\ \A i \in 1 .. Len(S) : Append(S, b)[i] = S[i]
  BY AppendProperties, LenProperties
<1>2. ASSUME NEW t \in Reads(S), Pushes(t[1].st, t[2])
      PROVE  t[1].n < Len(Append(S, b)) /\ Append(S, b)[t[1].n + 1] = t[2]
  <2>1. t[1].n \in Nat /\ t[1].n < Len(S) /\ S[t[1].n + 1] = t[2]
    BY <1>2 DEF Reads, Reader
  <2>2. t[1].n + 1 \in 1 .. Len(S)
    BY <1>1, <2>1
  <2> QED BY <1>1, <2>1, <2>2
<1> QED BY <1>2 DEF Reads

\* Paths over a few bytes.
LEMMA PathTwo ==
  ASSUME NEW T, NEW x0, NEW x1, NEW x2,
         NEW b1 \in Byte, NEW b2 \in Byte,
         <<x0, b1, x1>> \in T, <<x1, b2, x2>> \in T
  PROVE  Path(T, x0, <<b1, b2>>, x2)
<1> DEFINE s == <<b1, b2>>
           L == <<x0, x1, x2>>
<1>1. Len(s) = 2 /\ s[1] = b1 /\ s[2] = b2
  OBVIOUS
<1>2. L[1] = x0 /\ L[2] = x1 /\ L[3] = x2
  OBVIOUS
<1> HIDE DEF s, L
<1>3. ASSUME NEW i \in 1 .. Len(s) PROVE <<L[i], s[i], L[i + 1]>> \in T
  <2>1. i = 1 \/ i = 2
    BY <1>1
  <2>2. CASE i = 1 BY <1>1, <1>2, <2>2
  <2>3. CASE i = 2 BY <1>1, <1>2, <2>3
  <2> QED BY <2>1, <2>2, <2>3
<1>4. L[1] = x0 /\ L[Len(s) + 1] = x2
  BY <1>1, <1>2
<1>5. Path(T, x0, s, x2)
  BY <1>3, <1>4 DEF Path
<1> QED BY <1>5 DEF s

LEMMA PathThree ==
  ASSUME NEW T, NEW x0, NEW x1, NEW x2, NEW x3,
         NEW b1 \in Byte, NEW b2 \in Byte, NEW b3 \in Byte,
         <<x0, b1, x1>> \in T, <<x1, b2, x2>> \in T, <<x2, b3, x3>> \in T
  PROVE  Path(T, x0, <<b1, b2, b3>>, x3)
<1> DEFINE s == <<b1, b2, b3>>
           L == <<x0, x1, x2, x3>>
<1>1. Len(s) = 3 /\ s[1] = b1 /\ s[2] = b2 /\ s[3] = b3
  OBVIOUS
<1>2. L[1] = x0 /\ L[2] = x1 /\ L[3] = x2 /\ L[4] = x3
  OBVIOUS
<1> HIDE DEF s, L
<1>3. ASSUME NEW i \in 1 .. Len(s) PROVE <<L[i], s[i], L[i + 1]>> \in T
  <2>1. i = 1 \/ i = 2 \/ i = 3
    BY <1>1
  <2>2. CASE i = 1 BY <1>1, <1>2, <2>2
  <2>3. CASE i = 2 BY <1>1, <1>2, <2>3
  <2>4. CASE i = 3 BY <1>1, <1>2, <2>4
  <2> QED BY <2>1, <2>2, <2>3, <2>4
<1>4. L[1] = x0 /\ L[Len(s) + 1] = x3
  BY <1>1, <1>2
<1>5. Path(T, x0, s, x3)
  BY <1>3, <1>4 DEF Path
<1> QED BY <1>5 DEF s

LEMMA PathFour ==
  ASSUME NEW T, NEW x0, NEW x1, NEW x2, NEW x3, NEW x4,
         NEW b1 \in Byte, NEW b2 \in Byte, NEW b3 \in Byte, NEW b4 \in Byte,
         <<x0, b1, x1>> \in T, <<x1, b2, x2>> \in T, <<x2, b3, x3>> \in T, <<x3, b4, x4>> \in T
  PROVE  Path(T, x0, <<b1, b2, b3, b4>>, x4)
<1> DEFINE s == <<b1, b2, b3, b4>>
           L == <<x0, x1, x2, x3, x4>>
<1>1. Len(s) = 4 /\ s[1] = b1 /\ s[2] = b2 /\ s[3] = b3 /\ s[4] = b4
  OBVIOUS
<1>2. L[1] = x0 /\ L[2] = x1 /\ L[3] = x2 /\ L[4] = x3 /\ L[5] = x4
  OBVIOUS
<1> HIDE DEF s, L
<1>3. ASSUME NEW i \in 1 .. Len(s) PROVE <<L[i], s[i], L[i + 1]>> \in T
  <2>1. i = 1 \/ i = 2 \/ i = 3 \/ i = 4
    BY <1>1
  <2>2. CASE i = 1 BY <1>1, <1>2, <2>2
  <2>3. CASE i = 2 BY <1>1, <1>2, <2>3
  <2>4. CASE i = 3 BY <1>1, <1>2, <2>4
  <2>5. CASE i = 4 BY <1>1, <1>2, <2>5
  <2> QED BY <2>1, <2>2, <2>3, <2>4, <2>5
<1>4. L[1] = x0 /\ L[Len(s) + 1] = x4
  BY <1>1, <1>2
<1>5. Path(T, x0, s, x4)
  BY <1>3, <1>4 DEF Path
<1> QED BY <1>5 DEF s

LEMMA PathSeven ==
  ASSUME NEW T, NEW x0, NEW x1, NEW x2, NEW x3, NEW x4, NEW x5, NEW x6, NEW x7,
         NEW b1 \in Byte, NEW b2 \in Byte, NEW b3 \in Byte, NEW b4 \in Byte, NEW b5 \in Byte,
         NEW b6 \in Byte, NEW b7 \in Byte,
         <<x0, b1, x1>> \in T, <<x1, b2, x2>> \in T, <<x2, b3, x3>> \in T, <<x3, b4, x4>> \in T,
         <<x4, b5, x5>> \in T, <<x5, b6, x6>> \in T, <<x6, b7, x7>> \in T
  PROVE  Path(T, x0, <<b1, b2, b3, b4, b5, b6, b7>>, x7)
<1> DEFINE s == <<b1, b2, b3, b4, b5, b6, b7>>
           L == <<x0, x1, x2, x3, x4, x5, x6, x7>>
<1>1. Len(s) = 7 /\ s[1] = b1 /\ s[2] = b2 /\ s[3] = b3 /\ s[4] = b4 /\ s[5] = b5 /\ s[6] = b6
      /\ s[7] = b7
  OBVIOUS
<1>2. /\ L[1] = x0 /\ L[2] = x1 /\ L[3] = x2 /\ L[4] = x3 /\ L[5] = x4 /\ L[6] = x5
      /\ L[7] = x6 /\ L[8] = x7
  OBVIOUS
<1> HIDE DEF s, L
<1>3. ASSUME NEW i \in 1 .. Len(s) PROVE <<L[i], s[i], L[i + 1]>> \in T
  <2>1. i = 1 \/ i = 2 \/ i = 3 \/ i = 4 \/ i = 5 \/ i = 6 \/ i = 7
    BY <1>1
  <2>2. CASE i = 1 BY <1>1, <1>2, <2>2
  <2>3. CASE i = 2 BY <1>1, <1>2, <2>3
  <2>4. CASE i = 3 BY <1>1, <1>2, <2>4
  <2>5. CASE i = 4 BY <1>1, <1>2, <2>5
  <2>6. CASE i = 5 BY <1>1, <1>2, <2>6
  <2>7. CASE i = 6 BY <1>1, <1>2, <2>7
  <2>8. CASE i = 7 BY <1>1, <1>2, <2>8
  <2> QED BY <2>1, <2>2, <2>3, <2>4, <2>5, <2>6, <2>7, <2>8
<1>4. L[1] = x0 /\ L[Len(s) + 1] = x7
  BY <1>1, <1>2
<1>5. Path(T, x0, s, x7)
  BY <1>3, <1>4 DEF Path
<1> QED BY <1>5 DEF s

\* What the server sends brings one that rests to rest again: a byte of data,
LEMMA SaidArrives ==
  ASSUME NEW S \in Seq(Byte), NEW b \in Byte, NEW z, Rests(z, S)
  PROVE  \E y : /\ Path(Reads(Append(S, b)), z, Escaped(b), y)
                /\ Rests(y, Append(S, b)) /\ y.naws = z.naws
<1> DEFINE U == Append(S, b)
<1>1. Len(U) = Len(S) + 1 /\ U[Len(S) + 1] = b /\ Len(S) \in Nat
  BY AppendProperties, LenProperties
<1>2. z \in Reader /\ z.st = "Data" /\ z.n = Len(S)
  BY DEF Rests
<1> HIDE DEF U
<1>3. CASE b # IAC
  <2> DEFINE y == Got(z, b)
  <2>1. /\ y \in Reader /\ y.st = "Data" /\ y.n = z.n + 1 /\ y.naws = z.naws
        /\ <<z, b, y>> \in Reads(U)
    <3>1. y \in Reader BY <1>2, GotIs
    <3>2. y.st = "Data" /\ y.n = z.n + 1 /\ y.naws = z.naws
      BY <1>2, <1>3, NextIs DEF Got, Pushes
    <3>3. <<z, b, y>> \in Reads(U)
      BY <1>1, <1>2, ReadsOne
    <3> QED BY <3>1, <3>2, <3>3
  <2>2. Path(Reads(U), z, <<b>>, y)
    BY <2>1, PathOne
  <2>3. Escaped(b) = <<b>>
    BY <1>3 DEF Escaped
  <2> QED BY <1>1, <1>2, <2>1, <2>2, <2>3 DEF Rests, U
<1>4. CASE b = IAC
  <2> DEFINE x == Got(z, IAC)
             y == Got(x, IAC)
  <2>1. x \in Reader /\ x.st = "Iac" /\ x.n = z.n /\ x.naws = z.naws
    BY <1>2, <1>4, GotIs, NextIs DEF Got, Pushes
  <2>2. <<z, b, x>> \in Reads(U)
    BY <1>2, <1>4, ReadsOne DEF Pushes
  <2>3. y \in Reader /\ y.st = "Data" /\ y.n = x.n + 1 /\ y.naws = x.naws
    <3> HIDE DEF x
    <3>1. y \in Reader BY <1>4, <2>1, GotIs
    <3>2. y.st = "Data" /\ y.n = x.n + 1 /\ y.naws = x.naws
      BY <2>1, Codes, NextIs DEF Got, Pushes
    <3> QED BY <3>1, <3>2
  <2>4. <<x, b, y>> \in Reads(U)
    <3> HIDE DEF x
    <3> QED BY <1>1, <1>2, <1>4, <2>1, ReadsOne DEF Pushes
  <2> HIDE DEF x, y
  <2>5. Path(Reads(U), z, <<b, b>>, y)
    BY <2>2, <2>4, PathTwo
  <2>6. Escaped(b) = <<b, b>>
    BY <1>4 DEF Escaped
  <2> QED BY <1>1, <1>2, <2>1, <2>3, <2>5, <2>6 DEF Rests, U
<1> QED BY <1>3, <1>4

\* a command, which is not the refusal of the window size,
LEMMA CommandArrives ==
  ASSUME NEW S, NEW c \in Commands, NEW o \in Byte, ~ (c = DONT /\ o = NAWS),
         NEW z, Rests(z, S)
  PROVE  \E y : /\ Path(Reads(S), z, <<IAC, c, o>>, y) /\ Rests(y, S)
                /\ y.naws = IF c = DO /\ o = NAWS THEN "on" ELSE z.naws
<1>1. z \in Reader /\ z.st = "Data" /\ z.n = Len(S) /\ c \in Byte /\ IAC \in Byte /\ c # IAC /\ c # SB
  BY Codes DEF Rests
<1> DEFINE x == Got(z, IAC)
           w == Got(x, c)
           y == Got(w, o)
<1>2. x \in Reader /\ x.st = "Iac" /\ x.n = z.n /\ x.naws = z.naws /\ <<z, IAC, x>> \in Reads(S)
  BY <1>1, GotIs, NextIs, ReadsOne DEF Got, Pushes
<1> HIDE DEF x
<1>3. /\ w \in Reader /\ w.st = "Iac2" /\ w.n = x.n /\ w.naws = x.naws /\ w.cmd = c
      /\ <<x, c, w>> \in Reads(S)
  BY <1>1, <1>2, GotIs, NextIs, ReadsOne DEF Got, Pushes
<1> HIDE DEF w
<1>4. /\ y \in Reader /\ y.st = "Data" /\ y.n = w.n
      /\ y.naws = IF c = DO /\ o = NAWS THEN "on" ELSE w.naws
      /\ <<w, o, y>> \in Reads(S)
  BY <1>1, <1>3, GotIs, NextIs, ReadsOne DEF Got, Pushes
<1> HIDE DEF y
<1>5. Path(Reads(S), z, <<IAC, c, o>>, y)
  BY <1>1, <1>2, <1>3, <1>4, PathThree
<1> QED BY <1>1, <1>2, <1>3, <1>4, <1>5 DEF Rests

\* a subnegotiation.
LEMMA SubArrives ==
  ASSUME NEW S, NEW o \in Byte, NEW z, Rests(z, S)
  PROVE  \E y : /\ Path(Reads(S), z, <<IAC, SB, o>> \o <<IAC, IAC, IAC, SE>>, y)
                /\ Rests(y, S) /\ y.naws = z.naws
<1>1. /\ z \in Reader /\ z.st = "Data" /\ z.n = Len(S)
      /\ IAC \in Byte /\ SB \in Byte /\ SE \in Byte /\ SB # IAC /\ SB \notin Commands /\ SE # IAC
  BY Codes DEF Rests
<1> DEFINE a == Got(z, IAC)
           b == Got(a, SB)
           c == Got(b, o)
           d == Got(c, IAC)
           e == Got(d, IAC)
           f == Got(e, IAC)
           y == Got(f, SE)
<1> USE GotIs, NextIs, ReadsOne DEF Got, Pushes
<1>2. a \in Reader /\ a.st = "Iac" /\ a.n = z.n /\ a.naws = z.naws /\ <<z, IAC, a>> \in Reads(S)
  BY <1>1
<1> HIDE DEF a
<1>3. b \in Reader /\ b.st = "SbHead" /\ b.n = a.n /\ b.naws = a.naws /\ <<a, SB, b>> \in Reads(S)
  BY <1>1, <1>2
<1> HIDE DEF b
<1>4. c \in Reader /\ c.st = "SbData" /\ c.n = b.n /\ c.naws = b.naws /\ <<b, o, c>> \in Reads(S)
  BY <1>1, <1>3
<1> HIDE DEF c
<1>5. d \in Reader /\ d.st = "SbIac" /\ d.n = c.n /\ d.naws = c.naws /\ <<c, IAC, d>> \in Reads(S)
  BY <1>1, <1>4
<1> HIDE DEF d
<1>6. e \in Reader /\ e.st = "SbData" /\ e.n = d.n /\ e.naws = d.naws /\ <<d, IAC, e>> \in Reads(S)
  BY <1>1, <1>5
<1> HIDE DEF e
<1>7. f \in Reader /\ f.st = "SbIac" /\ f.n = e.n /\ f.naws = e.naws /\ <<e, IAC, f>> \in Reads(S)
  BY <1>1, <1>6
<1> HIDE DEF f
<1>8. y \in Reader /\ y.st = "Data" /\ y.n = f.n /\ y.naws = f.naws /\ <<f, SE, y>> \in Reads(S)
  BY <1>1, <1>7
<1> HIDE DEF y
<1>9. Path(Reads(S), z, <<IAC, SB, o>>, c)
  BY <1>1, <1>2, <1>3, <1>4, PathThree
<1>10. Path(Reads(S), c, <<IAC, IAC, IAC, SE>>, y)
  BY <1>1, <1>5, <1>6, <1>7, <1>8, PathFour
<1>11. <<IAC, SB, o>> \in Seq(Byte) /\ <<IAC, IAC, IAC, SE>> \in Seq(Byte)
  BY <1>1
<1>12. Path(Reads(S), z, <<IAC, SB, o>> \o <<IAC, IAC, IAC, SE>>, y)
  BY <1>9, <1>10, <1>11, PathJoin
<1> QED BY <1>1, <1>2, <1>3, <1>4, <1>5, <1>6, <1>7, <1>8, <1>12 DEF Rests

\* More comes.
LEMMA ComesOn ==
  ASSUME NEW x, NEW s \in Seq(Byte), NEW S, NEW O, Comes(x, s, S, O),
         NEW t \in Seq(Byte), NEW U, NEW Q, Reads(S) \subseteq Reads(U),
         \A z : Rests(z, S) /\ (Asked \in O => z.naws = "on") =>
           \E y : Path(Reads(U), z, t, y) /\ Rests(y, U) /\ (Asked \in Q => y.naws = "on")
  PROVE  Comes(x, s \o t, U, Q)
<1>1. PICK z : Path(Reads(S), x, s, z) /\ Rests(z, S) /\ (Asked \in O => z.naws = "on")
  BY DEF Comes
<1>2. PICK y : Path(Reads(U), z, t, y) /\ Rests(y, U) /\ (Asked \in Q => y.naws = "on")
  BY <1>1
<1>3. Path(Reads(U), x, s, z)
  BY <1>1, PathMore
<1>4. Path(Reads(U), x, s \o t, y)
  BY <1>2, <1>3, PathJoin
<1> QED BY <1>2, <1>4 DEF Comes

\* The next byte is read.
LEMMA ComesNext ==
  ASSUME NEW x, NEW b \in Byte, NEW s \in Seq(Byte), NEW S, NEW O, Comes(x, <<b>> \o s, S, O)
  PROVE  /\ <<x, b, Got(x, b)>> \in Reads(S)
         /\ Comes(Got(x, b), s, S, O)
<1>1. PICK z : Path(Reads(S), x, <<b>> \o s, z) /\ Rests(z, S) /\ (Asked \in O => z.naws = "on")
  BY DEF Comes
<1>2. PICK y : <<x, b, y>> \in Reads(S) /\ Path(Reads(S), y, s, z)
  BY <1>1, PathHead
<1>3. y = Got(x, b)
  BY <1>2 DEF Reads
<1> QED BY <1>1, <1>2, <1>3 DEF Comes

LEMMA ComesNothing ==
  ASSUME NEW x \in Reader, NEW S, NEW O
  PROVE  Comes(x, <<>>, S, O) <=> Rests(x, S) /\ (Asked \in O => x.naws = "on")
BY PathEmpty DEF Comes

-----------------------------------------------------------------------------
(* What the server reads, in the same way: n bytes of data, w the last size,  *)
(* and whether the window size was offered.  Each byte of data is the next    *)
(* one that was typed.                                                        *)

Stages == {"data", "iac", "opt", "sb", "c", "r", "e", "f"}
Ear == [at : Stages, n : Nat, cmd : Byte, c : Byte, r : Byte, w : Seq(Byte), naws : {"off", "on"}]

HearData(x, b, S, y) ==
  \/ /\ x.at = "data" /\ b # IAC /\ x.n < Len(S) /\ S[x.n + 1] = b
     /\ y = [x EXCEPT !.n = x.n + 1]
  \/ x.at = "data" /\ b = IAC /\ y = [x EXCEPT !.at = "iac"]
  \/ /\ x.at = "iac" /\ b = IAC /\ x.n < Len(S) /\ S[x.n + 1] = b
     /\ y = [x EXCEPT !.at = "data", !.n = x.n + 1]

HearCommand(x, b, y) ==
  \/ x.at = "iac" /\ b \in Commands /\ y = [x EXCEPT !.at = "opt", !.cmd = b]
  \/ /\ x.at = "opt" /\ ~ (x.cmd = WONT /\ b = NAWS)
     /\ y = [x EXCEPT !.at = "data",
                      !.naws = IF x.cmd = WILL /\ b = NAWS THEN "on" ELSE x.naws]

HearSize(x, b, y) ==
  \/ x.at = "iac" /\ b = SB /\ y = [x EXCEPT !.at = "sb"]
  \/ x.at = "sb" /\ y = [x EXCEPT !.at = "c"]
  \/ x.at = "c" /\ y = [x EXCEPT !.at = "r", !.c = b]
  \/ x.at = "r" /\ y = [x EXCEPT !.at = "e", !.r = b]
  \/ x.at = "e" /\ b = IAC /\ y = [x EXCEPT !.at = "f"]
  \/ x.at = "f" /\ b = SE /\ y = [x EXCEPT !.at = "data", !.w = <<x.c, x.r>>]

Hear(x, b, S, y) == HearData(x, b, S, y) \/ HearCommand(x, b, y) \/ HearSize(x, b, y)
Hears(S) == {t \in Ear \X Byte \X Ear : Hear(t[1], t[2], S, t[3])}

LEMMA HearsOne ==
  ASSUME NEW S, NEW x \in Ear, NEW b \in Byte, NEW y
  PROVE  <<x, b, y>> \in Hears(S) <=> y \in Ear /\ Hear(x, b, S, y)
BY DEF Hears

LEMMA HearsMore ==
  ASSUME NEW S \in Seq(Byte), NEW b \in Byte
  PROVE  Hears(S) \subseteq Hears(Append(S, b))
<1>1. /\ Len(Append(S, b)) = Len(S) + 1 /\ Len(S) \in Nat
      /\ \A i \in 1 .. Len(S) : Append(S, b)[i] = S[i]
  BY AppendProperties, LenProperties
<1>2. ASSUME NEW x \in Ear, NEW d, NEW y, HearData(x, d, S, y)
      PROVE  HearData(x, d, Append(S, b), y)
  <2>1. x.n \in Nat
    BY DEF Ear
  <2>2. x.n < Len(S) => x.n + 1 \in 1 .. Len(S)
    BY <1>1, <2>1
  <2> QED BY <1>1, <1>2, <2>1, <2>2 DEF HearData
<1> QED BY <1>2 DEF Hears, Hear

\* What the client writes: a byte of what was typed,
LEMMA DataLeaves ==
  ASSUME NEW S, NEW b \in Byte, NEW z \in Ear, z.at = "data", z.n < Len(S), S[z.n + 1] = b
  PROVE  \E y \in Ear : /\ Path(Hears(S), z, Escaped(b), y)
                        /\ y.at = "data" /\ y.n = z.n + 1 /\ y.w = z.w /\ y.naws = z.naws
<1>1. CASE b # IAC
  <2> DEFINE y == [z EXCEPT !.n = z.n + 1]
  <2>1. y \in Ear /\ y.at = "data" /\ y.n = z.n + 1 /\ y.w = z.w /\ y.naws = z.naws
    BY DEF Ear
  <2>2. Hear(z, b, S, y)
    BY <1>1 DEF Hear, HearData
  <2> HIDE DEF y
  <2>3. Path(Hears(S), z, <<b>>, y)
    BY <2>1, <2>2, HearsOne, PathOne
  <2> QED BY <1>1, <2>1, <2>3 DEF Escaped
<1>2. CASE b = IAC
  <2> DEFINE x == [z EXCEPT !.at = "iac"]
             y == [x EXCEPT !.at = "data", !.n = x.n + 1]
  <2>1. /\ x \in Ear /\ x.at = "iac" /\ x.n = z.n /\ x.w = z.w /\ x.naws = z.naws
        /\ Hear(z, b, S, x)
    <3>1. x \in Ear /\ x.at = "iac" /\ x.n = z.n /\ x.w = z.w /\ x.naws = z.naws
      BY DEF Ear, Stages
    <3>2. Hear(z, b, S, x)
      BY <1>2 DEF Hear, HearData
    <3> QED BY <3>1, <3>2
  <2> HIDE DEF x
  <2>2. /\ y \in Ear /\ y.at = "data" /\ y.n = z.n + 1 /\ y.w = z.w /\ y.naws = z.naws
        /\ Hear(x, b, S, y)
    <3>0. x.n + 1 \in Nat /\ x.n + 1 = z.n + 1
      BY <2>1 DEF Ear
    <3>1. y \in Ear /\ y.at = "data" /\ y.n = z.n + 1 /\ y.w = z.w /\ y.naws = z.naws
      BY <2>1, <3>0 DEF Ear, Stages
    <3>2. Hear(x, b, S, y)
      BY <1>2, <2>1 DEF Hear, HearData
    <3> QED BY <3>1, <3>2
  <2> HIDE DEF y
  <2>3. Path(Hears(S), z, <<b, b>>, y)
    BY <2>1, <2>2, HearsOne, PathTwo
  <2> QED BY <1>2, <2>2, <2>3 DEF Escaped
<1> QED BY <1>1, <1>2

\* an answer, which is not the refusal of the window size,
LEMMA AnswerLeaves ==
  ASSUME NEW S, NEW c \in Commands, NEW o \in Byte, ~ (c = WONT /\ o = NAWS),
         NEW z \in Ear, z.at = "data", NEW t, t = <<IAC, c, o>>
  PROVE  \E y \in Ear : /\ Path(Hears(S), z, t, y)
                        /\ y.at = "data" /\ y.n = z.n /\ y.w = z.w
                        /\ z.naws = "on" \/ (c = WILL /\ o = NAWS) => y.naws = "on"
<1>1. IAC \in Byte /\ c \in Byte
  BY Codes
<1> DEFINE x == [z EXCEPT !.at = "iac"]
           w == [x EXCEPT !.at = "opt", !.cmd = c]
           y == [w EXCEPT !.at = "data",
                          !.naws = IF w.cmd = WILL /\ o = NAWS THEN "on" ELSE w.naws]
<1>2. x \in Ear /\ x.at = "iac" /\ x.n = z.n /\ x.w = z.w /\ x.naws = z.naws
  BY DEF Ear, Stages
<1>3. Hear(z, IAC, S, x)
  BY DEF Hear, HearData
<1> HIDE DEF x
<1>4. w \in Ear /\ w.at = "opt" /\ w.n = z.n /\ w.w = z.w /\ w.naws = z.naws /\ w.cmd = c
  BY <1>1, <1>2 DEF Ear, Stages
<1>5. Hear(x, c, S, w)
  BY <1>2 DEF Hear, HearCommand
<1> HIDE DEF w
<1>6. /\ y \in Ear /\ y.at = "data" /\ y.n = z.n /\ y.w = z.w
      /\ y.naws = IF c = WILL /\ o = NAWS THEN "on" ELSE z.naws
  BY <1>4 DEF Ear, Stages
<1>7. Hear(w, o, S, y)
  BY <1>4 DEF Hear, HearCommand
<1> HIDE DEF y
<1>8. Path(Hears(S), z, t, y)
  BY <1>1, <1>2, <1>3, <1>4, <1>5, <1>6, <1>7, HearsOne, PathThree
<1> QED BY <1>6, <1>8

\* a size.
LEMMA SizeLeaves ==
  ASSUME NEW S, NEW c \in Byte, NEW r \in Byte, NEW z \in Ear, z.at = "data",
         NEW t, t = <<IAC, SB, NAWS, c, r, IAC, SE>>, NEW v, v = <<c, r>>
  PROVE  \E y \in Ear : /\ Path(Hears(S), z, t, y)
                        /\ y.at = "data" /\ y.n = z.n /\ y.w = v /\ y.naws = z.naws
<1>1. IAC \in Byte /\ SB \in Byte /\ NAWS \in Byte /\ SE \in Byte
  BY Codes
<1> DEFINE x1 == [z EXCEPT !.at = "iac"]
           x2 == [x1 EXCEPT !.at = "sb"]
           x3 == [x2 EXCEPT !.at = "c"]
           x4 == [x3 EXCEPT !.at = "r", !.c = c]
           x5 == [x4 EXCEPT !.at = "e", !.r = r]
           x6 == [x5 EXCEPT !.at = "f"]
           x7 == [x6 EXCEPT !.at = "data", !.w = <<x6.c, x6.r>>]
<1>2. x1 \in Ear /\ x1.at = "iac" /\ x1.n = z.n /\ x1.naws = z.naws /\ Hear(z, IAC, S, x1)
  <2>1. x1 \in Ear /\ x1.at = "iac" /\ x1.n = z.n /\ x1.naws = z.naws BY DEF Ear, Stages
  <2>2. Hear(z, IAC, S, x1) BY DEF Hear, HearData
  <2> QED BY <2>1, <2>2
<1> HIDE DEF x1
<1>3. x2 \in Ear /\ x2.at = "sb" /\ x2.n = z.n /\ x2.naws = z.naws /\ Hear(x1, SB, S, x2)
  <2>1. x2 \in Ear /\ x2.at = "sb" /\ x2.n = z.n /\ x2.naws = z.naws BY <1>2 DEF Ear, Stages
  <2>2. Hear(x1, SB, S, x2) BY <1>2 DEF Hear, HearSize
  <2> QED BY <2>1, <2>2
<1> HIDE DEF x2
<1>4. x3 \in Ear /\ x3.at = "c" /\ x3.n = z.n /\ x3.naws = z.naws /\ Hear(x2, NAWS, S, x3)
  <2>1. x3 \in Ear /\ x3.at = "c" /\ x3.n = z.n /\ x3.naws = z.naws BY <1>3 DEF Ear, Stages
  <2>2. Hear(x2, NAWS, S, x3) BY <1>3 DEF Hear, HearSize
  <2> QED BY <2>1, <2>2
<1> HIDE DEF x3
<1>5. /\ x4 \in Ear /\ x4.at = "r" /\ x4.n = z.n /\ x4.naws = z.naws /\ x4.c = c
      /\ Hear(x3, c, S, x4)
  <2>1. x4 \in Ear /\ x4.at = "r" /\ x4.n = z.n /\ x4.naws = z.naws /\ x4.c = c
    BY <1>4 DEF Ear, Stages
  <2>2. Hear(x3, c, S, x4) BY <1>4 DEF Hear, HearSize
  <2> QED BY <2>1, <2>2
<1> HIDE DEF x4
<1>6. /\ x5 \in Ear /\ x5.at = "e" /\ x5.n = z.n /\ x5.naws = z.naws /\ x5.c = c /\ x5.r = r
      /\ Hear(x4, r, S, x5)
  <2>1. x5 \in Ear /\ x5.at = "e" /\ x5.n = z.n /\ x5.naws = z.naws /\ x5.c = c /\ x5.r = r
    BY <1>5 DEF Ear, Stages
  <2>2. Hear(x4, r, S, x5) BY <1>5 DEF Hear, HearSize
  <2> QED BY <2>1, <2>2
<1> HIDE DEF x5
<1>7. /\ x6 \in Ear /\ x6.at = "f" /\ x6.n = z.n /\ x6.naws = z.naws /\ x6.c = c /\ x6.r = r
      /\ Hear(x5, IAC, S, x6)
  <2>1. x6 \in Ear /\ x6.at = "f" /\ x6.n = z.n /\ x6.naws = z.naws /\ x6.c = c /\ x6.r = r
    BY <1>6 DEF Ear, Stages
  <2>2. Hear(x5, IAC, S, x6) BY <1>6 DEF Hear, HearSize
  <2> QED BY <2>1, <2>2
<1> HIDE DEF x6
<1>8. /\ x7 \in Ear /\ x7.at = "data" /\ x7.n = z.n /\ x7.naws = z.naws /\ x7.w = v
      /\ Hear(x6, SE, S, x7)
  <2>1. <<x6.c, x6.r>> \in Seq(Byte) /\ <<x6.c, x6.r>> = v BY <1>7
  <2>2. x7 \in Ear /\ x7.at = "data" /\ x7.n = z.n /\ x7.naws = z.naws /\ x7.w = v
    BY <1>7, <2>1 DEF Ear, Stages
  <2>3. Hear(x6, SE, S, x7) BY <1>7 DEF Hear, HearSize
  <2> QED BY <2>2, <2>3
<1> HIDE DEF x7
<1>9. /\ <<z, IAC, x1>> \in Hears(S) /\ <<x1, SB, x2>> \in Hears(S) /\ <<x2, NAWS, x3>> \in Hears(S)
      /\ <<x3, c, x4>> \in Hears(S) /\ <<x4, r, x5>> \in Hears(S) /\ <<x5, IAC, x6>> \in Hears(S)
      /\ <<x6, SE, x7>> \in Hears(S)
  BY <1>1, <1>2, <1>3, <1>4, <1>5, <1>6, <1>7, <1>8, HearsOne
<1>10. Path(Hears(S), z, t, x7)
  BY <1>1, <1>9, PathSeven
<1> QED BY <1>8, <1>10

\* A path over the end of s, from its k-th byte on.
LEMMA PathOn ==
  ASSUME NEW T, NEW x, NEW z, x.at # z.at, NEW s \in Seq(Byte), NEW k \in 1 .. Len(s) + 1,
         NEW j, j = k + 1, Path(T, x, SubSeq(s, k, Len(s)), z)
  PROVE  /\ k <= Len(s) /\ s[k] \in Byte
         /\ \E y : <<x, s[k], y>> \in T /\ Path(T, y, SubSeq(s, j, Len(s)), z)
<1>1. Len(s) \in Nat /\ x # z
  BY LenProperties
<1>2. k <= Len(s)
  <2> SUFFICES ASSUME k = Len(s) + 1 PROVE FALSE
    BY <1>1
  <2>1. SubSeq(s, k, Len(s)) = <<>>
    BY <1>1, SubSeqEmpty
  <2>2. Path(T, x, <<>>, z)
    BY <2>1
  <2> QED BY <1>1, <2>2, PathEmpty
<1>3. k \in 1 .. Len(s) /\ Len(s) \in k .. Len(s)
  BY <1>1, <1>2
<1>4. SubSeq(s, k, Len(s)) = <<s[k]>> \o SubSeq(s, j, Len(s))
  BY <1>3, SubSeqRecursiveFirst
<1>5. s[k] \in Byte
  BY <1>3, ElementOfSeq
<1>6. SubSeq(s, j, Len(s)) \in Seq(Byte)
  <2>1. \A i \in j .. Len(s) : s[i] \in Byte
    BY <1>1, <1>3, ElementOfSeq
  <2>2. j \in Int /\ Len(s) \in Int
    BY <1>1
  <2> QED BY <2>1, <2>2, SubSeqProperties
<1>7. Path(T, x, <<s[k]>> \o SubSeq(s, j, Len(s)), z)
  BY <1>4
<1> QED BY <1>2, <1>5, <1>6, <1>7, PathHead

\* Inside the announcement of a size there is one way on.
LEMMA SizeHeard ==
  ASSUME NEW S, NEW x \in Ear, NEW b \in Byte, NEW y, <<x, b, y>> \in Hears(S),
         x.at \in {"sb", "c", "r", "e", "f"}
  PROVE  /\ y \in Ear /\ y.n = x.n /\ y.naws = x.naws
         /\ x.at = "sb" => y.at = "c"
         /\ x.at = "c" => y.at = "r" /\ y.c = b
         /\ x.at = "r" => y.at = "e" /\ y.c = x.c /\ y.r = b
         /\ x.at = "e" => y.at = "f" /\ y.c = x.c /\ y.r = x.r
         /\ x.at = "f" => y.at = "data" /\ y.w = <<x.c, x.r>>
<1>1. y \in Ear /\ Hear(x, b, S, y)
  BY HearsOne
<1>2. HearSize(x, b, y) /\ x.at # "iac"
  BY <1>1 DEF Hear, HearData, HearCommand
<1>3. CASE x.at = "sb"
  BY <1>1, <1>2, <1>3 DEF HearSize, Ear
<1>4. CASE x.at = "c"
  BY <1>1, <1>2, <1>4 DEF HearSize, Ear
<1>5. CASE x.at = "r"
  BY <1>1, <1>2, <1>5 DEF HearSize, Ear
<1>6. CASE x.at = "e"
  BY <1>1, <1>2, <1>6 DEF HearSize, Ear
<1>7. CASE x.at = "f"
  BY <1>1, <1>2, <1>7 DEF HearSize, Ear
<1> QED BY <1>3, <1>4, <1>5, <1>6, <1>7

\* What a token t tells: a byte of data, an answer, or a size.
Tells(t, x, y, S) ==
  \/ /\ Len(t) \in {1, 2} /\ x.n < Len(S) /\ t[1] = S[x.n + 1]
     /\ y.n = x.n + 1 /\ y.w = x.w /\ y.naws = x.naws
  \/ /\ Len(t) = 3 /\ t[2] \in Commands /\ t[3] \in Byte /\ ~ (t[2] = WONT /\ t[3] = NAWS)
     /\ y.n = x.n /\ y.w = x.w
     /\ y.naws = IF t[2] = WILL /\ t[3] = NAWS THEN "on" ELSE x.naws
  \/ Len(t) = 7 /\ y.n = x.n /\ y.w = <<t[4], t[5]>> /\ y.naws = x.naws

\* The server takes whole tokens.
LEMMA TokenRead ==
  ASSUME NEW S, NEW s \in Seq(Byte), s # <<>>, NEW x \in Ear, NEW z, x.at = "data", z.at = "data",
         Path(Hears(S), x, s, z)
  PROVE  \E y \in Ear :
           /\ Len(Token(s)) \in 1 .. Len(s) /\ y.at = "data"
           /\ Path(Hears(S), y, SubSeq(s, Len(Token(s)) + 1, Len(s)), z)
           /\ Tells(Token(s), x, y, S)
<1> DEFINE l == Len(s)
           R(k) == SubSeq(s, k, l)
           T == Hears(S)
<1>1. l \in Nat /\ l >= 1 /\ R(1) = s /\ Head(s) = s[1] /\ \A k \in 1 .. l : s[k] \in Byte
  BY HeadThenTail, LenProperties, SubSeqFull, ElementOfSeq
<1>2. PICK x1 : <<x, s[1], x1>> \in T /\ Path(T, x1, R(2), z)
  <2>1. s = <<Head(s)>> \o Tail(s) /\ Tail(s) \in Seq(Byte) /\ Head(s) \in Byte
    BY HeadThenTail
  <2>2. Tail(s) = R(2)
    BY TailIsSubSeq
  <2> QED BY <1>1, <2>1, <2>2, PathHead
<1>3. x1 \in Ear /\ Hear(x, s[1], S, x1)
  BY <1>1, <1>2, HearsOne
<1>4. CASE s[1] # IAC
  <2>1. x1 = [x EXCEPT !.n = x.n + 1] /\ x.n < Len(S) /\ S[x.n + 1] = s[1]
    BY <1>3, <1>4 DEF Hear, HearData, HearCommand, HearSize
  <2>2. x1.at = "data" /\ x1.n = x.n + 1 /\ x1.w = x.w /\ x1.naws = x.naws
    BY <2>1 DEF Ear
  <2>3. Token(s) = <<s[1]>> /\ Len(<<s[1]>>) = 1 /\ <<s[1]>>[1] = s[1]
    BY <1>1, <1>4 DEF Token
  <2>4. Len(Token(s)) = 1 /\ Token(s)[1] = s[1]
    BY <2>3
  <2>5. Len(Token(s)) \in 1 .. l /\ Path(T, x1, R(Len(Token(s)) + 1), z)
    BY <1>1, <1>2, <2>4
  <2>6. Tells(Token(s), x, x1, S)
    BY <2>1, <2>2, <2>4 DEF Tells
  <2> QED BY <1>3, <2>2, <2>5, <2>6
<1>5. CASE s[1] = IAC
  <2>1. x1 = [x EXCEPT !.at = "iac"]
    BY <1>3, <1>5 DEF Hear, HearData, HearCommand, HearSize
  <2>2. x1.at = "iac" /\ x1.n = x.n /\ x1.w = x.w /\ x1.naws = x.naws
    BY <2>1 DEF Ear
  <2>3. 2 <= l /\ \E y : <<x1, s[2], y>> \in T /\ Path(T, y, R(3), z)
    BY <1>1, <1>2, <2>2, PathOn
  <2>4. PICK x2 : <<x1, s[2], x2>> \in T /\ Path(T, x2, R(3), z)
    BY <2>3
  <2>5. x2 \in Ear /\ Hear(x1, s[2], S, x2)
    BY <1>1, <1>3, <2>3, <2>4, HearsOne
  <2>6. CASE s[2] = IAC
    <3>1. x2 = [x1 EXCEPT !.at = "data", !.n = x1.n + 1] /\ x1.n < Len(S) /\ S[x1.n + 1] = IAC
      BY <2>2, <2>5, <2>6, Codes DEF Hear, HearData, HearCommand, HearSize
    <3>2. x2.at = "data" /\ x2.n = x.n + 1 /\ x2.w = x.w /\ x2.naws = x.naws
      BY <1>3, <2>2, <3>1 DEF Ear
    <3>3. Token(s) = SubSeq(s, 1, 2)
      BY <1>1, <1>5, <2>6 DEF Token
    <3>4. Len(SubSeq(s, 1, 2)) = 2 /\ SubSeq(s, 1, 2)[1] = s[1]
      BY <1>1, <2>3
    <3>5. Len(Token(s)) = 2 /\ Token(s)[1] = s[1]
      BY <3>3, <3>4
    <3>6. Len(Token(s)) \in 1 .. l /\ Path(T, x2, R(Len(Token(s)) + 1), z)
      BY <1>1, <2>3, <2>4, <3>5
    <3>7. Tells(Token(s), x, x2, S)
      BY <1>5, <2>2, <3>1, <3>2, <3>5 DEF Tells
    <3> QED BY <2>5, <3>2, <3>6, <3>7
  <2>7. CASE s[2] \in Commands
    <3>1. x2 = [x1 EXCEPT !.at = "opt", !.cmd = s[2]]
      BY <2>2, <2>5, <2>7, Codes DEF Hear, HearData, HearCommand, HearSize
    <3>2. x2.at = "opt" /\ x2.n = x.n /\ x2.w = x.w /\ x2.naws = x.naws /\ x2.cmd = s[2]
      BY <1>3, <2>2, <3>1 DEF Ear
    <3>3. 3 <= l /\ \E y : <<x2, s[3], y>> \in T /\ Path(T, y, R(4), z)
      BY <1>1, <2>3, <2>4, <3>2, PathOn
    <3>4. PICK x3 : <<x2, s[3], x3>> \in T /\ Path(T, x3, R(4), z)
      BY <3>3
    <3>5. x3 \in Ear /\ Hear(x2, s[3], S, x3)
      BY <1>1, <2>5, <3>3, <3>4, HearsOne
    <3>6. /\ ~ (x2.cmd = WONT /\ s[3] = NAWS)
          /\ x3 = [x2 EXCEPT !.at = "data",
                             !.naws = IF x2.cmd = WILL /\ s[3] = NAWS THEN "on" ELSE x2.naws]
      BY <3>2, <3>5 DEF Hear, HearData, HearCommand, HearSize
    <3>7. /\ x3.at = "data" /\ x3.n = x.n /\ x3.w = x.w
          /\ x3.naws = IF s[2] = WILL /\ s[3] = NAWS THEN "on" ELSE x.naws
      BY <2>5, <3>2, <3>6 DEF Ear
    <3>8. Token(s) = SubSeq(s, 1, 3)
      BY <1>1, <1>5, <2>7, Codes DEF Token
    <3>9. Len(SubSeq(s, 1, 3)) = 3 /\ SubSeq(s, 1, 3)[2] = s[2] /\ SubSeq(s, 1, 3)[3] = s[3]
      BY <1>1, <3>3
    <3>10. Len(Token(s)) = 3 /\ Token(s)[2] = s[2] /\ Token(s)[3] = s[3]
      BY <3>8, <3>9
    <3>11. Len(Token(s)) \in 1 .. l /\ Path(T, x3, R(Len(Token(s)) + 1), z)
      BY <1>1, <3>3, <3>4, <3>10
    <3>12. Tells(Token(s), x, x3, S)
      BY <1>1, <2>7, <3>2, <3>3, <3>6, <3>7, <3>10 DEF Tells
    <3> QED BY <3>5, <3>7, <3>11, <3>12
  <2>8. CASE s[2] # IAC /\ s[2] \notin Commands
    <3>1. s[2] = SB /\ x2 = [x1 EXCEPT !.at = "sb"]
      BY <2>2, <2>5, <2>8 DEF Hear, HearData, HearCommand, HearSize
    <3>2. x2.at = "sb" /\ x2.n = x.n /\ x2.naws = x.naws
      BY <1>3, <2>2, <3>1 DEF Ear
    <3>3. 3 <= l /\ s[3] \in Byte /\ \E y : <<x2, s[3], y>> \in T /\ Path(T, y, R(4), z)
      <4>1. x2.at # z.at /\ 3 \in 1 .. l + 1 /\ 4 = 3 + 1 /\ Path(T, x2, R(3), z)
        BY <1>1, <2>3, <2>4, <3>2
      <4> QED BY <4>1, PathOn
    <3>4. PICK x3 : <<x2, s[3], x3>> \in T /\ Path(T, x3, R(4), z)
      BY <3>3
    <3>5. x3 \in Ear /\ x3.at = "c" /\ x3.n = x.n /\ x3.naws = x.naws
      BY <2>5, <3>2, <3>3, <3>4, SizeHeard
    <3>6. 4 <= l /\ s[4] \in Byte /\ \E y : <<x3, s[4], y>> \in T /\ Path(T, y, R(5), z)
      <4>1. x3.at # z.at /\ 4 \in 1 .. l + 1 /\ 5 = 4 + 1 /\ Path(T, x3, R(4), z)
        BY <1>1, <3>3, <3>4, <3>5
      <4> QED BY <4>1, PathOn
    <3>7. PICK x4 : <<x3, s[4], x4>> \in T /\ Path(T, x4, R(5), z)
      BY <3>6
    <3>8. x4 \in Ear /\ x4.at = "r" /\ x4.n = x.n /\ x4.naws = x.naws /\ x4.c = s[4]
      BY <3>5, <3>6, <3>7, SizeHeard
    <3>9. 5 <= l /\ s[5] \in Byte /\ \E y : <<x4, s[5], y>> \in T /\ Path(T, y, R(6), z)
      <4>1. x4.at # z.at /\ 5 \in 1 .. l + 1 /\ 6 = 5 + 1 /\ Path(T, x4, R(5), z)
        BY <1>1, <3>6, <3>7, <3>8
      <4> QED BY <4>1, PathOn
    <3>10. PICK x5 : <<x4, s[5], x5>> \in T /\ Path(T, x5, R(6), z)
      BY <3>9
    <3>11. x5 \in Ear /\ x5.at = "e" /\ x5.n = x.n /\ x5.naws = x.naws /\ x5.c = s[4] /\ x5.r = s[5]
      BY <3>8, <3>9, <3>10, SizeHeard
    <3>12. 6 <= l /\ s[6] \in Byte /\ \E y : <<x5, s[6], y>> \in T /\ Path(T, y, R(7), z)
      <4>1. x5.at # z.at /\ 6 \in 1 .. l + 1 /\ 7 = 6 + 1 /\ Path(T, x5, R(6), z)
        BY <1>1, <3>9, <3>10, <3>11
      <4> QED BY <4>1, PathOn
    <3>13. PICK x6 : <<x5, s[6], x6>> \in T /\ Path(T, x6, R(7), z)
      BY <3>12
    <3>14. x6 \in Ear /\ x6.at = "f" /\ x6.n = x.n /\ x6.naws = x.naws /\ x6.c = s[4] /\ x6.r = s[5]
      BY <3>11, <3>12, <3>13, SizeHeard
    <3>15. 7 <= l /\ s[7] \in Byte /\ \E y : <<x6, s[7], y>> \in T /\ Path(T, y, R(8), z)
      <4>1. x6.at # z.at /\ 7 \in 1 .. l + 1 /\ 8 = 7 + 1 /\ Path(T, x6, R(7), z)
        BY <1>1, <3>12, <3>13, <3>14
      <4> QED BY <4>1, PathOn
    <3>16. PICK x7 : <<x6, s[7], x7>> \in T /\ Path(T, x7, R(8), z)
      BY <3>15
    <3>17. x7 \in Ear /\ x7.at = "data" /\ x7.n = x.n /\ x7.naws = x.naws /\ x7.w = <<s[4], s[5]>>
      BY <3>14, <3>15, <3>16, SizeHeard
    <3>18. Token(s) = SubSeq(s, 1, 7)
      BY <1>1, <1>5, <2>8, <3>1 DEF Token
    <3>19. Len(SubSeq(s, 1, 7)) = 7 /\ SubSeq(s, 1, 7)[4] = s[4] /\ SubSeq(s, 1, 7)[5] = s[5]
      BY <1>1, <3>15
    <3>20. Len(Token(s)) = 7 /\ Token(s)[4] = s[4] /\ Token(s)[5] = s[5]
      BY <3>18, <3>19
    <3>21. Len(Token(s)) \in 1 .. l /\ Path(T, x7, R(Len(Token(s)) + 1), z)
      BY <1>1, <3>15, <3>16, <3>20
    <3>22. Tells(Token(s), x, x7, S)
      BY <3>17, <3>20 DEF Tells
    <3> QED BY <3>17, <3>21, <3>22
  <2> QED BY <2>6, <2>7, <2>8
<1> QED BY <1>4, <1>5

-----------------------------------------------------------------------------
(* The invariant. *)

Types ==
  /\ tx \in Seq(Byte) /\ typed \in Seq(Byte) /\ up \in Seq(Byte) /\ heard \in Seq(Byte)
  /\ down \in Seq(Byte) /\ chunk \in Seq(Byte) /\ data \in Seq(Byte)
  /\ shown \in Seq(Byte) /\ said \in Seq(Byte) /\ win \in Seq(Byte)
  /\ cols \in Byte /\ rows \in Byte /\ loaded \in Byte
  /\ pstate \in Modes /\ cmdByte \in Byte
  /\ resizer[1] \in {"cols", "rows"} => resizer[2] \in Sizes

\* What was received is used up before the next is.
Buffers ==
  task # "parse" /\ ~ (task \in {"cols", "rows"} /\ then = "parse") => chunk = <<>> /\ data = <<>>

Live == link /\ (starter \in {"hello", "spawn", "fail"} \/ task # "none")

\* What is under way to the terminal: before a session begins, and in one.
Fresh ==
  starter = "prepare" =>
    /\ up = <<>> /\ heard = <<>> /\ win = <<>>
    /\ Comes([st |-> "Data", cmd |-> cmdByte, n |-> 0, naws |-> "off"], down, said, opts)

Now ==
  [st |-> pstate, cmd |-> cmdByte, n |-> Len(shown \o data),
   naws |-> IF nawsAccepted THEN "on" ELSE "off"]
Inbound == Comes(Now, chunk \o down, said, opts) /\ Begins(shown \o data, said)

\* What is under way to the server: x is what has arrived, z what will have when
\* all that is written has.  The size w is then the terminal's, or it will be told.
Arrived(x) ==
  /\ x \in Ear /\ x.at = "data" /\ x.n = Len(heard) /\ x.w = win
  /\ x.naws = "on" => Asked \in opts

Left(n) ==
  /\ n + Len(tx) = Len(typed)
  /\ \A i \in 1 .. Len(tx) : tx[i] = typed[n + i]

Told(w) ==
  nawsAccepted =>
    \/ resizePending \/ resizer[1] # "idle" \/ task = "cols" \/ (task = "rows" /\ loaded = cols)
    \/ task # "rows" /\ w = <<cols, rows>>

Leaves(z) ==
  z \in Ear /\ z.at = "data" /\ Left(z.n) /\ (starter # "hello" => z.naws = "on") /\ Told(z.w)

Outbound ==
  /\ Begins(heard, typed)
  /\ \E x, z : Arrived(x) /\ Leaves(z) /\ Path(Hears(typed), x, up, z)

Streams == Types /\ Buffers /\ Fresh /\ (Live => Inbound) /\ (Live => Outbound)
TelnetInv == Points /\ Streams

LEMMA EmptyBytes == <<>> \in Seq(Byte) /\ Len(<<>>) = 0
OBVIOUS

LEMMA TelnetBegins == Init => TelnetInv
<1> SUFFICES ASSUME Init PROVE TelnetInv
  OBVIOUS
<1>1. Types
  BY EmptyBytes DEF Init, Types, Byte, Modes
<1>2. Buffers /\ Fresh /\ ~Live
  BY DEF Init, Buffers, Fresh, Live
<1> QED BY <1>1, <1>2, PointsBegin DEF TelnetInv, Streams

-----------------------------------------------------------------------------
(* Types and buffers. *)

LEMMA SizeBytes ==
  /\ CfgSize[1] \in Byte /\ CfgSize[2] \in Byte
  /\ \A s \in Sizes : s[1] \in Byte /\ s[2] \in Byte
BY SizesAssumption DEF Byte

LEMMA Appended ==
  ASSUME NEW s \in Seq(Byte), NEW t \in Seq(Byte)
  PROVE  s \o t \in Seq(Byte)
BY ConcatProperties

LEMMA Cut ==
  ASSUME NEW s \in Seq(Byte), NEW n \in 0 .. Len(s)
  PROVE  /\ SubSeq(s, 1, n) \in Seq(Byte) /\ SubSeq(s, n + 1, Len(s)) \in Seq(Byte)
         /\ s = SubSeq(s, 1, n) \o SubSeq(s, n + 1, Len(s))
<1>1. Len(s) \in Nat /\ \A i \in 1 .. Len(s) : s[i] \in Byte
  BY LenProperties, ElementOfSeq
<1>2. SubSeq(s, 1, n) \in Seq(Byte)
  <2>1. 1 \in Int /\ n \in Int /\ \A i \in 1 .. n : s[i] \in Byte
    BY <1>1
  <2> QED BY <2>1, SubSeqProperties
<1>3. SubSeq(s, n + 1, Len(s)) \in Seq(Byte)
  <2>1. n + 1 \in Int /\ Len(s) \in Int /\ \A i \in n + 1 .. Len(s) : s[i] \in Byte
    BY <1>1
  <2> QED BY <2>1, SubSeqProperties
<1>4. SubSeq(s, 1, n) \o SubSeq(s, n + 1, Len(s)) = SubSeq(s, 1, Len(s))
  <2>1. 1 \in 1 .. Len(s) + 1 /\ n \in 1 - 1 .. Len(s) /\ Len(s) \in n .. Len(s)
    BY <1>1
  <2> QED BY <2>1, ConcatAdjacentSubSeq
<1>5. SubSeq(s, 1, Len(s)) = s
  BY SubSeqFull
<1> QED BY <1>2, <1>3, <1>4, <1>5

LEMMA AnswerIs ==
  ASSUME NEW c \in Commands, NEW o \in Byte
  PROVE  /\ Answer(c, o) \in Commands
         /\ Answer(c, o) = WONT /\ o = NAWS => c = DONT
         /\ c = DO /\ o = NAWS => Answer(c, o) = WILL
<1>1. c = DO \/ c = WILL \/ c = DONT \/ c = WONT
  BY DEF Commands
<1>2. DO # WILL /\ DO # DONT /\ DO # WONT /\ WILL # DONT /\ WILL # WONT /\ DONT # WONT
  BY DEF DO, WILL, DONT, WONT
<1>3. CASE c = DO
  BY <1>2, <1>3 DEF Answer, Commands
<1>4. CASE c = WILL
  BY <1>2, <1>4 DEF Answer, Commands
<1>5. CASE c = DONT
  BY <1>2, <1>5 DEF Answer, Commands
<1>6. CASE c = WONT
  BY <1>2, <1>6 DEF Answer, Commands
<1> QED BY <1>1, <1>3, <1>4, <1>5, <1>6

\* Writing.
LEMMA Written ==
  ASSUME NEW t \in Seq(Byte), Types, Write(t)
  PROVE  up' \in Seq(Byte) /\ (link => up' = up \o t)
BY Appended DEF Types, Write

-----------------------------------------------------------------------------
(* What a step leaves alone. *)

LEMMA InboundStays ==
  ASSUME Inbound, pstate' = pstate, cmdByte' = cmdByte, shown' \o data' = shown \o data,
         nawsAccepted' <=> nawsAccepted, chunk' \o down' = chunk \o down,
         said' = said, opts' = opts
  PROVE  Inbound'
<1>1. Now' = Now
  BY DEF Now
<1> QED BY <1>1 DEF Inbound

LEMMA FreshStays ==
  ASSUME Fresh, starter' = starter, up' = up, heard' = heard, win' = win, cmdByte' = cmdByte,
         down' = down, said' = said, opts' = opts
  PROVE  Fresh'
BY DEF Fresh

LEMMA OutboundStays ==
  ASSUME Outbound, heard' = heard, typed' = typed, win' = win, opts' = opts, up' = up,
         \A z : Leaves(z) => Leaves(z)'
  PROVE  Outbound'
<1>1. PICK x, z : Arrived(x) /\ Leaves(z) /\ Path(Hears(typed), x, up, z)
  BY DEF Outbound
<1>2. Arrived(x)' /\ Leaves(z)'
  BY <1>1 DEF Arrived
<1> QED BY <1>1, <1>2 DEF Outbound

LEMMA LeavesStill ==
  ASSUME NEW z, Leaves(z), tx' = tx, typed' = typed, starter' # "hello" => starter # "hello",
         Told(z.w) => Told(z.w)'
  PROVE  Leaves(z)'
BY DEF Leaves, Left

\* Writing t, when any z that all will lead to is led on by t.
LEMMA WriteKeeps ==
  ASSUME Types, Outbound, link, NEW t \in Seq(Byte), Write(t),
         heard' = heard, typed' = typed, win' = win, opts' = opts,
         \A z : Leaves(z) => \E y : Path(Hears(typed), z, t, y) /\ Leaves(y)'
  PROVE  Outbound'
<1>1. PICK x, z : Arrived(x) /\ Leaves(z) /\ Path(Hears(typed), x, up, z)
  BY DEF Outbound
<1>2. PICK y : Path(Hears(typed), z, t, y) /\ Leaves(y)'
  BY <1>1
<1>3. Arrived(x)'
  BY <1>1 DEF Arrived
<1>4. Path(Hears(typed), x, up \o t, y)
  BY <1>1, <1>2, PathJoin DEF Types
<1>5. up' = up \o t
  BY Written
<1>6. Path(Hears(typed'), x, up', y)
  BY <1>4, <1>5
<1>7. Begins(heard', typed')
  BY DEF Outbound
<1> QED BY <1>2, <1>3, <1>6, <1>7 DEF Outbound

-----------------------------------------------------------------------------
(* start() keeps it. *)

LEMMA CallKeeps == TelnetInv /\ Call => Streams'
<1> SUFFICES ASSUME TelnetInv, Call PROVE Streams'
  OBVIOUS
<1> USE DEF TelnetInv, Streams, Call, flags, window, rx, resizing, sending, world, worldButUp
<1>1. Types'
  BY DEF Types
<1>2. Buffers' /\ Fresh'
  BY DEF Buffers, Fresh
<1>3. ~Live'
  BY DEF Points, Working, Tasks, Live
<1> QED BY <1>1, <1>2, <1>3

LEMMA DialKeeps == TelnetInv /\ Dial => Streams'
<1> SUFFICES ASSUME TelnetInv, Dial PROVE Streams'
  OBVIOUS
<1> USE DEF TelnetInv, Streams, Dial, flags, window, rx, resizing, sending
<1>1. Types'
  BY EmptyBytes DEF Types, world, worldButUp
<1>2. Buffers'
  BY DEF Buffers
<1>3. Fresh'
  <2> SUFFICES ASSUME starter' = "prepare" PROVE Fresh'
    BY DEF Fresh
  <2>1. /\ down' = <<>> /\ up' = <<>> /\ said' = <<>> /\ heard' = <<>> /\ opts' = {} /\ win' = <<>>
        /\ cmdByte' = cmdByte
    OBVIOUS
  <2> DEFINE x == [st |-> "Data", cmd |-> cmdByte, n |-> 0, naws |-> "off"]
  <2>2. x \in Reader /\ x.st = "Data" /\ x.n = 0
    BY DEF Reader, Types, Modes
  <2>3. Comes(x, <<>>, <<>>, {})
    <3> HIDE DEF x
    <3> QED BY <2>2, EmptyBytes, ComesNothing DEF Rests
  <2> QED BY <2>1, <2>3 DEF Fresh
<1>4. ~Live'
  BY DEF Points, Live, world, worldButUp
<1> QED BY <1>1, <1>2, <1>3, <1>4

LEMMA NoBufferKeeps == TelnetInv /\ (NoBuffer \/ GiveUp) => Streams'
<1> SUFFICES ASSUME TelnetInv, NoBuffer \/ GiveUp PROVE Streams'
  OBVIOUS
<1> USE DEF TelnetInv, Streams, NoBuffer, GiveUp, flags, window, rx, resizing, sending
<1>1. Types'
  BY EmptyBytes DEF Types
<1>2. Buffers' /\ Fresh' /\ ~Live'
  BY DEF Buffers, Fresh, Live
<1> QED BY <1>1, <1>2

LEMMA PrepareKeeps == TelnetInv /\ Prepare => Streams'
<1> SUFFICES ASSUME TelnetInv, Prepare PROVE Streams'
  OBVIOUS
<1> USE DEF TelnetInv, Streams
<1>1. /\ starter = "prepare" /\ starter' = "hello" /\ task' = task /\ then' = then
      /\ tx' = <<>> /\ typed' = <<>> /\ shown' = <<>> /\ ~nawsAccepted' /\ pstate' = "Data"
      /\ cmdByte' = cmdByte /\ chunk' = chunk /\ data' = data /\ loaded' = loaded
      /\ cols' = CfgSize[1] /\ rows' = CfgSize[2] /\ resizer' = resizer
      /\ down' = down /\ up' = up /\ said' = said /\ heard' = heard /\ opts' = opts /\ win' = win
  BY DEF Prepare, world, worldButUp, resizing
<1>2. task = "none" /\ chunk = <<>> /\ data = <<>>
  BY <1>1 DEF Points, Buffers
<1>3. Types'
  BY <1>1, EmptyBytes, SizeBytes DEF Types, Modes
<1>4. Buffers' /\ Fresh'
  BY <1>1 DEF Buffers, Fresh
<1>5. up = <<>> /\ heard = <<>> /\ win = <<>>
      /\ Comes([st |-> "Data", cmd |-> cmdByte, n |-> 0, naws |-> "off"], down, said, opts)
  BY <1>1 DEF Fresh
<1>6. Inbound'
  <2>1. <<>> \o <<>> = <<>> /\ <<>> \o down = down
    BY EmptyBytes, ConcatEmptySeq DEF Types
  <2>2. Now' = [st |-> "Data", cmd |-> cmdByte, n |-> 0, naws |-> "off"]
    BY <1>1, <1>2, <2>1, EmptyBytes DEF Now
  <2>3. Begins(shown' \o data', said')
    BY <1>1, <1>2, <2>1, EmptyBytes, LenProperties DEF Begins, Types
  <2> QED BY <1>1, <1>2, <1>5, <2>1, <2>2, <2>3 DEF Inbound
<1>7. Outbound'
  <2> DEFINE x == [at |-> "data", n |-> 0, cmd |-> 0, c |-> 0, r |-> 0, w |-> <<>>, naws |-> "off"]
  <2>1. x \in Ear /\ x.at = "data" /\ x.n = 0 /\ x.w = <<>> /\ x.naws = "off"
    BY EmptyBytes DEF Ear, Stages, Byte
  <2> HIDE DEF x
  <2>2. Arrived(x)'
    BY <1>1, <1>5, <2>1, EmptyBytes DEF Arrived
  <2>3. Leaves(x)'
    BY <1>1, <2>1, EmptyBytes DEF Leaves, Left, Told
  <2>4. Path(Hears(typed'), x, <<>>, x)
    BY PathEmpty
  <2>5. Begins(heard', typed')
    BY <1>1, <1>5, EmptyBytes DEF Begins
  <2> QED BY <1>1, <1>5, <2>2, <2>3, <2>4, <2>5 DEF Outbound
<1> QED BY <1>3, <1>4, <1>6, <1>7

LEMMA HelloKeeps == TelnetInv /\ Hello => Streams'
<1> SUFFICES ASSUME TelnetInv, Hello PROVE Streams'
  OBVIOUS
<1> USE DEF TelnetInv, Streams
<1> DEFINE t == <<IAC, WILL, NAWS>>
<1>1. /\ starter = "hello" /\ starter' = "spawn" /\ Write(t) /\ task' = task /\ then' = then
      /\ loaded' = loaded /\ tx' = tx /\ typed' = typed /\ (link' <=> link)
      /\ resizer' = resizer
      /\ down' = down /\ said' = said /\ heard' = heard /\ opts' = opts /\ win' = win
  BY DEF Hello, worldButUp, sending, resizing
<1>2. /\ pstate' = pstate /\ cmdByte' = cmdByte /\ chunk' = chunk /\ data' = data /\ shown' = shown
      /\ cols' = cols /\ rows' = rows /\ (nawsAccepted' <=> nawsAccepted)
      /\ (resizePending' <=> resizePending)
  BY DEF Hello, rx, window
<1>3. t \in Seq(Byte)
  BY Codes
<1> HIDE DEF t
<1>4. Types'
  BY <1>1, <1>2, <1>3, Written DEF Types
<1>5. Buffers' /\ Fresh'
  BY <1>1, <1>2 DEF Buffers, Fresh
<1>6. ASSUME Live' PROVE Inbound' /\ Outbound'
  <2>1. Live /\ link
    BY <1>1, <1>6 DEF Live
  <2>2. Inbound'
    BY <1>1, <1>2, <2>1, InboundStays
  <2>3. ASSUME NEW z, Leaves(z)
        PROVE  \E y : Path(Hears(typed), z, t, y) /\ Leaves(y)'
    <3>1. z \in Ear /\ z.at = "data" /\ Left(z.n) /\ Told(z.w)
      BY <2>3 DEF Leaves
    <3>2. WILL \in Commands /\ NAWS \in Byte /\ ~ (WILL = WONT /\ NAWS = NAWS)
      BY Codes DEF Commands, WILL, WONT
    <3>3. PICK y \in Ear : /\ Path(Hears(typed), z, t, y)
                           /\ y.at = "data" /\ y.n = z.n /\ y.w = z.w /\ y.naws = "on"
      BY <3>1, <3>2, AnswerLeaves DEF t
    <3>4. Left(y.n)' /\ Told(y.w)'
      BY <1>1, <1>2, <3>1, <3>3 DEF Left, Told
    <3> QED BY <3>3, <3>4 DEF Leaves
  <2>4. Outbound'
    BY <1>1, <1>3, <2>1, <2>3, WriteKeeps
  <2> QED BY <2>2, <2>4
<1> QED BY <1>4, <1>5, <1>6

LEMMA SpawnKeeps == TelnetInv /\ Spawn => Streams'
<1> SUFFICES ASSUME TelnetInv, Spawn PROVE Streams'
  OBVIOUS
<1> USE DEF TelnetInv, Streams
<1>1. /\ starter = "spawn" /\ starter' \in {"idle", "fail"} /\ (task' = task \/ task' = "created")
      /\ then' = then /\ loaded' = loaded /\ tx' = tx /\ typed' = typed /\ (link' <=> link)
      /\ resizer' = resizer /\ up' = up
      /\ down' = down /\ said' = said /\ heard' = heard /\ opts' = opts /\ win' = win
  BY DEF Spawn, world, worldButUp, sending, resizing
<1>2. /\ pstate' = pstate /\ cmdByte' = cmdByte /\ chunk' = chunk /\ data' = data /\ shown' = shown
      /\ cols' = cols /\ rows' = rows /\ (nawsAccepted' <=> nawsAccepted)
      /\ (resizePending' <=> resizePending)
  BY DEF Spawn, rx, window
<1>3. task = "none"
  BY <1>1 DEF Points
<1>4. Types'
  BY <1>1, <1>2 DEF Types
<1>5. Buffers' /\ Fresh'
  BY <1>1, <1>2, <1>3 DEF Buffers, Fresh
<1>6. ASSUME Live' PROVE Inbound' /\ Outbound'
  <2>1. Live
    BY <1>1, <1>6 DEF Live
  <2>2. Inbound'
    BY <1>1, <1>2, <2>1, InboundStays
  <2>3. \A w : Told(w) => Told(w)'
    BY <1>1, <1>2, <1>3 DEF Told
  <2>4. \A z : Leaves(z) => Leaves(z)'
    BY <1>1, <2>3, LeavesStill
  <2>5. Outbound'
    BY <1>1, <2>1, <2>4, OutboundStays
  <2> QED BY <2>2, <2>5
<1> QED BY <1>4, <1>5, <1>6

-----------------------------------------------------------------------------
(* telnet_task keeps it.  The steps that write nothing: *)

LEMMA QuietKeeps ==
  ASSUME TelnetInv, task # "none", starter' = starter, link' => link,
         tx' = tx, typed' = typed, resizer' = resizer, up' = up,
         said' = said, heard' = heard, opts' = opts, win' = win,
         pstate' = pstate, cmdByte' = cmdByte, shown' \o data' = shown \o data,
         chunk' \o down' = chunk \o down, nawsAccepted' <=> nawsAccepted,
         Types', Buffers', \A w : Told(w) => Told(w)'
  PROVE  Streams'
<1> USE DEF TelnetInv, Streams
<1>1. starter = "idle"
  BY DEF Points
<1>2. Fresh'
  BY <1>1 DEF Fresh
<1>3. ASSUME Live' PROVE Inbound' /\ Outbound'
  <2>1. Live
    BY <1>1, <1>3 DEF Live
  <2>2. Inbound'
    BY <2>1, InboundStays
  <2>3. \A z : Leaves(z) => Leaves(z)'
    BY LeavesStill
  <2>4. Outbound'
    BY <2>1, <2>3, OutboundStays
  <2> QED BY <2>2, <2>4
<1> QED BY <1>2, <1>3

LEMMA BeginKeeps == TelnetInv /\ (Begin \/ TakePending \/ LoadCols) => Streams'
<1> SUFFICES ASSUME TelnetInv, Begin \/ TakePending \/ LoadCols PROVE Streams'
  OBVIOUS
<1>1. /\ task \in {"created", "top", "cols"} /\ starter' = starter /\ (link' <=> link)
      /\ tx' = tx /\ typed' = typed /\ resizer' = resizer /\ up' = up
      /\ down' = down /\ said' = said /\ heard' = heard /\ opts' = opts /\ win' = win
  BY DEF Begin, TakePending, LoadCols, world, worldButUp, sending, resizing
<1>2. /\ pstate' = pstate /\ cmdByte' = cmdByte /\ chunk' = chunk /\ data' = data /\ shown' = shown
      /\ cols' = cols /\ rows' = rows /\ (nawsAccepted' <=> nawsAccepted)
  BY DEF Begin, TakePending, LoadCols, rx, window
<1>3. \/ task = "created" /\ task' = "top" /\ then' = then /\ loaded' = loaded
         /\ (resizePending' <=> resizePending)
      \/ /\ task = "top" /\ ~resizePending' /\ loaded' = loaded /\ then' = "recv"
         /\ resizePending /\ nawsAccepted => task' = "cols"
         /\ task' = "cols" \/ task' = "recv"
      \/ task = "cols" /\ task' = "rows" /\ then' = then /\ loaded' = cols
         /\ (resizePending' <=> resizePending)
  BY DEF Begin, TakePending, LoadCols, window
<1>4. Types'
  BY <1>1, <1>2, <1>3 DEF Types, TelnetInv, Streams
<1>5. Buffers'
  BY <1>1, <1>2, <1>3 DEF Buffers, TelnetInv, Streams
<1>6. \A w : Told(w) => Told(w)'
  BY <1>1, <1>2, <1>3 DEF Told
<1> QED BY <1>1, <1>2, <1>4, <1>5, <1>6, QuietKeeps

LEMMA RecvKeeps == TelnetInv /\ Recv => Streams'
<1> SUFFICES ASSUME TelnetInv, Recv PROVE Streams'
  OBVIOUS
<1> USE DEF TelnetInv, Streams
<1>1. /\ task = "recv" /\ task' \in {"parse", "tx", "end"} /\ starter' = starter /\ then' = then
      /\ loaded' = loaded /\ (link' <=> link)
      /\ tx' = tx /\ typed' = typed /\ resizer' = resizer /\ up' = up
      /\ said' = said /\ heard' = heard /\ opts' = opts /\ win' = win
      /\ pstate' = pstate /\ cmdByte' = cmdByte /\ data' = data /\ shown' = shown
      /\ cols' = cols /\ rows' = rows /\ (nawsAccepted' <=> nawsAccepted)
      /\ (resizePending' <=> resizePending)
  BY DEF Recv, sending, resizing, window
<1>2. chunk = <<>> /\ data = <<>> /\ chunk \in Seq(Byte) /\ down \in Seq(Byte)
  BY <1>1 DEF Buffers, Types
<1>3. /\ chunk' \in Seq(Byte) /\ down' \in Seq(Byte) /\ chunk' \o down' = chunk \o down
      /\ task' = "parse" \/ chunk' = chunk
  <2>1. CASE \E n \in {1, Len(down)} :
               down # <<>> /\ chunk' = SubSeq(down, 1, n) /\ down' = SubSeq(down, n + 1, Len(down))
               /\ task' = "parse"
    <3>1. PICK n \in {1, Len(down)} :
               down # <<>> /\ chunk' = SubSeq(down, 1, n) /\ down' = SubSeq(down, n + 1, Len(down))
               /\ task' = "parse"
      BY <2>1
    <3>2. n \in 0 .. Len(down)
      BY <1>2, <3>1, EmptySeq
    <3>3. chunk \o down = down
      BY <1>2, ConcatEmptySeq
    <3> QED BY <1>2, <3>1, <3>2, <3>3, Cut
  <2>2. CASE chunk' = chunk /\ down' = down
    BY <1>2, <2>2
  <2> QED BY <2>1, <2>2 DEF Recv
<1>4. Types'
  BY <1>1, <1>2, <1>3 DEF Types
<1>5. Buffers'
  BY <1>1, <1>2, <1>3 DEF Buffers
<1>6. \A w : Told(w) => Told(w)'
  BY <1>1 DEF Told
<1>7. shown' \o data' = shown \o data
  BY <1>1
<1> HIDE DEF TelnetInv, Streams
<1> QED BY <1>1, <1>3, <1>4, <1>5, <1>6, <1>7, QuietKeeps

LEMMA ShowKeeps == TelnetInv /\ Show => Streams'
<1> SUFFICES ASSUME TelnetInv, Show PROVE Streams'
  OBVIOUS
<1> USE DEF TelnetInv, Streams
<1>1. /\ task = "parse" /\ task' = "tx" /\ starter' = starter /\ then' = then
      /\ loaded' = loaded /\ (link' <=> link)
      /\ tx' = tx /\ typed' = typed /\ resizer' = resizer /\ up' = up
      /\ down' = down /\ said' = said /\ heard' = heard /\ opts' = opts /\ win' = win
  BY DEF Show, world, worldButUp, sending, resizing
<1>2. /\ pstate' = pstate /\ cmdByte' = cmdByte /\ chunk = <<>> /\ chunk' = chunk
      /\ data' = <<>> /\ shown' = shown \o data
      /\ cols' = cols /\ rows' = rows /\ (nawsAccepted' <=> nawsAccepted)
      /\ (resizePending' <=> resizePending)
  BY DEF Show, window
<1>3. shown \o data \in Seq(Byte) /\ shown' \o data' = shown \o data
  BY <1>2, Appended, ConcatEmptySeq DEF Types
<1>4. Types'
  BY <1>1, <1>2, <1>3, EmptyBytes DEF Types
<1>5. Buffers'
  BY <1>2 DEF Buffers
<1>6. \A w : Told(w) => Told(w)'
  BY <1>1, <1>2 DEF Told
<1>7. chunk' \o down' = chunk \o down
  BY <1>1, <1>2
<1> HIDE DEF TelnetInv, Streams
<1> QED BY <1>1, <1>2, <1>3, <1>4, <1>5, <1>6, <1>7, QuietKeeps

LEMMA ShutdownKeeps == TelnetInv /\ (Shutdown \/ Bye) => Streams'
<1> SUFFICES ASSUME TelnetInv, Shutdown \/ Bye PROVE Streams'
  OBVIOUS
<1> USE DEF TelnetInv, Streams
<1>1. /\ task \in {"end", "bye"} /\ starter' = starter /\ ~link'
      /\ tx' \in {tx, <<>>} /\ typed' = typed /\ up' = up /\ heard' = heard
      /\ down' = down /\ said' = said /\ win' = win /\ loaded' = loaded /\ resizer' = resizer
  BY DEF Shutdown, Bye, world, worldButUp, sending, resizing, Points
<1>2. /\ pstate' = pstate /\ cmdByte' = cmdByte /\ chunk' = chunk /\ data' = data /\ shown' = shown
      /\ cols' = cols /\ rows' = rows
  BY DEF Shutdown, Bye, rx, window
<1>3. chunk = <<>> /\ data = <<>> /\ starter = "idle"
  BY <1>1 DEF Buffers, Points
<1>4. Types'
  BY <1>1, <1>2, EmptyBytes DEF Types
<1>5. Buffers' /\ Fresh' /\ ~Live'
  BY <1>1, <1>2, <1>3 DEF Buffers, Fresh, Live
<1> QED BY <1>4, <1>5

\* The steps that write: what they write leads on from where all that is
\* written leads.
LEMMA WritingKeeps ==
  ASSUME TelnetInv, task # "none", starter' = starter, link' <=> link, NEW t, Write(t),
         said' = said, heard' = heard, opts' = opts, win' = win, typed' = typed,
         Types', Buffers', Live => Inbound',
         Live => /\ t \in Seq(Byte)
                 /\ \A z : Leaves(z) => \E y : Path(Hears(typed), z, t, y) /\ Leaves(y)'
  PROVE  Streams'
<1> USE DEF TelnetInv, Streams
<1>1. starter = "idle"
  BY DEF Points
<1>2. Fresh'
  BY <1>1 DEF Fresh
<1>3. ASSUME Live' PROVE Inbound' /\ Outbound'
  <2>1. Live /\ link
    BY <1>1, <1>3 DEF Live
  <2>2. Outbound'
    BY <2>1, WriteKeeps
  <2> QED BY <2>1, <2>2
<1> QED BY <1>2, <1>3

LEMMA SendNawsKeeps == TelnetInv /\ SendNaws => Streams'
<1> SUFFICES ASSUME TelnetInv, SendNaws PROVE Streams'
  OBVIOUS
<1> USE DEF TelnetInv, Streams
<1> DEFINE t == <<IAC, SB, NAWS, loaded, rows, IAC, SE>>
<1>1. /\ task = "rows" /\ task' = then /\ starter' = starter /\ then' = then
      /\ loaded' = loaded /\ (link' <=> link) /\ Write(t)
      /\ tx' = tx /\ typed' = typed /\ resizer' = resizer
      /\ down' = down /\ said' = said /\ heard' = heard /\ opts' = opts /\ win' = win
  BY DEF SendNaws, worldButUp, sending, resizing
<1>2. /\ pstate' = pstate /\ cmdByte' = cmdByte /\ chunk' = chunk /\ data' = data /\ shown' = shown
      /\ cols' = cols /\ rows' = rows /\ (nawsAccepted' <=> nawsAccepted)
      /\ (resizePending' <=> resizePending)
  BY DEF SendNaws, rx, window
<1>3. t \in Seq(Byte) /\ loaded \in Byte /\ rows \in Byte
  BY Codes DEF Types
<1> HIDE DEF t
<1>5. Types'
  BY <1>1, <1>2, <1>3, Written DEF Types
<1>6. Buffers' /\ starter = "idle" /\ task' # "rows" /\ task # "cols"
  BY <1>1, <1>2 DEF Buffers, Points
<1>7. Live => Inbound'
  BY <1>1, <1>2, InboundStays
<1>8. ASSUME NEW z, Leaves(z)
      PROVE  \E y : Path(Hears(typed), z, t, y) /\ Leaves(y)'
  <2>1. z \in Ear /\ z.at = "data" /\ Left(z.n) /\ z.naws = "on" /\ Told(z.w)
    BY <1>6, <1>8 DEF Leaves
  <2> DEFINE v == <<loaded, rows>>
  <2>2. PICK y \in Ear : /\ Path(Hears(typed), z, t, y)
                         /\ y.at = "data" /\ y.n = z.n /\ y.w = v /\ y.naws = z.naws
    <3>1. /\ loaded \in Byte /\ rows \in Byte /\ t = <<IAC, SB, NAWS, loaded, rows, IAC, SE>>
          /\ v = <<loaded, rows>>
      BY <1>3 DEF t
    <3> HIDE DEF TelnetInv, Streams, v
    <3> QED BY <2>1, <3>1, SizeLeaves
  <2>3. Told(y.w)'
    BY <1>1, <1>2, <1>6, <2>1, <2>2 DEF Told
  <2>4. Left(y.n)'
    BY <1>1, <2>1, <2>2 DEF Left
  <2> QED BY <2>1, <2>2, <2>3, <2>4 DEF Leaves
<1> HIDE DEF TelnetInv, Streams
<1> QED BY <1>1, <1>3, <1>5, <1>6, <1>7, <1>8, WritingKeeps

LEMMA DrainKeeps == TelnetInv /\ Drain => Streams'
<1> SUFFICES ASSUME TelnetInv, Drain PROVE Streams'
  OBVIOUS
<1> USE DEF TelnetInv, Streams
<1>1. /\ task = "tx" /\ task' \in {"tx", "top"} /\ starter' = starter /\ then' = then
      /\ loaded' = loaded /\ (link' <=> link)
      /\ typed' = typed /\ resizer' = resizer
      /\ down' = down /\ said' = said /\ heard' = heard /\ opts' = opts /\ win' = win
  BY DEF Drain, worldButUp, resizing
<1>2. /\ pstate' = pstate /\ cmdByte' = cmdByte /\ chunk' = chunk /\ data' = data /\ shown' = shown
      /\ cols' = cols /\ rows' = rows /\ (nawsAccepted' <=> nawsAccepted)
      /\ (resizePending' <=> resizePending)
  BY DEF Drain, rx, window
<1>3. Buffers' /\ starter = "idle"
  BY <1>1, <1>2 DEF Buffers, Points
<1>4. Live => Inbound'
  BY <1>1, <1>2, InboundStays
<1>5. \A w : Told(w) => Told(w)'
  BY <1>1, <1>2 DEF Told
<1>6. CASE tx = <<>>
  <2>1. tx' = tx /\ up' = up
    BY <1>6 DEF Drain
  <2>2. Types'
    BY <1>1, <1>2, <2>1 DEF Types
  <2>3. chunk' \o down' = chunk \o down /\ shown' \o data' = shown \o data
    BY <1>1, <1>2
  <2> HIDE DEF TelnetInv, Streams
  <2> QED BY <1>1, <1>2, <1>3, <1>5, <2>1, <2>2, <2>3, QuietKeeps
<1>7. CASE tx # <<>>
  <2> DEFINE b == Head(tx)
             t == Escaped(b)
  <2>1. tx' = Tail(tx) /\ Write(t)
    BY <1>7 DEF Drain
  <2>2. /\ b \in Byte /\ Tail(tx) \in Seq(Byte) /\ Len(tx) = Len(Tail(tx)) + 1 /\ tx[1] = b
        /\ Len(tx) \in Nat /\ Len(typed) \in Nat
    BY <1>7, HeadThenTail, LenProperties DEF Types
  <2>3. \A i \in 1 .. Len(Tail(tx)) : Tail(tx)[i] = tx[i + 1]
    BY <1>7, HeadTailProperties DEF Types
  <2>4. t \in Seq(Byte)
    BY <2>2 DEF Escaped
  <2> HIDE DEF b, t
  <2>5. Types'
    BY <1>1, <1>2, <2>1, <2>2, <2>4, Written DEF Types
  <2>6. ASSUME NEW z, Leaves(z)
        PROVE  \E y : Path(Hears(typed), z, t, y) /\ Leaves(y)'
    <3>1. z \in Ear /\ z.n \in Nat /\ z.at = "data" /\ Left(z.n) /\ z.naws = "on" /\ Told(z.w)
      BY <1>3, <2>6 DEF Leaves, Ear
    <3>2. z.n + Len(tx) = Len(typed) /\ \A i \in 1 .. Len(tx) : tx[i] = typed[z.n + i]
      BY <3>1 DEF Left
    <3>3. z.n < Len(typed) /\ typed[z.n + 1] = b
      <4>1. 1 \in 1 .. Len(tx) /\ Len(Tail(tx)) \in Nat
        BY <2>2, LenProperties
      <4>2. tx[1] = typed[z.n + 1]
        BY <3>2, <4>1
      <4> QED BY <2>2, <3>1, <3>2, <4>1, <4>2
    <3>4. PICK y \in Ear : /\ Path(Hears(typed), z, t, y)
                           /\ y.at = "data" /\ y.n = z.n + 1 /\ y.w = z.w /\ y.naws = z.naws
      BY <2>2, <3>1, <3>3, DataLeaves DEF t
    <3>5. Left(y.n)'
      <4>1. y.n + Len(Tail(tx)) = Len(typed)
        BY <2>2, <3>1, <3>2, <3>4, LenProperties
      <4>2. ASSUME NEW i \in 1 .. Len(Tail(tx)) PROVE Tail(tx)[i] = typed[y.n + i]
        <5>1. i + 1 \in 1 .. Len(tx) /\ y.n + i = z.n + (i + 1)
          BY <2>2, <3>1, <3>4, LenProperties
        <5>2. tx[i + 1] = typed[z.n + (i + 1)]
          BY <3>2, <5>1
        <5> QED BY <2>3, <5>1, <5>2
      <4> QED BY <1>1, <2>1, <4>1, <4>2 DEF Left
    <3>6. Told(y.w)'
      BY <1>5, <3>1, <3>4
    <3> QED BY <3>1, <3>4, <3>5, <3>6 DEF Leaves
  <2> HIDE DEF TelnetInv, Streams
  <2> QED BY <1>1, <1>3, <1>4, <2>1, <2>4, <2>5, <2>6, WritingKeeps
<1> QED BY <1>6, <1>7

\* process_rx: what one byte does to the reader,
LEMMA GotNow ==
  ASSUME TelnetInv, Parse, Live
  PROVE  LET b == Head(chunk) IN
         /\ Now \in Reader /\ <<Now, b, Got(Now, b)>> \in Reads(said)
         /\ Comes(Got(Now, b), Tail(chunk) \o down, said, opts)
<1> USE DEF TelnetInv, Streams
<1> DEFINE b == Head(chunk)
<1>1. /\ b \in Byte /\ Tail(chunk) \in Seq(Byte) /\ chunk = <<b>> \o Tail(chunk)
      /\ down \in Seq(Byte) /\ <<b>> \in Seq(Byte)
  BY HeadThenTail DEF Parse, Types
<1>2. Now \in Reader
  <2>1. Len(shown \o data) \in Nat
    BY Appended, LenProperties DEF Types
  <2> QED BY <2>1 DEF Now, Reader, Types
<1>3. chunk \o down = <<b>> \o (Tail(chunk) \o down)
  BY <1>1, ConcatAssociative
<1>4. Tail(chunk) \o down \in Seq(Byte)
  BY <1>1, Appended
<1> HIDE DEF b
<1>5. Comes(Now, <<b>> \o (Tail(chunk) \o down), said, opts)
  BY <1>3 DEF Inbound
<1> QED BY <1>1, <1>2, <1>4, <1>5, ComesNext DEF b

\* and to what the terminal has.
LEMMA ParseArrives ==
  ASSUME TelnetInv, Parse, Live
  PROVE  Inbound'
<1> USE DEF TelnetInv, Streams
<1> DEFINE b == Head(chunk)
           d == shown \o data
           p == Pushed(pstate, b)
<1>1. /\ Now \in Reader /\ <<Now, b, Got(Now, b)>> \in Reads(said)
      /\ Comes(Got(Now, b), Tail(chunk) \o down, said, opts)
  BY GotNow
<1>2. /\ chunk' = Tail(chunk) /\ data' = data \o p /\ pstate' = NextState(pstate, b)
      /\ cmdByte' = IF pstate = "Iac" /\ b \in Commands THEN b ELSE cmdByte
      /\ nawsAccepted' <=> nawsAccepted \/ (pstate = "Iac2" /\ cmdByte = DO /\ b = NAWS)
      /\ shown' = shown /\ said' = said /\ down' = down /\ opts' = opts
  BY DEF Parse, worldButUp
<1>3. b \in Byte /\ p \in Seq(Byte) /\ p = IF Pushes(pstate, b) THEN <<b>> ELSE <<>>
  <2>1. chunk # <<>> /\ chunk \in Seq(Byte) /\ pstate \in Modes
    BY DEF Parse, Types
  <2>2. b \in Byte
    BY <2>1, HeadThenTail
  <2> HIDE DEF b
  <2>3. p = IF Pushes(pstate, b) THEN <<b>> ELSE <<>>
    BY <2>1, <2>2, PushedIs
  <2>4. <<b>> \in Seq(Byte)
    BY <2>2
  <2> QED BY <2>2, <2>3, <2>4, EmptyBytes
<1>4. /\ d \in Seq(Byte) /\ Len(d) \in Nat /\ shown' \o data' = d \o p
      /\ Begins(d, said)
  <2>1. shown \in Seq(Byte) /\ data \in Seq(Byte)
    BY DEF Types
  <2>2. d \in Seq(Byte) /\ Len(d) \in Nat
    BY <2>1, Appended, LenProperties
  <2>3. Begins(d, said)
    BY DEF Inbound
  <2> HIDE DEF p
  <2>4. (shown \o data) \o p = shown \o (data \o p)
    <3>1. p \in Seq(Byte)
      BY <1>3
    <3> QED BY ONLY <2>1, <3>1, ConcatAssociative
  <2>5. shown' \o data' = d \o p
    BY <1>2, <2>4
  <2> QED BY <2>2, <2>3, <2>5
<1>5. /\ Len(d \o p) = Len(d) + Len(p)
      /\ \A i \in 1 .. Len(d) + Len(p) : (d \o p)[i] = IF i <= Len(d) THEN d[i] ELSE p[i - Len(d)]
  BY <1>3, <1>4, ConcatProperties
<1>6. /\ Now.st = pstate /\ Now.cmd = cmdByte /\ Now.n = Len(d)
      /\ Now.naws = IF nawsAccepted THEN "on" ELSE "off"
  BY DEF Now
<1>7. Pushes(pstate, b) => Len(d) < Len(said) /\ said[Len(d) + 1] = b
  BY <1>1, <1>6 DEF Reads
<1> HIDE DEF b, d, p
<1>8. Len(p) = IF Pushes(pstate, b) THEN 1 ELSE 0
  BY <1>3
<1>9. Now' = Got(Now, b)
  <2>1. Now' = [st |-> pstate', cmd |-> cmdByte', n |-> Len(d \o p),
                naws |-> IF nawsAccepted' THEN "on" ELSE "off"]
    BY <1>4 DEF Now
  <2>2. Got(Now, b).n = Len(d \o p)
    BY <1>4, <1>5, <1>6, <1>8 DEF Got
  <2>3. Got(Now, b).naws = IF nawsAccepted' THEN "on" ELSE "off"
    BY <1>2, <1>6 DEF Got
  <2>4. Got(Now, b).st = pstate' /\ Got(Now, b).cmd = cmdByte'
    BY <1>2, <1>6 DEF Got
  <2> QED BY <2>1, <2>2, <2>3, <2>4 DEF Got
<1>10. Begins(d \o p, said)
  <2>1. Len(d \o p) <= Len(said) /\ Len(said) \in Nat
    BY <1>4, <1>5, <1>7, <1>8, LenProperties DEF Begins, Types
  <2>2. ASSUME NEW i \in 1 .. Len(d \o p) PROVE (d \o p)[i] = said[i]
    <3>1. CASE i <= Len(d)
      <4>1. i \in 1 .. Len(d) /\ i \in 1 .. Len(d) + Len(p)
        BY <1>4, <1>5, <3>1
      <4> QED BY <1>4, <1>5, <3>1, <4>1 DEF Begins
    <3>2. CASE ~ i <= Len(d)
      <4>1. Pushes(pstate, b) /\ i = Len(d) + 1 /\ i \in 1 .. Len(d) + Len(p) /\ i - Len(d) = 1
        BY <1>4, <1>5, <1>8, <3>2
      <4>2. p[1] = b
        BY <1>3, <4>1
      <4>3. (d \o p)[i] = p[1]
        BY <1>5, <3>2, <4>1
      <4> QED BY <1>7, <4>1, <4>2, <4>3
    <3> QED BY <3>1, <3>2
  <2> QED BY <2>1, <2>2 DEF Begins
<1> QED BY <1>1, <1>2, <1>4, <1>9, <1>10 DEF Inbound, b

LEMMA ParseKeeps == TelnetInv /\ Parse => Streams'
<1> SUFFICES ASSUME TelnetInv, Parse PROVE Streams'
  OBVIOUS
<1> USE DEF TelnetInv, Streams
<1> DEFINE b == Head(chunk)
           a == Answer(cmdByte, b)
           accepts == pstate = "Iac2" /\ cmdByte = DO /\ b = NAWS
           t == IF pstate = "Iac2" THEN <<IAC, a, b>> ELSE <<>>
<1>1. /\ task = "parse" /\ chunk # <<>> /\ starter' = starter /\ (link' <=> link)
      /\ loaded' = loaded /\ tx' = tx /\ typed' = typed /\ resizer' = resizer
      /\ down' = down /\ said' = said /\ heard' = heard /\ opts' = opts /\ win' = win
      /\ shown' = shown /\ cols' = cols /\ rows' = rows /\ (resizePending' <=> resizePending)
  BY DEF Parse, worldButUp, sending, resizing
<1>2. /\ chunk' = Tail(chunk) /\ data' = data \o Pushed(pstate, b)
      /\ pstate' = NextState(pstate, b)
      /\ cmdByte' = IF pstate = "Iac" /\ b \in Commands THEN b ELSE cmdByte
      /\ nawsAccepted' <=> nawsAccepted \/ accepts
      /\ task' = IF accepts THEN "cols" ELSE "parse"
      /\ then' = IF accepts THEN "parse" ELSE then
      /\ Write(t)
  BY DEF Parse
<1>3. b \in Byte /\ Tail(chunk) \in Seq(Byte) /\ pstate \in Modes /\ cmdByte \in Byte
  BY <1>1, HeadThenTail DEF Types
<1>4. starter = "idle" /\ task # "rows" /\ task # "cols"
  BY <1>1 DEF Points
<1>5. ASSUME Live, pstate = "Iac2"
      PROVE  /\ cmdByte \in Commands /\ ~ (cmdByte = DONT /\ b = NAWS)
             /\ a \in Commands /\ ~ (a = WONT /\ b = NAWS) /\ (cmdByte = DO /\ b = NAWS => a = WILL)
  <2>1. <<Now, b, Got(Now, b)>> \in Reads(said)
    BY <1>5, GotNow
  <2>2. cmdByte \in Commands /\ ~ (cmdByte = DONT /\ b = NAWS)
    BY <1>5, <2>1 DEF Reads, Now
  <2> QED BY <1>3, <2>2, AnswerIs
<1>6. Live => t \in Seq(Byte)
  <2> SUFFICES ASSUME Live, pstate = "Iac2" PROVE <<IAC, a, b>> \in Seq(Byte)
    BY EmptyBytes
  <2>1. IAC \in Byte /\ a \in Byte
    BY <1>5, Codes
  <2> QED BY <1>3, <2>1
<1>7. Types'
  <2>1. up' \in Seq(Byte)
    <3>1. CASE link
      <4>1. t \in Seq(Byte)
        BY <1>1, <1>6, <3>1 DEF Live
      <4> QED BY <1>2, <4>1, Written
    <3>2. CASE ~link
      BY <1>2, <3>2 DEF Write, Types
    <3> QED BY <3>1, <3>2
  <2>2. pstate' \in Modes
    BY <1>2, <1>3, NextIs DEF Modes
  <2>3. data' \in Seq(Byte)
    <3>1. Pushed(pstate, b) = <<b>> \/ Pushed(pstate, b) = <<>>
      BY <1>3, PushedIs
    <3>2. Pushed(pstate, b) \in Seq(Byte)
      <4>1. b \in Byte
        BY <1>3
      <4> HIDE DEF b
      <4>2. <<b>> \in Seq(Byte)
        BY ONLY <4>1
      <4> QED BY <3>1, <4>2, EmptyBytes
    <3>3. data \in Seq(Byte)
      BY DEF Types
    <3> HIDE DEF TelnetInv, Streams
    <3> QED BY <1>2, <3>2, <3>3, Appended
  <2>4. cmdByte' \in Byte /\ chunk' \in Seq(Byte)
    BY <1>2, <1>3
  <2> QED BY <1>1, <2>1, <2>2, <2>3, <2>4 DEF Types
<1>8. Buffers'
  BY <1>2 DEF Buffers
<1>9. Live => Inbound'
  BY ParseArrives
<1> HIDE DEF b, a, t
<1>10. ASSUME NEW z, Leaves(z), Live
       PROVE  \E y : Path(Hears(typed), z, t, y) /\ Leaves(y)'
  <2>1. z \in Ear /\ z.at = "data" /\ Left(z.n) /\ z.naws = "on" /\ Told(z.w)
    BY <1>4, <1>10 DEF Leaves
  <2>2. \A w : Told(w) => Told(w)'
    BY <1>1, <1>2, <1>4 DEF Told
  <2>3. CASE pstate = "Iac2"
    <3>1. t = <<IAC, a, b>>
      BY <2>3 DEF t
    <3>2. PICK y \in Ear : /\ Path(Hears(typed), z, t, y) /\ y.at = "data" /\ y.n = z.n /\ y.w = z.w
                           /\ z.naws = "on" \/ (a = WILL /\ b = NAWS) => y.naws = "on"
      <4>1. /\ a \in Commands /\ b \in Byte /\ ~ (a = WONT /\ b = NAWS)
            /\ z \in Ear /\ z.at = "data"
        BY <1>3, <1>5, <1>10, <2>1, <2>3
      <4> QED BY ONLY <3>1, <4>1, AnswerLeaves
    <3>3. Told(y.w)' /\ Left(y.n)' /\ y.naws = "on"
      BY <1>1, <2>1, <2>2, <3>2 DEF Left
    <3> QED BY <3>2, <3>3 DEF Leaves
  <2>4. CASE pstate # "Iac2"
    <3>1. t = <<>>
      BY <2>4 DEF t
    <3>2. Path(Hears(typed), z, t, z)
      BY <3>1, PathEmpty
    <3>3. Told(z.w)' /\ Left(z.n)'
      BY <1>1, <2>1, <2>2 DEF Left
    <3> QED BY <2>1, <3>2, <3>3 DEF Leaves
  <2> QED BY <2>3, <2>4
<1> HIDE DEF TelnetInv, Streams
<1> QED BY <1>1, <1>2, <1>6, <1>7, <1>8, <1>9, <1>10, WritingKeeps

-----------------------------------------------------------------------------
(* resize(), send() and the server keep it. *)

LEMMA ResizeKeeps == TelnetInv /\ Resize => Streams'
<1> SUFFICES ASSUME TelnetInv, Resize PROVE Streams'
  OBVIOUS
<1> USE DEF TelnetInv, Streams
<1>1. /\ starter' = starter /\ task' = task /\ then' = then /\ loaded' = loaded /\ (link' <=> link)
      /\ tx' = tx /\ typed' = typed /\ up' = up
      /\ down' = down /\ said' = said /\ heard' = heard /\ opts' = opts /\ win' = win
      /\ pstate' = pstate /\ cmdByte' = cmdByte /\ chunk' = chunk /\ data' = data /\ shown' = shown
      /\ (nawsAccepted' <=> nawsAccepted)
  BY DEF Resize, world, worldButUp, sending, rx
<1>2. \/ /\ resizer' # <<"idle">> /\ resizer'[1] = "cols" /\ resizer'[2] \in Sizes
         /\ cols' = cols /\ rows' = rows /\ (resizePending' <=> resizePending)
      \/ /\ resizer[1] = "cols" /\ resizer'[1] = "rows" /\ resizer'[2] = resizer[2]
         /\ cols' = resizer[2][1] /\ rows' = rows
      \/ /\ resizer[1] = "rows" /\ resizer'[1] = "flag" /\ cols' = cols /\ rows' = resizer[2][2]
      \/ /\ resizePending' /\ resizer'[1] = "idle" /\ cols' = cols /\ rows' = rows
  BY DEF Resize
<1>3. Types'
  BY <1>1, <1>2, SizeBytes DEF Types
<1>4. Buffers' /\ Fresh'
  BY <1>1 DEF Buffers, Fresh
<1>5. ASSUME Live' PROVE Inbound' /\ Outbound'
  <2>1. Live
    BY <1>1, <1>5 DEF Live
  <2>2. Inbound'
    BY <1>1, <2>1, InboundStays
  <2>3. \A w : Told(w) => Told(w)'
    BY <1>1, <1>2 DEF Told
  <2>4. \A z : Leaves(z) => Leaves(z)'
    BY <1>1, <2>3, LeavesStill
  <2>5. Outbound'
    BY <1>1, <2>1, <2>4, OutboundStays
  <2> QED BY <2>2, <2>5
<1> QED BY <1>3, <1>4, <1>5

LEMMA SendKeeps == TelnetInv /\ (\E b \in Typed : Send(b)) => Streams'
<1> SUFFICES ASSUME TelnetInv, NEW b \in Typed, Send(b) PROVE Streams'
  OBVIOUS
<1> USE DEF TelnetInv, Streams
<1>1. /\ starter' = starter /\ task' = task /\ then' = then /\ loaded' = loaded /\ (link' <=> link)
      /\ tx' = Append(tx, b) /\ typed' = Append(typed, b) /\ up' = up /\ resizer' = resizer
      /\ down' = down /\ said' = said /\ heard' = heard /\ opts' = opts /\ win' = win
  BY DEF Send, world, worldButUp, resizing
<1>2. /\ pstate' = pstate /\ cmdByte' = cmdByte /\ chunk' = chunk /\ data' = data /\ shown' = shown
      /\ cols' = cols /\ rows' = rows /\ (nawsAccepted' <=> nawsAccepted)
      /\ (resizePending' <=> resizePending)
  BY DEF Send, rx, window
<1>3. b \in Byte
  BY BytesAssumption DEF Byte
<1>4. /\ Append(tx, b) \in Seq(Byte) /\ Len(Append(tx, b)) = Len(tx) + 1
      /\ \A i \in 1 .. Len(tx) : Append(tx, b)[i] = tx[i]
      /\ Append(tx, b)[Len(tx) + 1] = b
      /\ Append(typed, b) \in Seq(Byte) /\ Len(Append(typed, b)) = Len(typed) + 1
      /\ \A i \in 1 .. Len(typed) : Append(typed, b)[i] = typed[i]
      /\ Append(typed, b)[Len(typed) + 1] = b
      /\ Len(tx) \in Nat /\ Len(typed) \in Nat /\ Len(heard) \in Nat
  BY <1>3, AppendProperties, LenProperties DEF Types
<1>5. Types'
  BY <1>1, <1>2, <1>4 DEF Types
<1>6. Buffers' /\ Fresh'
  BY <1>1, <1>2 DEF Buffers, Fresh
<1>7. ASSUME Live' PROVE Inbound' /\ Outbound'
  <2>1. Live
    BY <1>1, <1>7 DEF Live
  <2>2. Inbound'
    BY <1>1, <1>2, <2>1, InboundStays
  <2>3. PICK x, z : Arrived(x) /\ Leaves(z) /\ Path(Hears(typed), x, up, z)
    BY <2>1 DEF Outbound
  <2>4. Arrived(x)'
    BY <1>1, <2>3 DEF Arrived
  <2>5. /\ z \in Ear /\ z.n \in Nat /\ z.n + Len(tx) = Len(typed)
        /\ \A i \in 1 .. Len(tx) : tx[i] = typed[z.n + i]
    BY <2>3 DEF Leaves, Left, Ear
  <2>6. Left(z.n)'
    <3>1. ASSUME NEW i \in 1 .. Len(tx) + 1 PROVE Append(tx, b)[i] = Append(typed, b)[z.n + i]
      <4>1. CASE i = Len(tx) + 1
        <5>1. z.n + i = Len(typed) + 1
          BY <1>4, <2>5, <4>1
        <5> QED BY <1>4, <4>1, <5>1
      <4>2. CASE i # Len(tx) + 1
        <5>1. i \in 1 .. Len(tx) /\ z.n + i \in 1 .. Len(typed)
          BY <1>4, <2>5, <4>2
        <5> QED BY <1>4, <2>5, <5>1
      <4> QED BY <4>1, <4>2
    <3>2. z.n + Len(Append(tx, b)) = Len(Append(typed, b))
      BY <1>4, <2>5
    <3> QED BY <1>1, <1>4, <3>1, <3>2 DEF Left
  <2>7. Leaves(z)'
    BY <1>1, <1>2, <2>3, <2>6 DEF Leaves, Told
  <2>8. Path(Hears(typed'), x, up', z)
    <3>1. Hears(typed) \subseteq Hears(Append(typed, b))
      BY <1>3, HearsMore DEF Types
    <3>2. Path(Hears(Append(typed, b)), x, up, z)
      BY <2>3, <3>1, PathMore
    <3> QED BY <1>1, <3>2
  <2>9. Begins(heard', typed')
    <3>1. Begins(heard, typed)
      BY <2>1 DEF Outbound
    <3>2. \A i \in 1 .. Len(heard) : i \in 1 .. Len(typed)
      BY <1>4, <3>1 DEF Begins
    <3> QED BY <1>1, <1>4, <3>1, <3>2 DEF Begins
  <2> QED BY <2>2, <2>4, <2>7, <2>8, <2>9 DEF Outbound
<1> QED BY <1>5, <1>6, <1>7

LEMMA LinkDropsKeeps == TelnetInv /\ LinkDrops => Streams'
<1> SUFFICES ASSUME TelnetInv, LinkDrops PROVE Streams'
  OBVIOUS
<1> USE DEF TelnetInv, Streams, LinkDrops, flags, window, rx, resizing, sending
<1>1. Types'
  BY DEF Types
<1>2. Buffers' /\ Fresh' /\ ~Live'
  BY DEF Buffers, Fresh, Live
<1> QED BY <1>1, <1>2

\* The server sends t: it leads a terminal that has all of what was said to one
\* that has all of what is said now.
Carries(t) ==
  \A z : Rests(z, said) /\ (Asked \in opts => z.naws = "on") =>
    \E y : Path(Reads(said'), z, t, y) /\ Rests(y, said') /\ (Asked \in opts' => y.naws = "on")

LEMMA MoreComes ==
  ASSUME NEW t \in Seq(Byte), Types, NEW x, Comes(x, chunk \o down, said, opts),
         Carries(t), Reads(said) \subseteq Reads(said'), down' = down \o t, chunk' = chunk
  PROVE  Comes(x, chunk' \o down', said', opts')
<1>1. chunk \in Seq(Byte) /\ down \in Seq(Byte) /\ chunk \o down \in Seq(Byte)
  BY Appended DEF Types
<1>2. (chunk \o down) \o t = chunk \o (down \o t)
  BY ONLY <1>1, t \in Seq(Byte), ConcatAssociative
<1>3. Comes(x, (chunk \o down) \o t, said', opts')
  BY <1>1, ComesOn DEF Carries
<1> QED BY <1>2, <1>3

LEMMA ServerKeeps ==
  ASSUME TelnetInv, NEW t \in Seq(Byte), Carries(t), Reads(said) \subseteq Reads(said'),
         \A d \in Seq(Byte) : Begins(d, said) => Begins(d, said'),
         starter' = starter, task' = task, then' = then, loaded' = loaded, link' <=> link,
         tx' = tx, typed' = typed, resizer' = resizer, said' \in Seq(Byte), down' = down \o t,
         pstate' = pstate, cmdByte' = cmdByte, chunk' = chunk, data' = data, shown' = shown,
         cols' = cols, rows' = rows, nawsAccepted' <=> nawsAccepted,
         resizePending' <=> resizePending,
         up' \in Seq(Byte), heard' \in Seq(Byte), win' \in Seq(Byte),
         starter = "prepare" => up' = up /\ heard' = heard /\ win' = win,
         Live => Outbound'
  PROVE  Streams'
<1> USE DEF TelnetInv, Streams
<1>1. Types'
  BY Appended DEF Types
<1>2. Buffers'
  BY DEF Buffers
<1>3. Fresh'
  <2> SUFFICES ASSUME starter = "prepare" PROVE Fresh'
    BY DEF Fresh
  <2> DEFINE x == [st |-> "Data", cmd |-> cmdByte, n |-> 0, naws |-> "off"]
  <2>1. up = <<>> /\ heard = <<>> /\ win = <<>> /\ Comes(x, down, said, opts)
    BY DEF Fresh
  <2>2. chunk = <<>> /\ down \in Seq(Byte)
    BY DEF Points, Buffers, Types
  <2>3. chunk \o down = down /\ chunk' \o down' = down'
    <3>1. down \o t \in Seq(Byte)
      BY <2>2, Appended
    <3> QED BY <2>2, <3>1, ConcatEmptySeq
  <2> HIDE DEF x
  <2>4. Comes(x, chunk' \o down', said', opts')
    BY <2>1, <2>3, MoreComes
  <2>5. Comes(x, down', said', opts')
    BY <2>3, <2>4
  <2>6. up' = <<>> /\ heard' = <<>> /\ win' = <<>>
    BY <2>1
  <2> QED BY <2>5, <2>6 DEF Fresh, x
<1>4. ASSUME Live' PROVE Inbound'
  <2>1. Live
    BY <1>4 DEF Live
  <2>2. Now' = Now /\ Begins(shown' \o data', said')
    <3>1. shown \o data \in Seq(Byte) /\ Begins(shown \o data, said)
      BY <2>1, Appended DEF Types, Inbound
    <3> QED BY <3>1 DEF Now
  <2>3. Comes(Now, chunk \o down, said, opts)
    BY <2>1 DEF Inbound
  <2>4. Comes(Now, chunk' \o down', said', opts')
    BY <2>3, MoreComes
  <2> QED BY <2>2, <2>4 DEF Inbound
<1>5. Live' => Outbound'
  BY DEF Live
<1> QED BY <1>1, <1>2, <1>3, <1>4, <1>5

LEMMA SayKeeps == TelnetInv /\ (\E b \in Shown : Say(b)) => Streams'
<1> SUFFICES ASSUME TelnetInv, NEW b \in Shown, Say(b) PROVE Streams'
  OBVIOUS
<1> DEFINE t == Escaped(b)
           S == Append(said, b)
<1>1. /\ starter' = starter /\ task' = task /\ then' = then /\ loaded' = loaded /\ (link' <=> link)
      /\ tx' = tx /\ typed' = typed /\ resizer' = resizer /\ up' = up
      /\ down' = down \o t /\ said' = S /\ heard' = heard /\ opts' = opts /\ win' = win
  BY DEF Say, sending, resizing
<1>2. /\ pstate' = pstate /\ cmdByte' = cmdByte /\ chunk' = chunk /\ data' = data /\ shown' = shown
      /\ cols' = cols /\ rows' = rows /\ (nawsAccepted' <=> nawsAccepted)
      /\ (resizePending' <=> resizePending)
  BY DEF Say, rx, window
<1>3. b \in Byte /\ said \in Seq(Byte) /\ t \in Seq(Byte)
  <2>1. b \in Byte
    BY BytesAssumption DEF Byte
  <2> QED BY <2>1 DEF Escaped, TelnetInv, Streams, Types
<1>4. /\ S \in Seq(Byte) /\ Len(S) = Len(said) + 1 /\ Len(said) \in Nat
      /\ \A i \in 1 .. Len(said) : S[i] = said[i]
  BY <1>3, AppendProperties, LenProperties
<1>5. Reads(said) \subseteq Reads(S)
  BY <1>3, ReadsMore
<1>6. Carries(t)
  <2>1. ASSUME NEW z, Rests(z, said)
        PROVE  \E y : Path(Reads(S), z, t, y) /\ Rests(y, S) /\ y.naws = z.naws
    BY <1>3, <2>1, SaidArrives
  <2> HIDE DEF t, S
  <2> QED BY <1>1, <2>1 DEF Carries
<1> HIDE DEF t, S
<1>7. ASSUME NEW d \in Seq(Byte), Begins(d, said) PROVE Begins(d, S)
  <2>1. Len(d) \in Nat /\ Len(d) <= Len(said)
    BY <1>7, LenProperties DEF Begins
  <2>2. \A i \in 1 .. Len(d) : i \in 1 .. Len(said)
    BY <1>4, <2>1
  <2> QED BY <1>4, <1>7, <2>1, <2>2 DEF Begins
<1>8. Live => Outbound'
  <2>1. \A z : Leaves(z) => Leaves(z)'
    <3>1. \A w : Told(w) => Told(w)'
      BY <1>1, <1>2 DEF Told
    <3> QED BY <1>1, <3>1, LeavesStill
  <2> QED BY <1>1, <2>1, OutboundStays DEF TelnetInv, Streams
<1>9. up \in Seq(Byte) /\ heard \in Seq(Byte) /\ win \in Seq(Byte)
  BY DEF TelnetInv, Streams, Types
<1> QED BY <1>1, <1>2, <1>3, <1>4, <1>5, <1>6, <1>7, <1>8, <1>9, ServerKeeps

LEMMA OfferKeeps == TelnetInv /\ (\E o \in Offers : Offer(o)) => Streams'
<1> SUFFICES ASSUME TelnetInv, NEW o \in Offers, Offer(o) PROVE Streams'
  OBVIOUS
<1> DEFINE h == <<IAC, o[1], o[2]>>
           t == h \o IF o[1] = SB THEN <<IAC, IAC, IAC, SE>> ELSE <<>>
<1>1. /\ starter' = starter /\ task' = task /\ then' = then /\ loaded' = loaded /\ (link' <=> link)
      /\ tx' = tx /\ typed' = typed /\ resizer' = resizer /\ up' = up
      /\ said' = said /\ heard' = heard /\ opts' = opts \cup {o} /\ win' = win
  BY DEF Offer, sending, resizing
<1>2. /\ pstate' = pstate /\ cmdByte' = cmdByte /\ chunk' = chunk /\ data' = data /\ shown' = shown
      /\ cols' = cols /\ rows' = rows /\ (nawsAccepted' <=> nawsAccepted)
      /\ (resizePending' <=> resizePending)
  BY DEF Offer, rx, window
<1>3. /\ o = <<o[1], o[2]>> /\ o[1] \in Commands \cup {SB} /\ o[2] \in Byte
      /\ ~ (o[1] = DONT /\ o[2] = NAWS)
  BY OffersAssumption DEF Byte
<1>4. /\ h \in Seq(Byte) /\ <<IAC, IAC, IAC, SE>> \in Seq(Byte)
  BY <1>3, Codes
<1>5. down \in Seq(Byte) /\ up \in Seq(Byte) /\ heard \in Seq(Byte) /\ win \in Seq(Byte)
      /\ said \in Seq(Byte)
  BY DEF TelnetInv, Streams, Types
<1>6. down' = down \o h \o IF o[1] = SB THEN <<IAC, IAC, IAC, SE>> ELSE <<>>
  BY DEF Offer
<1> HIDE DEF h
<1>7. t \in Seq(Byte) /\ down' = down \o t
  <2> DEFINE e == IF o[1] = SB THEN <<IAC, IAC, IAC, SE>> ELSE <<>>
  <2>1. e \in Seq(Byte) /\ h \in Seq(Byte)
    BY <1>4, EmptyBytes
  <2> HIDE DEF e
  <2>2. down \in Seq(Byte)
    BY <1>5
  <2>3. (down \o h) \o e = down \o (h \o e)
    BY ONLY <2>1, <2>2, ConcatAssociative
  <2>4. h \o e \in Seq(Byte)
    BY ONLY <2>1, Appended
  <2> QED BY <1>6, <2>3, <2>4 DEF e
<1>8. Carries(t)
  <2> SUFFICES ASSUME NEW z, Rests(z, said), Asked \in opts => z.naws = "on"
               PROVE  \E y : /\ Path(Reads(said), z, t, y) /\ Rests(y, said)
                             /\ Asked \in opts \cup {o} => y.naws = "on"
    BY <1>1 DEF Carries
  <2>1. CASE o[1] = SB
    <3>1. PICK y : /\ Path(Reads(said), z, <<IAC, SB, o[2]>> \o <<IAC, IAC, IAC, SE>>, y)
                   /\ Rests(y, said) /\ y.naws = z.naws
      BY <1>3, SubArrives
    <3>2. t = <<IAC, SB, o[2]>> \o <<IAC, IAC, IAC, SE>>
      BY <2>1 DEF h
    <3>3. o # Asked
      BY <2>1, <1>3 DEF Asked, SB, DO
    <3> QED BY <3>1, <3>2, <3>3
  <2>2. CASE o[1] # SB
    <3>1. PICK y : /\ Path(Reads(said), z, <<IAC, o[1], o[2]>>, y) /\ Rests(y, said)
                   /\ y.naws = IF o[1] = DO /\ o[2] = NAWS THEN "on" ELSE z.naws
      BY <1>3, <2>2, CommandArrives
    <3>2. t = h
      BY <1>4, <2>2, ConcatEmptySeq
    <3>3. Path(Reads(said), z, t, y)
      BY <3>1, <3>2 DEF h
    <3>4. Asked \in opts \cup {o} => y.naws = "on"
      BY <3>1 DEF Asked
    <3> QED BY <3>1, <3>3, <3>4
  <2> QED BY <2>1, <2>2
<1> HIDE DEF t
<1>9. Live => Outbound'
  <2> SUFFICES ASSUME Live PROVE Outbound'
    OBVIOUS
  <2>1. PICK x, z : Arrived(x) /\ Leaves(z) /\ Path(Hears(typed), x, up, z)
    BY DEF Outbound, TelnetInv, Streams
  <2>2. Arrived(x)' /\ Leaves(z)'
    BY <1>1, <1>2, <2>1 DEF Arrived, Leaves, Left, Told
  <2>3. Begins(heard, typed)
    BY DEF Outbound, TelnetInv, Streams
  <2> QED BY <1>1, <2>1, <2>2, <2>3 DEF Outbound
<1> QED BY <1>1, <1>2, <1>5, <1>7, <1>8, <1>9, ServerKeeps

\* The server reads a token: what it has then, and what it answers.
LEMMA ReadTells ==
  ASSUME TelnetInv, Read, Live, NEW x, NEW y, Arrived(x), y \in Ear, y.at = "data",
         Begins(heard, typed), Tells(Token(up), x, y, typed)
  PROVE  /\ \E r \in Seq(Byte) : down' = down \o r /\ Carries(r)
         /\ heard' \in Seq(Byte) /\ win' \in Seq(Byte)
         /\ Begins(heard', typed) /\ Arrived(y)'
<1> DEFINE t == Token(up)
           asks == Len(t) = 3 /\ t[2] \in Commands
           mine == IF asks /\ t[2] \in {DO, DONT} THEN <<WILL, t[3]>> ELSE <<DO, t[Len(t)]>>
           new == asks /\ t[2] \in {WILL, DO} /\ mine \notin opts
           ends == asks /\ t[2] \in {WONT, DONT} /\ mine \in opts
           r == IF new THEN <<IAC, IF t[3] = NAWS THEN mine[1] ELSE DONT, t[3]>> ELSE <<>>
<1>1. /\ heard' = IF Len(t) <= 2 THEN Append(heard, t[1]) ELSE heard
      /\ win' = IF Len(t) = 7 THEN <<t[4], t[5]>> ELSE win
      /\ opts' = IF new /\ t[3] = NAWS THEN opts \cup {mine}
                 ELSE IF ends THEN opts \ {mine} ELSE opts
      /\ down' = down \o r /\ said' = said
  BY DEF Read
<1>2. /\ x \in Ear /\ x.at = "data" /\ x.n = Len(heard) /\ x.w = win
      /\ x.naws = "on" => Asked \in opts
  BY DEF Arrived
<1>3. /\ heard \in Seq(Byte) /\ typed \in Seq(Byte) /\ win \in Seq(Byte)
      /\ Len(heard) \in Nat /\ Len(typed) \in Nat
  BY LenProperties DEF TelnetInv, Streams, Types
<1>4. Tells(t, x, y, typed)
  OBVIOUS
<1> HIDE DEF t
<1>5. ASSUME ~asks, opts' = opts
      PROVE  \E q \in Seq(Byte) : down' = down \o q /\ Carries(q)
  <2>1. r = <<>>
    BY <1>5
  <2>2. Carries(<<>>)
    <3>1. \A z : Path(Reads(said), z, <<>>, z)
      BY PathEmpty
    <3> QED BY <1>1, <1>5, <3>1 DEF Carries
  <2>3. down' = down \o <<>>
    BY <1>1, <2>1
  <2> QED BY ONLY <2>2, <2>3, EmptyBytes
<1>6. CASE /\ Len(t) \in {1, 2} /\ x.n < Len(typed) /\ t[1] = typed[x.n + 1]
           /\ y.n = x.n + 1 /\ y.w = x.w /\ y.naws = x.naws
  <2>1. ~asks /\ ~new /\ ~ends /\ Len(t) <= 2 /\ Len(t) # 7
    BY <1>6
  <2> HIDE DEF asks, mine, new, ends, r
  <2>2. heard' = Append(heard, t[1]) /\ win' = win /\ opts' = opts
    BY <1>1, <2>1
  <2>3. x.n + 1 \in 1 .. Len(typed) /\ t[1] \in Byte
    <3>1. x.n + 1 \in 1 .. Len(typed)
      BY <1>2, <1>3, <1>6
    <3> QED BY <1>3, <1>6, <3>1, ElementOfSeq
  <2>4. /\ Append(heard, t[1]) \in Seq(Byte) /\ Len(Append(heard, t[1])) = Len(heard) + 1
        /\ \A i \in 1 .. Len(heard) : Append(heard, t[1])[i] = heard[i]
        /\ Append(heard, t[1])[Len(heard) + 1] = t[1]
    BY <1>3, <2>3, AppendProperties
  <2>5. Begins(heard', typed)
    <3>1. \A i \in 1 .. Len(heard) + 1 : i \in 1 .. Len(heard) \/ i = Len(heard) + 1
      BY <1>3
    <3> QED BY <1>2, <1>3, <1>6, <2>2, <2>4, <3>1 DEF Begins
  <2>6. Arrived(y)'
    BY <1>2, <1>6, <2>2, <2>4 DEF Arrived
  <2> QED BY <1>3, <1>5, <2>1, <2>2, <2>4, <2>5, <2>6
<1>7. CASE Len(t) = 7 /\ y.n = x.n /\ y.w = <<t[4], t[5]>> /\ y.naws = x.naws
  <2>1. ~asks /\ ~new /\ ~ends /\ ~ Len(t) <= 2
    BY <1>7
  <2> HIDE DEF asks, mine, new, ends, r
  <2>2. heard' = heard /\ win' = y.w /\ opts' = opts
    BY <1>1, <1>7, <2>1
  <2>3. y.w \in Seq(Byte)
    BY DEF Ear
  <2>4. Arrived(y)'
    BY <1>2, <1>7, <2>2 DEF Arrived
  <2> QED BY <1>3, <1>5, <2>1, <2>2, <2>3, <2>4
<1>8. CASE /\ Len(t) = 3 /\ t[2] \in Commands /\ t[3] \in Byte /\ ~ (t[2] = WONT /\ t[3] = NAWS)
           /\ y.n = x.n /\ y.w = x.w
           /\ y.naws = IF t[2] = WILL /\ t[3] = NAWS THEN "on" ELSE x.naws
  <2> DEFINE c == IF t[3] = NAWS THEN mine[1] ELSE DONT
  <2>1. heard' = heard /\ win' = win /\ asks
    BY <1>1, <1>8
  <2>2. DO # WILL /\ DO # DONT /\ DO # WONT /\ WILL # DONT /\ WILL # WONT /\ DONT # WONT
    BY DEF DO, WILL, DONT, WONT
  <2>3. mine = IF t[2] \in {DO, DONT} THEN <<WILL, t[3]>> ELSE <<DO, t[3]>>
    BY <1>8
  <2>4. mine[1] \in {WILL, DO} /\ (mine = Asked <=> t[2] \notin {DO, DONT} /\ t[3] = NAWS)
    <3>1. CASE t[2] \in {DO, DONT}
      BY <2>2, <2>3, <3>1 DEF Asked
    <3>2. CASE t[2] \notin {DO, DONT}
      BY <2>3, <3>2 DEF Asked
    <3> QED BY <3>1, <3>2
  <2>5. mine[1] = DO <=> t[2] \notin {DO, DONT}
    BY <2>2, <2>3
  <2> HIDE DEF mine
  <2>6. Asked \in opts /\ ends => mine # Asked
    BY <1>8, <2>2, <2>4
  <2>7. Asked \in opts => Asked \in opts'
    BY <1>1, <2>6
  <2>8. t[2] = WILL /\ t[3] = NAWS => Asked \in opts'
    <3>1. SUFFICES ASSUME t[2] = WILL, t[3] = NAWS PROVE Asked \in opts'
      OBVIOUS
    <3>2. mine = Asked
      BY <2>2, <2>4, <3>1
    <3>3. CASE Asked \in opts
      BY <2>7, <3>3
    <3>4. CASE Asked \notin opts
      BY <1>1, <2>1, <3>1, <3>2, <3>4
    <3> QED BY <3>3, <3>4
  <2>9. Arrived(y)'
    BY <1>2, <1>8, <2>1, <2>7, <2>8 DEF Arrived
  <2>10. Asked \in opts' => Asked \in opts \/ (new /\ t[3] = NAWS /\ mine[1] = DO)
    BY <1>1, <2>4, <2>5
  <2>11. r \in Seq(Byte) /\ Carries(r)
    <3>1. CASE new
      <4>1. c \in Commands /\ t[3] \in Byte /\ ~ (c = DONT /\ t[3] = NAWS)
        BY <1>8, <2>2, <2>4 DEF Commands
      <4>2. r = <<IAC, c, t[3]>>
        BY <3>1
      <4> HIDE DEF c, r
      <4>3. r \in Seq(Byte)
        BY <4>1, <4>2, Codes
      <4>4. ASSUME NEW z, Rests(z, said), Asked \in opts => z.naws = "on"
            PROVE  \E u : /\ Path(Reads(said), z, r, u) /\ Rests(u, said)
                          /\ Asked \in opts' => u.naws = "on"
        <5>1. PICK u : /\ Path(Reads(said), z, <<IAC, c, t[3]>>, u) /\ Rests(u, said)
                       /\ u.naws = IF c = DO /\ t[3] = NAWS THEN "on" ELSE z.naws
          BY <4>1, <4>4, CommandArrives
        <5>2. Asked \in opts' => u.naws = "on"
          BY <2>10, <4>4, <5>1 DEF c
        <5> QED BY <4>2, <5>1, <5>2
      <4> QED BY <1>1, <4>3, <4>4 DEF Carries
    <3>2. CASE ~new
      <4>1. r = <<>> /\ (Asked \in opts' => Asked \in opts)
        BY <2>10, <3>2
      <4>2. \A z : Path(Reads(said), z, <<>>, z)
        BY PathEmpty
      <4> HIDE DEF r
      <4> QED BY <1>1, <4>1, <4>2, EmptyBytes DEF Carries
    <3> QED BY <3>1, <3>2
  <2> QED BY <1>1, <1>3, <2>1, <2>9, <2>11
<1> QED BY <1>4, <1>6, <1>7, <1>8 DEF Tells

LEMMA ReadKeeps == TelnetInv /\ Read => Streams'
<1> SUFFICES ASSUME TelnetInv, Read PROVE Streams'
  OBVIOUS
<1>1. /\ starter' = starter /\ task' = task /\ then' = then /\ loaded' = loaded /\ (link' <=> link)
      /\ tx' = tx /\ typed' = typed /\ resizer' = resizer /\ said' = said
      /\ link /\ up # <<>> /\ up' = SubSeq(up, Len(Token(up)) + 1, Len(up))
  BY DEF Read, sending, resizing
<1>2. /\ pstate' = pstate /\ cmdByte' = cmdByte /\ chunk' = chunk /\ data' = data /\ shown' = shown
      /\ cols' = cols /\ rows' = rows /\ (nawsAccepted' <=> nawsAccepted)
      /\ (resizePending' <=> resizePending)
  BY DEF Read, rx, window
<1>3. starter # "prepare" /\ Live
  BY <1>1 DEF TelnetInv, Streams, Fresh, Points, Starters, Tasks, Live
<1>4. Begins(heard, typed)
  BY <1>3 DEF TelnetInv, Streams, Outbound
<1>5. PICK x, z : Arrived(x) /\ Leaves(z) /\ Path(Hears(typed), x, up, z)
  BY <1>3 DEF TelnetInv, Streams, Outbound
<1>6. up \in Seq(Byte) /\ said \in Seq(Byte) /\ Len(up) \in Nat
  BY LenProperties DEF TelnetInv, Streams, Types
<1>7. PICK y \in Ear :
           /\ Len(Token(up)) \in 1 .. Len(up) /\ y.at = "data"
           /\ Path(Hears(typed), y, SubSeq(up, Len(Token(up)) + 1, Len(up)), z)
           /\ Tells(Token(up), x, y, typed)
  <2>1. x \in Ear /\ x.at = "data" /\ z.at = "data"
    BY <1>5 DEF Arrived, Leaves
  <2> QED BY <1>1, <1>5, <1>6, <2>1, TokenRead
<1>8. /\ \E r \in Seq(Byte) : down' = down \o r /\ Carries(r)
      /\ heard' \in Seq(Byte) /\ win' \in Seq(Byte)
      /\ Begins(heard', typed) /\ Arrived(y)'
  BY <1>3, <1>4, <1>5, <1>7, ReadTells
<1>9. up' \in Seq(Byte)
  <2>1. Len(Token(up)) \in 0 .. Len(up)
    BY <1>6, <1>7
  <2> QED BY <1>1, <1>6, <2>1, Cut
<1>10. Outbound'
  <2>1. Leaves(z)'
    BY <1>1, <1>2, <1>5 DEF Leaves, Left, Told
  <2>2. Path(Hears(typed'), y, up', z)
    BY <1>1, <1>7
  <2> QED BY <1>1, <1>8, <2>1, <2>2 DEF Outbound
<1>11. Reads(said) \subseteq Reads(said') /\ \A d \in Seq(Byte) : Begins(d, said) => Begins(d, said')
  BY <1>1
<1> QED BY <1>1, <1>2, <1>3, <1>6, <1>8, <1>9, <1>10, <1>11, ServerKeeps

-----------------------------------------------------------------------------
(* The theorems. *)

LEMMA TelnetKept == TelnetInv /\ [Next]_vars => TelnetInv'
<1> SUFFICES ASSUME TelnetInv, [Next]_vars PROVE TelnetInv'
  OBVIOUS
<1>1. Points'
  BY PointsKept DEF TelnetInv
<1>2. CASE Call \/ Start
  <2>1. Streams'
    BY <1>2, CallKeeps, DialKeeps, NoBufferKeeps, PrepareKeeps, HelloKeeps, SpawnKeeps DEF Start
  <2> QED BY <1>1, <2>1 DEF TelnetInv
<1>3. CASE Task
  <2>1. Streams'
    BY <1>3, BeginKeeps, SendNawsKeeps, RecvKeeps, ParseKeeps, ShowKeeps, DrainKeeps, ShutdownKeeps
       DEF Task
  <2> QED BY <1>1, <2>1 DEF TelnetInv
<1>4. CASE Resize \/ Server \/ \E b \in Typed : Send(b)
  <2>1. Streams'
    BY <1>4, ResizeKeeps, SendKeeps, LinkDropsKeeps, ReadKeeps, SayKeeps, OfferKeeps DEF Server
  <2> QED BY <1>1, <2>1 DEF TelnetInv
<1>5. CASE UNCHANGED vars
  <2> USE <1>5 DEF vars, flags, window, rx, resizing, sending, world, worldButUp
  <2>1. /\ starter' = starter /\ task' = task /\ then' = then /\ loaded' = loaded /\ (link' <=> link)
        /\ tx' = tx /\ typed' = typed /\ resizer' = resizer /\ up' = up /\ down' = down
        /\ said' = said /\ heard' = heard /\ opts' = opts /\ win' = win
        /\ pstate' = pstate /\ cmdByte' = cmdByte /\ chunk' = chunk /\ data' = data /\ shown' = shown
        /\ cols' = cols /\ rows' = rows /\ (nawsAccepted' <=> nawsAccepted)
        /\ (resizePending' <=> resizePending)
    OBVIOUS
  <2>2. Types' /\ Buffers' /\ Fresh'
    BY <2>1 DEF TelnetInv, Streams, Types, Buffers, Fresh
  <2>3. ASSUME Live' PROVE Inbound' /\ Outbound'
    <3>1. Live
      BY <2>1, <2>3 DEF Live
    <3>2. Inbound'
      BY <2>1, <3>1, InboundStays DEF TelnetInv, Streams
    <3>3. \A z : Leaves(z) => Leaves(z)'
      BY <2>1 DEF Leaves, Left, Told
    <3>4. Outbound'
      BY <2>1, <3>1, <3>3, OutboundStays DEF TelnetInv, Streams
    <3> QED BY <3>2, <3>4
  <2> QED BY <1>1, <2>2, <2>3 DEF TelnetInv, Streams
<1> QED BY <1>2, <1>3, <1>4, <1>5 DEF Next

LEMMA TelnetInvariance == Spec => []TelnetInv
BY TelnetBegins, TelnetKept, PTL DEF Spec

LEMMA BeginsIs ==
  ASSUME NEW s \in Seq(Byte), NEW S \in Seq(Byte), Begins(s, S)
  PROVE  IsPrefix(s, S) /\ (Len(s) = Len(S) => s = S)
<1>1. Len(s) \in Nat /\ Len(S) \in Nat /\ Len(s) <= Len(S) /\ \A i \in 1 .. Len(s) : s[i] = S[i]
  BY LenProperties DEF Begins
<1>2. Len(s) = Len(S) => s = S
  BY <1>1, SeqEqual
<1>3. SubSeq(s, 1, Len(s)) = s
  BY SubSeqFull
<1>4. /\ SubSeq(S, 1, Len(s)) \in Seq(Byte) /\ Len(SubSeq(S, 1, Len(s))) = Len(s)
      /\ \A i \in 1 .. Len(s) : SubSeq(S, 1, Len(s))[i] = S[i]
  <2>1. \A i \in 1 .. Len(s) : S[i] \in Byte
    BY <1>1, ElementOfSeq
  <2>2. /\ SubSeq(S, 1, Len(s)) \in Seq(Byte)
        /\ Len(SubSeq(S, 1, Len(s))) = IF 1 <= Len(s) THEN Len(s) - 1 + 1 ELSE 0
        /\ \A i \in 1 .. Len(s) - 1 + 1 : SubSeq(S, 1, Len(s))[i] = S[1 + i - 1]
    BY <1>1, <2>1, SubSeqProperties
  <2> QED BY <1>1, <2>2
<1>5. SubSeq(S, 1, Len(s)) = s
  BY <1>1, <1>4, SeqEqual
<1> QED BY <1>1, <1>2, <1>3, <1>5 DEF IsPrefix

\* However TCP cuts the stream up and whatever is negotiated in between, the
\* terminal shows what was said and the server reads what was typed.
THEOREM TelnetStreams == Spec => []StreamsIntact
<1>1. ASSUME TelnetInv PROVE StreamsIntact
  <2> SUFFICES ASSUME link, task # "none"
               PROVE  /\ IsPrefix(shown, said) /\ (ReadUp => shown = said)
                      /\ IsPrefix(heard, typed) /\ (SentUp => heard = typed)
    BY DEF StreamsIntact
  <2> USE <1>1 DEF TelnetInv, Streams
  <2>1. Live /\ Inbound /\ Outbound
    BY DEF Live
  <2>2. /\ shown \in Seq(Byte) /\ data \in Seq(Byte) /\ said \in Seq(Byte)
        /\ heard \in Seq(Byte) /\ typed \in Seq(Byte)
    BY DEF Types
  <2>3. Begins(shown \o data, said) /\ Begins(heard, typed)
    BY <2>1 DEF Inbound, Outbound
  <2>4. Begins(shown, said)
    <3>1. /\ Len(shown) \in Nat /\ Len(data) \in Nat /\ Len(shown \o data) = Len(shown) + Len(data)
          /\ \A i \in 1 .. Len(shown) + Len(data) :
               (shown \o data)[i] = IF i <= Len(shown) THEN shown[i] ELSE data[i - Len(shown)]
          /\ Len(said) \in Nat
      BY <2>2, ConcatProperties, LenProperties
    <3>2. \A i \in 1 .. Len(shown) : i \in 1 .. Len(shown) + Len(data) /\ i <= Len(shown)
      BY <3>1
    <3> QED BY <2>3, <3>1, <3>2 DEF Begins
  <2>5. ASSUME ReadUp PROVE shown = said
    <3>1. chunk \o down = <<>> /\ shown \o data = shown
      BY <2>2, <2>5, EmptyBytes, ConcatEmptySeq DEF ReadUp
    <3>2. Comes(Now, <<>>, said, opts)
      BY <2>1, <3>1 DEF Inbound
    <3>3. Rests(Now, said)
      BY <3>2, PathEmpty DEF Comes
    <3>4. Len(shown) = Len(said)
      BY <3>1, <3>3 DEF Rests, Now
    <3> QED BY <2>2, <2>4, <3>4, BeginsIs
  <2>6. ASSUME SentUp PROVE heard = typed
    <3>1. PICK x, z : Arrived(x) /\ Leaves(z) /\ Path(Hears(typed), x, up, z)
      BY <2>1 DEF Outbound
    <3>2. x = z
      BY <2>6, <3>1, PathEmpty DEF SentUp
    <3>3. Len(heard) = Len(typed)
      BY <2>2, <2>6, <3>1, <3>2, EmptyBytes, LenProperties DEF SentUp, Arrived, Leaves, Left
    <3> QED BY <2>2, <2>3, <3>3, BeginsIs
  <2>7. IsPrefix(shown, said) /\ IsPrefix(heard, typed)
    BY <2>2, <2>3, <2>4, BeginsIs
  <2> QED BY <2>5, <2>6, <2>7
<1> QED BY <1>1, TelnetInvariance, PTL

\* When all is said the server has the size the terminal was given last.
THEOREM TelnetWindow == Spec => []WindowKept
<1>1. ASSUME TelnetInv PROVE WindowKept
  <2> SUFFICES ASSUME link, task \in {"top", "tx"}, ReadUp, up = <<>>, ~resizePending,
                      resizer[1] = "idle"
               PROVE  win = <<cols, rows>>
    BY DEF WindowKept
  <2> USE <1>1 DEF TelnetInv, Streams
  <2>1. Inbound /\ Outbound /\ starter = "idle"
    BY DEF Live, Points
  <2>2. PICK x, z : Arrived(x) /\ Leaves(z) /\ Path(Hears(typed), x, <<>>, z)
    BY <2>1 DEF Outbound
  <2>3. x = z
    BY <2>2, PathEmpty
  <2>4. Asked \in opts /\ win = z.w /\ Told(z.w)
    BY <2>1, <2>2, <2>3 DEF Arrived, Leaves
  <2>5. nawsAccepted
    <3>1. Comes(Now, <<>>, said, opts)
      <4>1. chunk \o down = <<>>
        BY EmptyBytes, ConcatEmptySeq DEF ReadUp
      <4> QED BY <2>1, <4>1 DEF Inbound
    <3>2. Now.naws = "on"
      BY <2>4, <3>1, PathEmpty DEF Comes
    <3> QED BY <3>2 DEF Now
  <2> QED BY <2>4, <2>5 DEF Told
<1> QED BY <1>1, TelnetInvariance, PTL

=============================================================================
