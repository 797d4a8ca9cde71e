--------------------------- MODULE ControlProofs ---------------------------
(***************************************************************************)
(* The network map never goes back (MapNeverBack), for any number of       *)
(* changes, requests, reconnects, faults and frames on their way.          *)
(*                                                                         *)
(* A frame does not say how old what it carries is, so the argument is one *)
(* about streams.  On one stream changes arrive in the order they were     *)
(* made (InOrder).  The stream the client reads has nothing older than     *)
(* what it knows (Newest), and neither has the one it waits for: that one  *)
(* begins with the whole map, as it is when the coordinator answers, and   *)
(* while the client waits it applies nothing else.                         *)
(***************************************************************************)
EXTENDS Control, SequenceTheorems, TLAPS

Kinds == {"headers", "full", "refused", "change", "keepalive", "end"}
Frames == [sid : Nat, kind : Kinds, version : Nat]

\* Frames whose version is applied.
Content(f) == f.kind \in {"full", "change"}

-----------------------------------------------------------------------------
(* The connection: frames p on their way, streams fed, the state v of the   *)
(* tailnet, and the number n of the next stream.                            *)

IsFeed(fed) ==
  /\ fed = [s \in DOMAIN fed |-> fed[s]]
  /\ DOMAIN fed \subseteq Nat /\ \A s \in DOMAIN fed : fed[s] \in Nat

InOrder(p) ==
  \A i, j \in 1 .. Len(p) :
    i < j /\ p[i].sid = p[j].sid /\ Content(p[i]) /\ Content(p[j])
      => p[i].version <= p[j].version

\* What is sent is no newer than what the stream is recorded to have.
Recorded(p, fed, v) ==
  /\ \A s \in DOMAIN fed : fed[s] <= v
  /\ \A i \in 1 .. Len(p) : Content(p[i]) =>
       p[i].version <= v /\ (p[i].sid \in DOMAIN fed => p[i].version <= fed[p[i].sid])

Numbered(p, fed, n) ==
  /\ \A i \in 1 .. Len(p) : p[i].sid < n
  /\ \A s \in DOMAIN fed : s < n

Wire(p, fed, v, n) ==
  /\ p \in Seq(Frames) /\ IsFeed(fed) /\ v \in Nat /\ n \in Nat
  /\ InOrder(p) /\ Recorded(p, fed, v) /\ Numbered(p, fed, n)

\* Stream sid brings nothing older than k, now or later.
Newest(p, fed, k, sid) ==
  /\ \A i \in 1 .. Len(p) : p[i].sid = sid /\ Content(p[i]) => k <= p[i].version
  /\ sid \in DOMAIN fed => k <= fed[sid]

LEMMA NothingSent ==
  ASSUME NEW v \in Nat, NEW n \in Nat
  PROVE  /\ Wire(<<>>, <<>>, v, n)
         /\ \A k, sid : Newest(<<>>, <<>>, k, sid)
<1>1. /\ <<>> \in Seq(Frames) /\ Len(<<>>) = 0
  BY EmptySeq
<1>2. DOMAIN <<>> = {} /\ <<>> = [s \in {} |-> 0]
  OBVIOUS
<1>3. <<>> = [s \in DOMAIN <<>> |-> <<>>[s]]
  BY <1>2
<1>4. \A i : i \notin 1 .. Len(<<>>)
  BY <1>1
<1> QED
  BY <1>1, <1>2, <1>3, <1>4 DEF Wire, IsFeed, InOrder, Recorded, Numbered, Newest

\* A stream that was not numbered yet has brought nothing.
LEMMA NotYet ==
  ASSUME NEW p, NEW fed, NEW v, NEW n, NEW k, Wire(p, fed, v, n)
  PROVE  Newest(p, fed, k, n)
<1>1. n \in Nat /\ p \in Seq(Frames) /\ Numbered(p, fed, n)
  BY DEF Wire
<1>2. ASSUME NEW i \in 1 .. Len(p)
      PROVE  p[i].sid # n
  <2>1. p[i] \in Frames
    BY <1>1, ElementOfSeq
  <2> QED
    BY <1>1, <2>1 DEF Numbered, Frames
<1>3. n \notin DOMAIN fed
  BY <1>1 DEF Numbered
<1> QED
  BY <1>2, <1>3 DEF Newest

\* Taking the first frame; what it carries is the oldest on its stream.
LEMMA Taken ==
  ASSUME NEW p, NEW fed, NEW v, NEW n, Wire(p, fed, v, n), p # <<>>
  PROVE  /\ Head(p) \in Frames
         /\ Wire(Tail(p), fed, v, n)
         /\ \A k, sid : Newest(p, fed, k, sid) => Newest(Tail(p), fed, k, sid)
         /\ Content(Head(p)) =>
              /\ Newest(Tail(p), fed, Head(p).version, Head(p).sid)
              /\ Head(p).version <= v
              /\ \A k : Newest(p, fed, k, Head(p).sid) => k <= Head(p).version
<1>1. /\ p \in Seq(Frames) /\ Head(p) \in Frames /\ Tail(p) \in Seq(Frames)
      /\ Len(Tail(p)) = Len(p) - 1 /\ Len(p) \in Nat \ {0}
      /\ \A i \in 1 .. Len(Tail(p)) : Tail(p)[i] = p[i + 1]
  BY HeadTailProperties, EmptySeq DEF Wire
<1>2. /\ Head(p) = p[1] /\ 1 \in 1 .. Len(p)
      /\ \A i \in 1 .. Len(Tail(p)) : i + 1 \in 1 .. Len(p) /\ 1 < i + 1
      /\ \A i, j \in 1 .. Len(Tail(p)) : i < j => i + 1 < j + 1
  BY <1>1
<1>3. Wire(Tail(p), fed, v, n)
  <2>1. InOrder(Tail(p))
    BY <1>1, <1>2 DEF Wire, InOrder
  <2>2. Recorded(Tail(p), fed, v) /\ Numbered(Tail(p), fed, n)
    BY <1>1, <1>2 DEF Wire, Recorded, Numbered
  <2> QED
    BY <1>1, <2>1, <2>2 DEF Wire
<1>4. \A k, sid : Newest(p, fed, k, sid) => Newest(Tail(p), fed, k, sid)
  BY <1>1, <1>2 DEF Newest
<1>5. ASSUME Content(Head(p))
      PROVE  /\ Newest(Tail(p), fed, Head(p).version, Head(p).sid)
             /\ Head(p).version <= v
             /\ \A k : Newest(p, fed, k, Head(p).sid) => k <= Head(p).version
  <2>1. \A i \in 1 .. Len(Tail(p)) :
          Tail(p)[i].sid = Head(p).sid /\ Content(Tail(p)[i]) => Head(p).version <= Tail(p)[i].version
    BY <1>1, <1>2, <1>5 DEF Wire, InOrder
  <2>2. /\ Head(p).version <= v
        /\ Head(p).sid \in DOMAIN fed => Head(p).version <= fed[Head(p).sid]
    BY <1>2, <1>5 DEF Wire, Recorded
  <2>3. \A k : Newest(p, fed, k, Head(p).sid) => k <= Head(p).version
    BY <1>2, <1>5 DEF Newest
  <2> QED
    BY <2>1, <2>2, <2>3 DEF Newest
<1> QED
  BY <1>1, <1>3, <1>4, <1>5

\* Sending a frame.  One that carries something is recorded, and no older than
\* what its stream brought before.
LEMMA Sent ==
  ASSUME NEW p, NEW fed, NEW v, NEW n, Wire(p, fed, v, n),
         NEW f \in Frames, f.sid < n,
         NEW fed2, IsFeed(fed2),
         DOMAIN fed2 \subseteq DOMAIN fed \cup {f.sid},
         \A s \in DOMAIN fed2 : fed2[s] <= v,
         \A s \in DOMAIN fed2 \cap DOMAIN fed : fed[s] <= fed2[s],
         IF Content(f)
         THEN /\ f.sid \in DOMAIN fed2 /\ f.version = fed2[f.sid]
              /\ f.version = v \/ f.sid \in DOMAIN fed
         ELSE DOMAIN fed2 \subseteq DOMAIN fed
  PROVE  /\ Wire(Append(p, f), fed2, v, n)
         /\ \A k \in Nat : \A sid : k <= v /\ Newest(p, fed, k, sid)
              /\ (Content(f) /\ f.sid = sid => k <= f.version)
              => Newest(Append(p, f), fed2, k, sid)
<1> DEFINE q == Append(p, f)
           m == Len(p) + 1
<1>1. /\ p \in Seq(Frames) /\ q \in Seq(Frames) /\ Len(p) \in Nat /\ Len(q) = m
      /\ \A i \in 1 .. Len(p) : q[i] = p[i] /\ p[i] \in Frames
      /\ q[m] = f
  BY AppendProperties, LenProperties, ElementOfSeq DEF Wire
<1>2. \A i \in 1 .. m : i \in 1 .. Len(p) \/ i = m
  BY <1>1
<1>3. \A i, j \in 1 .. m : i < j => i \in 1 .. Len(p)
  BY <1>1
<1> HIDE DEF q, m
<1>4. /\ \A i \in 1 .. Len(p) : p[i].version \in Nat /\ f.version \in Nat
      /\ \A s \in DOMAIN fed : fed[s] \in Nat
      /\ \A s \in DOMAIN fed2 : fed2[s] \in Nat
      /\ Recorded(p, fed, v)
  BY <1>1 DEF Wire, IsFeed, Frames
<1>5. ASSUME Content(f), NEW i \in 1 .. Len(p), p[i].sid = f.sid, Content(p[i])
      PROVE  p[i].version <= f.version
  <2>1. CASE f.version = v
    BY <1>5, <1>4, <2>1 DEF Recorded
  <2>2. CASE f.sid \in DOMAIN fed
    <3>1. p[i].version <= fed[f.sid] /\ fed[f.sid] <= fed2[f.sid] /\ f.version = fed2[f.sid]
      BY <1>5, <1>4, <2>2 DEF Recorded
    <3> QED
      BY <1>5, <1>4, <2>2, <3>1
  <2> QED
    BY <1>5, <2>1, <2>2
<1>6. InOrder(q)
  BY <1>1, <1>2, <1>3, <1>5 DEF Wire, InOrder
<1>7. Recorded(q, fed2, v)
  <2>1. ASSUME NEW i \in 1 .. m, Content(q[i])
        PROVE  q[i].version <= v /\ (q[i].sid \in DOMAIN fed2 => q[i].version <= fed2[q[i].sid])
    <3>1. CASE i = m
      BY <1>1, <2>1, <3>1 DEF IsFeed, Frames, Wire
    <3>2. CASE i \in 1 .. Len(p) /\ p[i].sid \in DOMAIN fed
      <4>1. q[i] = p[i] /\ p[i].version <= v /\ p[i].version <= fed[p[i].sid]
        BY <1>1, <1>4, <2>1, <3>2 DEF Recorded
      <4>2. p[i].sid \in DOMAIN fed2 => fed[p[i].sid] <= fed2[p[i].sid]
        BY <3>2
      <4> QED
        BY <1>4, <3>2, <4>1, <4>2
    <3>3. CASE i \in 1 .. Len(p) /\ p[i].sid \notin DOMAIN fed
      <4>1. q[i] = p[i] /\ p[i].version <= v
        BY <1>1, <2>1, <3>3 DEF Wire, Recorded
      <4>2. p[i].sid \in DOMAIN fed2 => p[i].sid = f.sid /\ Content(f) /\ f.version = fed2[f.sid]
        BY <3>3
      <4> QED
        BY <1>5, <2>1, <3>3, <4>1, <4>2
    <3> QED
      BY <1>2, <3>1, <3>2, <3>3
  <2> QED
    BY <1>1, <2>1 DEF Recorded
<1>8. Numbered(q, fed2, n)
  BY <1>1, <1>2 DEF Wire, Numbered
<1>9. ASSUME NEW k \in Nat, NEW sid, k <= v, Newest(p, fed, k, sid),
             Content(f) /\ f.sid = sid => k <= f.version
      PROVE  Newest(q, fed2, k, sid)
  <2>1. \A i \in 1 .. m : q[i].sid = sid /\ Content(q[i]) => k <= q[i].version
    BY <1>1, <1>2, <1>9 DEF Newest
  <2>2. sid \in DOMAIN fed2 => k <= fed2[sid]
    BY <1>9 DEF Newest, Wire, IsFeed, Frames
  <2> QED
    BY <1>1, <2>1, <2>2 DEF Newest
<1> QED
  BY <1>1, <1>6, <1>7, <1>8, <1>9 DEF Wire, q

-----------------------------------------------------------------------------
(* The invariant. *)

\* The variables that are records, are records of their fields.
CtrlShape ==
  ctrl = [pc |-> ctrl.pc, caller |-> ctrl.caller,
          body |-> [list |-> ctrl.body.list, sid |-> ctrl.body.sid]]
ServerShape ==
  server = [version |-> server.version,
            asked |-> [sid |-> server.asked.sid, list |-> server.asked.list],
            fed |-> server.fed, published |-> server.published]

\* A connection that is not open carries nothing, and a new one begins so.
Closed ==
  /\ s_tls # "open" => pipe = <<>> /\ server.fed = <<>> /\ server.asked.sid = 0
  /\ At("connect") => s_tls # "open"

NetInv ==
  /\ ServerShape
  /\ Wire(pipe, server.fed, server.version, nextSid)
  /\ server.asked.sid \in Nat /\ server.asked.sid < nextSid

\* What is read, now or after the headers that are awaited, is not older than
\* what is known.
ReadInv ==
  /\ known \in Nat /\ known <= server.version
  /\ Newest(pipe, server.fed, known, mapRx.sid)
  /\ At("headers") => Newest(pipe, server.fed, known, ctrl.body.sid)

Inv == CtrlShape /\ NetInv /\ ReadInv /\ Closed

LEMMA Begins == Init => Inv
<1> SUFFICES ASSUME Init PROVE Inv
  OBVIOUS
<1> USE DEF Init
<1>1. CtrlShape /\ ServerShape
  BY DEF CtrlShape, ServerShape
<1>2. server.fed = <<>> /\ pipe = <<>> /\ server.version = 1 /\ server.asked.sid = 0
      /\ nextSid = 1 /\ known = 0 /\ s_tls = "null" /\ ctrl.pc = "off"
  OBVIOUS
<1>3. Wire(pipe, server.fed, server.version, nextSid) /\ Newest(pipe, server.fed, known, mapRx.sid)
  BY <1>2, NothingSent
<1> QED
  BY <1>1, <1>2, <1>3 DEF Inv, NetInv, ReadInv, Closed, At

-----------------------------------------------------------------------------
(* The client's steps, by what they do to the connection. *)

wire == <<s_tls, nextSid, server, pipe>>
reading == <<mapRx, known>>

\* The task goes on; only Send and FetchKey make it wait for headers, or
\* connect.
Proceeds ==
  /\ CtrlShape'
  /\ ctrl'.body.sid = ctrl.body.sid
  /\ ctrl'.pc \in {"headers", "connect"} => ctrl'.pc = ctrl.pc

LEMMA Goes ==
  ASSUME CtrlShape, NEW pc
  PROVE  /\ Goto(pc) => CtrlShape' /\ ctrl'.body.sid = ctrl.body.sid /\ ctrl'.pc = pc
         /\ Goto(pc) /\ pc \notin {"headers", "connect"} => Proceeds
         /\ Failed \/ RegisterFailed => Proceeds
         /\ UNCHANGED ctrl => Proceeds
<1>1. \A at : Goto(at) => CtrlShape' /\ ctrl'.body.sid = ctrl.body.sid /\ ctrl'.pc = at
  BY DEF Goto, CtrlShape
<1>2. \A at : Goto(at) /\ at \notin {"headers", "connect"} => Proceeds
  BY <1>1 DEF Proceeds
<1>3. Failed \/ RegisterFailed => Proceeds
  BY <1>2 DEF Failed, RegisterFailed
<1>4. UNCHANGED ctrl => Proceeds
  BY DEF Proceeds, CtrlShape
<1> QED
  BY <1>1, <1>2, <1>3, <1>4

\* A chained EXCEPT is taken apart into one per field.
LEMMA Switches ==
  ASSUME CtrlShape, NEW pc, NEW caller, NEW list, NEW sid
  PROVE  /\ [ctrl EXCEPT !.pc = pc, !.caller = caller] =
               [pc |-> pc, caller |-> caller, body |-> ctrl.body]
         /\ [ctrl EXCEPT !.pc = pc, !.body.list = list] =
               [pc |-> pc, caller |-> ctrl.caller, body |-> [list |-> list, sid |-> ctrl.body.sid]]
         /\ [ctrl EXCEPT !.pc = pc, !.body.sid = sid] =
               [pc |-> pc, caller |-> ctrl.caller, body |-> [list |-> ctrl.body.list, sid |-> sid]]
<1> DEFINE b == [list |-> ctrl.body.list, sid |-> ctrl.body.sid]
           c == [pc |-> pc, caller |-> ctrl.caller, body |-> b]
<1>1. ctrl = [pc |-> ctrl.pc, caller |-> ctrl.caller, body |-> b] /\ ctrl.body = b
  BY DEF CtrlShape
<1>2. [ctrl EXCEPT !.pc = pc] = c
  BY <1>1
<1>3. [c EXCEPT !.caller = caller] = [pc |-> pc, caller |-> caller, body |-> ctrl.body]
  BY <1>1
<1>4. /\ [b EXCEPT !.list = list] = [list |-> list, sid |-> ctrl.body.sid]
      /\ [b EXCEPT !.sid = sid] = [list |-> ctrl.body.list, sid |-> sid]
  OBVIOUS
<1>5. \A d : [c EXCEPT !.body = d] = [pc |-> pc, caller |-> ctrl.caller, body |-> d]
  OBVIOUS
<1>6. c.body = b
  OBVIOUS
<1>7. [ctrl EXCEPT !.pc = pc, !.caller = caller] = [c EXCEPT !.caller = caller]
  BY <1>2
<1>8. [ctrl EXCEPT !.pc = pc, !.body.list = list] = [c EXCEPT !.body = [b EXCEPT !.list = list]]
  BY <1>2, <1>6
<1>9. [ctrl EXCEPT !.pc = pc, !.body.sid = sid] = [c EXCEPT !.body = [b EXCEPT !.sid = sid]]
  BY <1>2, <1>6
<1> QED
  BY <1>3, <1>4, <1>5, <1>7, <1>8, <1>9

LEMMA Moves ==
  ASSUME CtrlShape, NEW pc, NEW caller, NEW list, NEW sid
  PROVE  /\ ctrl' = [ctrl EXCEPT !.pc = pc, !.caller = caller] =>
              CtrlShape' /\ ctrl'.pc = pc /\ ctrl'.body.sid = ctrl.body.sid
         /\ ctrl' = [ctrl EXCEPT !.pc = pc, !.body.list = list] =>
              CtrlShape' /\ ctrl'.pc = pc /\ ctrl'.body.sid = ctrl.body.sid
         /\ ctrl' = [ctrl EXCEPT !.pc = pc, !.body.sid = sid] =>
              CtrlShape' /\ ctrl'.pc = pc /\ ctrl'.body.sid = sid
<1>1. ctrl.body = [list |-> ctrl.body.list, sid |-> ctrl.body.sid]
  BY DEF CtrlShape
<1>2. ASSUME ctrl' = [ctrl EXCEPT !.pc = pc, !.caller = caller]
      PROVE  CtrlShape' /\ ctrl'.pc = pc /\ ctrl'.body.sid = ctrl.body.sid
  <2>1. ctrl' = [pc |-> pc, caller |-> caller, body |-> ctrl.body]
    BY <1>2, Switches
  <2> QED
    BY <1>1, <2>1 DEF CtrlShape
<1>3. ASSUME ctrl' = [ctrl EXCEPT !.pc = pc, !.body.list = list]
      PROVE  CtrlShape' /\ ctrl'.pc = pc /\ ctrl'.body.sid = ctrl.body.sid
  <2>1. ctrl' = [pc |-> pc, caller |-> ctrl.caller, body |-> [list |-> list, sid |-> ctrl.body.sid]]
    BY <1>3, Switches
  <2> QED
    BY <2>1 DEF CtrlShape
<1>4. ASSUME ctrl' = [ctrl EXCEPT !.pc = pc, !.body.sid = sid]
      PROVE  CtrlShape' /\ ctrl'.pc = pc /\ ctrl'.body.sid = sid
  <2>1. ctrl' = [pc |-> pc, caller |-> ctrl.caller, body |-> [list |-> ctrl.body.list, sid |-> sid]]
    BY <1>4, Switches
  <2> QED
    BY <2>1 DEF CtrlShape
<1> QED
  BY <1>2, <1>3, <1>4

\* Nothing is sent and nothing read.
LEMMA Offline ==
  ASSUME Inv, Proceeds, UNCHANGED <<wire, reading>>
  PROVE  Inv'
BY DEF Inv, Proceeds, wire, reading, NetInv, ServerShape, ReadInv, Closed, At

\* The connection is gone, and everything on it.
LEMMA Cut ==
  ASSUME Inv, CtrlShape', ctrl'.pc # "headers" \/ Proceeds, UNCHANGED <<nextSid, reading>>,
         s_tls' # "open", pipe' = <<>>, server' = Disconnected
  PROVE  Inv'
<1>1. /\ ServerShape' /\ server'.fed = <<>> /\ server'.asked.sid = 0
      /\ server'.version = server.version
  BY DEF Disconnected, NoRequest, Inv, NetInv, ServerShape
<1>2. server.version \in Nat /\ nextSid \in Nat /\ 0 < nextSid
  BY DEF Inv, NetInv, Wire
<1>3. /\ Wire(pipe', server'.fed, server'.version, nextSid')
      /\ \A k, sid : Newest(pipe', server'.fed, k, sid)
  BY <1>1, <1>2, NothingSent
<1> QED
  BY <1>1, <1>2, <1>3 DEF Inv, NetInv, ReadInv, Closed, At, reading

\* A request or registration takes the next stream.
LEMMA Counts ==
  ASSUME Inv, nextSid' = nextSid + 2
  PROVE  /\ Wire(pipe, server.fed, server.version, nextSid')
         /\ server.asked.sid < nextSid'
<1>1. \A i \in 1 .. Len(pipe) : pipe[i].sid \in Nat
  <2> SUFFICES ASSUME NEW i \in 1 .. Len(pipe) PROVE pipe[i].sid \in Nat
    OBVIOUS
  <2>1. pipe[i] \in Frames
    BY ElementOfSeq DEF Inv, NetInv, Wire
  <2> QED
    BY <2>1 DEF Frames
<1>2. /\ nextSid \in Nat /\ server.asked.sid \in Nat /\ server.asked.sid < nextSid
      /\ Numbered(pipe, server.fed, nextSid) /\ DOMAIN server.fed \subseteq Nat
  BY DEF Inv, NetInv, Wire, IsFeed
<1>3. Numbered(pipe, server.fed, nextSid')
  BY <1>1, <1>2 DEF Numbered
<1> QED
  BY <1>2, <1>3 DEF Inv, NetInv, Wire

LEMMA QuietSteps ==
  ASSUME Inv,
         \/ Build \/ ClearDirty \/ SendFails \/ HeadersFail \/ SegmentFails
         \/ StartProbe \/ Applied \/ LeavePollLoop \/ Pubip \/ Start \/ StopSignal
         \/ StopPubip \/ StopTask
  PROVE  Inv'
<1>1. UNCHANGED <<wire, reading>>
  BY DEF Build, ClearDirty, SendFails, HeadersFail, SegmentFails, StartProbe, Applied,
         LeavePollLoop, Pubip, Wake, ProbeFails, SetEndpoint, SetCount, SignalDirty, Probe,
         PubipUnchanged, Start, StopSignal, StopPubip, StopTask, task, net, wire, reading
<1>2. CtrlShape
  BY DEF Inv
<1> SUFFICES Proceeds
  BY <1>1, Offline
<1>3. CASE Build
  BY <1>2, <1>3, Moves DEF Build, Proceeds
<1>4. CASE ClearDirty \/ StartProbe \/ StopTask
  BY <1>2, <1>4, Goes DEF ClearDirty, StartProbe, StopTask
<1>5. CASE SendFails \/ HeadersFail \/ SegmentFails
  BY <1>2, <1>5, Goes DEF SendFails, HeadersFail, SegmentFails
<1>6. CASE Applied
  <2>1. CASE dirty /\ registered
    BY <1>2, <1>6, <2>1, Moves DEF Applied, Proceeds
  <2> QED
    BY <1>2, <1>6, <2>1, Goes DEF Applied
<1>7. CASE LeavePollLoop \/ Start
  <2>1. ctrl' = [ctrl EXCEPT !.pc = "register", !.caller = "first"]
    BY <1>7 DEF LeavePollLoop, Start
  <2> QED
    <3>1. CtrlShape' /\ ctrl'.pc = "register" /\ ctrl'.body.sid = ctrl.body.sid
      BY <1>2, <2>1, Moves
    <3> QED
      BY <3>1 DEF Proceeds
<1>8. CASE Pubip \/ StopSignal \/ StopPubip
  BY <1>2, <1>8, Goes
  DEF Pubip, Wake, ProbeFails, SetEndpoint, SetCount, SignalDirty, Probe, PubipUnchanged,
      StopSignal, StopPubip, task
<1> QED
  BY <1>3, <1>4, <1>5, <1>6, <1>7, <1>8

\* Steps that give the connection up.
LEMMA CutSteps ==
  ASSUME Inv, FetchKey \/ ConnectFails \/ Reconnect \/ StopClose \/ Lose \/ Idle
  PROVE  Inv'
<1>1. CtrlShape
  BY DEF Inv
<1>2. UNCHANGED <<nextSid, reading>> /\ s_tls' # "open" /\ pipe' = <<>> /\ server' = Disconnected
  BY DEF FetchKey, ConnectFails, Reconnect, StopClose, Lose, Idle, reading
<1>3. CASE FetchKey
  BY <1>1, <1>2, <1>3, Goes, Cut DEF FetchKey
<1>4. CASE Reconnect
  <2>1. CtrlShape' /\ ctrl'.pc = "register"
    BY <1>1, <1>4, Moves DEF Reconnect
  <2> QED
    BY <1>2, <2>1, Cut
<1>5. CASE ConnectFails \/ StopClose \/ Lose \/ Idle
  <2>1. Proceeds
    BY <1>1, <1>5, Goes DEF ConnectFails, StopClose, Lose, Idle
  <2> QED
    BY <1>2, <2>1, Cut DEF Proceeds
<1> QED
  BY <1>3, <1>4, <1>5

LEMMA RequestSteps ==
  ASSUME Inv, Connect \/ Post \/ PostFails \/ Send
  PROVE  Inv'
<1>1. CtrlShape
  BY DEF Inv
<1>2. CASE Connect
  <2>1. /\ nextSid' = 1 /\ pipe' = <<>> /\ server' = server /\ server.fed = <<>>
        /\ server.asked.sid = 0 /\ server.version \in Nat /\ UNCHANGED reading
    BY <1>2 DEF Connect, H2Init, Inv, Closed, NetInv, Wire, reading
  <2>2. Proceeds /\ ctrl'.pc = "post"
    BY <1>1, <1>2, Goes DEF Connect
  <2>3. /\ Wire(pipe', server'.fed, server'.version, nextSid')
        /\ \A k, sid : Newest(pipe', server'.fed, k, sid)
    BY <2>1, NothingSent
  <2> QED
    BY <2>1, <2>2, <2>3
    DEF Inv, Proceeds, NetInv, ServerShape, ReadInv, Closed, At, reading
<1>3. CASE Post \/ PostFails
  <2>1. Proceeds
    BY <1>1, <1>3, Goes DEF Post, PostFails
  <2>2. UNCHANGED <<s_tls, server, pipe, reading>> /\ nextSid' = nextSid + 2
    BY <1>3 DEF Post, PostFails, net, reading
  <2>3. /\ Wire(pipe, server.fed, server.version, nextSid') /\ server.asked.sid < nextSid'
    BY <2>2, Counts
  <2> QED
    BY <2>1, <2>2, <2>3 DEF Inv, Proceeds, NetInv, ServerShape, ReadInv, Closed, At, reading
<1>4. CASE Send
  <2>1. /\ UNCHANGED <<s_tls, pipe, reading>> /\ nextSid' = nextSid + 2 /\ s_tls = "open"
        /\ server' = [server EXCEPT !.asked = [sid |-> nextSid, list |-> ctrl.body.list]]
        /\ ctrl' = [ctrl EXCEPT !.pc = "headers", !.body.sid = nextSid]
    BY <1>4 DEF Send, reading
  <2>2. CtrlShape' /\ ctrl'.body.sid = nextSid /\ ctrl'.pc = "headers"
    BY <1>1, <2>1, Moves
  <2>3. /\ ServerShape' /\ server'.fed = server.fed /\ server'.version = server.version
        /\ server'.asked.sid = nextSid
    BY <2>1 DEF Inv, NetInv, ServerShape
  <2>4. Newest(pipe, server.fed, known, nextSid)
    BY NotYet DEF Inv, NetInv
  <2>5. Wire(pipe, server.fed, server.version, nextSid') /\ nextSid \in Nat
    BY <2>1, Counts DEF Inv, NetInv, Wire
  <2> QED
    BY <2>1, <2>2, <2>3, <2>4, <2>5 DEF Inv, NetInv, ReadInv, Closed, At, reading
<1> QED
  BY <1>2, <1>3, <1>4

-----------------------------------------------------------------------------
(* Reading. *)

LEMMA Reads ==
  ASSUME Inv, pipe # <<>>, pipe' = Tail(pipe), UNCHANGED <<s_tls, nextSid, server>>,
         s_tls = "open"
  PROVE  /\ NetInv' /\ Head(pipe) \in Frames
         /\ \A k, sid : Newest(pipe, server.fed, k, sid) => Newest(pipe', server'.fed, k, sid)
<1>1. Wire(pipe, server.fed, server.version, nextSid)
  BY DEF Inv, NetInv
<1>2. /\ Wire(Tail(pipe), server.fed, server.version, nextSid) /\ Head(pipe) \in Frames
      /\ \A k, sid : Newest(pipe, server.fed, k, sid) => Newest(Tail(pipe), server.fed, k, sid)
  BY <1>1, Taken
<1> QED
  BY <1>2 DEF Inv, NetInv, ServerShape

LEMMA ReadSteps ==
  ASSUME Inv, ReadHeaders \/ Skip \/ DrainSegment \/ ReadEnd
  PROVE  Inv'
<1>1. /\ pipe # <<>> /\ pipe' = Tail(pipe) /\ s_tls = "open" /\ known' = known
      /\ UNCHANGED <<s_tls, nextSid, server>>
  BY DEF ReadHeaders, Skip, DrainSegment, ReadEnd, Readable, task
<1>2. /\ NetInv'
      /\ \A k, sid : Newest(pipe, server.fed, k, sid) => Newest(pipe', server'.fed, k, sid)
  BY <1>1, Reads
<1>3. CtrlShape
  BY DEF Inv
<1>4. Proceeds
  BY <1>3, Goes DEF ReadHeaders, Skip, DrainSegment, ReadEnd, task
<1>5. CASE mapRx'.sid = mapRx.sid
  BY <1>1, <1>2, <1>4, <1>5 DEF Inv, Proceeds, ReadInv, Closed, At
<1>6. CASE At("headers") /\ mapRx'.sid = ctrl.body.sid
  BY <1>1, <1>2, <1>4, <1>6 DEF Inv, Proceeds, ReadInv, Closed, At
<1>7. mapRx'.sid = mapRx.sid \/ (At("headers") /\ mapRx'.sid = ctrl.body.sid)
  <2>1. CASE ReadEnd
    BY <2>1 DEF ReadEnd
  <2> QED
    BY <2>1 DEF ReadHeaders, Skip, DrainSegment, task
<1> QED
  BY <1>5, <1>6, <1>7

\* The next segment of the stream that is read: the one step that changes
\* what is known.
LEMMA Learns ==
  ASSUME Inv, ReadSegment
  PROVE  Inv' /\ known' >= known
<1>1. /\ pipe # <<>> /\ pipe' = Tail(pipe) /\ s_tls = "open"
      /\ UNCHANGED <<s_tls, nextSid, server, mapRx>>
      /\ known' = Apply(Head(pipe)) /\ ForUs(Head(pipe)) /\ Head(pipe).kind # "end"
      /\ At("segment") \/ At("poll")
  BY DEF ReadSegment, Readable, Own
<1>2. CtrlShape' /\ ctrl'.pc \in {"applied", "build", "probe", "poll"}
  <2>1. CtrlShape
    BY DEF Inv
  <2>2. \/ Goto("applied") \/ Goto("probe") \/ Goto("poll")
        \/ ctrl' = [ctrl EXCEPT !.pc = "build", !.caller = "home"]
    BY DEF ReadSegment
  <2> QED
    BY <2>1, <2>2, Goes, Moves
<1>3. /\ NetInv' /\ Head(pipe) \in Frames
      /\ \A k, sid : Newest(pipe, server.fed, k, sid) => Newest(pipe', server'.fed, k, sid)
  BY <1>1, Reads
<1>4. /\ Wire(pipe, server.fed, server.version, nextSid) /\ known \in Nat
      /\ known <= server.version /\ Newest(pipe, server.fed, known, mapRx.sid)
  BY DEF Inv, NetInv, ReadInv
<1>5. /\ known' \in Nat /\ known' <= server.version /\ known' >= known
      /\ Newest(pipe', server'.fed, known', mapRx.sid)
  <2>1. CASE Head(pipe).kind = "keepalive"
    BY <1>1, <1>3, <1>4, <2>1 DEF Apply
  <2>2. CASE Head(pipe).kind # "keepalive"
    <3>1. /\ Head(pipe).sid = mapRx.sid /\ Content(Head(pipe))
          /\ known' = Head(pipe).version /\ Head(pipe).version \in Nat
      BY <1>1, <1>3, <2>2 DEF ForUs, Content, Apply, Frames
    <3>2. /\ Newest(Tail(pipe), server.fed, Head(pipe).version, Head(pipe).sid)
          /\ Head(pipe).version <= server.version
          /\ known <= Head(pipe).version
      BY <1>1, <1>4, <3>1, Taken
    <3> QED
      BY <1>1, <1>4, <3>1, <3>2
  <2> QED
    BY <2>1, <2>2
<1> QED
  BY <1>1, <1>2, <1>3, <1>5 DEF Inv, ReadInv, Closed, At

-----------------------------------------------------------------------------
(* The coordinator. *)

\* What is sent does not go back on any stream.
LEMMA FromOutside ==
  ASSUME Inv, UNCHANGED task, ServerShape',
         Wire(pipe', server'.fed, server'.version, nextSid),
         server'.asked.sid \in {0, server.asked.sid},
         server.version <= server'.version,
         s_tls = "open" \/ UNCHANGED <<pipe, server.fed>>,
         \A sid : Newest(pipe, server.fed, known, sid) => Newest(pipe', server'.fed, known, sid)
  PROVE  Inv'
<1>1. known <= server'.version
  BY DEF Inv, NetInv, ReadInv, Wire
<1>2. server'.asked.sid \in Nat /\ server'.asked.sid < nextSid
  BY DEF Inv, NetInv, Wire
<1> QED
  BY <1>1, <1>2 DEF Inv, CtrlShape, NetInv, ReadInv, Closed, At, task

\* A frame that carries no version.
LEMMA SendsEmpty ==
  ASSUME Inv, NEW sid \in Nat, sid < nextSid, NEW kind \in {"headers", "refused", "keepalive", "end"},
         NEW fed2 \in {server.fed, <<>>}
  PROVE  /\ Wire(Append(pipe, Frame(sid, kind, 0)), fed2, server.version, nextSid)
         /\ \A s : Newest(pipe, server.fed, known, s) =>
                   Newest(Append(pipe, Frame(sid, kind, 0)), fed2, known, s)
<1> DEFINE f == Frame(sid, kind, 0)
<1>1. f \in Frames /\ f.sid = sid /\ ~Content(f)
  BY DEF Frame, Frames, Kinds, Content
<1>2. /\ Wire(pipe, server.fed, server.version, nextSid)
      /\ IsFeed(server.fed) /\ \A s \in DOMAIN server.fed : server.fed[s] <= server.version
      /\ known \in Nat /\ known <= server.version
  BY DEF Inv, NetInv, ReadInv, Wire, Recorded
<1>3. IsFeed(<<>>) /\ DOMAIN <<>> = {}
  <2>1. DOMAIN <<>> = {} /\ <<>> = [s \in {} |-> 0]
    OBVIOUS
  <2>2. <<>> = [s \in DOMAIN <<>> |-> <<>>[s]]
    BY <2>1
  <2> QED
    BY <2>1, <2>2 DEF IsFeed
<1>4. \A s \in DOMAIN server.fed : server.fed[s] <= server.fed[s]
  BY <1>2 DEF IsFeed
<1> HIDE DEF f
<1>5. /\ IsFeed(fed2) /\ DOMAIN fed2 \subseteq DOMAIN server.fed
      /\ \A s \in DOMAIN fed2 : fed2[s] <= server.version
      /\ \A s \in DOMAIN fed2 \cap DOMAIN server.fed : server.fed[s] <= fed2[s]
  BY <1>2, <1>3, <1>4
<1>6. /\ Wire(Append(pipe, f), fed2, server.version, nextSid)
      /\ \A k \in Nat : \A s : k <= server.version /\ Newest(pipe, server.fed, k, s)
           /\ (Content(f) /\ f.sid = s => k <= f.version)
           => Newest(Append(pipe, f), fed2, k, s)
  BY <1>1, <1>2, <1>5, Sent
<1> QED
  BY <1>1, <1>2, <1>6 DEF f

LEMMA Answers ==
  ASSUME Inv, Accept
  PROVE  Inv'
<1> DEFINE a == server.asked.sid
           v == server.version
           h == Frame(a, "headers", 0)
           f == Frame(a, "full", v)
           fed2 == Feed(a, v)
<1>1. /\ Wire(pipe, server.fed, v, nextSid) /\ a \in Nat /\ a < nextSid /\ v \in Nat
      /\ known \in Nat /\ known <= v /\ IsFeed(server.fed)
  BY DEF Inv, NetInv, ReadInv, Wire
<1>2. /\ s_tls = "open" /\ UNCHANGED task /\ pipe' = pipe \o <<h, f>>
      /\ server' = [server EXCEPT !.fed = fed2, !.published = server.asked.list,
                                  !.asked = NoRequest]
  BY DEF Accept
<1>3. ServerShape' /\ server'.fed = fed2 /\ server'.version = v /\ server'.asked.sid = 0
  <2> DEFINE F == fed2
             P == server.asked.list
             R(d, l, x) == [version |-> v, asked |-> d, fed |-> l, published |-> x]
  <2>1. server = R(server.asked, server.fed, server.published)
    BY DEF Inv, NetInv, ServerShape
  <2> HIDE DEF F, P
  <2>2. [server EXCEPT !.fed = F] = R(server.asked, F, server.published)
    BY <2>1
  <2>3. [R(server.asked, F, server.published) EXCEPT !.published = P] = R(server.asked, F, P)
    OBVIOUS
  <2>4. [R(server.asked, F, P) EXCEPT !.asked = NoRequest] = R(NoRequest, F, P)
    OBVIOUS
  <2>5. server' = [[[server EXCEPT !.fed = F] EXCEPT !.published = P] EXCEPT !.asked = NoRequest]
    BY <1>2 DEF F, P
  <2>6. server' = R(NoRequest, F, P)
    BY <2>2, <2>3, <2>4, <2>5
  <2>7. NoRequest = [sid |-> 0, list |-> <<>>]
    BY DEF NoRequest
  <2>8. server'.fed = F /\ server'.version = v /\ server'.asked = NoRequest
    BY <2>6
  <2> QED
    BY <2>6, <2>7, <2>8 DEF ServerShape, F
<1>4. /\ Wire(Append(pipe, h), server.fed, v, nextSid)
      /\ \A s : Newest(pipe, server.fed, known, s) => Newest(Append(pipe, h), server.fed, known, s)
  BY <1>1, SendsEmpty
<1>5. f \in Frames /\ f.sid = a /\ Content(f) /\ f.version = v
  BY <1>1 DEF Frame, Frames, Kinds, Content
<1>6. /\ IsFeed(fed2) /\ DOMAIN fed2 = DOMAIN server.fed \cup {a} /\ fed2[a] = v
      /\ \A s \in DOMAIN fed2 : fed2[s] <= v
      /\ \A s \in DOMAIN fed2 \cap DOMAIN server.fed : server.fed[s] <= fed2[s]
  <2>1. \A s \in DOMAIN server.fed : server.fed[s] \in Nat /\ server.fed[s] <= v /\ s \in Nat
    BY <1>1 DEF Wire, IsFeed, Recorded
  <2>2. fed2 = [s \in DOMAIN server.fed \cup {a} |-> IF s = a THEN v ELSE server.fed[s]]
    BY DEF Feed
  <2>3. \A s \in DOMAIN fed2 : fed2[s] \in Nat /\ fed2[s] <= v
    BY <1>1, <2>1, <2>2
  <2> QED
    BY <1>1, <2>1, <2>2, <2>3 DEF IsFeed
<1>7. pipe' = Append(Append(pipe, h), f)
  <2>1. pipe \in Seq(Frames) /\ h \in Frames
    BY <1>1 DEF Wire, Frame, Frames, Kinds
  <2> HIDE DEF h, f
  <2> QED
    BY <1>2, <1>5, <2>1
<1> HIDE DEF h, f, fed2, v, a
<1>8. /\ Wire(Append(Append(pipe, h), f), fed2, v, nextSid)
      /\ \A k \in Nat : \A s : k <= v /\ Newest(Append(pipe, h), server.fed, k, s)
           /\ (Content(f) /\ f.sid = s => k <= f.version)
           => Newest(Append(Append(pipe, h), f), fed2, k, s)
  BY <1>1, <1>4, <1>5, <1>6, Sent
<1>9. \A s : Newest(pipe, server.fed, known, s) => Newest(pipe', server'.fed, known, s)
  BY <1>1, <1>3, <1>4, <1>5, <1>7, <1>8
<1>10. v <= v
  BY <1>1
<1> QED
  BY <1>2, <1>3, <1>7, <1>8, <1>9, <1>10, FromOutside DEF v

\* A change is newer than what its stream brought.
LEMMA Changes ==
  ASSUME Inv, NEW sid \in DOMAIN server.fed, SendChange(sid)
  PROVE  Inv'
<1> DEFINE v == server.version
           f == Frame(sid, "change", server.fed[sid] + 1)
           fed2 == [server.fed EXCEPT ![sid] = server.fed[sid] + 1]
<1>1. /\ Wire(pipe, server.fed, v, nextSid) /\ sid \in Nat /\ sid < nextSid /\ v \in Nat
      /\ known \in Nat /\ known <= v /\ IsFeed(server.fed)
      /\ \A s \in DOMAIN server.fed : server.fed[s] \in Nat /\ server.fed[s] <= v
  BY DEF Inv, NetInv, ReadInv, Wire, IsFeed, Recorded, Numbered
<1>2. /\ s_tls = "open" /\ UNCHANGED task /\ pipe' = Append(pipe, f)
      /\ server.fed[sid] < v
      /\ server' = [server EXCEPT !.fed = fed2]
  BY DEF SendChange
<1>3. ServerShape' /\ server'.fed = fed2 /\ server'.version = v /\ server'.asked = server.asked
  <2> HIDE DEF fed2
  <2> QED
    BY <1>2 DEF Inv, NetInv, ServerShape
<1>4. f \in Frames /\ f.sid = sid /\ Content(f) /\ f.version = server.fed[sid] + 1
  BY <1>1 DEF Frame, Frames, Kinds, Content
<1>5. /\ IsFeed(fed2) /\ DOMAIN fed2 = DOMAIN server.fed /\ fed2[sid] = server.fed[sid] + 1
      /\ \A s \in DOMAIN fed2 : fed2[s] <= v /\ server.fed[s] <= fed2[s]
  <2>1. /\ DOMAIN fed2 = DOMAIN server.fed /\ fed2[sid] = server.fed[sid] + 1
        /\ \A s \in DOMAIN server.fed : s # sid => fed2[s] = server.fed[s]
        /\ fed2 = [s \in DOMAIN fed2 |-> fed2[s]]
    BY <1>1 DEF IsFeed
  <2> HIDE DEF fed2
  <2>2. ASSUME NEW s \in DOMAIN server.fed
        PROVE  fed2[s] \in Nat /\ fed2[s] <= v /\ server.fed[s] <= fed2[s]
    <3>1. CASE s = sid
      BY <1>1, <1>2, <2>1, <3>1
    <3>2. CASE s # sid
      BY <1>1, <2>1, <3>2
    <3> QED
      BY <3>1, <3>2
  <2> QED
    BY <1>1, <2>1, <2>2 DEF IsFeed
<1> HIDE DEF f, fed2, v
<1>6. /\ Wire(Append(pipe, f), fed2, v, nextSid)
      /\ \A k \in Nat : \A s : k <= v /\ Newest(pipe, server.fed, k, s)
           /\ (Content(f) /\ f.sid = s => k <= f.version)
           => Newest(Append(pipe, f), fed2, k, s)
  BY <1>1, <1>4, <1>5, Sent
<1>7. \A s : Newest(pipe, server.fed, known, s) => Newest(pipe', server'.fed, known, s)
  <2> SUFFICES ASSUME NEW s, Newest(pipe, server.fed, known, s)
               PROVE  Newest(pipe', server'.fed, known, s)
    OBVIOUS
  <2>1. f.sid = s => known <= server.fed[sid]
    BY <1>4 DEF Newest
  <2>2. f.sid = s => known <= f.version
    BY <1>1, <1>4, <2>1
  <2> QED
    BY <1>1, <1>2, <1>3, <1>6, <2>2
<1>8. v <= v
  BY <1>1
<1> QED
  BY <1>2, <1>3, <1>6, <1>7, <1>8, FromOutside DEF v

LEMMA CoordinatorSteps ==
  ASSUME Inv, Coordinator
  PROVE  Inv'
<1>1. CASE Accept
  BY <1>1, Answers
<1>2. CASE Lose \/ Idle
  BY <1>2, CutSteps
<1>3. /\ Wire(pipe, server.fed, server.version, nextSid) /\ server.version \in Nat
      /\ server.asked.sid \in Nat /\ server.asked.sid < nextSid /\ ServerShape
      /\ server.version <= server.version
      /\ \A s \in DOMAIN server.fed : s \in Nat /\ s < nextSid
  BY DEF Inv, NetInv, Wire, Numbered, IsFeed
<1>4. CASE Refuse
  <2>1. /\ s_tls = "open" /\ UNCHANGED task
        /\ pipe' = Append(pipe, Frame(server.asked.sid, "refused", 0))
        /\ server' = [server EXCEPT !.asked = NoRequest]
    BY <1>4 DEF Refuse
  <2>2. /\ ServerShape' /\ server'.fed = server.fed /\ server'.version = server.version
        /\ server'.asked.sid = 0
    BY <1>3, <2>1 DEF ServerShape, NoRequest
  <2> QED
    BY <1>3, <2>1, <2>2, SendsEmpty, FromOutside
<1>5. CASE TailnetChanges
  <2>1. UNCHANGED <<task, pipe>> /\ server' = [server EXCEPT !.version = server.version + 1]
    BY <1>5 DEF TailnetChanges
  <2>2. /\ ServerShape' /\ server'.fed = server.fed /\ server'.version = server.version + 1
        /\ server'.asked = server.asked
    BY <1>3, <2>1 DEF ServerShape
  <2>3. /\ \A i \in 1 .. Len(pipe) : pipe[i].version \in Nat
        /\ \A s \in DOMAIN server.fed : server.fed[s] \in Nat
    <3>1. \A i \in 1 .. Len(pipe) : pipe[i] \in Frames
      BY <1>3, ElementOfSeq DEF Wire
    <3> QED
      BY <1>3, <3>1 DEF Wire, Frames, IsFeed
  <2>4. Wire(pipe, server.fed, server.version + 1, nextSid)
    BY <1>3, <2>3 DEF Wire, Recorded
  <2>5. server.version <= server.version + 1
    BY <1>3
  <2> QED
    BY <2>1, <2>2, <2>4, <2>5, FromOutside
<1>6. ASSUME NEW sid \in DOMAIN server.fed,
             SendChange(sid) \/ KeepAlive(sid) \/ EndStream(sid) \/ Supersede(sid)
      PROVE  Inv'
  <2>1. CASE SendChange(sid)
    BY <2>1, Changes
  <2>2. CASE KeepAlive(sid)
    <3>1. /\ s_tls = "open" /\ UNCHANGED <<task, server>> /\ pipe = <<>>
          /\ pipe' = <<Frame(sid, "keepalive", 0)>>
      BY <2>2 DEF KeepAlive
    <3>2. pipe' = Append(pipe, Frame(sid, "keepalive", 0))
      BY <3>1
    <3>3. ServerShape'
      BY <1>3, <3>1 DEF ServerShape
    <3> QED
      BY <1>3, <3>1, <3>2, <3>3, SendsEmpty, FromOutside
  <2>3. CASE EndStream(sid)
    <3>1. /\ s_tls = "open" /\ UNCHANGED task
          /\ pipe' = Append(pipe, Frame(sid, "end", 0))
          /\ server' = [server EXCEPT !.fed = <<>>]
      BY <2>3 DEF EndStream
    <3>2. /\ ServerShape' /\ server'.fed = <<>> /\ server'.version = server.version
          /\ server'.asked = server.asked
      BY <1>3, <3>1 DEF ServerShape
    <3> QED
      BY <1>3, <3>1, <3>2, SendsEmpty, FromOutside
  <2>4. CASE Supersede(sid)
    <3> DEFINE fed2 == [s \in DOMAIN server.fed \ {sid} |-> server.fed[s]]
    <3>1. UNCHANGED <<task, pipe>> /\ server' = [server EXCEPT !.fed = fed2]
      BY <2>4 DEF Supersede
    <3>2. s_tls = "open"
      BY DEF Inv, Closed
    <3>3. /\ ServerShape' /\ server'.fed = fed2 /\ server'.version = server.version
          /\ server'.asked = server.asked
      <4> HIDE DEF fed2
      <4> QED
        BY <1>3, <3>1 DEF ServerShape
    <3>4. /\ DOMAIN fed2 \subseteq DOMAIN server.fed
          /\ \A s \in DOMAIN fed2 : fed2[s] = server.fed[s]
          /\ fed2 = [s \in DOMAIN fed2 |-> fed2[s]]
      OBVIOUS
    <3> HIDE DEF fed2
    <3>5. Wire(pipe, fed2, server.version, nextSid)
      BY <1>3, <3>4 DEF Wire, IsFeed, Recorded, Numbered
    <3>6. \A s : Newest(pipe, server.fed, known, s) => Newest(pipe, fed2, known, s)
      BY <3>4 DEF Newest
    <3> QED
      BY <1>3, <3>1, <3>2, <3>3, <3>5, <3>6, FromOutside
  <2> QED
    BY <1>6, <2>1, <2>2, <2>3, <2>4
<1> QED
  BY <1>1, <1>2, <1>4, <1>5, <1>6 DEF Coordinator

-----------------------------------------------------------------------------
(* The network map never goes back. *)

LEMMA NextSteps ==
  ASSUME Inv, [Next]_vars
  PROVE  Inv' /\ known' >= known
<1>1. known \in Nat
  BY DEF Inv, ReadInv
<1>2. CASE UNCHANGED vars
  <2>1. UNCHANGED <<wire, reading, ctrl>>
    BY <1>2 DEF vars, task, net, wire, reading
  <2>2. Proceeds
    BY <2>1, Goes DEF Inv
  <2> QED
    BY <1>1, <2>1, <2>2, Offline DEF reading
<1>3. CASE ReadSegment
  BY <1>3, Learns
<1>4. CASE \/ Build \/ ClearDirty \/ SendFails \/ HeadersFail \/ SegmentFails
           \/ StartProbe \/ Applied \/ LeavePollLoop \/ Pubip \/ Start \/ StopSignal
           \/ StopPubip \/ StopTask
  <2>1. UNCHANGED known
    BY <1>4 DEF Build, ClearDirty, SendFails, HeadersFail, SegmentFails, StartProbe, Applied,
         LeavePollLoop, Pubip, Wake, ProbeFails, SetEndpoint, SetCount, SignalDirty, Probe,
         PubipUnchanged, Start, StopSignal, StopPubip, StopTask, task
  <2> QED
    BY <1>1, <1>4, <2>1, QuietSteps
<1>5. CASE FetchKey \/ ConnectFails \/ Reconnect \/ StopClose \/ Lose \/ Idle
  <2>1. UNCHANGED known
    BY <1>5 DEF FetchKey, ConnectFails, Reconnect, StopClose, Lose, Idle
  <2> QED
    BY <1>1, <1>5, <2>1, CutSteps
<1>6. CASE Connect \/ Post \/ PostFails \/ Send
  <2>1. UNCHANGED known
    BY <1>6 DEF Connect, Post, PostFails, Send
  <2> QED
    BY <1>1, <1>6, <2>1, RequestSteps
<1>7. CASE ReadHeaders \/ Skip \/ DrainSegment \/ ReadEnd
  <2>1. UNCHANGED known
    BY <1>7 DEF ReadHeaders, Skip, DrainSegment, ReadEnd, task
  <2> QED
    BY <1>1, <1>7, <2>1, ReadSteps
<1>8. CASE Coordinator
  <2>1. UNCHANGED known
    BY <1>8 DEF Coordinator, Accept, Refuse, TailnetChanges, Lose, Idle, SendChange, KeepAlive,
                EndStream, Supersede, task
  <2> QED
    BY <1>1, <1>8, <2>1, CoordinatorSteps
<1> QED
  BY <1>2, <1>3, <1>4, <1>5, <1>6, <1>7, <1>8 DEF Next, Ctrl, Api

\* Whatever is still on its way when a request supersedes another, when the
\* connection is lost, or when the coordinator ends a stream (map_read_one):
\* no step of the control task applies an older state of the tailnet over a
\* newer one.
THEOREM MapOnlyAdvances == Spec => MapNeverBack
<1>1. Init => Inv
  BY Begins
<1>2. Inv /\ [Next]_vars => Inv'
  BY NextSteps
<1>3. Inv /\ [Next]_vars => [known' >= known]_vars
  BY NextSteps
<1> QED
  BY <1>1, <1>2, <1>3, PTL DEF Spec, MapNeverBack

=============================================================================
