---------------------------- MODULE TunnelProofs ----------------------------
(***************************************************************************)
(* The tunnel: what the two ends of a WireGuard session promise each other *)
(* (WireGuard), and what the peer table and the WireGuard device of one    *)
(* node agree on (Disco).                                                  *)
(*                                                                         *)
(* WireGuard, for any window that fits the bitmap and any number of        *)
(* handshakes, sessions and packets.  The invariant is one of a keypair:   *)
(* it speaks of a keypair, the messages and the history, not of the slot   *)
(* the keypair is in, so that rotating the slots keeps it.                 *)
(*                                                                         *)
(* Disco, for any number of nodes, slots and pings: between two maps the   *)
(* peer table and the WireGuard device hold the same peers (AlwaysAgree),  *)
(* although a peer enters and leaves them in two steps, with indices that  *)
(* are used again.  The invariant names the one peer that the control task *)
(* is adding (it is in the device only) or removing (in the table only).   *)
(***************************************************************************)
EXTENDS WireGuard, Disco, FiniteSetTheorems, TLAPS

-----------------------------------------------------------------------------
(* WireGuard: messages, and what is known of a keypair *)

Message ==
  [type : {"initiation"}, to : End, id : Nat \ {0}]
    \cup [type : {"response"}, to : End, id : Nat \ {0}, session : 1 .. MaxSessions]
    \cup [type : {"data"}, from : End, to : End, session : 1 .. MaxSessions,
          n : 0 .. MaxSent, initiator : BOOLEAN, empty : BOOLEAN]

IsData(m) == m.type = "data"
IsResponse(m) == m.type = "response"

\* The end that began the session of a keypair or packet of end e.
Beginner(e, initiator) == IF initiator THEN e ELSE Other(e)
Begun(e, initiator, s, N) ==
  \E r \in N : IsResponse(r) /\ r.session = s /\ r.to = Beginner(e, initiator)

\* Some packet of the end that began session s is on its way or was.
Spoken(s, N) == \E m \in N : IsData(m) /\ m.session = s /\ m.initiator

\* What the window of a keypair remembers: exactly the packets of the session
\* that were passed on, as far as it reaches.
Remembers(k, H) ==
  /\ k.greatest \in 0 .. MaxSent
  /\ \A n \in 0 .. MaxSent : H[<<k.session, n>>] > 0 =>
       n # 0 /\ n <= k.greatest
       /\ (k.greatest - n < Window => (k.greatest - n) \in k.bitmap)
  /\ k.greatest > 0 => H[<<k.session, k.greatest>>] > 0
  /\ \A i \in k.bitmap : i < k.greatest /\ H[<<k.session, k.greatest - i>>] > 0

Ahead(e, k, N) ==
  \A m \in N : IsData(m) /\ m.from = e /\ m.session = k.session => m.n < k.sent

KeyInv(e, k, N, H) ==
  k.session # 0 =>
    /\ k.session <= sessions
    /\ Ahead(e, k, N)
    /\ Begun(e, k.initiator, k.session, N)
    /\ ~k.initiator /\ k.heard => Spoken(k.session, N)
    /\ Remembers(k, H)

\* End e has no trace of session s.
Unused(e, p, N, s, H, C) ==
  /\ p.curr.session # s /\ p.prev.session # s /\ p.next.session # s
  /\ \A m \in N : IsData(m) /\ m.from = e => m.session # s
  /\ \A n \in 0 .. MaxSent : H[<<s, n>>] = 0
  /\ \A q \in C : q[1] # s

Distinct(p) ==
  /\ p.curr.session # 0 => p.curr.session # p.prev.session /\ p.curr.session # p.next.session
  /\ p.prev.session # 0 => p.prev.session # p.next.session

\* One end: its keypairs, and a handshake that still waits for its response.
PeerInv(e, p, N, H, C) ==
  /\ p \in Peer
  /\ Distinct(p)
  /\ KeyInv(e, p.curr, N, H) /\ KeyInv(e, p.prev, N, H) /\ KeyInv(e, p.next, N, H)
  /\ \A r \in N : IsResponse(r) /\ r.to = e /\ r.id = p.handshake
                    => Unused(e, p, N, r.session, H, C)
  /\ \A q \in C : q[1] # p.next.session

NetInv(N) ==
  /\ N \subseteq Message
  /\ \A m \in N : (IsData(m) \/ IsResponse(m)) => m.session <= sessions
  /\ \A r, q \in N : IsResponse(r) /\ IsResponse(q) /\ r.session = q.session => r.to = q.to
  /\ \A m \in N : IsData(m) => /\ m.to = Other(m.from)
                               /\ Begun(m.from, m.initiator, m.session, N)
                               /\ ~m.initiator => Spoken(m.session, N)

Ids == \A m \in net : ~IsData(m) => m.id <= initiations

HistoryInv ==
  \A e \in End :
    /\ \A q \in Packet : handed[e][q] > 0 => q[1] <= sessions
    /\ \A q \in confirming[e] : q[1] <= sessions

IInv ==
  /\ TypeOK
  /\ NetInv(net) /\ Ids /\ HistoryInv
  /\ \A e \in End : PeerInv(e, peer[e], net, handed[e], confirming[e])
  /\ DeliveredOnce
  /\ RefusedForCause

-----------------------------------------------------------------------------
(* Ends and keypairs *)

LEMMA OtherEnd ==
  ASSUME NEW e \in End PROVE Other(e) \in End /\ Other(e) # e
BY EndAssumption DEF Other

LEMMA SlotTypes ==
  ASSUME NEW p \in Peer
  PROVE  /\ p.curr \in Keypair /\ p.prev \in Keypair /\ p.next \in Keypair
         /\ OutSlot(p) \in {"curr", "prev"}
BY DEF Peer, OutSlot

LEMMA DestroyedType ==
  keypair_destroyed \in Keypair /\ keypair_destroyed.session = 0
BY BoundsAssumption DEF Keypair, keypair_destroyed

LEMMA NewKeypairType ==
  ASSUME NEW s \in 0 .. MaxSessions, NEW b \in BOOLEAN
  PROVE  LET k == NewKeypair(s, b) IN
         /\ k \in Keypair /\ k.session = s /\ k.initiator = b /\ k.sent = 0
         /\ k.heard = FALSE /\ k.greatest = 0 /\ k.bitmap = {}
<1>1. /\ keypair_destroyed \in Keypair
      /\ keypair_destroyed.sent = 0 /\ keypair_destroyed.heard = FALSE
      /\ keypair_destroyed.greatest = 0 /\ keypair_destroyed.bitmap = {}
  BY DestroyedType DEF keypair_destroyed
<1>2. NewKeypair(s, b) \in Keypair
  BY <1>1 DEF NewKeypair, Keypair
<1>3. NewKeypair(s, b).session = s /\ NewKeypair(s, b).initiator = b
  BY <1>1 DEF NewKeypair, Keypair
<1>4. /\ NewKeypair(s, b).sent = 0 /\ NewKeypair(s, b).heard = FALSE
      /\ NewKeypair(s, b).greatest = 0 /\ NewKeypair(s, b).bitmap = {}
  BY <1>1 DEF NewKeypair, Keypair
<1> QED BY <1>2, <1>3, <1>4

\* A keypair that is not there satisfies anything, so destroying one keeps
\* the invariant of its end.
LEMMA DestroyKeeps ==
  ASSUME NEW e \in End, NEW p, NEW N, NEW H, NEW C, PeerInv(e, p, N, H, C),
         \A q \in C : q[1] \in 1 .. MaxSessions,
         \A r \in N : IsResponse(r) => r.session # 0,
         NEW x \in Slot
  PROVE  PeerInv(e, [p EXCEPT ![x] = keypair_destroyed], N, H, C)
<1>1. p \in Peer
  BY DEF PeerInv
<1>2. CASE x = "curr"
  <2> DEFINE q == [p EXCEPT !.curr = keypair_destroyed]
  <2>1. /\ q \in Peer
        /\ q.curr = keypair_destroyed /\ q.prev = p.prev /\ q.next = p.next
        /\ q.handshake = p.handshake
    BY <1>1, DestroyedType DEF Peer
  <2> HIDE DEF q
  <2>2. PeerInv(e, q, N, H, C)
    BY <2>1, DestroyedType DEF PeerInv, Distinct, KeyInv, Unused
  <2> QED BY <1>2, <2>2 DEF q
<1>3. CASE x = "prev"
  <2> DEFINE q == [p EXCEPT !.prev = keypair_destroyed]
  <2>1. /\ q \in Peer
        /\ q.prev = keypair_destroyed /\ q.curr = p.curr /\ q.next = p.next
        /\ q.handshake = p.handshake
    BY <1>1, DestroyedType DEF Peer
  <2> HIDE DEF q
  <2>2. PeerInv(e, q, N, H, C)
    BY <2>1, DestroyedType DEF PeerInv, Distinct, KeyInv, Unused
  <2> QED BY <1>3, <2>2 DEF q
<1>4. CASE x = "next"
  <2> DEFINE q == [p EXCEPT !.next = keypair_destroyed]
  <2>1. /\ q \in Peer
        /\ q.next = keypair_destroyed /\ q.curr = p.curr /\ q.prev = p.prev
        /\ q.handshake = p.handshake
    BY <1>1, DestroyedType DEF Peer
  <2> HIDE DEF q
  <2>2. PeerInv(e, q, N, H, C)
    BY <2>1, DestroyedType DEF PeerInv, Distinct, KeyInv, Unused
  <2> QED BY <1>4, <2>2 DEF q
<1> QED BY <1>2, <1>3, <1>4 DEF Slot

\* The flag that asks for a handshake is nobody's evidence of anything.
LEMMA FlagKeeps ==
  ASSUME NEW e \in End, NEW p, NEW N, NEW H, NEW C, PeerInv(e, p, N, H, C),
         NEW b \in BOOLEAN
  PROVE  PeerInv(e, [p EXCEPT !.sendHandshake = b], N, H, C)
<1> DEFINE q == [p EXCEPT !.sendHandshake = b]
<1>1. /\ q \in Peer /\ q.curr = p.curr /\ q.prev = p.prev /\ q.next = p.next
      /\ q.handshake = p.handshake
  BY DEF PeerInv, Peer
<1> HIDE DEF q
<1>2. PeerInv(e, q, N, H, C)
  BY <1>1 DEF PeerInv, Distinct, Unused
<1> QED BY <1>2 DEF q

-----------------------------------------------------------------------------
(* Messages that are sent *)

\* More messages take nothing away: a keypair of end f is unmoved by packets
\* of other sessions or of other ends.
LEMMA KeyKept ==
  ASSUME NEW f \in End, NEW k \in Keypair, NEW N, NEW H, NEW out,
         KeyInv(f, k, N, H),
         \A m \in out : IsData(m) => m.from # f \/ m.session # k.session
  PROVE  KeyInv(f, k, N \cup out, H)
BY DEF KeyInv, Ahead, Begun, Spoken

LEMMA OthersKeep ==
  ASSUME NEW f \in End, NEW p, NEW N, NEW H, NEW C, NEW out,
         PeerInv(f, p, N, H, C),
         \A m \in out : ~IsResponse(m) /\ (IsData(m) => m.from # f)
  PROVE  PeerInv(f, p, N \cup out, H, C)
<1>1. p \in Peer /\ p.curr \in Keypair /\ p.prev \in Keypair /\ p.next \in Keypair
  BY SlotTypes DEF PeerInv
<1>2. /\ KeyInv(f, p.curr, N \cup out, H)
      /\ KeyInv(f, p.prev, N \cup out, H)
      /\ KeyInv(f, p.next, N \cup out, H)
  BY <1>1, KeyKept DEF PeerInv
<1>3. ASSUME NEW r \in N \cup out, IsResponse(r), r.to = f, r.id = p.handshake
      PROVE  Unused(f, p, N \cup out, r.session, H, C)
  BY <1>3 DEF PeerInv, Unused
<1> QED BY <1>1, <1>2, <1>3 DEF PeerInv

\* The keypair that sends: its counter is past the packet.
LEMMA SenderKept ==
  ASSUME NEW e \in End, NEW k \in Keypair, NEW N, NEW H, NEW b,
         KeyInv(e, k, N, H), N \subseteq Message
  PROVE  KeyInv(e, [k EXCEPT !.sent = @ + 1], N \cup {Data(e, k, b)}, H)
<1> DEFINE k2 == [k EXCEPT !.sent = @ + 1]
           d == Data(e, k, b)
<1>1. /\ k2.session = k.session /\ k2.initiator = k.initiator
      /\ k2.heard = k.heard /\ k2.greatest = k.greatest /\ k2.bitmap = k.bitmap
      /\ k2.sent = k.sent + 1 /\ k.sent \in Nat
  BY DEF Keypair
<1>2. d.type = "data" /\ d.from = e /\ d.session = k.session /\ d.n = k.sent
  BY DEF Data
<1>3. \A m \in N : IsData(m) => m.n \in Nat
  BY DEF Message, IsData
<1> HIDE DEF k2, d
<1>4. Ahead(e, k, N) => Ahead(e, k2, N \cup {d})
  BY <1>1, <1>2, <1>3 DEF Ahead
<1>5. KeyInv(e, k2, N \cup {d}, H)
  BY <1>1, <1>4 DEF KeyInv, Begun, Spoken, Remembers
<1> QED BY <1>5 DEF k2, d

\* The packet itself: it belongs to its session, and one that does not belong
\* to the session's beginner follows one that does.
LEMMA PacketSound ==
  ASSUME NEW e \in End, NEW k \in Keypair, NEW N, NEW H, NEW b \in BOOLEAN,
         KeyInv(e, k, N, H), NetInv(N), Usable(k), k.sent < MaxSent
  PROVE  NetInv(N \cup {Data(e, k, b)})
<1> DEFINE d == Data(e, k, b)
<1>1. /\ d.type = "data" /\ d.from = e /\ d.to = Other(e)
      /\ d.session = k.session /\ d.n = k.sent /\ d.initiator = k.initiator
  BY DEF Data
<1>2. d \in Message
  <2>1. k.session \in 1 .. MaxSessions /\ k.sent \in 0 .. MaxSent /\ k.initiator \in BOOLEAN
    BY BoundsAssumption DEF Keypair, Usable
  <2> QED BY <2>1, OtherEnd DEF Message, Data
<1>3. k.session # 0 /\ (k.initiator \/ k.heard)
  BY DEF Usable
<1> HIDE DEF d
<1>4. k.session <= sessions /\ Begun(e, k.initiator, k.session, N)
      /\ (~k.initiator => Spoken(k.session, N))
  BY <1>3 DEF KeyInv
<1>5. \A m \in N : IsData(m) =>
         /\ Begun(m.from, m.initiator, m.session, N \cup {d})
         /\ ~m.initiator => Spoken(m.session, N \cup {d})
  BY DEF NetInv, Begun, Spoken
<1>6. Begun(d.from, d.initiator, d.session, N \cup {d})
      /\ (~d.initiator => Spoken(d.session, N \cup {d}))
  BY <1>1, <1>4 DEF Begun, Spoken
<1>7. ~IsResponse(d)
  BY <1>1 DEF IsResponse
<1>8. NetInv(N \cup {d})
  BY <1>1, <1>2, <1>4, <1>5, <1>6, <1>7 DEF NetInv
<1> QED BY <1>8 DEF d


\* wireguardif_output_to_peer sends one packet or none, and either way its end
\* and the network stay sound.
LEMMA OutputKeeps ==
  ASSUME NEW e \in End, NEW p, NEW N, NEW H, NEW C, NEW b, NEW age,
         b \in BOOLEAN, PeerInv(e, p, N, H, C), NetInv(N),
         \A q \in C : q[1] \in 1 .. MaxSessions,
         p[OutSlot(p)].sent < MaxSent,
         NEW r, r = Output(p, e, b, age)
  PROVE  /\ PeerInv(e, r.peer, N \cup r.out, H, C)
         /\ NetInv(N \cup r.out)
         /\ \A m \in r.out : m \in Message /\ IsData(m) /\ m.from = e
<1> DEFINE x == OutSlot(p)
           k == p[x]
<1>1. /\ p \in Peer /\ x \in {"curr", "prev"}
      /\ p.curr \in Keypair /\ p.prev \in Keypair /\ p.next \in Keypair
      /\ p.sendHandshake \in BOOLEAN
  BY SlotTypes DEF PeerInv, Peer
<1>2. \A m \in N : IsResponse(m) => m.session # 0
  BY DEF NetInv, Message, IsResponse
<1>3. CASE ~Usable(k)
  <2>1. r.peer = [p EXCEPT !.sendHandshake = TRUE] /\ r.out = {}
    BY <1>3 DEF Output
  <2>2. N \cup r.out = N
    BY <2>1
  <2>3. PeerInv(e, [p EXCEPT !.sendHandshake = TRUE], N, H, C)
    BY FlagKeeps
  <2>4. PeerInv(e, r.peer, N \cup r.out, H, C) /\ NetInv(N \cup r.out)
    BY <2>1, <2>2, <2>3
  <2> QED BY <2>1, <2>4
<1>4. CASE Usable(k) /\ age >= REJECT_AFTER_TIME
  <2>1. r.peer = [p EXCEPT ![x] = keypair_destroyed] /\ r.out = {}
    BY <1>4 DEF Output
  <2>2. N \cup r.out = N /\ x \in Slot
    BY <1>1, <2>1 DEF Slot
  <2>3. PeerInv(e, r.peer, N, H, C)
    BY <1>2, <2>1, <2>2, DestroyKeeps
  <2>4. PeerInv(e, r.peer, N \cup r.out, H, C) /\ NetInv(N \cup r.out)
    BY <2>2, <2>3
  <2> QED BY <2>1, <2>4
<1>5. CASE Usable(k) /\ ~(age >= REJECT_AFTER_TIME)
  <2> DEFINE d == Data(e, k, b)
             k2 == [k EXCEPT !.sent = @ + 1]
             f == p.sendHandshake \/ (k.initiator /\ age >= REKEY_AFTER_TIME)
             p1 == [p EXCEPT ![x] = k2]
  <2>1. /\ r.peer = [p1 EXCEPT !.sendHandshake = f]
        /\ r.out = {d}
    <3>1. r.out = {d}
      BY <1>5 DEF Output
    <3>2. CASE x = "curr"
      BY <1>1, <1>5, <3>2 DEF Output, Peer
    <3>3. CASE x = "prev"
      BY <1>1, <1>5, <3>3 DEF Output, Peer
    <3> QED BY <1>1, <3>1, <3>2, <3>3
  <2>2. k \in Keypair /\ k.session # 0 /\ KeyInv(e, k, N, H)
    BY <1>1, <1>5 DEF PeerInv, Usable
  <2>3. NetInv(N \cup {d})
    BY <2>2, <1>5, PacketSound
  <2>4. KeyInv(e, k2, N \cup {d}, H)
    BY <2>2, SenderKept DEF NetInv
  <2>5. k2 \in Keypair /\ k2.session = k.session
    BY <2>2 DEF Keypair
  <2>6. d.type = "data" /\ d.from = e /\ d.session = k.session
    BY DEF Data
  <2>7. \A j \in Keypair : j.session # k.session /\ KeyInv(e, j, N, H)
                             => KeyInv(e, j, N \cup {d}, H)
    BY <2>6, KeyKept
  <2>8. f \in BOOLEAN
    BY <1>1, <2>2 DEF Keypair
  <2> HIDE DEF d, k2, f
  <2>9. PeerInv(e, p1, N \cup {d}, H, C)
    <3>1. /\ p1 \in Peer /\ p1.next = p.next /\ p1.handshake = p.handshake
          /\ p1.curr.session = p.curr.session /\ p1.prev.session = p.prev.session
          /\ \/ x = "curr" /\ p1.curr = k2 /\ p1.prev = p.prev
             \/ x = "prev" /\ p1.prev = k2 /\ p1.curr = p.curr
      <4>1. CASE x = "curr"
        BY <1>1, <2>5, <4>1 DEF Peer
      <4>2. CASE x = "prev"
        BY <1>1, <2>5, <4>2 DEF Peer
      <4> QED BY <1>1, <4>1, <4>2
    <3> HIDE DEF p1
    <3>2. Distinct(p1)
      BY <3>1 DEF PeerInv, Distinct
    <3>3. /\ KeyInv(e, p1.curr, N \cup {d}, H)
          /\ KeyInv(e, p1.prev, N \cup {d}, H)
          /\ KeyInv(e, p1.next, N \cup {d}, H)
      <4>1. CASE x = "curr"
        <5>1. /\ p.prev.session # k.session /\ p.next.session # k.session
          BY <2>2, <4>1 DEF PeerInv, Distinct
        <5> QED BY <1>1, <2>4, <2>7, <3>1, <4>1, <5>1 DEF PeerInv
      <4>2. CASE x = "prev"
        <5>1. /\ p.curr.session # k.session /\ p.next.session # k.session
          BY <2>2, <4>2 DEF PeerInv, Distinct
        <5> QED BY <1>1, <2>4, <2>7, <3>1, <4>2, <5>1 DEF PeerInv
      <4> QED BY <1>1, <4>1, <4>2
    <3>4. ASSUME NEW m \in N \cup {d}, IsResponse(m), m.to = e, m.id = p1.handshake
          PROVE  Unused(e, p1, N \cup {d}, m.session, H, C)
      <4>1. m \in N
        BY <2>6, <3>4 DEF IsResponse
      <4>2. Unused(e, p, N, m.session, H, C)
        BY <3>1, <3>4, <4>1 DEF PeerInv
      <4>3. k.session # m.session
        BY <1>1, <4>2 DEF Unused
      <4> QED BY <2>6, <3>1, <4>2, <4>3 DEF Unused
    <3> QED BY <3>1, <3>2, <3>3, <3>4 DEF PeerInv
  <2> HIDE DEF p1
  <2>10. PeerInv(e, r.peer, N \cup {d}, H, C)
    BY <2>1, <2>8, <2>9, FlagKeeps
  <2>11. d \in Message /\ IsData(d) /\ d.from = e
    BY <2>3, <2>6 DEF NetInv, IsData
  <2> QED BY <2>1, <2>3, <2>10, <2>11
<1> QED BY <1>3, <1>4, <1>5

-----------------------------------------------------------------------------
(* Sessions that begin *)

\* The timer begins a handshake nobody has answered.
LEMMA HandshakeKeeps ==
  ASSUME NEW e \in End, NEW p, NEW N, NEW H, NEW C, PeerInv(e, p, N, H, C),
         NEW id \in 0 .. MaxInit,
         \A r \in N : IsResponse(r) => r.id # id
  PROVE  PeerInv(e, StartHandshake(p, id), N, H, C)
<1> DEFINE q == StartHandshake(p, id)
<1>1. /\ q \in Peer /\ q.curr = p.curr /\ q.prev = p.prev /\ q.next = p.next
      /\ q.handshake = id
  BY DEF PeerInv, Peer, StartHandshake
<1> HIDE DEF q
<1>2. PeerInv(e, q, N, H, C)
  BY <1>1 DEF PeerInv, Distinct
<1> QED BY <1>2 DEF q

\* Nothing is known of a peer that is new.
LEMMA NewPeerSound ==
  ASSUME NEW e \in End, NEW p, NEW N, NEW H, NEW C,
         p \in Peer, p.handshake = 0,
         p.curr = keypair_destroyed, p.prev = keypair_destroyed,
         p.next = keypair_destroyed,
         \A q \in C : q[1] \in 1 .. MaxSessions,
         \A r \in N : IsResponse(r) => r.id # 0
  PROVE  PeerInv(e, p, N, H, C)
BY DestroyedType DEF PeerInv, Distinct, KeyInv

\* should_reset_peer and should_destroy_current_keypair.
LEMMA AgedKeeps ==
  ASSUME NEW e \in End, NEW p, NEW N, NEW H, NEW C, PeerInv(e, p, N, H, C),
         NEW age \in Nat, N \subseteq Message,
         \A q \in C : q[1] \in 1 .. MaxSessions
  PROVE  PeerInv(e, Aged(p, age), N, H, C)
<1>1. \A r \in N : IsResponse(r) => r.id # 0 /\ r.session # 0
  BY DEF Message, IsResponse
<1>2. PeerInv(e, [p EXCEPT !.curr = keypair_destroyed], N, H, C)
  BY <1>1, DestroyKeeps DEF Slot
<1>3. PeerInv(e, [NewPeer EXCEPT !.greatestTimestamp = p.greatestTimestamp,
                                 !.sendHandshake = p.sendHandshake], N, H, C)
  <2> DEFINE q == [NewPeer EXCEPT !.greatestTimestamp = p.greatestTimestamp,
                                  !.sendHandshake = p.sendHandshake]
  <2>1. /\ q \in Peer /\ q.handshake = 0 /\ q.curr = keypair_destroyed
        /\ q.prev = keypair_destroyed /\ q.next = keypair_destroyed
    <3>1. p.greatestTimestamp \in 0 .. MaxInit /\ p.sendHandshake \in BOOLEAN
      BY DEF PeerInv, Peer
    <3>2. 0 \in 0 .. MaxInit
      BY BoundsAssumption
    <3> QED BY <3>1, <3>2, DestroyedType DEF Peer, NewPeer
  <2> HIDE DEF q
  <2>2. PeerInv(e, q, N, H, C)
    BY <1>1, <2>1, NewPeerSound
  <2> QED BY <2>2 DEF q
<1> QED BY <1>2, <1>3 DEF Aged

\* The end whose handshake was answered: its new keypair has sent nothing,
\* because the response was never used before.
LEMMA InitiatorKeeps ==
  ASSUME NEW e \in End, NEW p, NEW N, NEW H, NEW C, PeerInv(e, p, N, H, C),
         NetInv(N), \A q \in C : q[1] \in 1 .. MaxSessions,
         NEW r \in N, IsResponse(r), r.to = e, r.id = p.handshake
  PROVE  PeerInv(e, StartAsInitiator(p, r.session), N, H, C)
<1> DEFINE s == r.session
           k == NewKeypair(s, TRUE)
           q == StartAsInitiator(p, s)
           old == IF p.next.session # 0 THEN p.next ELSE p.curr
<1>1. /\ p \in Peer /\ p.curr \in Keypair /\ p.next \in Keypair
  BY SlotTypes DEF PeerInv
<1>2. s \in 1 .. MaxSessions /\ s <= sessions
  BY DEF NetInv, Message, IsResponse
<1>3. /\ k \in Keypair /\ k.session = s /\ k.initiator = TRUE /\ k.sent = 0
      /\ k.heard = FALSE /\ k.greatest = 0 /\ k.bitmap = {}
  <2>1. s \in 0 .. MaxSessions
    BY <1>2
  <2> HIDE DEF s
  <2> QED BY <2>1, NewKeypairType
<1>4. /\ q \in Peer /\ q.curr = k /\ q.prev = old /\ q.next = keypair_destroyed
      /\ q.handshake = 0
  <2>1. q = [p EXCEPT !.prev = old, !.next = keypair_destroyed,
                      !.curr = k, !.handshake = 0]
    BY DEF StartAsInitiator
  <2>2. old \in Keypair /\ 0 \in 0 .. MaxInit
    BY <1>1, BoundsAssumption
  <2> HIDE DEF old, k, q
  <2> QED BY <1>1, <1>3, <2>1, <2>2, DestroyedType DEF Peer
<1>5. Unused(e, p, N, s, H, C)
  BY DEF PeerInv
<1>6. KeyInv(e, k, N, H)
  <2>1. Ahead(e, k, N)
    BY <1>3, <1>5 DEF Ahead, Unused
  <2>2. Begun(e, TRUE, s, N)
    BY DEF Begun, Beginner
  <2> HIDE DEF k, s
  <2>3. Remembers(k, H)
    BY <1>3, <1>5, BoundsAssumption DEF Remembers, Unused
  <2> QED BY <1>2, <1>3, <2>1, <2>2, <2>3 DEF KeyInv
<1>7. \A m \in N : IsResponse(m) => m.id # 0
  BY DEF NetInv, Message, IsResponse
<1> HIDE DEF k, q, s
<1>8. Distinct(q)
  BY <1>3, <1>4, <1>5, DestroyedType DEF Distinct, Unused
<1>9. KeyInv(e, q.curr, N, H) /\ KeyInv(e, q.prev, N, H) /\ KeyInv(e, q.next, N, H)
  BY <1>4, <1>6, DestroyedType DEF PeerInv, KeyInv
<1>10. PeerInv(e, q, N, H, C)
  BY <1>4, <1>7, <1>8, <1>9, DestroyedType DEF PeerInv
<1> QED BY <1>10 DEF q, s

-----------------------------------------------------------------------------
(* Packets that arrive *)

\* A packet of the other end for a session this end answered was sent by the
\* end that began it.
LEMMA HeardFromBeginner ==
  ASSUME NEW e \in End, NEW k, NEW N, NEW H, KeyInv(e, k, N, H), NetInv(N),
         NEW m \in N, IsData(m), m.to = e, m.session = k.session, k.session # 0,
         ~k.initiator
  PROVE  Spoken(k.session, N)
<1>1. m.from \in End /\ m.initiator \in BOOLEAN /\ m.to = Other(m.from)
  BY DEF NetInv, Message, IsData
<1>2. CASE m.initiator
  BY <1>2 DEF Spoken
<1>3. CASE ~m.initiator
  BY <1>1, <1>3 DEF NetInv
<1> QED BY <1>1, <1>2, <1>3

LEMMA HeardKeeps ==
  ASSUME NEW e \in End, NEW p, NEW N, NEW H, NEW C, PeerInv(e, p, N, H, C),
         NEW x \in Slot, p[x].session # 0 /\ ~p[x].initiator => Spoken(p[x].session, N)
  PROVE  PeerInv(e, [p EXCEPT ![x].heard = TRUE], N, H, C)
<1> DEFINE k == [p[x] EXCEPT !.heard = TRUE]
           q == [p EXCEPT ![x].heard = TRUE]
<1>1. /\ p \in Peer /\ p[x] \in Keypair
      /\ p.curr \in Keypair /\ p.prev \in Keypair /\ p.next \in Keypair
  BY SlotTypes DEF PeerInv, Slot
<1>2. /\ k \in Keypair /\ k.session = p[x].session /\ k.initiator = p[x].initiator
      /\ k.sent = p[x].sent /\ k.greatest = p[x].greatest /\ k.bitmap = p[x].bitmap
  BY <1>1 DEF Keypair
<1>3. KeyInv(e, p[x], N, H)
  BY DEF PeerInv, Slot
<1>4. KeyInv(e, k, N, H)
  <2> HIDE DEF k
  <2> QED BY <1>2, <1>3 DEF KeyInv, Ahead, Remembers
<1>5. /\ q \in Peer /\ q.handshake = p.handshake
      /\ q.curr = (IF x = "curr" THEN k ELSE p.curr)
      /\ q.prev = (IF x = "prev" THEN k ELSE p.prev)
      /\ q.next = (IF x = "next" THEN k ELSE p.next)
  <2>1. q = [p EXCEPT ![x] = k]
    OBVIOUS
  <2>2. CASE x = "curr"
    BY <1>1, <1>2, <2>1, <2>2 DEF Peer
  <2>3. CASE x = "prev"
    BY <1>1, <1>2, <2>1, <2>3 DEF Peer
  <2>4. CASE x = "next"
    BY <1>1, <1>2, <2>1, <2>4 DEF Peer
  <2> QED BY <2>2, <2>3, <2>4 DEF Slot
<1>6. /\ q.curr.session = p.curr.session /\ q.prev.session = p.prev.session
      /\ q.next.session = p.next.session
  BY <1>2, <1>5
<1> HIDE DEF k, q
<1>7. KeyInv(e, q.curr, N, H) /\ KeyInv(e, q.prev, N, H) /\ KeyInv(e, q.next, N, H)
  BY <1>4, <1>5 DEF PeerInv
<1>8. PeerInv(e, q, N, H, C)
  BY <1>5, <1>6, <1>7 DEF PeerInv, Distinct, Unused
<1> QED BY <1>8 DEF q

\* keypair_update: the confirmed keypair is the current one, and no packet
\* confirms its session again.
LEMMA UpdateKeeps ==
  ASSUME NEW e \in End, NEW p, NEW N, NEW H, NEW C, PeerInv(e, p, N, H, C),
         N \subseteq Message, \A q \in C : q[1] \in 1 .. MaxSessions,
         NEW n, p.next.session # 0
  PROVE  PeerInv(e, keypair_update(p, "next"), N, H, C \cup {<<p.next.session, n>>})
<1> DEFINE q == keypair_update(p, "next")
           D == C \cup {<<p.next.session, n>>}
<1>1. p \in Peer /\ p.curr \in Keypair /\ p.prev \in Keypair /\ p.next \in Keypair
  BY SlotTypes DEF PeerInv
<1>2. /\ q \in Peer /\ q.curr = p.next /\ q.prev = p.curr
      /\ q.next = keypair_destroyed /\ q.handshake = p.handshake
  BY <1>1, DestroyedType DEF Peer, keypair_update
<1>3. \A r \in D : r[1] # 0
  BY <1>1, BoundsAssumption DEF Keypair
<1> HIDE DEF q
<1>4. Distinct(q)
  BY <1>2, DestroyedType DEF PeerInv, Distinct
<1>5. KeyInv(e, q.curr, N, H) /\ KeyInv(e, q.prev, N, H) /\ KeyInv(e, q.next, N, H)
  BY <1>2, DestroyedType DEF PeerInv, KeyInv
<1>6. ASSUME NEW r \in N, IsResponse(r), r.to = e, r.id = p.handshake
      PROVE  Unused(e, q, N, r.session, H, D)
  <2>1. r.session # 0
    BY <1>6 DEF Message, IsResponse
  <2>2. Unused(e, p, N, r.session, H, C)
    BY <1>6 DEF PeerInv
  <2> QED BY <1>2, <1>6, <2>1, <2>2, DestroyedType DEF Unused
<1>7. PeerInv(e, q, N, H, D)
  BY <1>2, <1>3, <1>4, <1>5, <1>6, DestroyedType DEF PeerInv
<1> QED BY <1>7 DEF q

\* The history after a packet was judged by the window of keypair k.
Judged(k, H, n) == IF Fresh(k, n) THEN [H EXCEPT ![<<k.session, n>>] = @ + 1] ELSE H

LEMMA JudgedOnly ==
  ASSUME NEW k \in Keypair, k.session # 0, NEW H \in [Packet -> Nat],
         NEW n \in 0 .. MaxSent
  PROVE  /\ Judged(k, H, n) \in [Packet -> Nat]
         /\ \A s \in 1 .. MaxSessions, j \in 0 .. MaxSent :
              Judged(k, H, n)[<<s, j>>] =
                IF Fresh(k, n) /\ s = k.session /\ j = n
                THEN H[<<s, j>>] + 1 ELSE H[<<s, j>>]
<1>1. <<k.session, n>> \in Packet /\ k.session \in 1 .. MaxSessions
  BY BoundsAssumption DEF Packet, Keypair
<1>2. \A s \in 1 .. MaxSessions, j \in 0 .. MaxSent : <<s, j>> \in Packet
  BY DEF Packet
<1> QED BY <1>1, <1>2 DEF Judged

\* The window goes on remembering what it passed.
LEMMA WindowRemembers ==
  ASSUME NEW k \in Keypair, k.session # 0, NEW H \in [Packet -> Nat],
         NEW n \in 0 .. MaxSent, Remembers(k, H)
  PROVE  LET j == wireguard_check_replay(k, n) IN
         /\ j \in Keypair /\ j.session = k.session /\ j.initiator = k.initiator
         /\ j.heard = k.heard /\ j.sent = k.sent
         /\ Remembers(j, Judged(k, H, n))
<1> DEFINE s == k.session
           G == Judged(k, H, n)
           j == wireguard_check_replay(k, n)
<1>1. /\ s \in 1 .. MaxSessions /\ k.greatest \in 0 .. MaxSent
      /\ k.bitmap \subseteq 0 .. 31
  BY BoundsAssumption DEF Keypair, Remembers
<1>2. /\ MaxSent \in Nat /\ Window \in Nat /\ 0 < Window /\ Window <= 32
  BY BoundsAssumption, WindowAssumption
<1>3. \A i \in 0 .. MaxSent : H[<<s, i>>] \in Nat
  BY <1>1 DEF Packet
<1>4. \A i \in 0 .. MaxSent :
        G[<<s, i>>] = IF Fresh(k, n) /\ i = n THEN H[<<s, i>>] + 1 ELSE H[<<s, i>>]
  BY <1>1, JudgedOnly
<1>5. CASE ~Fresh(k, n)
  BY <1>5 DEF wireguard_check_replay, Judged
<1>6. CASE Fresh(k, n) /\ n <= k.greatest
  <2>1. j = [k EXCEPT !.bitmap = @ \cup {k.greatest - n}]
    BY <1>6 DEF wireguard_check_replay
  <2>2. k.greatest - n \in 0 .. 31 /\ n # 0
    BY <1>1, <1>2, <1>6 DEF Fresh
  <2>3. /\ j \in Keypair /\ j.session = s /\ j.initiator = k.initiator
        /\ j.heard = k.heard /\ j.sent = k.sent
        /\ j.greatest = k.greatest /\ j.bitmap = k.bitmap \cup {k.greatest - n}
    BY <2>1, <2>2 DEF Keypair
  <2> HIDE DEF G, j
  <2>4. n < k.greatest
    BY <1>1, <1>2, <1>6, <2>2 DEF Fresh, Remembers
  <2>5. Remembers(j, G)
    <3>1. \A i \in 0 .. MaxSent : G[<<s, i>>] > 0 =>
            i # 0 /\ i <= k.greatest /\ (k.greatest - i < Window => (k.greatest - i) \in j.bitmap)
      BY <1>1, <1>2, <1>3, <1>4, <1>6, <2>2, <2>3 DEF Remembers
    <3>2. k.greatest > 0 => G[<<s, k.greatest>>] > 0
      BY <1>1, <1>3, <1>4, <2>4 DEF Remembers
    <3>3. ASSUME NEW i \in j.bitmap
          PROVE  i < k.greatest /\ G[<<s, k.greatest - i>>] > 0
      <4>1. CASE i = k.greatest - n
        BY <1>1, <1>3, <1>4, <1>6, <2>2, <4>1
      <4>2. CASE i \in k.bitmap
        <5>1. i < k.greatest /\ H[<<s, k.greatest - i>>] > 0 /\ i \in 0 .. 31
          BY <1>1, <4>2 DEF Remembers
        <5>2. k.greatest - i \in 0 .. MaxSent
          BY <1>1, <1>2, <5>1
        <5> QED BY <1>3, <1>4, <5>1, <5>2
      <4> QED BY <2>3, <4>1, <4>2
    <3> QED BY <1>1, <2>3, <3>1, <3>2, <3>3 DEF Remembers
  <2> QED BY <2>3, <2>5 DEF j, G
<1>7. CASE Fresh(k, n) /\ ~(n <= k.greatest)
  <2> DEFINE moved == {i \in 0 .. 31 : \E b \in k.bitmap : i = b + (n - k.greatest)}
             bits == {0} \cup IF n - k.greatest < Window THEN moved ELSE {}
  <2>1. j = [k EXCEPT !.greatest = n, !.bitmap = bits]
    BY <1>7 DEF wireguard_check_replay
  <2>2. n # 0 /\ n \in Nat /\ n > k.greatest /\ bits \subseteq 0 .. 31
    BY <1>1, <1>7 DEF Fresh
  <2> HIDE DEF bits, moved, j
  <2>3. /\ j \in Keypair /\ j.session = s /\ j.initiator = k.initiator
        /\ j.heard = k.heard /\ j.sent = k.sent
        /\ j.greatest = n /\ j.bitmap = bits
    <3>1. j \in Keypair
      BY <2>1, <2>2 DEF Keypair
    <3>2. /\ j.session = s /\ j.initiator = k.initiator
          /\ j.heard = k.heard /\ j.sent = k.sent
      BY <2>1 DEF Keypair
    <3>3. j.greatest = n /\ j.bitmap = bits
      BY <2>1 DEF Keypair
    <3> QED BY <3>1, <3>2, <3>3
  <2> HIDE DEF G
  <2>4. ASSUME NEW i \in 0 .. MaxSent, G[<<s, i>>] > 0
        PROVE  i # 0 /\ i <= n /\ (n - i < Window => (n - i) \in bits)
    <3>1. CASE i = n
      BY <2>2, <3>1, <1>2 DEF bits
    <3>2. CASE i # n
      <4>1. i # 0 /\ i <= k.greatest
            /\ (k.greatest - i < Window => (k.greatest - i) \in k.bitmap)
        BY <1>4, <2>4, <3>2 DEF Remembers
      <4>2. ASSUME n - i < Window PROVE (n - i) \in bits
        <5>1. (k.greatest - i) \in k.bitmap /\ n - k.greatest < Window
          BY <1>1, <1>2, <2>2, <4>1, <4>2
        <5>2. n - i \in 0 .. 31 /\ n - i = (k.greatest - i) + (n - k.greatest)
          BY <1>1, <1>2, <2>2, <4>1, <4>2
        <5> QED BY <5>1, <5>2 DEF bits, moved
      <4> QED BY <1>1, <2>2, <4>1, <4>2
    <3> QED BY <3>1, <3>2
  <2>5. G[<<s, n>>] > 0
    BY <1>3, <1>4, <1>7
  <2>6. ASSUME NEW i \in bits PROVE i < n /\ G[<<s, n - i>>] > 0
    <3>1. CASE i = 0
      BY <2>2, <2>5, <3>1
    <3>2. CASE i # 0
      <4>1. PICK b \in k.bitmap : i = b + (n - k.greatest)
        BY <2>6, <3>2 DEF bits, moved
      <4>2. b < k.greatest /\ H[<<s, k.greatest - b>>] > 0 /\ b \in 0 .. 31
        BY <1>1, <4>1 DEF Remembers
      <4>3. n - i = k.greatest - b /\ i < n /\ k.greatest - b \in 0 .. MaxSent
        BY <1>1, <1>2, <2>2, <4>1, <4>2
      <4> QED BY <1>3, <1>4, <4>2, <4>3
    <3> QED BY <3>1, <3>2
  <2>7. Remembers(j, G)
    BY <2>3, <2>4, <2>5, <2>6 DEF Remembers
  <2> QED BY <2>3, <2>7 DEF j, G
<1> QED BY <1>5, <1>6, <1>7

\* Keypairs of other sessions do not notice.
LEMMA OtherWindows ==
  ASSUME NEW k \in Keypair, k.session # 0, NEW H \in [Packet -> Nat],
         NEW n \in 0 .. MaxSent, NEW e \in End, NEW N, NEW j \in Keypair,
         j.session # k.session, KeyInv(e, j, N, H)
  PROVE  KeyInv(e, j, N, Judged(k, H, n))
<1> SUFFICES ASSUME j.session # 0 PROVE KeyInv(e, j, N, Judged(k, H, n))
  BY DEF KeyInv
<1>1. j.session \in 1 .. MaxSessions
  BY BoundsAssumption DEF Keypair
<1>2. \A i \in 0 .. MaxSent : Judged(k, H, n)[<<j.session, i>>] = H[<<j.session, i>>]
  BY <1>1, JudgedOnly
<1>3. j.greatest \in 0 .. MaxSent /\ \A i \in j.bitmap : i < j.greatest /\ i \in 0 .. 31
  BY DEF KeyInv, Remembers, Keypair
<1>4. \A i \in j.bitmap : j.greatest - i \in 0 .. MaxSent
  BY <1>3, BoundsAssumption
<1>5. Remembers(j, Judged(k, H, n))
  BY <1>2, <1>3, <1>4 DEF KeyInv, Remembers
<1> QED BY <1>5 DEF KeyInv

LEMMA ReplayKeeps ==
  ASSUME NEW e \in End, NEW p, NEW N, NEW H \in [Packet -> Nat], NEW C,
         PeerInv(e, p, N, H, C), NetInv(N),
         NEW x \in {"curr", "prev"}, p[x].session # 0, NEW n \in 0 .. MaxSent
  PROVE  PeerInv(e, [p EXCEPT ![x] = wireguard_check_replay(@, n)], N,
                 Judged(p[x], H, n), C)
<1> DEFINE k == p[x]
           j == wireguard_check_replay(k, n)
           G == Judged(k, H, n)
           q == [p EXCEPT ![x] = wireguard_check_replay(@, n)]
<1>1. /\ p \in Peer /\ k \in Keypair
      /\ p.curr \in Keypair /\ p.prev \in Keypair /\ p.next \in Keypair
  BY SlotTypes DEF PeerInv
<1>2. KeyInv(e, k, N, H) /\ Remembers(k, H)
  BY DEF PeerInv, KeyInv
<1>3. /\ j \in Keypair /\ j.session = k.session /\ j.initiator = k.initiator
      /\ j.heard = k.heard /\ j.sent = k.sent /\ Remembers(j, G)
  BY <1>1, <1>2, WindowRemembers
<1>4. KeyInv(e, j, N, G)
  <2> HIDE DEF j, G
  <2> QED BY <1>2, <1>3 DEF KeyInv, Ahead
<1>5. /\ q \in Peer /\ q.handshake = p.handshake /\ q.next = p.next
      /\ q.curr = (IF x = "curr" THEN j ELSE p.curr)
      /\ q.prev = (IF x = "prev" THEN j ELSE p.prev)
  <2>1. q = [p EXCEPT ![x] = j]
    OBVIOUS
  <2> HIDE DEF j
  <2>2. CASE x = "curr"
    BY <1>1, <1>3, <2>1, <2>2 DEF Peer
  <2>3. CASE x = "prev"
    BY <1>1, <1>3, <2>1, <2>3 DEF Peer
  <2> QED BY <2>2, <2>3
<1>6. q.curr.session = p.curr.session /\ q.prev.session = p.prev.session
  BY <1>3, <1>5
<1>7. \A i \in Keypair : i.session # k.session /\ KeyInv(e, i, N, H) => KeyInv(e, i, N, G)
  BY <1>1, OtherWindows
<1> HIDE DEF q, j, G
<1>8. KeyInv(e, q.curr, N, G) /\ KeyInv(e, q.prev, N, G) /\ KeyInv(e, q.next, N, G)
  <2>1. CASE x = "curr"
    <3>1. p.prev.session # k.session /\ p.next.session # k.session
      BY <2>1 DEF PeerInv, Distinct
    <3> QED BY <1>1, <1>4, <1>5, <1>7, <2>1, <3>1 DEF PeerInv
  <2>2. CASE x = "prev"
    <3>1. p.curr.session # k.session /\ p.next.session # k.session
      BY <2>2 DEF PeerInv, Distinct
    <3> QED BY <1>1, <1>4, <1>5, <1>7, <2>2, <3>1 DEF PeerInv
  <2> QED BY <2>1, <2>2
<1>9. ASSUME NEW r \in N, IsResponse(r), r.to = e, r.id = q.handshake
      PROVE  Unused(e, q, N, r.session, G, C)
  <2>1. Unused(e, p, N, r.session, H, C) /\ r.session \in 1 .. MaxSessions
    BY <1>5, <1>9 DEF PeerInv, NetInv, Message, IsResponse
  <2>2. r.session # k.session
    BY <2>1 DEF Unused
  <2>3. \A i \in 0 .. MaxSent : G[<<r.session, i>>] = H[<<r.session, i>>]
    BY <1>1, <2>1, <2>2, JudgedOnly DEF G
  <2> QED BY <1>5, <1>6, <2>1, <2>3 DEF Unused
<1>10. Distinct(q) /\ \A r \in C : r[1] # q.next.session
  BY <1>5, <1>6 DEF PeerInv, Distinct
<1>11. PeerInv(e, q, N, G, C)
  BY <1>5, <1>8, <1>9, <1>10 DEF PeerInv
<1> QED BY <1>11 DEF q, G

-----------------------------------------------------------------------------
(* Steps *)

\* What a step of end e that leaves the history alone has to keep.
LEMMA Assemble ==
  ASSUME IInv, NEW e \in End, NEW p, NEW out,
         peer' = [peer EXCEPT ![e] = p], net' = net \cup out,
         initiations' \in initiations .. MaxInit,
         UNCHANGED <<sessions, history>>,
         NetInv(net \cup out),
         PeerInv(e, p, net \cup out, handed[e], confirming[e]),
         \A m \in out : ~IsResponse(m) /\ (IsData(m) => m.from = e),
         \A m \in out : ~IsData(m) => m.id <= initiations'
  PROVE  IInv'
<1>1. /\ sessions' = sessions /\ handed' = handed /\ confirming' = confirming
      /\ refused' = refused
  BY DEF history
<1>2. TypeOK'
  <2>1. peer' \in [End -> Peer]
    BY DEF IInv, TypeOK, PeerInv
  <2>2. initiations' \in 0 .. MaxInit
    BY BoundsAssumption DEF IInv, TypeOK
  <2> QED BY <1>1, <2>1, <2>2 DEF IInv, TypeOK
<1>3. NetInv(net)'
  BY <1>1 DEF NetInv, Begun, Spoken
<1>4. Ids'
  <2>1. \A m \in net : ~IsData(m) => m.id \in Nat
    BY DEF IInv, NetInv, Message, IsData
  <2>2. initiations \in Nat /\ initiations' \in Nat /\ initiations <= initiations'
    BY BoundsAssumption DEF IInv, TypeOK
  <2> QED BY <2>1, <2>2 DEF IInv, Ids
<1>5. HistoryInv' /\ DeliveredOnce' /\ RefusedForCause'
  BY <1>1 DEF IInv, HistoryInv, DeliveredOnce, RefusedForCause
<1>6. ASSUME NEW f \in End
      PROVE  PeerInv(f, peer[f], net, handed[f], confirming[f])'
  <2>1. PeerInv(f, peer'[f], net \cup out, handed[f], confirming[f])
    <3>1. CASE f = e
      BY <3>1 DEF IInv, TypeOK
    <3>2. CASE f # e
      <4>1. peer'[f] = peer[f]
        BY <3>2 DEF IInv, TypeOK
      <4>2. PeerInv(f, peer[f], net, handed[f], confirming[f])
        BY DEF IInv
      <4> QED BY <3>2, <4>1, <4>2, OthersKeep
    <3> QED BY <3>1, <3>2
  <2> QED BY <1>1, <2>1 DEF PeerInv, KeyInv
<1> QED BY <1>2, <1>3, <1>4, <1>5, <1>6 DEF IInv

\* What the invariant says of end e, in the form the steps use.
LEMMA EndFacts ==
  ASSUME IInv, NEW e \in End
  PROVE  /\ peer[e] \in Peer
         /\ PeerInv(e, peer[e], net, handed[e], confirming[e])
         /\ handed[e] \in [Packet -> Nat] /\ confirming[e] \subseteq Packet
         /\ \A q \in confirming[e] : q[1] \in 1 .. MaxSessions
         /\ \A r \in net : IsResponse(r) => r.id # 0 /\ r.session # 0
         /\ initiations \in 0 .. MaxInit /\ initiations \in initiations .. MaxInit
<1>1. \A r \in net : IsResponse(r) => r.id # 0 /\ r.session # 0
  BY DEF IInv, NetInv, Message, IsResponse
<1>2. confirming[e] \subseteq Packet
  BY DEF IInv, TypeOK
<1>3. \A q \in Packet : q[1] \in 1 .. MaxSessions
  BY DEF Packet
<1>4. peer[e] \in Peer /\ handed[e] \in [Packet -> Nat]
  BY DEF IInv, TypeOK
<1>5. initiations \in 0 .. MaxInit /\ initiations \in initiations .. MaxInit
  BY BoundsAssumption DEF IInv, TypeOK
<1>6. PeerInv(e, peer[e], net, handed[e], confirming[e])
  BY DEF IInv
<1> QED BY <1>1, <1>2, <1>3, <1>4, <1>5, <1>6

LEMMA AgesAre == /\ \A a \in Ages : a \in Nat
                 /\ \A k : \A a \in AgesOf(k) : a \in Nat
BY DEF Ages, AgesOf, Keepalive, REJECT_AFTER_TIME

LEMMA SendStep ==
  ASSUME IInv, NEW e \in End, Send(e) PROVE IInv'
<1>0. /\ PeerInv(e, peer[e], net, handed[e], confirming[e]) /\ NetInv(net)
      /\ peer[e] \in Peer
      /\ \A q \in confirming[e] : q[1] \in 1 .. MaxSessions
      /\ \A r \in net : IsResponse(r) => r.id # 0 /\ r.session # 0
      /\ initiations \in 0 .. MaxInit /\ initiations \in initiations .. MaxInit
  BY EndFacts DEF IInv
<1>1. PICK age \in AgesOf(peer[e].curr) :
        /\ MaySend(peer[e])
        /\ peer' = [peer EXCEPT ![e] = Output(peer[e], e, FALSE, age).peer]
        /\ net' = net \cup Output(peer[e], e, FALSE, age).out
        /\ UNCHANGED <<initiations, sessions, restarts, history>>
  BY DEF Send
<1>2. PICK r : r = Output(peer[e], e, FALSE, age)
  OBVIOUS
<1>3. /\ PeerInv(e, r.peer, net \cup r.out, handed[e], confirming[e])
      /\ NetInv(net \cup r.out)
      /\ \A m \in r.out : m \in Message /\ IsData(m) /\ m.from = e
  <2>1. /\ PeerInv(e, peer[e], net, handed[e], confirming[e]) /\ NetInv(net)
        /\ \A q \in confirming[e] : q[1] \in 1 .. MaxSessions
        /\ peer[e][OutSlot(peer[e])].sent < MaxSent
    BY <1>1, EndFacts DEF IInv, MaySend
  <2>2. PICK b, a : b = FALSE /\ a = age
    OBVIOUS
  <2>3. r = Output(peer[e], e, b, a) /\ b \in BOOLEAN
    BY <1>2, <2>2
  <2> QED BY <2>1, <2>3, OutputKeeps
<1>4. \A m \in r.out : ~IsResponse(m) /\ (IsData(m) => m.from = e) /\ IsData(m)
  BY <1>3 DEF IsResponse, IsData
<1> QED BY <1>0, <1>1, <1>2, <1>3, <1>4, Assemble

LEMMA RestartStep ==
  ASSUME IInv, NEW e \in End, Restart(e) PROVE IInv'
<1>0. /\ PeerInv(e, peer[e], net, handed[e], confirming[e]) /\ NetInv(net)
      /\ peer[e] \in Peer
      /\ \A q \in confirming[e] : q[1] \in 1 .. MaxSessions
      /\ \A r \in net : IsResponse(r) => r.id # 0 /\ r.session # 0
      /\ initiations \in 0 .. MaxInit /\ initiations \in initiations .. MaxInit
  BY EndFacts DEF IInv
<1> DEFINE out == {}
<1>1. /\ peer' = [peer EXCEPT ![e] = NewPeer] /\ net' = net \cup out
      /\ UNCHANGED <<initiations, sessions, history>>
  BY DEF Restart
<1>2. /\ NewPeer \in Peer /\ NewPeer.handshake = 0
      /\ NewPeer.curr = keypair_destroyed /\ NewPeer.prev = keypair_destroyed
      /\ NewPeer.next = keypair_destroyed
  BY BoundsAssumption, DestroyedType DEF NewPeer, Peer
<1>3. PeerInv(e, NewPeer, net, handed[e], confirming[e])
  BY <1>0, <1>2, NewPeerSound
<1>4. NetInv(net \cup out) /\ PeerInv(e, NewPeer, net \cup out, handed[e], confirming[e])
  <2>1. net \cup out = net
    OBVIOUS
  <2> HIDE DEF out
  <2> QED BY <1>0, <1>3, <2>1
<1>5. initiations' \in initiations .. MaxInit /\ \A m \in out : FALSE
  BY <1>1, EndFacts
<1> HIDE DEF out
<1> QED BY <1>1, <1>4, <1>5, Assemble

LEMMA ReceiveResponseStep ==
  ASSUME IInv, NEW e \in End, ReceiveResponse(e) PROVE IInv'
<1>0. /\ PeerInv(e, peer[e], net, handed[e], confirming[e]) /\ NetInv(net)
      /\ peer[e] \in Peer
      /\ \A q \in confirming[e] : q[1] \in 1 .. MaxSessions
      /\ \A r \in net : IsResponse(r) => r.id # 0 /\ r.session # 0
      /\ initiations \in 0 .. MaxInit /\ initiations \in initiations .. MaxInit
  BY EndFacts DEF IInv
<1>1. PICK m \in CheckedResponses(e) :
        /\ m.id = peer[e].handshake
        /\ MaySend(NewPeer)
        /\ peer' = [peer EXCEPT ![e] = CompleteHandshake(peer[e], e, m.session).peer]
        /\ net' = net \cup CompleteHandshake(peer[e], e, m.session).out
        /\ UNCHANGED <<initiations, sessions, restarts, history>>
  BY DEF ReceiveResponse
<1> DEFINE p == StartAsInitiator(peer[e], m.session)
           r == Output(p, e, TRUE, 0)
<1>2. m \in net /\ IsResponse(m) /\ m.to = e /\ m.session \in 0 .. MaxSessions
  BY DEF CheckedResponses, Arrived, IsResponse, IInv, NetInv, Message
<1>3. PeerInv(e, p, net, handed[e], confirming[e])
  BY <1>0, <1>1, <1>2, InitiatorKeeps DEF IInv
<1>4. p[OutSlot(p)].sent < MaxSent
  <2>1. 0 < MaxSent
    BY <1>1, DestroyedType DEF MaySend, NewPeer, OutSlot, keypair_destroyed
  <2>2. p.curr = NewKeypair(m.session, TRUE)
    BY DEF StartAsInitiator, Peer
  <2>3. p.curr.initiator = TRUE /\ p.curr.sent = 0
    BY <1>2, <2>2, NewKeypairType
  <2> HIDE DEF p
  <2> QED BY <2>1, <2>3 DEF OutSlot
<1>5. /\ PeerInv(e, r.peer, net \cup r.out, handed[e], confirming[e])
      /\ NetInv(net \cup r.out)
      /\ \A d \in r.out : d \in Message /\ IsData(d) /\ d.from = e
  <2> HIDE DEF p
  <2>1. /\ NetInv(net) /\ TRUE \in BOOLEAN /\ 0 \in Nat
        /\ \A q \in confirming[e] : q[1] \in 1 .. MaxSessions
    BY EndFacts DEF IInv
  <2>2. PICK b, age : b = TRUE /\ age = 0
    OBVIOUS
  <2>3. r = Output(p, e, b, age) /\ b \in BOOLEAN
    BY <2>2
  <2> HIDE DEF r
  <2> QED BY <1>3, <1>4, <2>1, <2>3, OutputKeeps
<1>6. peer' = [peer EXCEPT ![e] = r.peer] /\ net' = net \cup r.out
  BY <1>1 DEF CompleteHandshake
<1> HIDE DEF r
<1>7. \A d \in r.out : ~IsResponse(d) /\ (IsData(d) => d.from = e) /\ IsData(d)
  BY <1>5 DEF IsResponse, IsData
<1> QED BY <1>0, <1>1, <1>5, <1>6, <1>7, Assemble

LEMMA TimerStep ==
  ASSUME IInv, NEW e \in End, Timer(e) PROVE IInv'
<1>0. /\ PeerInv(e, peer[e], net, handed[e], confirming[e]) /\ NetInv(net)
      /\ peer[e] \in Peer
      /\ \A q \in confirming[e] : q[1] \in 1 .. MaxSessions
      /\ \A r \in net : IsResponse(r) => r.id # 0 /\ r.session # 0
      /\ initiations \in 0 .. MaxInit /\ initiations \in initiations .. MaxInit
  BY EndFacts DEF IInv
<1>1. PICK age \in AgesOf(peer[e].curr), keepalive \in BOOLEAN, initiate \in BOOLEAN :
        LET p == Aged(peer[e], age)
            r == IF keepalive THEN Output(p, e, TRUE, age)
                              ELSE [peer |-> p, out |-> {}]
        IN /\ keepalive => (p.curr.session # 0 \/ p.prev.session # 0) /\ MaySend(p)
           /\ initiate => should_send_initiation(r.peer, age) /\ initiations < MaxInit
           /\ initiations' = IF initiate THEN initiations + 1 ELSE initiations
           /\ peer' = [peer EXCEPT ![e] =
                         IF initiate THEN StartHandshake(r.peer, initiations + 1)
                                     ELSE r.peer]
           /\ net' = net \cup r.out
                         \cup (IF initiate THEN InitiateHandshake(e, initiations + 1) ELSE {})
           /\ UNCHANGED <<sessions, restarts, history>>
  BY DEF Timer
<1> DEFINE p == Aged(peer[e], age)
           r == IF keepalive THEN Output(p, e, TRUE, age)
                             ELSE [peer |-> p, out |-> {}]
           begun == IF initiate THEN InitiateHandshake(e, initiations + 1) ELSE {}
           last == IF initiate THEN StartHandshake(r.peer, initiations + 1) ELSE r.peer
<1>2. age \in Nat
  BY AgesAre
<1>3. PeerInv(e, p, net, handed[e], confirming[e])
  BY <1>0, <1>2, AgedKeeps DEF IInv, NetInv
<1>4. /\ PeerInv(e, r.peer, net \cup r.out, handed[e], confirming[e])
      /\ NetInv(net \cup r.out)
      /\ \A m \in r.out : IsData(m) /\ m.from = e
  <2> HIDE DEF p
  <2>1. CASE keepalive
    <3>1. r = Output(p, e, TRUE, age) /\ p[OutSlot(p)].sent < MaxSent
      BY <1>1, <2>1 DEF p, MaySend
    <3> HIDE DEF r
    <3>2. NetInv(net) /\ \A q \in confirming[e] : q[1] \in 1 .. MaxSessions
      BY EndFacts DEF IInv
    <3>3. PICK b, a : b = TRUE /\ a = age
      OBVIOUS
    <3>4. /\ r = Output(p, e, b, a) /\ b \in BOOLEAN
          /\ p[OutSlot(p)].sent < MaxSent
      BY <3>1, <3>3
    <3> QED BY <1>3, <3>2, <3>4, OutputKeeps
  <2>2. CASE ~keepalive
    <3>1. r.peer = p /\ r.out = {} /\ net \cup r.out = net
      BY <2>2
    <3> HIDE DEF r
    <3> QED BY <1>3, <3>1 DEF IInv
  <2> QED BY <2>1, <2>2
<1>5. /\ initiations' \in initiations .. MaxInit /\ initiations' \in Nat
      /\ initiate => initiations + 1 \in 0 .. MaxInit /\ initiations' = initiations + 1
  <2>1. initiations \in Nat /\ initiations <= MaxInit /\ MaxInit \in Nat
    BY EndFacts, BoundsAssumption
  <2>2. CASE initiate
    BY <1>1, <2>1, <2>2
  <2>3. CASE ~initiate
    BY <1>1, <2>1, <2>3
  <2> QED BY <2>2, <2>3
<1>6. peer' = [peer EXCEPT ![e] = last] /\ net' = net \cup (r.out \cup begun)
      /\ UNCHANGED <<sessions, history>>
  BY <1>1
<1>7. \A m \in begun : /\ initiate /\ m = Initiation(e, initiations + 1)
                       /\ m.type = "initiation" /\ m.id = initiations + 1
  BY DEF InitiateHandshake, Initiation
<1>8. \A m \in begun : ~IsData(m) /\ ~IsResponse(m) /\ m \in Message
                       /\ m.id <= initiations'
  <2>1. \A m \in begun : ~IsData(m) /\ ~IsResponse(m)
    BY <1>7 DEF IsData, IsResponse
  <2>2. \A m \in begun : m.id <= initiations'
    BY <1>5, <1>7
  <2>3. initiate => Initiation(e, initiations + 1) \in Message
    BY <1>0, <1>5, OtherEnd DEF Message, Initiation
  <2> QED BY <1>7, <2>1, <2>2, <2>3
<1> HIDE DEF r, begun, p
<1>9. NetInv(net \cup (r.out \cup begun))
  BY <1>4, <1>8 DEF NetInv, Begun, Spoken
<1>10. PeerInv(e, last, net \cup (r.out \cup begun), handed[e], confirming[e])
  <2>1. net \cup (r.out \cup begun) = (net \cup r.out) \cup begun
    OBVIOUS
  <2>2. PeerInv(e, r.peer, (net \cup r.out) \cup begun, handed[e], confirming[e])
    BY <1>4, <1>8, OthersKeep
  <2>3. CASE initiate
    <3>1. \A m \in (net \cup r.out) \cup begun : IsResponse(m) => m.id # initiations + 1
      <4>1. \A m \in r.out : ~IsResponse(m)
        BY <1>4 DEF IsResponse, IsData
      <4>2. \A m \in net : IsResponse(m) => m.id \in Nat /\ m.id <= initiations
        BY DEF IInv, Ids, NetInv, Message, IsResponse, IsData
      <4>3. initiations \in Nat
        BY <1>0, BoundsAssumption
      <4> QED BY <1>8, <4>1, <4>2, <4>3
    <3> QED BY <1>5, <2>1, <2>2, <2>3, <3>1, HandshakeKeeps
  <2>4. CASE ~initiate
    BY <2>1, <2>2, <2>4
  <2> QED BY <2>3, <2>4
<1>11. \A m \in r.out \cup begun :
          /\ ~IsResponse(m) /\ (IsData(m) => m.from = e)
          /\ ~IsData(m) => m.id <= initiations'
  BY <1>4, <1>8 DEF IsResponse, IsData
<1> HIDE DEF last
<1> QED BY <1>5, <1>6, <1>9, <1>10, <1>11, Assemble

\* The end that answers: the number of its session is new to both ends.
LEMMA ReceiveInitiationStep ==
  ASSUME IInv, NEW e \in End, ReceiveInitiation(e) PROVE IInv'
<1>0. /\ PeerInv(e, peer[e], net, handed[e], confirming[e]) /\ NetInv(net)
      /\ peer[e] \in Peer /\ net \subseteq Message
      /\ sessions \in 0 .. MaxSessions
  BY EndFacts DEF IInv, TypeOK, NetInv
<1>1. PICK m \in CheckedInitiations(e) :
        LET r == SendResponse([peer[e] EXCEPT !.greatestTimestamp = m.id],
                              e, m.id, sessions + 1)
        IN /\ m.id > peer[e].greatestTimestamp
           /\ sessions < MaxSessions
           /\ sessions' = sessions + 1
           /\ peer' = [peer EXCEPT ![e] = r.peer]
           /\ net' = net \cup r.out
           /\ UNCHANGED <<initiations, restarts, history>>
  BY DEF ReceiveInitiation
<1> DEFINE s == sessions + 1
           old == peer[e]
           k == NewKeypair(s, FALSE)
           p == StartAsResponder([old EXCEPT !.greatestTimestamp = m.id], s)
           a == Response(e, m.id, s)
<1>2. /\ sessions' = s /\ peer' = [peer EXCEPT ![e] = p] /\ net' = net \cup {a}
      /\ initiations' = initiations /\ handed' = handed
      /\ confirming' = confirming /\ refused' = refused
      /\ s \in 1 .. MaxSessions /\ s \in 0 .. MaxSessions /\ s > sessions
  <2>1. s \in 1 .. MaxSessions /\ s \in 0 .. MaxSessions /\ s > sessions
    <3>1. sessions < MaxSessions
      BY <1>1
    <3> QED BY <1>0, <3>1, BoundsAssumption
  <2> QED BY <1>1, <2>1 DEF SendResponse, history
<1>3. m \in net /\ m.type = "initiation" /\ m.id \in Nat \ {0} /\ m.id <= initiations
      /\ m.id \in 0 .. MaxInit
  <2>1. m \in net /\ m.type = "initiation" /\ m.id \in Nat \ {0}
    BY <1>0 DEF CheckedInitiations, Arrived, Message
  <2>2. m.id <= initiations /\ initiations \in 0 .. MaxInit
    BY <2>1 DEF IInv, Ids, IsData, TypeOK
  <2> QED BY <2>1, <2>2, BoundsAssumption
<1>4. /\ a.type = "response" /\ a.to = Other(e) /\ a.id = m.id /\ a.session = s
      /\ a \in Message
  BY <1>2, <1>3, OtherEnd DEF Response, Message
<1>5. /\ k \in Keypair /\ k.session = s /\ k.initiator = FALSE /\ k.sent = 0
      /\ k.heard = FALSE /\ k.greatest = 0 /\ k.bitmap = {}
  <2> HIDE DEF s
  <2> QED BY <1>2, NewKeypairType
<1>6. /\ p \in Peer /\ p.curr = old.curr /\ p.prev = keypair_destroyed
      /\ p.next = k /\ p.handshake = 0
  <2>1. [old EXCEPT !.greatestTimestamp = m.id] \in Peer
        /\ [old EXCEPT !.greatestTimestamp = m.id].curr = old.curr
    BY <1>0, <1>3 DEF Peer
  <2>2. 0 \in 0 .. MaxInit
    BY BoundsAssumption
  <2> DEFINE b == [old EXCEPT !.greatestTimestamp = m.id]
  <2>3. p = [b EXCEPT !.next = k, !.prev = keypair_destroyed, !.handshake = 0]
    BY DEF StartAsResponder
  <2> HIDE DEF b, k, p, s
  <2> QED BY <1>5, <2>1, <2>2, <2>3, DestroyedType DEF Peer, b
<1> HIDE DEF a, p, k, s
<1>7. \A f \in End :
        /\ \A n \in 0 .. MaxSent : handed[f][<<s, n>>] = 0
        /\ \A q \in confirming[f] : q[1] # s
  <2> SUFFICES ASSUME NEW f \in End
               PROVE  /\ \A n \in 0 .. MaxSent : handed[f][<<s, n>>] = 0
                      /\ \A q \in confirming[f] : q[1] # s
    OBVIOUS
  <2>1. handed[f] \in [Packet -> Nat]
    BY EndFacts
  <2>2. \A n \in 0 .. MaxSent : <<s, n>> \in Packet
    BY <1>2 DEF Packet
  <2>3. \A n \in 0 .. MaxSent : handed[f][<<s, n>>] > 0 => s <= sessions
    BY <2>2 DEF IInv, HistoryInv
  <2>4. \A n \in 0 .. MaxSent : ~(handed[f][<<s, n>>] > 0)
    BY <1>0, <1>2, <2>3
  <2>5. \A n \in 0 .. MaxSent : handed[f][<<s, n>>] \in Nat
    BY <2>1, <2>2
  <2>6. \A q \in confirming[f] : q[1] # s
    BY <1>0, <1>2 DEF IInv, HistoryInv
  <2> QED BY <2>4, <2>5, <2>6
<1>8. \A m2 \in net : (IsData(m2) \/ IsResponse(m2)) => m2.session # s /\ m2.session <= s
  BY <1>0, <1>2 DEF NetInv, Message, IsData, IsResponse
<1>9. IsResponse(a) /\ ~IsData(a)
  BY <1>4 DEF IsResponse, IsData
<1>10. TypeOK'
  <2>1. peer' \in [End -> Peer]
    BY <1>2, <1>6 DEF IInv, TypeOK
  <2> QED BY <1>2, <2>1 DEF IInv, TypeOK
<1>11. NetInv(net)'
  <2>1. net' \subseteq Message
    BY <1>0, <1>2, <1>4
  <2>2. \A m2 \in net' : (IsData(m2) \/ IsResponse(m2)) => m2.session <= s
    BY <1>2, <1>4, <1>8
  <2>3. \A r, q \in net' : IsResponse(r) /\ IsResponse(q) /\ r.session = q.session
                             => r.to = q.to
    BY <1>0, <1>2, <1>4, <1>8 DEF NetInv
  <2>4. \A m2 \in net' : IsData(m2) =>
          /\ m2.to = Other(m2.from)
          /\ Begun(m2.from, m2.initiator, m2.session, net')
          /\ ~m2.initiator => Spoken(m2.session, net')
    BY <1>0, <1>2, <1>9 DEF NetInv, Begun, Spoken
  <2> QED BY <1>2, <2>1, <2>2, <2>3, <2>4 DEF NetInv
<1>12. Ids'
  BY <1>2, <1>3, <1>4 DEF IInv, Ids
<1>13. HistoryInv' /\ DeliveredOnce' /\ RefusedForCause'
  <2>1. HistoryInv'
    <3>1. \A f \in End : \A q \in Packet : handed[f][q] > 0 => q[1] <= s
      BY <1>0, <1>2 DEF IInv, HistoryInv, Packet
    <3>2. \A f \in End : \A q \in confirming[f] : q[1] <= s
      <4>1. \A f \in End : \A q \in confirming[f] : q[1] \in 1 .. MaxSessions
        BY EndFacts
      <4> QED BY <1>0, <1>2, <4>1 DEF IInv, HistoryInv
    <3> QED BY <1>2, <3>1, <3>2 DEF HistoryInv
  <2> QED BY <1>2, <2>1 DEF IInv, DeliveredOnce, RefusedForCause
<1>14. \A f \in End : \A j \in Keypair :
         KeyInv(f, j, net, handed[f]) =>
           /\ j.session # s
           /\ j.session # 0 => /\ j.session <= s
                               /\ Ahead(f, j, net \cup {a})
                               /\ Begun(f, j.initiator, j.session, net \cup {a})
                               /\ ~j.initiator /\ j.heard => Spoken(j.session, net \cup {a})
                               /\ Remembers(j, handed[f])
  BY <1>0, <1>2, <1>9 DEF KeyInv, Ahead, Begun, Spoken, Keypair
<1>15. ASSUME NEW f \in End
       PROVE  PeerInv(f, peer[f], net, handed[f], confirming[f])'
  <2>1. CASE f = e
    <3>1. peer'[e] = p /\ old.curr \in Keypair /\ old.curr.session # s
      BY <1>0, <1>2, <1>14, SlotTypes DEF IInv, TypeOK, PeerInv
    <3>2. KeyInv(e, peer[e].curr, net, handed[e])'
      BY <1>0, <1>2, <1>6, <1>14, <3>1 DEF KeyInv, PeerInv
    <3>3. KeyInv(e, peer[e].prev, net, handed[e])'
      BY <1>6, <3>1, DestroyedType DEF KeyInv
    <3>4. KeyInv(e, peer[e].next, net, handed[e])'
      <4>1. Ahead(e, k, net')
        BY <1>2, <1>5, <1>8, <1>9 DEF Ahead
      <4>2. Begun(e, FALSE, s, net')
        BY <1>2, <1>4, <1>9 DEF Begun, Beginner
      <4>3. Remembers(k, handed[e])
        BY <1>5, <1>7, BoundsAssumption DEF Remembers
      <4>4. s <= s
        BY <1>0 DEF s
      <4> QED BY <1>2, <1>5, <1>6, <3>1, <4>1, <4>2, <4>3, <4>4 DEF KeyInv
    <3>5. Distinct(p)
      BY <1>5, <1>6, <3>1, DestroyedType DEF Distinct
    <3>6. \A r \in net' : IsResponse(r) => r.id # 0
      BY <1>0, <1>2, <1>3, <1>4 DEF Message, IsResponse
    <3>7. \A q \in confirming'[e] : q[1] # p.next.session
      BY <1>2, <1>5, <1>6, <1>7
    <3> QED BY <1>6, <2>1, <3>1, <3>2, <3>3, <3>4, <3>5, <3>6, <3>7 DEF PeerInv
  <2>2. CASE f # e
    <3>1. peer'[f] = peer[f] /\ peer[f] \in Peer
      BY <1>2, <2>2 DEF IInv, TypeOK
    <3>2. /\ PeerInv(f, peer[f], net, handed[f], confirming[f])
          /\ peer[f].curr \in Keypair /\ peer[f].prev \in Keypair /\ peer[f].next \in Keypair
      BY <3>1, SlotTypes DEF IInv
    <3>3. /\ KeyInv(f, peer[f].curr, net, handed[f])'
          /\ KeyInv(f, peer[f].prev, net, handed[f])'
          /\ KeyInv(f, peer[f].next, net, handed[f])'
      BY <1>2, <1>14, <3>1, <3>2 DEF PeerInv, KeyInv
    <3>4. /\ peer[f].curr.session # s /\ peer[f].prev.session # s
          /\ peer[f].next.session # s
      BY <1>14, <3>2 DEF PeerInv
    <3>5. ASSUME NEW r \in net', IsResponse(r), r.to = f, r.id = peer[f].handshake
          PROVE  Unused(f, peer[f], net', r.session, handed[f], confirming[f])
      <4>1. CASE r = a
        BY <1>2, <1>4, <1>7, <1>8, <1>9, <3>4, <4>1 DEF Unused
      <4>2. CASE r \in net
        <5>1. Unused(f, peer[f], net, r.session, handed[f], confirming[f])
          BY <3>2, <3>5, <4>2 DEF PeerInv
        <5> QED BY <1>2, <1>9, <5>1 DEF Unused
      <4> QED BY <1>2, <4>1, <4>2
    <3> QED BY <1>2, <3>1, <3>2, <3>3, <3>5 DEF PeerInv
  <2> QED BY <2>1, <2>2
<1> QED BY <1>10, <1>11, <1>12, <1>13, <1>15 DEF IInv

\* The history of one end: what its windows passed, what went past them and
\* what they refused.
Account(H, C, R) ==
  /\ H \in [Packet -> Nat] /\ C \subseteq Packet /\ R \subseteq Packet
  /\ \A q \in Packet : H[q] <= 1 /\ (H[q] > 0 => q[1] <= sessions)
  /\ \A q \in C : q[1] <= sessions
  /\ \A q, r \in C : q[1] = r[1] => q = r
  /\ \A q \in R :
        \/ q[2] = 0
        \/ H[q] > 0
        \/ \E r \in Packet : r[1] = q[1] /\ r[2] >= q[2] + Window /\ H[r] > 0

\* What a packet that arrives at end e has to keep.
LEMMA AssembleReceived ==
  ASSUME IInv, NEW e \in End, NEW p, NEW H, NEW C, NEW R,
         peer' = [peer EXCEPT ![e] = p],
         UNCHANGED <<net, initiations, sessions>>,
         handed' = [handed EXCEPT ![e] = H],
         confirming' = [confirming EXCEPT ![e] = C],
         refused' = [refused EXCEPT ![e] = R],
         PeerInv(e, p, net, H, C),
         Account(H, C, R)
  PROVE  IInv'
<1>1. /\ \A f \in End : /\ peer'[f] = IF f = e THEN p ELSE peer[f]
                        /\ handed'[f] = IF f = e THEN H ELSE handed[f]
                        /\ confirming'[f] = IF f = e THEN C ELSE confirming[f]
                        /\ refused'[f] = IF f = e THEN R ELSE refused[f]
      /\ net' = net /\ sessions' = sessions /\ initiations' = initiations
  BY DEF IInv, TypeOK
<1>2. TypeOK'
  <2>1. p \in Peer
    BY DEF PeerInv
  <2> QED BY <2>1 DEF IInv, TypeOK, Account
<1>3. NetInv(net)' /\ Ids'
  BY <1>1 DEF IInv, NetInv, Ids
<1>4. HistoryInv'
  BY <1>1 DEF IInv, HistoryInv, Account
<1>5. DeliveredOnce'
  BY <1>1 DEF IInv, DeliveredOnce, Account
<1>6. RefusedForCause'
  BY <1>1 DEF IInv, RefusedForCause, Account
<1>7. ASSUME NEW f \in End
      PROVE  PeerInv(f, peer[f], net, handed[f], confirming[f])'
  <2>1. PeerInv(f, peer'[f], net', handed'[f], confirming'[f])
    BY <1>1 DEF IInv
  <2> QED BY <1>1, <2>1 DEF PeerInv, KeyInv
<1> QED BY <1>2, <1>3, <1>4, <1>5, <1>6, <1>7 DEF IInv

LEMMA ReceiveDataStep ==
  ASSUME IInv, NEW e \in End, ReceiveData(e) PROVE IInv'
<1> DEFINE H == handed[e]
           C == confirming[e]
           R == refused[e]
<1>0. /\ PeerInv(e, peer[e], net, H, C) /\ NetInv(net) /\ net \subseteq Message
      /\ peer[e] \in Peer /\ H \in [Packet -> Nat] /\ C \subseteq Packet
      /\ R \subseteq Packet /\ sessions \in 0 .. MaxSessions
      /\ \A r \in net : IsResponse(r) => r.id # 0 /\ r.session # 0
      /\ \A q \in C : q[1] \in 1 .. MaxSessions
      /\ \A q \in Packet : H[q] <= 1 /\ (H[q] > 0 => q[1] <= sessions)
      /\ \A q \in C : q[1] <= sessions
      /\ \A q, r \in C : q[1] = r[1] => q = r
      /\ \A q \in R :
            \/ q[2] = 0
            \/ H[q] > 0
            \/ \E r \in Packet : r[1] = q[1] /\ r[2] >= q[2] + Window /\ H[r] > 0
  BY EndFacts DEF IInv, TypeOK, NetInv, HistoryInv, DeliveredOnce, RefusedForCause
<1>a. Account(H, C, R)
  <2> HIDE DEF H, C, R
  <2> QED BY <1>0 DEF Account
<1>1. PICK m \in Arrived(e, "data"), age \in Ages :
    LET x == get_peer_keypair_for_idx(peer[e], m.session)
        k == peer[e][x]
        p == keypair_update([peer[e] EXCEPT ![x].heard = TRUE], x)
        flagged == [p EXCEPT !.sendHandshake =
                      @ \/ (x # "next" /\ k.initiator /\
                            age >= REJECT_AFTER_TIME - Keepalive - REKEY_TIMEOUT)]
        q == <<m.session, m.n>>
    IN /\ k.session = m.session
       /\ IF age >= REJECT_AFTER_TIME
          THEN /\ peer' = [peer EXCEPT ![e][x] = keypair_destroyed]
               /\ UNCHANGED history
          ELSE /\ peer' = [peer EXCEPT ![e] =
                     IF m.empty \/ x = "next" THEN flagged
                     ELSE [flagged EXCEPT ![x] = wireguard_check_replay(@, m.n)]]
               /\ confirming' = IF x = "next"
                                THEN [confirming EXCEPT ![e] = @ \cup {q}]
                                ELSE confirming
               /\ handed' = IF ~m.empty /\ x # "next" /\ Fresh(k, m.n)
                            THEN [handed EXCEPT ![e][q] = @ + 1]
                            ELSE handed
               /\ refused' = IF ~m.empty /\ x # "next" /\ ~Fresh(k, m.n)
                             THEN [refused EXCEPT ![e] = @ \cup {q}]
                             ELSE refused
       /\ UNCHANGED <<net, initiations, sessions, restarts>>
  BY DEF ReceiveData
<1> DEFINE x == get_peer_keypair_for_idx(peer[e], m.session)
           k == peer[e][x]
           heard == [peer[e] EXCEPT ![x].heard = TRUE]
           p == keypair_update(heard, x)
           f == p.sendHandshake \/
                  (x # "next" /\ k.initiator /\
                   age >= REJECT_AFTER_TIME - Keepalive - REKEY_TIMEOUT)
           flagged == [p EXCEPT !.sendHandshake = f]
           q == <<m.session, m.n>>
<1>2. /\ m \in net /\ IsData(m) /\ m.to = e /\ m.session \in 1 .. MaxSessions
      /\ m.n \in 0 .. MaxSent /\ q \in Packet /\ m.session <= sessions
      /\ m.empty \in BOOLEAN
  <2>1. m \in net /\ IsData(m) /\ m.to = e
    BY DEF Arrived, IsData
  <2>2. m.session \in 1 .. MaxSessions /\ m.n \in 0 .. MaxSent /\ m.empty \in BOOLEAN
    BY <1>0, <2>1 DEF Message, IsData
  <2> QED BY <1>0, <2>1, <2>2 DEF Packet, NetInv
<1>3. /\ x \in Slot /\ k \in Keypair /\ k.session = m.session /\ k.session # 0
      /\ KeyInv(e, k, net, H)
  <2>1. x \in Slot
    BY DEF get_peer_keypair_for_idx, Slot
  <2>2. k.session = m.session
    BY <1>1
  <2>3. KeyInv(e, peer[e][x], net, H) /\ peer[e][x] \in Keypair
    <3> HIDE DEF x, H, C
    <3> QED BY <1>0, <2>1, SlotTypes DEF PeerInv, Slot
  <2> QED BY <1>2, <2>1, <2>2, <2>3
<1>4. UNCHANGED <<net, initiations, sessions>>
  BY <1>1
<1>5. CASE age >= REJECT_AFTER_TIME
  <2> DEFINE d == [peer[e] EXCEPT ![x] = keypair_destroyed]
  <2>1. peer' = [peer EXCEPT ![e] = d] /\ UNCHANGED <<handed, confirming, refused>>
    BY <1>1, <1>5 DEF history
  <2>2. PeerInv(e, d, net, H, C)
    <3> HIDE DEF x, H, C
    <3> QED BY <1>0, <1>3, DestroyKeeps
  <2>3. /\ handed' = [handed EXCEPT ![e] = H]
        /\ confirming' = [confirming EXCEPT ![e] = C]
        /\ refused' = [refused EXCEPT ![e] = R]
    BY <2>1 DEF IInv, TypeOK
  <2> HIDE DEF d, H, C, R
  <2> QED BY <1>a, <1>4, <2>1, <2>2, <2>3, AssembleReceived
<1> DEFINE last == IF m.empty \/ x = "next" THEN flagged
                   ELSE [flagged EXCEPT ![x] = wireguard_check_replay(@, m.n)]
<1>6. CASE ~(age >= REJECT_AFTER_TIME)
  <2>1. /\ peer' = [peer EXCEPT ![e] = last]
        /\ confirming' = IF x = "next" THEN [confirming EXCEPT ![e] = @ \cup {q}]
                                       ELSE confirming
        /\ handed' = IF ~m.empty /\ x # "next" /\ Fresh(k, m.n)
                     THEN [handed EXCEPT ![e][q] = @ + 1] ELSE handed
        /\ refused' = IF ~m.empty /\ x # "next" /\ ~Fresh(k, m.n)
                      THEN [refused EXCEPT ![e] = @ \cup {q}] ELSE refused
    BY <1>1, <1>6
  <2>2. ~k.initiator => Spoken(k.session, net)
    <3> HIDE DEF k
    <3> QED BY <1>0, <1>2, <1>3, HeardFromBeginner
  <2>3. PeerInv(e, heard, net, H, C)
    <3> HIDE DEF x, H, C
    <3> QED BY <1>0, <1>3, <2>2, HeardKeeps
  <2>4. /\ heard \in Peer /\ heard.next.session = peer[e].next.session
        /\ heard[x] \in Keypair /\ heard[x].session = k.session
        /\ heard[x].greatest = k.greatest /\ heard[x].bitmap = k.bitmap
    <3>1. heard \in Peer
      BY <2>3 DEF PeerInv
    <3>2. heard[x] = [k EXCEPT !.heard = TRUE]
      <4> HIDE DEF x
      <4>1. CASE x = "curr" BY <1>0, <4>1 DEF Peer
      <4>2. CASE x = "prev" BY <1>0, <4>2 DEF Peer
      <4>3. CASE x = "next" BY <1>0, <4>3 DEF Peer
      <4> QED BY <1>3, <4>1, <4>2, <4>3 DEF Slot
    <3>3. heard.next.session = peer[e].next.session
      <4> HIDE DEF x
      <4>1. CASE x = "next"
        BY <1>3, <3>2, <4>1 DEF Keypair
      <4>2. CASE x # "next"
        BY <1>0, <4>2 DEF Peer
      <4> QED BY <4>1, <4>2
    <3> HIDE DEF heard, x, k
    <3> QED BY <1>3, <3>1, <3>2, <3>3 DEF Keypair
  <2>5. CASE x = "next"
    <3> DEFINE D == C \cup {q}
    <3>1. /\ peer' = [peer EXCEPT ![e] = flagged]
          /\ handed' = [handed EXCEPT ![e] = H]
          /\ confirming' = [confirming EXCEPT ![e] = D]
          /\ refused' = [refused EXCEPT ![e] = R]
      BY <2>1, <2>5 DEF IInv, TypeOK
    <3>2. k = peer[e].next /\ heard.next.session = m.session
      BY <1>3, <2>4, <2>5
    <3>3. PeerInv(e, p, net, H, D)
      <4> HIDE DEF heard, x, k, H, C
      <4>1. p = keypair_update(heard, "next") /\ q = <<heard.next.session, m.n>>
            /\ heard.next.session # 0
        BY <1>2, <2>5, <3>2
      <4> HIDE DEF p, q
      <4> QED BY <1>0, <2>3, <4>1, UpdateKeeps
    <3>4. PeerInv(e, flagged, net, H, D)
      <4>1. p \in Peer
        BY <3>3 DEF PeerInv
      <4>2. f \in BOOLEAN
        BY <1>3, <4>1 DEF Peer, Keypair
      <4> HIDE DEF p, f, H, D
      <4> QED BY <3>3, <4>2, FlagKeeps
    <3>5. \A r \in C : r[1] # m.session
      BY <1>0, <1>3, <3>2 DEF PeerInv
    <3>6. /\ D \subseteq Packet /\ \A r \in D : r[1] <= sessions
          /\ \A r, t \in D : r[1] = t[1] => r = t
      BY <1>0, <1>2, <3>5
    <3>7. Account(H, D, R)
      <4> HIDE DEF D, H, R, C
      <4> QED BY <1>0, <3>6 DEF Account
    <3> HIDE DEF flagged, D, H, R, C
    <3> QED BY <1>4, <3>1, <3>4, <3>7, AssembleReceived
  <2>6. CASE x # "next"
    <3>1. p = heard /\ x \in {"curr", "prev"}
      BY <1>3, <2>6 DEF keypair_update, Slot
    <3>2. /\ PeerInv(e, flagged, net, H, C)
          /\ flagged[x] = heard[x]
      <4>1. f \in BOOLEAN
        BY <1>3, <2>4, <3>1 DEF Peer, Keypair
      <4> HIDE DEF heard, p, f, x, H, C
      <4>2. PeerInv(e, flagged, net, H, C)
        BY <2>3, <3>1, <4>1, FlagKeeps
      <4>3. flagged[x] = heard[x]
        <5>1. CASE x = "curr" BY <2>4, <3>1, <5>1 DEF Peer
        <5>2. CASE x = "prev" BY <2>4, <3>1, <5>2 DEF Peer
        <5> QED BY <3>1, <5>1, <5>2
      <4> QED BY <4>2, <4>3
    <3>3. CASE m.empty
      <4>1. /\ peer' = [peer EXCEPT ![e] = flagged]
            /\ handed' = [handed EXCEPT ![e] = H]
            /\ confirming' = [confirming EXCEPT ![e] = C]
            /\ refused' = [refused EXCEPT ![e] = R]
        BY <2>1, <2>6, <3>3 DEF IInv, TypeOK
      <4> HIDE DEF flagged, H, R, C
      <4> QED BY <1>a, <1>4, <3>2, <4>1, AssembleReceived
    <3>4. CASE ~m.empty
      <4> DEFINE j == flagged[x]
                 G == Judged(k, H, m.n)
                 w == [flagged EXCEPT ![x] = wireguard_check_replay(@, m.n)]
                 S == IF Fresh(k, m.n) THEN R ELSE R \cup {q}
      <4>1. Judged(j, H, m.n) = G
        <5>1. j.session = k.session /\ j.greatest = k.greatest /\ j.bitmap = k.bitmap
          BY <2>4, <3>2
        <5> HIDE DEF j, k, H
        <5>2. Fresh(j, m.n) = Fresh(k, m.n)
          BY <5>1 DEF Fresh
        <5> QED BY <5>1, <5>2 DEF Judged, G
      <4>2. /\ peer' = [peer EXCEPT ![e] = w]
            /\ handed' = [handed EXCEPT ![e] = G]
            /\ confirming' = [confirming EXCEPT ![e] = C]
            /\ refused' = [refused EXCEPT ![e] = S]
        BY <1>3, <2>1, <2>6, <3>4 DEF IInv, TypeOK, Judged
      <4>3. PeerInv(e, w, net, G, C)
        <5>1. j.session # 0
          BY <1>3, <2>4, <3>2
        <5> HIDE DEF flagged, x, H, C, G
        <5>2. PeerInv(e, w, net, Judged(j, H, m.n), C)
          BY <1>0, <1>2, <3>1, <3>2, <5>1, ReplayKeeps
        <5> HIDE DEF w, j
        <5> QED BY <4>1, <5>2
      <4>4. /\ G \in [Packet -> Nat]
            /\ \A r \in Packet : G[r] = IF Fresh(k, m.n) /\ r = q THEN H[r] + 1 ELSE H[r]
        BY <1>0, <1>2, <1>3 DEF Judged
      <4>5. Remembers(k, H)
        BY <1>3 DEF KeyInv
      <4>6. Fresh(k, m.n) => H[q] = 0
        <5>1. H[q] \in Nat
          BY <1>0, <1>2
        <5>2. H[q] > 0 => ~Fresh(k, m.n)
          BY <1>2, <1>3, <4>5 DEF Remembers, Fresh, Keypair
        <5> QED BY <5>1, <5>2
      <4>7. \A r \in Packet : G[r] <= 1 /\ (G[r] > 0 => r[1] <= sessions) /\ G[r] >= H[r]
        <5> HIDE DEF G, H, q
        <5>1. \A r \in Packet : H[r] \in Nat
          BY <1>0
        <5>2. q[1] <= sessions
          BY <1>2 DEF q
        <5> QED BY <1>0, <4>4, <4>6, <5>1, <5>2
      <4>8. ~Fresh(k, m.n) =>
              \/ q[2] = 0
              \/ H[q] > 0
              \/ \E r \in Packet : r[1] = q[1] /\ r[2] >= q[2] + Window /\ H[r] > 0
        <5> SUFFICES ASSUME ~Fresh(k, m.n), m.n # 0, ~(H[q] > 0)
                     PROVE  \E r \in Packet : r[1] = q[1] /\ r[2] >= q[2] + Window /\ H[r] > 0
          OBVIOUS
        <5>1. /\ m.n <= k.greatest /\ k.greatest \in 0 .. MaxSent
              /\ (k.greatest - m.n >= Window \/ (k.greatest - m.n) \in k.bitmap)
          BY <1>2, <1>3, <4>5, WindowAssumption DEF Fresh, Keypair, Remembers
        <5>2. (k.greatest - m.n) \notin k.bitmap
          <6> SUFFICES ASSUME (k.greatest - m.n) \in k.bitmap PROVE FALSE
            OBVIOUS
          <6>1. H[<<k.session, k.greatest - (k.greatest - m.n)>>] > 0
            BY <4>5 DEF Remembers
          <6>2. k.greatest - (k.greatest - m.n) = m.n
            BY <1>2, <5>1
          <6> QED BY <1>3, <6>1, <6>2
        <5>3. k.greatest >= m.n + Window /\ k.greatest > 0
          BY <1>2, <5>1, <5>2, WindowAssumption
        <5>4. <<m.session, k.greatest>> \in Packet
          BY <1>2, <5>1 DEF Packet
        <5>5. H[<<m.session, k.greatest>>] > 0
          BY <1>3, <4>5, <5>3 DEF Remembers
        <5> WITNESS <<m.session, k.greatest>> \in Packet
        <5> QED BY <5>3, <5>5
      <4>9. /\ S \subseteq Packet
            /\ \A r \in S :
                 \/ r[2] = 0
                 \/ G[r] > 0
                 \/ \E t \in Packet : t[1] = r[1] /\ t[2] >= r[2] + Window /\ G[t] > 0
        <5>1. S \subseteq Packet
          BY <1>0, <1>2
        <5>2. \A r \in S :
                 \/ r[2] = 0
                 \/ H[r] > 0
                 \/ \E t \in Packet : t[1] = r[1] /\ t[2] >= r[2] + Window /\ H[t] > 0
          <6> HIDE DEF H, q, R, k
          <6> QED BY <1>0, <4>8
        <5>3. \A r \in Packet : H[r] > 0 => G[r] > 0
          <6> HIDE DEF H, G
          <6>1. \A r \in Packet : H[r] \in Nat /\ G[r] \in Nat
            BY <1>0, <4>4
          <6> QED BY <4>7, <6>1
        <5> HIDE DEF S, G, H
        <5> QED BY <5>1, <5>2, <5>3
      <4>10. Account(G, C, S)
        <5> HIDE DEF G, S, C, H, R
        <5> QED BY <1>0, <4>4, <4>7, <4>9 DEF Account
      <4> HIDE DEF w, G, S, C, H, R
      <4> QED BY <1>4, <4>2, <4>3, <4>10, AssembleReceived
    <3> QED BY <1>2, <3>3, <3>4
  <2> QED BY <2>5, <2>6
<1> QED BY <1>5, <1>6

-----------------------------------------------------------------------------
(* The theorems *)

LEMMA Initially == ASSUME Init PROVE IInv
<1>1. NewPeer \in Peer /\ NewPeer.handshake = 0 /\ NewPeer.curr = keypair_destroyed
      /\ NewPeer.prev = keypair_destroyed /\ NewPeer.next = keypair_destroyed
  BY BoundsAssumption, DestroyedType DEF NewPeer, Peer
<1>2. TypeOK
  BY <1>1, BoundsAssumption DEF Init, TypeOK
<1>3. NetInv(net) /\ Ids /\ HistoryInv
  BY DEF Init, NetInv, Ids, HistoryInv
<1>4. ASSUME NEW e \in End PROVE PeerInv(e, peer[e], net, handed[e], confirming[e])
  <2>1. /\ peer[e] = NewPeer /\ confirming[e] = {} /\ net = {}
    BY DEF Init
  <2> QED BY <1>1, <2>1, NewPeerSound
<1>5. DeliveredOnce /\ RefusedForCause
  BY DEF Init, DeliveredOnce, RefusedForCause
<1> QED BY <1>2, <1>3, <1>4, <1>5 DEF IInv

LEMMA Inductive == Spec => []IInv
<1>1. Init => IInv
  BY Initially
<1>2. IInv /\ [Next]_vars => IInv'
  <2> SUFFICES ASSUME IInv, [Next]_vars PROVE IInv'
    OBVIOUS
  <2>1. CASE Next
    BY <2>1, SendStep, TimerStep, ReceiveInitiationStep, ReceiveResponseStep,
       ReceiveDataStep, RestartStep DEF Next
  <2>2. CASE UNCHANGED vars
    BY <2>2 DEF vars, IInv, TypeOK, NetInv, Ids, HistoryInv, PeerInv, KeyInv,
                DeliveredOnce, RefusedForCause
  <2> QED BY <2>1, <2>2
<1> QED BY <1>1, <1>2, PTL DEF Spec

\* Whatever the network repeats, loses or reorders and however the keypairs
\* rotate, a window passes a packet once, and one packet of a session at most
\* goes past the windows (wireguard_check_replay, keypair_update).
THEOREM AtMostOnce == Spec => []DeliveredOnce
<1>1. IInv => DeliveredOnce
  BY DEF IInv
<1> QED BY <1>1, Inductive, PTL

\* The replay window refuses nothing but repetitions, packets that lie a
\* window behind, and the packet with the number 0.
THEOREM RefusalsAreDue == Spec => []RefusedForCause
<1>1. IInv => RefusedForCause
  BY DEF IInv
<1> QED BY <1>1, Inductive, PTL

\* The counter of a keypair is past every packet that was ever sent with it,
\* whichever slot it was copied to: no nonce is used twice.
THEOREM NoncesAreNew == Spec => []NonceNeverReused
<1>1. IInv => NonceNeverReused
  <2> SUFFICES ASSUME IInv, NEW e \in End, NEW x \in Slot, NEW m \in net,
                      m.type = "data", m.from = e, m.session = peer[e][x].session
               PROVE  m.n < peer[e][x].sent
    BY DEF NonceNeverReused
  <2>1. m.session # 0
    BY DEF IInv, NetInv, Message
  <2>2. KeyInv(e, peer[e][x], net, handed[e])
    BY DEF IInv, PeerInv, Slot
  <2> QED BY <2>1, <2>2 DEF KeyInv, Ahead, IsData
<1> QED BY <1>1, Inductive, PTL

\* The end that answered a handshake never speaks before the one that began it.
THEOREM AnswererWaits == Spec => []ResponderWaits
<1>1. IInv => ResponderWaits
  BY DEF IInv, NetInv, ResponderWaits, Spoken, IsData
<1> QED BY <1>1, Inductive, PTL

-----------------------------------------------------------------------------
(* Disco: the peer table and the device *)

Points == {"idle", "peers", "downgrade", "enter", "probe", "absent", "reset", "remove",
           "forget"}

Work ==
  [pc : Points, full : BOOLEAN, todo : SUBSET Node, keep : SUBSET Slots,
   n : Node \cup {NoNode}, s : 0 .. MaxPeers, i : 0 .. MaxPeers, cands : SUBSET Addr]

Types ==
  /\ tailnet \subseteq Node
  /\ table \in [Slots -> [n : Node \cup {NoNode}, i : 0 .. MaxPeers]]
  /\ wg \in [Slots -> Node \cup {NoNode}]
  /\ ctrl \in Work

Used(s) == table[s] # NoSlot
Adding(i) == ctrl.pc = "enter" /\ i = ctrl.i
Removing(s) == ctrl.pc = "forget" /\ s = ctrl.s

\* The two tables hold the same peers, but for the one on its way in or out.
Agree ==
  /\ \A s \in Slots : Used(s) => table[s].n \in Node /\ table[s].i \in Slots
  /\ \A s \in Slots : Used(s) /\ ~Removing(s) => wg[table[s].i] = table[s].n
  /\ \A i \in Slots : wg[i] # NoNode /\ ~Adding(i) => \E s \in Slots : table[s].i = i
  /\ \A s, t \in Slots : s # t /\ Used(s) => table[s].n # table[t].n

\* What the control task has in hand.
InHand ==
  /\ ctrl.pc = "enter" =>
       /\ ctrl.n \in Node /\ ctrl.s \in Slots /\ ctrl.i \in Slots
       /\ ~Used(ctrl.s) /\ wg[ctrl.i] = ctrl.n
       /\ \A s \in Slots : table[s].n # ctrl.n
  /\ ctrl.pc \in {"reset", "remove", "forget"} =>
       ctrl.s \in Slots /\ Used(ctrl.s) /\ ctrl.i = table[ctrl.s].i
  /\ ctrl.pc = "forget" => wg[ctrl.i] = NoNode

DiscoInv == Types /\ Agree /\ InHand

LEMMA FirstIn ==
  ASSUME NEW S, S \subseteq Slots, S # {}
  PROVE  First(S) \in S
<1> DEFINE Upto(i) == {j \in S : j <= i}
           T == {Upto(i) : i \in S}
           R == StrictSubsetOrdering(S)
<1>1. IsFiniteSet(S)
  <2>1. IsFiniteSet(1 .. MaxPeers)
    BY PeersAssumption, FS_Interval
  <2> QED
    BY <2>1, FS_Subset DEF Slots
<1>2. T \subseteq FiniteSubsetsOf(S) /\ T # {}
  <2>1. ASSUME NEW i \in S
        PROVE  Upto(i) \in SUBSET S /\ IsFiniteSet(Upto(i))
    BY <1>1, FS_Subset
  <2> QED
    BY <2>1 DEF FiniteSubsetsOf
<1>3. \E u \in T : \A v \in T : ~(<<v, u>> \in R)
  <2>1. IsWellFoundedOn(R, FiniteSubsetsOf(S))
    BY FS_StrictSubsetOrderingWellFounded
  <2> HIDE DEF T, R
  <2> QED
    BY <1>2, <2>1, WFMin
<1>4. PICK i \in S : \A j \in S : ~(<<Upto(j), Upto(i)>> \in R)
  BY <1>3
<1>5. \A j \in S : i \in Nat /\ j \in Nat
  BY PeersAssumption DEF Slots
<1>6. ASSUME NEW j \in S, j < i
      PROVE  FALSE
  <2>1. Upto(j) \subseteq Upto(i) /\ i \in Upto(i) /\ i \notin Upto(j)
    BY <1>5, <1>6
  <2>2. <<Upto(j), Upto(i)>> \in R
    BY <2>1 DEF StrictSubsetOrdering
  <2> QED
    BY <2>2, <1>4
<1>7. \A j \in S : i <= j
  BY <1>5, <1>6
<1> QED
  BY <1>7 DEF First

LEMMA IdleIsWork == Idle \in Work /\ Idle.pc = "idle"
<1>1. 0 \in 0 .. MaxPeers
  BY PeersAssumption
<1> QED
  BY <1>1 DEF Idle, Work, Points

LEMMA DiscoBegins == DiscoInit => DiscoInv
<1> SUFFICES ASSUME DiscoInit PROVE DiscoInv
  OBVIOUS
<1>1. /\ table = [s \in Slots |-> NoSlot] /\ wg = [i \in Slots |-> NoNode]
      /\ ctrl = Idle /\ tailnet = Node
  BY DEF DiscoInit
<1>2. Types
  BY <1>1, IdleIsWork, PeersAssumption DEF Types, NoSlot
<1> QED
  BY <1>1, <1>2, IdleIsWork DEF DiscoInv, Agree, InHand, Used, NoSlot

\* The steps of the other threads, and those that only send or receive.
LEMMA Aside ==
  ASSUME DiscoInv, UNCHANGED <<table, wg, ctrl>>, tailnet' \subseteq Node
  PROVE  DiscoInv'
BY DEF DiscoInv, Types, Agree, InHand, Used, Adding, Removing

\* The control task goes elsewhere, and the tables stay: it must have in hand
\* what that point expects.
LEMMA GoesOn ==
  ASSUME DiscoInv, UNCHANGED <<table, wg, tailnet>>, Types', InHand',
         ctrl.pc \notin {"enter", "forget"}, ctrl'.pc \notin {"enter", "forget"}
  PROVE  DiscoInv'
BY DEF DiscoInv, Agree, Used, Adding, Removing

LEMMA WalkKeeps ==
  ASSUME DiscoInv,
         \/ ApplyFull \/ BreakOff \/ Probed \/ Absent \/ ResetPeer \/ Downgrade
         \/ \E n \in Node : ApplyChanged(n) \/ ApplyRemoved(n) \/ KnownPeer(n)
         \/ \E a \in Addr : Probe(a)
  PROVE  DiscoInv'
<1> USE DEF DiscoInv, Types, world, maps
<1>1. CASE ApplyFull
  <2>1. UNCHANGED <<table, wg, tailnet>> /\ ctrl.pc = "idle" /\ ctrl'.pc = "peers"
    BY <1>1, IdleIsWork DEF ApplyFull, Work
  <2>2. Types'
    BY <1>1, <2>1, IdleIsWork DEF ApplyFull, Points, Work
  <2> QED
    BY <2>1, <2>2, GoesOn DEF InHand
<1>2. CASE \E n \in Node : ApplyChanged(n)
  <2>0. PICK n \in Node : ApplyChanged(n)
    BY <1>2
  <2>1. UNCHANGED <<table, wg, tailnet>> /\ ctrl.pc = "idle" /\ ctrl'.pc = "peers"
    BY <2>0, IdleIsWork DEF ApplyChanged, Work
  <2>2. Types'
    BY <2>0, <2>1, IdleIsWork DEF ApplyChanged, Points, Work
  <2> QED
    BY <2>1, <2>2, GoesOn DEF InHand
<1>3. CASE \E n \in Node : ApplyRemoved(n)
  <2>0. PICK n \in Node : ApplyRemoved(n)
    BY <1>3
  <2>1. PICK s \in SlotOf(n) :
          /\ ctrl.pc = "idle" /\ UNCHANGED <<table, wg, tailnet>>
          /\ ctrl' = [Idle EXCEPT !.pc = "reset", !.s = s, !.i = table[s].i]
    BY <2>0 DEF ApplyRemoved
  <2>2. s \in Slots /\ table[s].n = n /\ n # NoNode
    BY <2>1, NodeAssumption DEF SlotOf
  <2>3. Used(s) /\ table[s].i \in 0 .. MaxPeers /\ s \in 0 .. MaxPeers
    BY <2>2, PeersAssumption DEF Used, NoSlot, Slots
  <2>4. Types' /\ ctrl'.pc = "reset" /\ ctrl'.s = s /\ ctrl'.i = table[s].i
    BY <2>1, <2>3, IdleIsWork DEF Points, Work
  <2> QED
    BY <2>1, <2>2, <2>3, <2>4, GoesOn DEF InHand, Used
<1>4. CASE \E n \in Node : KnownPeer(n)
  <2>0. PICK n \in Node : KnownPeer(n)
    BY <1>4
  <2>1. PICK s \in SlotOf(n) :
          /\ ctrl.pc = "peers" /\ UNCHANGED <<table, wg, tailnet>>
          /\ ctrl' = [ctrl EXCEPT !.todo = @ \ {n}, !.keep = @ \cup {s},
                        !.n = n, !.i = table[s].i,
                        !.pc = IF verified[table[s].i] THEN "peers" ELSE "downgrade"]
    BY <2>0 DEF KnownPeer
  <2>2. s \in Slots /\ table[s].i \in 0 .. MaxPeers
    BY <2>1 DEF SlotOf
  <2>3. Types' /\ ctrl'.pc \in {"peers", "downgrade"}
    BY <2>1, <2>2 DEF Points, Work
  <2> QED
    BY <2>1, <2>3, GoesOn DEF InHand
<1>5. CASE Absent
  <2>1. CASE ctrl.full /\ Gone # {}
    <3>1. PICK s \in Gone :
            /\ ctrl.pc = "peers" /\ UNCHANGED <<table, wg, tailnet>>
            /\ ctrl' = [ctrl EXCEPT !.pc = "reset", !.s = s, !.i = table[s].i]
      BY <1>5, <2>1 DEF Absent
    <3>2. /\ s \in Slots /\ Used(s) /\ table[s].i \in 0 .. MaxPeers
          /\ s \in 0 .. MaxPeers
      BY <3>1, PeersAssumption DEF Gone, Used, Slots
    <3>3. Types' /\ ctrl'.pc = "reset" /\ ctrl'.s = s /\ ctrl'.i = table[s].i
      BY <3>1, <3>2 DEF Points, Work
    <3> QED
      BY <3>1, <3>2, <3>3, GoesOn DEF InHand, Used
  <2>2. CASE ~(ctrl.full /\ Gone # {})
    <3>1. UNCHANGED <<table, wg, tailnet>> /\ ctrl.pc = "peers" /\ ctrl' = Idle
      BY <1>5, <2>2 DEF Absent
    <3>2. Types' /\ ctrl'.pc = "idle"
      BY <3>1, IdleIsWork
    <3> QED
      BY <3>1, <3>2, GoesOn DEF InHand
  <2> QED
    BY <2>1, <2>2
<1>6. CASE BreakOff \/ (\E a \in Addr : Probe(a))
  <2>1. /\ UNCHANGED <<table, wg, tailnet>> /\ ctrl'.pc = ctrl.pc
        /\ ctrl.pc \in {"peers", "probe"} /\ Types'
    BY <1>6 DEF BreakOff, Probe, Work
  <2> QED
    BY <2>1, GoesOn DEF InHand
<1>7. CASE Probed \/ Downgrade
  <2>1. /\ UNCHANGED <<table, wg, tailnet>> /\ ctrl'.pc = "peers"
        /\ ctrl.pc \in {"probe", "downgrade"} /\ Types'
    BY <1>7 DEF Probed, Downgrade, Goto, Points, Work
  <2> QED
    BY <2>1, GoesOn DEF InHand
<1>8. CASE ResetPeer
  <2>1. /\ UNCHANGED <<table, wg, tailnet>> /\ ctrl'.pc = "remove" /\ ctrl.pc = "reset"
        /\ ctrl'.s = ctrl.s /\ ctrl'.i = ctrl.i /\ Types'
    BY <1>8 DEF ResetPeer, Goto, Points, Work
  <2> QED
    BY <2>1, GoesOn DEF InHand, Used
<1> QED
  BY <1>1, <1>2, <1>3, <1>4, <1>5, <1>6, <1>7, <1>8

\* A node that is not in the table gets a free index, and then a free slot.
LEMMA AddedPeerKeeps ==
  ASSUME DiscoInv, NEW n \in Node, AddedPeer(n)
  PROVE  DiscoInv'
<1> DEFINE free == {s \in Slots : table[s] = NoSlot}
           idx == {i \in Slots : wg[i] = NoNode}
<1> USE DEF DiscoInv, Types
<1>1. ctrl.pc = "peers" /\ SlotOf(n) = {} /\ n # NoNode
  BY NodeAssumption DEF AddedPeer
<1>2. CASE free = {} \/ idx = {} \/ adds = MaxAdds
  <2>1. /\ UNCHANGED <<table, wg, tailnet>> /\ ctrl'.pc = "peers" /\ Types'
    BY <1>1, <1>2 DEF AddedPeer, world, Work
  <2> QED
    BY <1>1, <2>1, GoesOn DEF InHand
<1>3. CASE ~(free = {} \/ idx = {} \/ adds = MaxAdds)
  <2> DEFINE s == First(free)
             i == First(idx)
  <2>1. s \in free /\ i \in idx
    BY <1>3, FirstIn
  <2>2. /\ s \in Slots /\ i \in Slots /\ table[s] = NoSlot /\ wg[i] = NoNode
        /\ s \in 0 .. MaxPeers /\ i \in 0 .. MaxPeers
    BY <2>1, PeersAssumption DEF Slots
  <2>3. /\ wg' = [wg EXCEPT ![i] = n] /\ UNCHANGED <<table, tailnet>>
        /\ ctrl' = [ctrl EXCEPT !.todo = @ \ {n}, !.n = n, !.pc = "enter", !.s = s, !.i = i]
    BY <1>3 DEF AddedPeer, world
  <2> HIDE DEF s, i, free, idx
  <2>4. /\ Types' /\ ctrl'.pc = "enter" /\ ctrl'.n = n /\ ctrl'.s = s /\ ctrl'.i = i
        /\ wg'[i] = n /\ \A j \in Slots : j # i => wg'[j] = wg[j]
    BY <2>2, <2>3 DEF Points, Work
  <2>5. \A t \in Slots : table[t].n # n
    BY <1>1 DEF SlotOf
  <2>6. \A t \in Slots : Used(t) => table[t].i # i
    BY <1>1, <2>2, NodeAssumption DEF Agree, Removing
  <2>7. Agree'
    BY <1>1, <2>2, <2>3, <2>4, <2>6 DEF Agree, Used, Adding, Removing
  <2>8. InHand'
    BY <2>2, <2>3, <2>4, <2>5 DEF InHand, Used
  <2> QED
    BY <2>4, <2>7, <2>8
<1> QED
  BY <1>2, <1>3

LEMMA EnterKeeps == ASSUME DiscoInv, Enter PROVE DiscoInv'
<1> DEFINE s == ctrl.s
           i == ctrl.i
           n == ctrl.n
<1> USE DEF DiscoInv, Types
<1>1. /\ ctrl.pc = "enter" /\ n \in Node /\ s \in Slots /\ i \in Slots
      /\ ~Used(s) /\ wg[i] = n /\ n # NoNode
      /\ \A t \in Slots : table[t].n # n
  BY NodeAssumption DEF Enter, InHand
<1>2. /\ table' = [table EXCEPT ![s] = [n |-> n, i |-> i]]
      /\ ctrl' = [ctrl EXCEPT !.pc = "probe", !.keep = @ \cup {s}, !.cands = Addr]
      /\ UNCHANGED <<wg, tailnet>>
  BY DEF Enter, world
<1> HIDE DEF s, i, n
<1>3. /\ Types' /\ ctrl'.pc = "probe"
      /\ table'[s] = [n |-> n, i |-> i]
      /\ \A t \in Slots : t # s => table'[t] = table[t]
  <2>1. n \in Node \cup {NoNode} /\ i \in 0 .. MaxPeers
    BY <1>1, PeersAssumption DEF Slots
  <2>2. /\ table' \in [Slots -> [n : Node \cup {NoNode}, i : 0 .. MaxPeers]]
        /\ table'[s] = [n |-> n, i |-> i]
        /\ \A t \in Slots : t # s => table'[t] = table[t]
    BY <1>1, <1>2, <2>1
  <2>3. /\ ctrl'.pc = "probe"
        /\ ctrl' \in Work
    BY <1>1, <1>2 DEF Points, Work
  <2> QED
    BY <1>2, <2>2, <2>3
<1>4. \A t \in Slots : t # s => Used(t)' = Used(t)
  BY <1>3 DEF Used
<1>5. Agree'
  <2>1. \A j \in Slots : wg[j] # NoNode /\ j # i => \E t \in Slots : t # s /\ table[t].i = j
    <3>1. \A j \in Slots : wg[j] # NoNode /\ j # i => \E t \in Slots : table[t].i = j
      BY <1>1 DEF Agree, Adding, i
    <3>2. table[s].i = 0 /\ 0 \notin Slots
      BY <1>1 DEF Used, NoSlot, Slots
    <3> QED
      BY <3>1, <3>2
  <2>2. \A t \in Slots : Used(t) => table[t].n \in Node /\ table[t].i \in Slots
                                    /\ wg[table[t].i] = table[t].n
    BY <1>1 DEF Agree, Removing
  <2>3. \A t \in Slots : Used(t)' => table'[t].n \in Node /\ table'[t].i \in Slots
                                    /\ wg'[table'[t].i] = table'[t].n
    BY <1>1, <1>2, <1>3, <1>4, <2>2
  <2>4. \A j \in Slots : wg'[j] # NoNode => \E t \in Slots : table'[t].i = j
    BY <1>1, <1>2, <1>3, <2>1
  <2>5. \A t, u \in Slots : t # u /\ Used(t)' => table'[t].n # table'[u].n
    BY <1>1, <1>3, <1>4 DEF Agree
  <2> QED
    BY <2>3, <2>4, <2>5 DEF Agree
<1> QED
  BY <1>3, <1>5 DEF InHand

\* The device forgets the peer first, and the table then.
LEMMA RemoveKeeps == ASSUME DiscoInv, RemovePeer PROVE DiscoInv'
<1> DEFINE s == ctrl.s
           i == ctrl.i
<1> USE DEF DiscoInv, Types
<1>1. /\ ctrl.pc = "remove" /\ s \in Slots /\ Used(s) /\ i = table[s].i
      /\ i \in Slots /\ wg[i] = table[s].n
  BY DEF RemovePeer, InHand, Agree, Removing
<1>2. /\ wg' = [wg EXCEPT ![i] = NoNode] /\ ctrl' = [ctrl EXCEPT !.pc = "forget"]
      /\ UNCHANGED <<table, tailnet>>
  BY DEF RemovePeer, Goto, world
<1>3. /\ Types' /\ ctrl'.pc = "forget" /\ ctrl'.s = s /\ ctrl'.i = i
      /\ wg'[i] = NoNode /\ \A j \in Slots : j # i => wg'[j] = wg[j]
  BY <1>1, <1>2 DEF Points, Work
<1> HIDE DEF s, i
<1>4. \A t \in Slots : Used(t) /\ t # s => table[t].i # i
  BY <1>1 DEF Agree, Removing
<1>5. Agree'
  BY <1>1, <1>2, <1>3, <1>4 DEF Agree, Used, Adding, Removing
<1>6. InHand'
  BY <1>1, <1>2, <1>3 DEF InHand, Used
<1> QED
  BY <1>3, <1>5, <1>6

LEMMA ForgetKeeps == ASSUME DiscoInv, Forget PROVE DiscoInv'
<1> DEFINE s == ctrl.s
           i == ctrl.i
<1> USE DEF DiscoInv, Types
<1>1. /\ ctrl.pc = "forget" /\ s \in Slots /\ Used(s) /\ i = table[s].i
      /\ i \in Slots /\ wg[i] = NoNode
  BY DEF Forget, InHand, Agree
<1>2. /\ table' = [table EXCEPT ![s] = NoSlot] /\ UNCHANGED <<wg, tailnet>>
      /\ ctrl' \in {[ctrl EXCEPT !.pc = "peers"], Idle}
  BY DEF Forget, Goto, world
<1>3. /\ Types' /\ ctrl'.pc \in {"peers", "idle"}
      /\ table'[s] = NoSlot /\ \A t \in Slots : t # s => table'[t] = table[t]
  <2>1. 0 \in 0 .. MaxPeers
    BY PeersAssumption
  <2>2. /\ table' \in [Slots -> [n : Node \cup {NoNode}, i : 0 .. MaxPeers]]
        /\ table'[s] = NoSlot /\ \A t \in Slots : t # s => table'[t] = table[t]
    <3> HIDE DEF s, i
    <3>1. NoSlot \in [n : Node \cup {NoNode}, i : 0 .. MaxPeers]
      BY <2>1 DEF NoSlot
    <3> QED
      BY <1>1, <1>2, <3>1
  <2>3. /\ ctrl'.pc \in {"peers", "idle"}
        /\ ctrl' \in Work
    <3>1. ctrl' = [ctrl EXCEPT !.pc = "peers"] => ctrl'.pc = "peers" /\ ctrl' \in Work
      BY DEF Points, Work
    <3> QED
      BY <1>2, <3>1, IdleIsWork
  <2> QED
    BY <1>2, <2>2, <2>3
<1>4. /\ \A t \in Slots : Used(t)' <=> Used(t) /\ t # s
      /\ \A t \in Slots : Removing(t) => t = s
  BY <1>3 DEF Used, Removing
<1> HIDE DEF s, i
<1>5. Agree'
  <2>1. \A t \in Slots : Used(t)' => table'[t].n \in Node /\ table'[t].i \in Slots
                                    /\ wg'[table'[t].i] = table'[t].n
    BY <1>2, <1>3, <1>4 DEF Agree
  <2>2. \A j \in Slots : wg'[j] # NoNode => \E t \in Slots : table'[t].i = j
    BY <1>1, <1>2, <1>3 DEF Agree, Adding
  <2>3. \A t, u \in Slots : t # u /\ Used(t)' => table'[t].n # table'[u].n
    <3>1. \A t \in Slots : Used(t) => table[t].n # NoNode
      BY NodeAssumption DEF Agree
    <3> QED
      BY <1>3, <1>4, <3>1 DEF Agree, NoSlot
  <2> QED
    BY <2>1, <2>2, <2>3 DEF Agree
<1> QED
  BY <1>3, <1>5 DEF InHand

LEMMA AsideKeep ==
  ASSUME DiscoInv,
         \/ Change \/ Rx \/ Register("ctrl") \/ Register("timer")
         \/ \E n \in Node : PeerPing(n) \/ CallMeMaybe(n)
         \/ \E p \in pings : Answer(p)
         \/ \E i \in Slots : Older(i) \/ Sweep(i)
         \/ UNCHANGED discoVars
  PROVE  DiscoInv'
<1>1. UNCHANGED <<table, wg, ctrl>> /\ (tailnet' = tailnet \/ Change)
  BY DEF Change, Rx, Promote, Pong, Register, PeerPing, CallMeMaybe, Answer, Older, Sweep,
         discoVars, maps, world
<1>2. tailnet' \subseteq Node
  BY <1>1 DEF DiscoInv, Types, Change
<1> QED
  BY <1>1, <1>2, Aside

LEMMA DiscoInvariant == DiscoSpec => []DiscoInv
<1>1. DiscoInv /\ [DiscoNext]_discoVars => DiscoInv'
  BY WalkKeeps, AddedPeerKeeps, EnterKeeps, RemoveKeeps, ForgetKeeps, AsideKeep
  DEF DiscoNext, Ctrl
<1> QED
  BY <1>1, DiscoBegins, PTL DEF DiscoSpec

(* Whatever maps come, in whole or broken off, and however often an index   *)
(* is given to another peer: between two maps the table and the device hold *)
(* the same peers, each under its own index.                                *)
THEOREM AlwaysAgree == DiscoSpec => []TablesAgree
<1>1. DiscoInv => TablesAgree
  BY DEF DiscoInv, Agree, TablesAgree, Used, Adding, Removing
<1> QED
  BY <1>1, DiscoInvariant, PTL

=============================================================================
