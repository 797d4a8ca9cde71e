----------------------------- MODULE WireGuard -----------------------------
(***************************************************************************)
(* Two ends of a WireGuard tunnel, each running wireguard.c and            *)
(* wireguardif.c with one peer, over a network that loses, duplicates and  *)
(* reorders.  Every handler runs on lwIP's tcpip thread (packets of a DERP *)
(* link are marshalled to it), so a handler is one step.                   *)
(*                                                                         *)
(* Cryptography is perfect: a message is what its sender put in.  A pair   *)
(* of keys is named by the response that created it, `session', which is   *)
(* also what the random 32-bit indices of both ends stand for.  Ages are   *)
(* chosen freely at each test: a handler that finds a keypair older than   *)
(* REJECT_AFTER_TIME destroys it, so nothing remembers an age.  Cookies    *)
(* are left out: wireguard_is_under_load() is always false here.           *)
(***************************************************************************)
EXTENDS Naturals, FiniteSets

CONSTANTS End,          \* the two ends
          Window,       \* ReplayWindowSize: sizeof of the bitmap, 4 in the code
          MaxInit,      \* bound: initiations sent
          MaxSessions,  \* bound: responses sent
          MaxSent,      \* bound: packets sent with one keypair
          MaxPackets,   \* bound: packets sent with all of them
          MaxRestarts   \* bound: peers removed and added again

ASSUME EndAssumption == \A e \in End : \E f \in End : f # e
ASSUME WindowAssumption == Window \in Nat \ {0} /\ Window <= 32
ASSUME BoundsAssumption ==
  /\ MaxInit \in Nat /\ MaxSessions \in Nat
  /\ MaxSent \in Nat /\ MaxPackets \in Nat /\ MaxRestarts \in Nat

VARIABLES
  peer,          \* each end's struct wireguard_peer
  net,           \* every message ever sent
  initiations,   \* initiations sent, the TAI64N time of the last one
  sessions,      \* responses sent
  restarts,
  handed,        \* history: how often a window passed a packet to lwIP
  confirming,    \* history: packets that made a next keypair the current one
  refused        \* history: packets a replay window refused

vars == <<peer, net, initiations, sessions, restarts, handed, confirming, refused>>

Other(e) == CHOOSE f \in End : f # e

Packet == (1 .. MaxSessions) \X (0 .. MaxSent)

\* Ages in seconds.  One is past the three thresholds for a new handshake, of
\* which each test looks at one only.
REKEY_AFTER_TIME == 120
REJECT_AFTER_TIME == 180
REKEY_TIMEOUT == 5
Keepalive == 25     \* what the network map passes to wireguard_esp32_add_peer
Ages == {0, REJECT_AFTER_TIME - Keepalive, REJECT_AFTER_TIME, 3 * REJECT_AFTER_TIME}

-----------------------------------------------------------------------------
(* Keypairs *)

Slot == {"curr", "prev", "next"}

\* struct wireguard_keypair: session 0 is a keypair that is not valid; heard
\* is last_rx # 0, the bitmap the set of the positions of its bits.
Keypair == [session : 0 .. MaxSessions, initiator : BOOLEAN, sent : Nat,
            heard : BOOLEAN, greatest : Nat, bitmap : SUBSET (0 .. 31)]

keypair_destroyed ==
  [session |-> 0, initiator |-> FALSE, sent |-> 0, heard |-> FALSE,
   greatest |-> 0, bitmap |-> {}]

NewKeypair(s, initiator) ==
  [keypair_destroyed EXCEPT !.session = s, !.initiator = initiator]

Peer == [curr : Keypair, prev : Keypair, next : Keypair,
         handshake : 0 .. MaxInit, greatestTimestamp : 0 .. MaxInit,
         sendHandshake : BOOLEAN]

NewPeer ==
  [curr |-> keypair_destroyed, prev |-> keypair_destroyed,
   next |-> keypair_destroyed, handshake |-> 0, greatestTimestamp |-> 0,
   sendHandshake |-> FALSE]

\* The first of curr, next and prev that holds the session.
get_peer_keypair_for_idx(p, s) ==
  IF p.curr.session = s THEN "curr"
  ELSE IF p.next.session = s THEN "next" ELSE "prev"

\* add_new_keypair, for the end that started the handshake ...
StartAsInitiator(p, s) ==
  [p EXCEPT !.prev = IF p.next.session # 0 THEN p.next ELSE p.curr,
            !.next = keypair_destroyed,
            !.curr = NewKeypair(s, TRUE),
            !.handshake = 0]

\* Mutant: the session that answers is used at once.
StartsCurrent(p, s) ==
  [p EXCEPT !.prev = p.curr,
            !.curr = [NewKeypair(s, FALSE) EXCEPT !.heard = TRUE],
            !.handshake = 0]

\* ... and for the other: its session waits in next for a first packet.
StartAsResponder(p, s) ==
  [p EXCEPT !.next = NewKeypair(s, FALSE),
            !.prev = keypair_destroyed,
            !.handshake = 0]

\* Mutant: the slot the session came from is not cleared.
UpdateKeepsNext(p, slot) ==
  IF slot = "next" THEN [p EXCEPT !.prev = p.curr, !.curr = p.next] ELSE p

\* A packet on the next keypair confirms it.
keypair_update(p, slot) ==
  IF slot = "next"
  THEN [p EXCEPT !.prev = p.curr, !.curr = p.next, !.next = keypair_destroyed]
  ELSE p

\* The ages a keypair may have, of no interest when there is none.
AgesOf(k) == IF k.session = 0 THEN {0} ELSE Ages

-----------------------------------------------------------------------------
(* The replay window.  (The code computes the differences in 32 bits of a   *)
(* 64-bit counter: no session lives for 2^32 packets.)                      *)

\* Mutant: the bitmap is not looked at.
InWindow(k, n) == n # 0 /\ (n > k.greatest \/ k.greatest - n < Window)
\* Mutant: a window one packet too small.
NarrowWindow(k, n) ==
  /\ n # 0
  /\ \/ n > k.greatest
     \/ k.greatest - n + 1 < Window /\ (k.greatest - n) \notin k.bitmap

Fresh(k, n) ==
  /\ n # 0
  /\ \/ n > k.greatest
     \/ k.greatest - n < Window /\ (k.greatest - n) \notin k.bitmap

wireguard_check_replay(k, n) ==
  IF ~Fresh(k, n) THEN k
  ELSE IF n <= k.greatest
       THEN [k EXCEPT !.bitmap = @ \cup {k.greatest - n}]
       ELSE [k EXCEPT !.greatest = n,
                      !.bitmap = {0} \cup
                        IF n - k.greatest < Window
                        THEN {i \in 0 .. 31 : \E j \in k.bitmap : i = j + (n - k.greatest)}
                        ELSE {}]

-----------------------------------------------------------------------------
(* Messages *)

Initiation(e, id) == [type |-> "initiation", to |-> Other(e), id |-> id]
Response(e, id, s) ==
  [type |-> "response", to |-> Other(e), id |-> id, session |-> s]
Data(e, k, empty) ==
  [type |-> "data", from |-> e, to |-> Other(e), session |-> k.session,
   n |-> k.sent, initiator |-> k.initiator, empty |-> empty]

\* The keypair wireguardif_output_to_peer takes, and whether it may be used.
OutSlot(p) ==
  IF p.curr.session # 0 /\ ~p.curr.initiator /\ ~p.curr.heard THEN "prev" ELSE "curr"
Usable(k) == k.session # 0 /\ (k.initiator \/ k.heard)

\* wireguardif_output_to_peer: the peer it leaves and the packets it sends.
Output(p, e, empty, age) ==
  LET x == OutSlot(p)
      k == p[x]
  IN IF ~Usable(k)
     THEN [peer |-> [p EXCEPT !.sendHandshake = TRUE], out |-> {}]
     ELSE IF age >= REJECT_AFTER_TIME
     THEN [peer |-> [p EXCEPT ![x] = keypair_destroyed], out |-> {}]
     ELSE [peer |-> [p EXCEPT ![x].sent = @ + 1,
                              !.sendHandshake =
                                 @ \/ (k.initiator /\ age >= REKEY_AFTER_TIME)],
           out |-> {Data(e, k, empty)}]

\* wireguardif_network_rx: the messages of a type that this end may get next.
Arrived(e, type) == {m \in net : m.type = type /\ m.to = e}

\* Bounds: the keypair may send another packet, and so may the tunnel.
MaySend(p) ==
  /\ p[OutSlot(p)].sent < MaxSent
  /\ Cardinality({m \in net : m.type = "data"}) < MaxPackets

Init ==
  /\ peer = [e \in End |-> NewPeer]
  /\ net = {}
  /\ initiations = 0
  /\ sessions = 0
  /\ restarts = 0
  /\ handed = [e \in End |-> [q \in Packet |-> 0]]
  /\ confirming = [e \in End |-> {}]
  /\ refused = [e \in End |-> {}]

history == <<handed, confirming, refused>>

\* lwIP routes a datagram into the tunnel.
Send(e) ==
  \E age \in AgesOf(peer[e].curr) :
    LET r == Output(peer[e], e, FALSE, age) IN
    /\ MaySend(peer[e])
    /\ peer' = [peer EXCEPT ![e] = r.peer]
    /\ net' = net \cup r.out
    /\ UNCHANGED <<initiations, sessions, restarts, history>>

\* should_reset_peer and should_destroy_current_keypair.
Aged(p, age) ==
  IF p.curr.session = 0 THEN p
  ELSE IF age >= 3 * REJECT_AFTER_TIME
  THEN [NewPeer EXCEPT !.greatestTimestamp = p.greatestTimestamp,
                       !.sendHandshake = p.sendHandshake]
  ELSE IF age >= REJECT_AFTER_TIME
  THEN [p EXCEPT !.curr = keypair_destroyed]
  ELSE p

should_send_initiation(p, age) ==
  \/ p.sendHandshake
  \/ p.curr.session # 0 /\ ~p.curr.initiator /\ age >= REJECT_AFTER_TIME - Keepalive
  \/ p.curr.session = 0        \* every peer is active: wireguard_esp32_add_peer

InitiateHandshake(e, id) == {Initiation(e, id)}
StartHandshake(p, id) == [p EXCEPT !.handshake = id, !.sendHandshake = FALSE]

\* wireguardif_tmr, every 400 ms.  Whether the keepalive interval has passed
\* without a packet, and REKEY_TIMEOUT since an initiation, is free.
Timer(e) ==
  \E age \in AgesOf(peer[e].curr), keepalive \in BOOLEAN, initiate \in BOOLEAN :
    LET p == Aged(peer[e], age)
        r == IF keepalive THEN Output(p, e, TRUE, age)
                          ELSE [peer |-> p, out |-> {}]
    IN /\ keepalive => (p.curr.session # 0 \/ p.prev.session # 0) /\ MaySend(p)
       /\ initiate => should_send_initiation(r.peer, age) /\ initiations < MaxInit
       /\ initiations' = IF initiate THEN initiations + 1 ELSE initiations
       /\ peer' = [peer EXCEPT ![e] =
                     IF initiate THEN StartHandshake(r.peer, initiations + 1)
                                 ELSE r.peer]
       /\ net' = net \cup r.out
                     \cup (IF initiate THEN InitiateHandshake(e, initiations + 1) ELSE {})
       /\ UNCHANGED <<sessions, restarts, history>>

\* What passes wireguardif_check_initiation_message and its twin for the
\* response: mac1 is right, and as the device is never under load no cookie is
\* asked for.
CheckedInitiations(e) == Arrived(e, "initiation")
CheckedResponses(e) == Arrived(e, "response")

\* wireguardif_send_handshake_response: the session starts before the
\* response is sent.
SendResponse(p, e, id, s) ==
  [peer |-> StartAsResponder(p, s), out |-> {Response(e, id, s)}]

\* wireguard_process_initiation_message and the response to it.  The peer's
\* one handshake is overwritten, whatever it was; the rate limit compares the
\* wrong way round and never bites.
ReceiveInitiation(e) ==
  \E m \in CheckedInitiations(e) :
    LET r == SendResponse([peer[e] EXCEPT !.greatestTimestamp = m.id],
                          e, m.id, sessions + 1)
    IN /\ m.id > peer[e].greatestTimestamp
       /\ sessions < MaxSessions
       /\ sessions' = sessions + 1
       /\ peer' = [peer EXCEPT ![e] = r.peer]
       /\ net' = net \cup r.out
       /\ UNCHANGED <<initiations, restarts, history>>

\* wireguardif_process_response_message: a session, and a keepalive to confirm
\* it to the other end.
CompleteHandshake(p, e, s) == Output(StartAsInitiator(p, s), e, TRUE, 0)

\* A response counts only for the initiation that is still waiting for it.
ReceiveResponse(e) ==
  \E m \in CheckedResponses(e) :
    LET r == CompleteHandshake(peer[e], e, m.session)
    IN /\ m.id = peer[e].handshake
       /\ MaySend(NewPeer)
       /\ peer' = [peer EXCEPT ![e] = r.peer]
       /\ net' = net \cup r.out
       /\ UNCHANGED <<initiations, sessions, restarts, history>>

\* wireguardif_process_data_message.  After keypair_update the code goes on
\* with its pointer to the next keypair, by then cleared: a packet that
\* confirms a session is judged by an empty window nobody keeps.
ReceiveData(e) ==
  \E m \in Arrived(e, "data"), age \in Ages :
    LET x == get_peer_keypair_for_idx(peer[e], m.session)
        k == peer[e][x]
        p == keypair_update([peer[e] EXCEPT ![x].heard = TRUE], x)
        flagged == [p EXCEPT !.sendHandshake =
                      @ \/ (x # "next" /\ k.initiator /\
                            age >= REJECT_AFTER_TIME - Keepalive - REKEY_TIMEOUT)]
        q == <<m.session, m.n>>
    IN /\ k.session = m.session
       /\ IF age >= REJECT_AFTER_TIME
          THEN /\ peer' = [peer EXCEPT ![e][x] = keypair_destroyed]
               /\ UNCHANGED history
          ELSE /\ peer' = [peer EXCEPT ![e] =
                     IF m.empty \/ x = "next" THEN flagged
                     ELSE [flagged EXCEPT ![x] = wireguard_check_replay(@, m.n)]]
               /\ confirming' = IF x = "next"
                                THEN [confirming EXCEPT ![e] = @ \cup {q}]
                                ELSE confirming
               /\ handed' = IF ~m.empty /\ x # "next" /\ Fresh(k, m.n)
                            THEN [handed EXCEPT ![e][q] = @ + 1]
                            ELSE handed
               /\ refused' = IF ~m.empty /\ x # "next" /\ ~Fresh(k, m.n)
                             THEN [refused EXCEPT ![e] = @ \cup {q}]
                             ELSE refused
       /\ UNCHANGED <<net, initiations, sessions, restarts>>

\* The network map drops the peer and lists it again, or the device restarts:
\* wireguard_esp32_remove_peer, then wireguard_esp32_add_peer.
Restart(e) ==
  /\ restarts < MaxRestarts
  /\ restarts' = restarts + 1
  /\ peer' = [peer EXCEPT ![e] = NewPeer]
  /\ UNCHANGED <<net, initiations, sessions, history>>

Next ==
  \E e \in End :
    \/ Send(e)
    \/ Timer(e)
    \/ ReceiveInitiation(e)
    \/ ReceiveResponse(e)
    \/ ReceiveData(e)
    \/ Restart(e)

Spec == Init /\ [][Next]_vars

-----------------------------------------------------------------------------
(* Properties *)

\* Every variable has its type.
TypeOK ==
  /\ peer \in [End -> Peer]
  /\ initiations \in 0 .. MaxInit
  /\ sessions \in 0 .. MaxSessions
  /\ handed \in [End -> [Packet -> Nat]]
  /\ confirming \in [End -> SUBSET Packet]
  /\ refused \in [End -> SUBSET Packet]

\* However keypairs rotate and packets are repeated, a window passes a packet
\* to lwIP once, and only one packet of a session goes past the windows: the
\* first of a session this end did not start (wireguard_check_replay, and the
\* copies of keypairs in keypair_update and add_new_keypair).
DeliveredOnce ==
  \A e \in End :
    /\ \A q \in Packet : handed[e][q] <= 1
    /\ \A q, r \in confirming[e] : q[1] = r[1] => q = r

\* A packet is lost to the window for a reason: it came before, it lies a
\* window or more behind one that came before, or it has the number 0.
RefusedForCause ==
  \A e \in End : \A q \in refused[e] :
    \/ q[2] = 0
    \/ handed[e][q] > 0
    \/ \E r \in Packet : r[1] = q[1] /\ r[2] >= q[2] + Window /\ handed[e][r] > 0

\* No nonce is used twice: whichever slot a keypair was moved to, its counter
\* is past every packet this end ever sent with it (a keypair that is copied
\* and not cleared would send with the old counter).
NonceNeverReused ==
  \A e \in End, x \in Slot : \A m \in net :
    (m.type = "data" /\ m.from = e /\ m.session = peer[e][x].session)
      => m.n < peer[e][x].sent

\* The end that answered a handshake sends nothing in the session before the
\* end that began it has, so that what it sends can be read (5.4.6 and the
\* note in wireguardif_output_to_peer).
ResponderWaits ==
  \A m \in net :
    (m.type = "data" /\ ~m.initiator)
      => \E f \in net : f.type = "data" /\ f.session = m.session /\ f.initiator

=============================================================================
