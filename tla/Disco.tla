------------------------------- MODULE Disco -------------------------------
(***************************************************************************)
(* The network map (tailscale_netmap.c) and DISCO (tailscale_disco.c),     *)
(* which between them decide who is a WireGuard peer and over which path   *)
(* it is reached.                                                          *)
(*                                                                         *)
(* Three threads share the peer table and DISCO's arrays without a lock:   *)
(*   ctrl   the control task, which applies the coordinator's maps;        *)
(*   timer  the sweep, once a minute, over the verified paths;             *)
(*   rx     lwIP's tcpip thread, which has the Pings, Pongs and            *)
(*          CallMeMaybes of the peers.                                     *)
(* A peer that has a relay starts on it and is moved to a direct address   *)
(* by the Pong that answers one of our Pings; the index of its WireGuard   *)
(* peer names it in DISCO's arrays.                                        *)
(*                                                                         *)
(* A node stands for its node, DISCO and map keys; frames are sealed, so a *)
(* Pong comes from the node its Ping was for.  Outgoing CallMeMaybes and   *)
(* Pongs leave no trace but a Ping the peer may send at any time.  A       *)
(* WireGuard packet that moves a path (module WireGuard) is left out.      *)
(***************************************************************************)
EXTENDS Naturals, FiniteSets

CONSTANTS Node, NoNode,
          Homed,        \* nodes the coordinator gives a DERP region
          Addr,         \* addresses outside; a node has one of them, or none
          Relay,        \* the pseudo address of a DERP region
          NoAddr,
          MaxPeers,     \* TS_NETMAP_MAX_PEERS, and WireGuard's peers
          NumPending,   \* DISCO_PENDING_MAX
          MaxPings,     \* bound: pings sent
          MaxChanges,   \* bound: nodes that come, go or move
          MaxAdds       \* bound: peers added, and so indices used again

ASSUME PeersAssumption == MaxPeers \in Nat \ {0} /\ NumPending \in Nat \ {0}
ASSUME NodeAssumption ==
  /\ NoNode \notin Node /\ NoAddr \notin Addr /\ Relay \notin Addr
  /\ Homed \subseteq Node /\ Relay # NoAddr
ASSUME PoolAssumption ==
  MaxPings \in Nat /\ MaxChanges \in Nat /\ MaxAdds \in Nat

Slots == 1 .. MaxPeers       \* of the peer table, and WireGuard's indices
Entries == 1 .. NumPending

VARIABLES
  tailnet,    \* external: the coordinator's map
  at,         \* external: where each node is reached
  table,      \* s_peers: the node of an active slot, and its WireGuard index
  wg,         \* the WireGuard device: the node of each peer
  path,       \* its endpoint
  verified,   \* s_verified
  pongAge,    \* now - s_last_pong_ts: "fresh", past the 3 min, past the 15 min
  direct,     \* s_verified_ep
  pending,    \* s_pending
  ctrl, rx,   \* what the control task and the tcpip thread are at
  send,       \* a ping each thread has sent and not yet entered
  pings,      \* external: pings and answers on their way, by number
  sent, changes, adds

disco == <<verified, pongAge, direct>>
maps == <<table, wg, path>>
world == <<tailnet, at, changes>>
discoVars == <<world, maps, disco, pending, ctrl, rx, send, pings, sent, adds>>

Threads == {"ctrl", "timer", "rx"}
NoPing == [n |-> NoNode, to |-> NoAddr, i |-> 0, entry |-> 0, id |-> 0]
NoEntry == [id |-> 0, n |-> NoNode, i |-> 0]
NoSlot == [n |-> NoNode, i |-> 0]

DiscoTypeOK ==
  /\ tailnet \subseteq Node /\ at \in [Node -> Addr \cup {NoAddr}]
  /\ table \in [Slots -> [n : Node \cup {NoNode}, i : 0 .. MaxPeers]]
  /\ wg \in [Slots -> Node \cup {NoNode}]
  /\ path \in [Slots -> Addr \cup {Relay, NoAddr}]
  /\ verified \in [Slots -> BOOLEAN]
  /\ pongAge \in [Slots -> {"fresh", "quiet", "stale"}]
  /\ direct \in [Slots -> Addr \cup {NoAddr}]
  /\ pending \in [Entries -> [id : 0 .. MaxPings, n : Node \cup {NoNode}, i : 0 .. MaxPeers]]
  /\ ctrl.pc \in {"idle", "peers", "downgrade", "enter", "probe", "absent",
                  "reset", "remove", "forget"}
  /\ ctrl.todo \subseteq Node /\ ctrl.keep \subseteq Slots
  /\ rx \in [i : 0 .. MaxPeers, from : Addr \cup {NoAddr}]
  /\ send \in [Threads -> [n : Node \cup {NoNode}, to : Addr \cup {NoAddr},
                           i : 0 .. MaxPeers, entry : 0 .. NumPending,
                           id : 0 .. MaxPings]]
  /\ sent \in 0 .. MaxPings

Idle == [pc |-> "idle", full |-> FALSE, todo |-> {}, keep |-> {},
         n |-> NoNode, s |-> 0, i |-> 0, cands |-> {}]

DiscoInit ==
  /\ tailnet = Node /\ at = [n \in Node |-> CHOOSE a \in Addr : TRUE]
  /\ table = [s \in Slots |-> NoSlot]
  /\ wg = [i \in Slots |-> NoNode] /\ path = [i \in Slots |-> NoAddr]
  /\ verified = [i \in Slots |-> FALSE]
  /\ pongAge = [i \in Slots |-> "fresh"] /\ direct = [i \in Slots |-> NoAddr]
  /\ pending = [e \in Entries |-> NoEntry]
  /\ ctrl = Idle /\ rx = [i |-> 0, from |-> NoAddr]
  /\ send = [t \in Threads |-> NoPing]
  /\ pings = {} /\ sent = 0 /\ changes = 0 /\ adds = 0

-----------------------------------------------------------------------------
(* The world: nodes join, leave, move, fall silent and come back.           *)

Change ==
  /\ changes < MaxChanges /\ changes' = changes + 1
  /\ \/ /\ \E n \in Node : tailnet' = (tailnet \ {n}) \cup ({n} \ tailnet)
        /\ UNCHANGED at
     \/ /\ \E n \in Node, a \in (Addr \cup {NoAddr}) : at' = [at EXCEPT ![n] = a]
        /\ UNCHANGED tailnet
  /\ UNCHANGED <<maps, disco, pending, ctrl, rx, send, pings, sent, adds>>

-----------------------------------------------------------------------------
(* ts_disco_send_ping, called by all three threads.  An entry of the pool is *)
(* chosen, the ping goes out, and only then is the entry taken.             *)

FreeEntries == {e \in Entries : pending[e].id = 0}
First(S) == CHOOSE e \in S : \A f \in S : e <= f

Ping(t, n, i, a) ==
  IF FreeEntries = {} \/ sent = MaxPings
  THEN UNCHANGED <<send, pings, sent>>
  ELSE /\ sent' = sent + 1
       /\ send' = [send EXCEPT ![t] =
            [n |-> n, to |-> a, i |-> i, entry |-> First(FreeEntries), id |-> sent + 1]]
       /\ pings' = pings \cup {[id |-> sent + 1, n |-> n, to |-> a, answered |-> FALSE]}

Register(t) ==
  /\ send[t] # NoPing
  /\ pending' = [pending EXCEPT ![send[t].entry] =
                   [id |-> send[t].id, n |-> send[t].n, i |-> send[t].i]]
  /\ send' = [send EXCEPT ![t] = NoPing]
  /\ UNCHANGED <<world, maps, disco, ctrl, rx, pings, sent, adds>>

Free(t) == send[t] = NoPing

-----------------------------------------------------------------------------
(* The control task: ts_netmap_apply.  A keep-alive changes nothing.        *)

Goto(pc) == ctrl' = [ctrl EXCEPT !.pc = pc]
SlotOf(n) == {s \in Slots : table[s].n = n}

ApplyFull ==
  /\ ctrl.pc = "idle"
  /\ ctrl' = [Idle EXCEPT !.pc = "peers", !.full = TRUE, !.todo = tailnet]
  /\ UNCHANGED <<world, maps, disco, pending, rx, send, pings, sent, adds>>

ApplyChanged(n) ==
  /\ ctrl.pc = "idle" /\ n \in tailnet
  /\ ctrl' = [Idle EXCEPT !.pc = "peers", !.todo = {n}]
  /\ UNCHANGED <<world, maps, disco, pending, rx, send, pings, sent, adds>>

ApplyRemoved(n) ==
  /\ ctrl.pc = "idle" /\ n \notin tailnet /\ SlotOf(n) # {}
  /\ \E s \in SlotOf(n) :
       ctrl' = [Idle EXCEPT !.pc = "reset", !.s = s, !.i = table[s].i]
  /\ UNCHANGED <<world, maps, disco, pending, rx, send, pings, sent, adds>>

\* The endpoint apply_one_peer has for a node: its relay, or, if the map gives no
\* region, the best of the addresses it advertises, and none if it has none.
Offered(n) == IF n \in Homed THEN {Relay} ELSE Addr \cup {NoAddr}

\* apply_one_peer for a peer of the table: back to that endpoint, if there is
\* one, unless a direct path is verified, which is looked at first.
KnownPeer(n) ==
  /\ ctrl.pc = "peers" /\ n \in ctrl.todo
  /\ \E s \in SlotOf(n) :
       ctrl' = [ctrl EXCEPT !.todo = @ \ {n}, !.keep = @ \cup {s},
                  !.n = n, !.i = table[s].i,
                  !.pc = IF verified[table[s].i] THEN "peers" ELSE "downgrade"]
  /\ UNCHANGED <<world, maps, disco, pending, rx, send, pings, sent, adds>>

Downgrade ==
  /\ ctrl.pc = "downgrade" /\ Goto("peers")
  /\ \E a \in Offered(ctrl.n) :
       path' = IF a = NoAddr THEN path ELSE [path EXCEPT ![ctrl.i] = a]
  /\ UNCHANGED <<world, table, wg, disco, pending, rx, send, pings, sent, adds>>

\* ... for another one: a slot, a WireGuard peer with that endpoint, the entry.
AddedPeer(n) ==
  /\ ctrl.pc = "peers" /\ n \in ctrl.todo /\ SlotOf(n) = {}
  /\ LET free == {s \in Slots : table[s] = NoSlot}
         idx == {i \in Slots : wg[i] = NoNode} IN
       IF free = {} \/ idx = {} \/ adds = MaxAdds
       THEN /\ ctrl' = [ctrl EXCEPT !.todo = @ \ {n}]
            /\ UNCHANGED <<wg, path, adds>>
       ELSE /\ wg' = [wg EXCEPT ![First(idx)] = n]
            /\ \E a \in Offered(n) : path' = [path EXCEPT ![First(idx)] = a]
            /\ adds' = adds + 1
            /\ ctrl' = [ctrl EXCEPT !.todo = @ \ {n}, !.n = n, !.pc = "enter",
                                    !.s = First(free), !.i = First(idx)]
  /\ UNCHANGED <<world, table, disco, pending, rx, send, pings, sent>>

Enter ==
  /\ ctrl.pc = "enter"
  /\ table' = [table EXCEPT ![ctrl.s] = [n |-> ctrl.n, i |-> ctrl.i]]
  /\ ctrl' = [ctrl EXCEPT !.pc = "probe", !.keep = @ \cup {ctrl.s}, !.cands = Addr]
  /\ UNCHANGED <<world, wg, path, disco, pending, rx, send, pings, sent, adds>>

\* A ping to each candidate.
Probe(a) ==
  /\ ctrl.pc = "probe" /\ Free("ctrl") /\ a \in ctrl.cands
  /\ ctrl' = [ctrl EXCEPT !.cands = @ \ {a}]
  /\ Ping("ctrl", ctrl.n, ctrl.i, a)
  /\ UNCHANGED <<world, maps, disco, pending, rx, adds>>

Probed ==
  /\ ctrl.pc = "probe" /\ Free("ctrl") /\ ctrl.cands = {} /\ Goto("peers")
  /\ UNCHANGED <<world, maps, disco, pending, rx, send, pings, sent, adds>>

\* The peers a full map does not have are removed, after the others were
\* added.
Gone == {s \in Slots \ ctrl.keep : table[s] # NoSlot}

Absent ==
  /\ ctrl.pc = "peers" /\ ctrl.todo = {}
  /\ IF ctrl.full /\ Gone # {}
     THEN \E s \in Gone : ctrl' = [ctrl EXCEPT !.pc = "reset", !.s = s, !.i = table[s].i]
     ELSE ctrl' = Idle
  /\ UNCHANGED <<world, maps, disco, pending, rx, send, pings, sent, adds>>

\* A list that cannot be read further ends there, and what it had is kept.
BreakOff ==
  /\ ctrl.pc = "peers" /\ ctrl.todo # {}
  /\ ctrl' = [ctrl EXCEPT !.todo = {}]
  /\ UNCHANGED <<world, maps, disco, pending, rx, send, pings, sent, adds>>

\* ts_disco_reset_peer, also of the pings in flight for the index.
ResetPeer ==
  /\ ctrl.pc = "reset" /\ Goto("remove")
  /\ verified' = [verified EXCEPT ![ctrl.i] = FALSE]
  /\ direct' = [direct EXCEPT ![ctrl.i] = NoAddr]
  /\ pending' = [e \in Entries |->
                   IF pending[e].i = ctrl.i THEN NoEntry ELSE pending[e]]
  /\ UNCHANGED <<world, maps, pongAge, rx, send, pings, sent, adds>>

\* Mutant: the device keeps the peer.
KeepDevicePeer ==
  /\ ctrl.pc = "remove" /\ Goto("forget")
  /\ UNCHANGED <<world, maps, disco, pending, rx, send, pings, sent, adds>>

RemovePeer ==
  /\ ctrl.pc = "remove" /\ Goto("forget")
  /\ wg' = [wg EXCEPT ![ctrl.i] = NoNode]
  /\ path' = [path EXCEPT ![ctrl.i] = NoAddr]
  /\ UNCHANGED <<world, table, disco, pending, rx, send, pings, sent, adds>>

Forget ==
  /\ ctrl.pc = "forget"
  /\ table' = [table EXCEPT ![ctrl.s] = NoSlot]
  /\ IF ctrl.full THEN Goto("peers") ELSE ctrl' = Idle
  /\ UNCHANGED <<world, wg, path, disco, pending, rx, send, pings, sent, adds>>

Ctrl ==
  \/ \E n \in Node : KnownPeer(n) \/ AddedPeer(n)
  \/ Downgrade \/ Enter \/ Probed \/ Absent \/ ResetPeer \/ RemovePeer \/ Forget
  \/ \E a \in Addr : Probe(a)
  \/ Register("ctrl")

-----------------------------------------------------------------------------
(* The tcpip thread: ts_disco_rx.                                           *)

NotReceiving == rx.i = 0 /\ Free("rx")

\* The node got the ping at the address it was for.
Answer(p) ==
  /\ p \in pings /\ ~p.answered /\ at[p.n] = p.to
  /\ pings' = (pings \ {p}) \cup {[p EXCEPT !.answered = TRUE]}
  /\ UNCHANGED <<world, maps, disco, pending, ctrl, rx, send, sent, adds>>

\* A Pong whose ping is in the pool; others are dropped.
Pong(p) ==
  /\ NotReceiving /\ p \in pings /\ p.answered
  /\ pings' = pings \ {p}
  /\ \/ /\ \E e \in Entries :
             /\ pending[e].id = p.id /\ pending[e].n = p.n
             /\ rx' = [i |-> pending[e].i, from |-> p.to]
             /\ pending' = [pending EXCEPT ![e] = NoEntry]
     \/ /\ \A e \in Entries : pending[e].id # p.id
        /\ UNCHANGED <<rx, pending>>
  /\ UNCHANGED <<world, maps, disco, ctrl, send, sent, adds>>

\* It refreshes a verified path, whichever address it came from, or else makes
\* that address the verified path.
Promote ==
  /\ rx.i # 0 /\ rx' = [i |-> 0, from |-> NoAddr]
  /\ pongAge' = [pongAge EXCEPT ![rx.i] = "fresh"]
  /\ IF verified[rx.i]
     THEN UNCHANGED <<verified, direct, path>>
     ELSE /\ verified' = [verified EXCEPT ![rx.i] = TRUE]
          /\ direct' = [direct EXCEPT ![rx.i] = rx.from]
          /\ path' = IF wg[rx.i] = NoNode THEN path ELSE [path EXCEPT ![rx.i] = rx.from]
  /\ UNCHANGED <<world, table, wg, pending, ctrl, send, pings, sent, adds>>

\* A Ping that did not come over the relay is a sign of life.
PeerPing(n) ==
  /\ NotReceiving /\ at[n] # NoAddr
  /\ \E s \in SlotOf(n) :
       /\ verified[table[s].i]
       /\ pongAge' = [pongAge EXCEPT ![table[s].i] = "fresh"]
  /\ UNCHANGED <<world, maps, verified, direct, pending, ctrl, rx, send, pings, sent, adds>>

\* A CallMeMaybe with one address.
CallMeMaybe(n) ==
  /\ NotReceiving /\ at[n] # NoAddr
  /\ \E s \in SlotOf(n) : Ping("rx", n, table[s].i, at[n])
  /\ UNCHANGED <<world, maps, disco, pending, ctrl, rx, adds>>

Rx == Promote \/ Register("rx") \/ \E p \in pings : Pong(p)

-----------------------------------------------------------------------------
(* The sweep: reverify_sweep_cb, for one index at a time.                   *)

Older(i) ==
  /\ verified[i] /\ pongAge[i] # "stale"
  /\ pongAge' = [pongAge EXCEPT ![i] = IF @ = "fresh" THEN "quiet" ELSE "stale"]
  /\ UNCHANGED <<world, maps, verified, direct, pending, ctrl, rx, send, pings, sent, adds>>

\* Mutant: a heartbeat is taken for its answer.
SweepRefreshes(i) ==
  /\ Free("timer") /\ verified[i] /\ pongAge[i] # "fresh"
  /\ pongAge' = [pongAge EXCEPT ![i] = "fresh"]
  /\ UNCHANGED <<world, maps, verified, direct, pending, ctrl, rx, send, pings, sent, adds>>

Sweep(i) ==
  /\ Free("timer") /\ verified[i]
  /\ \/ /\ pongAge[i] = "stale"
        /\ verified' = [verified EXCEPT ![i] = FALSE]
        /\ UNCHANGED <<send, pings, sent>>
     \/ /\ pongAge[i] = "quiet" /\ UNCHANGED verified
        /\ \E s \in Slots : table[s].i = i /\ Ping("timer", table[s].n, i, direct[i])
  /\ UNCHANGED <<world, maps, pongAge, direct, pending, ctrl, rx, adds>>

-----------------------------------------------------------------------------
DiscoNext ==
  \/ Change \/ Ctrl \/ Rx \/ ApplyFull \/ BreakOff
  \/ \E n \in Node :
       ApplyChanged(n) \/ ApplyRemoved(n) \/ PeerPing(n) \/ CallMeMaybe(n)
  \/ \E p \in pings : Answer(p)
  \/ \E i \in Slots : Older(i) \/ Sweep(i)
  \/ Register("timer")

\* The threads run, time passes, the timer fires, and the coordinator sends a
\* full map again and again between its smaller ones, as it does on every new
\* stream.  No peer has to answer or to call.
Fairness ==
  /\ WF_discoVars(Ctrl) /\ WF_discoVars(Rx) /\ WF_discoVars(Register("timer"))
  /\ SF_discoVars(ApplyFull)
  /\ \A i \in Slots : /\ WF_discoVars(Older(i))
                      /\ WF_discoVars(Sweep(i) /\ pongAge[i] = "stale")

DiscoSpec == DiscoInit /\ [][DiscoNext]_discoVars /\ Fairness

-----------------------------------------------------------------------------
(* Properties *)

\* Between two maps the peer table and the WireGuard device hold the same
\* peers, each once and under its own index: none is routed to another's keys
\* and none is left behind in the device when its slot is used again.
TablesAgree ==
  ctrl.pc = "idle" =>
    /\ \A s \in Slots : table[s] # NoSlot => wg[table[s].i] = table[s].n
    /\ \A i \in Slots : wg[i] # NoNode => \E s \in Slots : table[s].i = i
    /\ \A s, t \in Slots : s # t /\ table[s] # NoSlot => table[s].n # table[t].n

\* "... recovering from NAT-mapping timeouts, peer-side roaming to a new address,
\* or any other silent-failure of the previously-verified endpoint": a peer that
\* has a relay does not stay on a direct address where it is not, whether it is
\* nowhere or elsewhere: the sweep drops the path and the next map puts the peer
\* back on its relay.  (While it goes on sending Pings, from wherever it now is,
\* the path is kept.)
Misrouted(i) == wg[i] \in Homed /\ path[i] # Relay /\ path[i] # at[wg[i]]
SignOfLife(i) == \E n \in Node : n = wg[i] /\ PeerPing(n)
FallsBack ==
  \A i \in Slots : []<>~Misrouted(i) \/ []<><<SignOfLife(i)>>_discoVars

\* DISCO_REVERIFY: when the sweep has dropped a path, a following map probes
\* the peer's addresses again.  Lapsed says of a peer that it is on its relay
\* with no ping of ours under way.
Lapsed(i) ==
  /\ ctrl.pc = "idle" /\ wg[i] # NoNode /\ ~verified[i] /\ pongAge[i] = "stale"
  /\ sent < MaxPings /\ FreeEntries # {}
Probing(i) ==
  \/ wg[i] = NoNode \/ verified[i]
  \/ \E t \in Threads : send[t].i = i
Reprobed == \A i \in Slots : Lapsed(i) ~> Probing(i)

=============================================================================
