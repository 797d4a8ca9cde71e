------------------------------ MODULE Control ------------------------------
(***************************************************************************)
(* The Tailscale client's control task (tailscale_control.c), the probe    *)
(* that finds the public address (tailscale_pubip.c) and the start and     *)
(* stop around them (tailscale_esp32.c).                                   *)
(*                                                                         *)
(* The control task registers over a fresh connection, asks for the map on *)
(* an HTTP/2 stream that stays open, applies the full map the stream       *)
(* begins with and the changes that follow, and asks again on a new stream *)
(* of the same connection when the probe found an endpoint to advertise.   *)
(* The coordinator is external: it answers or refuses a request, and feeds *)
(* changes on every stream it has not ended, also on a superseded one.     *)
(* One connection, in order, lost as a whole.  The framing, Noise and HPACK *)
(* layers and JSON are what carries a frame; delays are interleaving.      *)
(*                                                                         *)
(* app_main starts the client once per boot, and stops it when the user    *)
(* gives up waiting.                                                       *)
(***************************************************************************)
EXTENDS Naturals, Sequences, FiniteSets

CONSTANTS Address,       \* public addresses the probe may see
          MaxRecent,     \* TS_PUBIP_MAX_RECENT, and CTRL_MAX_ENDPOINTS
          MaxVersion,    \* bound: changes of the tailnet
          MaxProbes,     \* bound: probes that reach a service
          MaxFaults,     \* bound: refusals, losses and failures
          MaxPipe        \* bound: frames on their way

ASSUME RecentAssumption == MaxRecent \in Nat \ {0}
ASSUME BoundsAssumption ==
  /\ MaxVersion \in Nat /\ MaxProbes \in Nat
  /\ MaxFaults \in Nat /\ MaxPipe \in Nat

VARIABLES
  ctrl,       \* the control task: pc, and the caller of ts_ctrl_map_request
  registered, \* ctx->registered
  s_stop,
  s_tls,      \* "null", "open", or "dead": the other end is gone
  nextSid,    \* s_h2_next_sid
  mapRx,      \* s_map_rx: the stream read from, and its END_STREAM
  known,      \* the state of the tailnet last applied to the network map
  home,       \* s_derp_home_valid
  endpoints,  \* s_endpoints and s_endpoint_count
  dirty,      \* s_endpoints_dirty
  pubip,      \* the probe: its task, callback and list of recent addresses
  stop,       \* tailscale_esp32_stop: how far it is
  started,    \* s_started
  server,     \* external: the coordinator
  pipe,       \* external: frames on their way to the client
  faults, probes

net == <<server, pipe>>
task == <<ctrl, registered, s_tls, nextSid, mapRx, known, home>>
api == <<stop, started, s_stop>>
vars == <<task, endpoints, dirty, pubip, api, net, faults, probes>>

Maximum(S) == IF S = {} THEN 0 ELSE CHOOSE n \in S : \A m \in S : m <= n

Callers == {"first", "home", "lost", "dirty"}
Steps == {"off", "register", "connect", "post", "build", "clear", "send", "headers", "segment",
          "probe", "poll", "applied"}

TypeOK ==
  /\ ctrl \in [pc : Steps, caller : Callers,
               body : [list : Seq(Address), sid : Nat]]
  /\ registered \in BOOLEAN /\ s_stop \in BOOLEAN
  /\ s_tls \in {"null", "open", "dead"}
  /\ nextSid \in Nat /\ mapRx \in [sid : Nat, done : BOOLEAN]
  /\ known \in 0 .. MaxVersion /\ home \in BOOLEAN
  /\ endpoints \in [list : [1 .. MaxRecent -> Address \cup {"none"}], n : 0 .. MaxRecent]
  /\ dirty \in BOOLEAN
  /\ pubip.recent \in Seq(Address) /\ Len(pubip.recent) <= MaxRecent
  /\ pubip.pc \in {"none", "wait", "probe", "set", "dirty"}
  /\ stop \in {"idle", "close", "pubip", "task", "done"} /\ started \in BOOLEAN

Init ==
  /\ ctrl = [pc |-> "off", caller |-> "first", body |-> [list |-> <<>>, sid |-> 0]]
  /\ registered = FALSE /\ s_stop = FALSE /\ s_tls = "null"
  /\ nextSid = 1 /\ mapRx = [sid |-> 0, done |-> FALSE]
  /\ known = 0 /\ home = FALSE
  /\ endpoints = [list |-> [i \in 1 .. MaxRecent |-> "none"], n |-> 0]
  /\ dirty = FALSE
  /\ pubip = [pc |-> "none", at |-> 0, running |-> FALSE, cb |-> FALSE,
              recent |-> <<>>, inited |-> FALSE]
  /\ stop = "idle" /\ started = FALSE
  /\ server = [version |-> 1, asked |-> [sid |-> 0, list |-> <<>>],
               fed |-> <<>>, published |-> <<>>]
  /\ pipe = <<>> /\ faults = 0 /\ probes = 0

Fault == faults < MaxFaults /\ faults' = faults + 1

-----------------------------------------------------------------------------
(* The coordinator and the network.  server.fed maps the streams of this    *)
(* connection to the newest change sent on them.                            *)

NoRequest == [sid |-> 0, list |-> <<>>]
Frame(sid, kind, version) == [sid |-> sid, kind |-> kind, version |-> version]
Feed(sid, version) ==
  [s \in DOMAIN server.fed \cup {sid} |->
     IF s = sid THEN version ELSE server.fed[s]]

\* The headers of an accepted request, and the full map.
Accept ==
  /\ s_tls = "open" /\ server.asked.sid # 0 /\ Len(pipe) + 2 <= MaxPipe
  /\ pipe' = pipe \o <<Frame(server.asked.sid, "headers", 0),
                       Frame(server.asked.sid, "full", server.version)>>
  /\ server' = [server EXCEPT !.fed = Feed(server.asked.sid, server.version),
                              !.published = server.asked.list,
                              !.asked = NoRequest]
  /\ UNCHANGED <<task, endpoints, dirty, pubip, api, faults, probes>>

Refuse ==
  /\ s_tls = "open" /\ server.asked.sid # 0 /\ Len(pipe) < MaxPipe
  /\ pipe' = Append(pipe, Frame(server.asked.sid, "refused", 0))
  /\ server' = [server EXCEPT !.asked = NoRequest]
  /\ Fault
  /\ UNCHANGED <<task, endpoints, dirty, pubip, api, probes>>

TailnetChanges ==
  /\ server.version < MaxVersion
  /\ server' = [server EXCEPT !.version = @ + 1]
  /\ UNCHANGED <<task, endpoints, dirty, pubip, api, pipe, faults, probes>>

SendChange(sid) ==
  /\ s_tls = "open" /\ server.fed[sid] < server.version /\ Len(pipe) < MaxPipe
  /\ pipe' = Append(pipe, Frame(sid, "change", server.fed[sid] + 1))
  /\ server' = [server EXCEPT !.fed[sid] = @ + 1]
  /\ UNCHANGED <<task, endpoints, dirty, pubip, api, faults, probes>>

\* A stream that a newer one of the same node replaces is not fed for ever.
Supersede(sid) ==
  /\ sid < Maximum(DOMAIN server.fed)
  /\ server' = [server EXCEPT !.fed =
                  [s \in DOMAIN server.fed \ {sid} |-> server.fed[s]]]
  /\ UNCHANGED <<task, endpoints, dirty, pubip, api, pipe, faults, probes>>

\* A segment that says nothing new.
KeepAlive(sid) ==
  /\ s_tls = "open" /\ pipe = <<>> /\ server.asked.sid = 0
  /\ sid = Maximum(DOMAIN server.fed)
  /\ pipe' = <<Frame(sid, "keepalive", 0)>>
  /\ UNCHANGED <<task, endpoints, dirty, pubip, api, server, faults, probes>>

EndStream(sid) ==
  /\ s_tls = "open" /\ Len(pipe) < MaxPipe
  /\ sid = Maximum(DOMAIN server.fed)
  /\ pipe' = Append(pipe, Frame(sid, "end", 0))
  /\ server' = [server EXCEPT !.fed = <<>>]
  /\ Fault
  /\ UNCHANGED <<task, endpoints, dirty, pubip, api, probes>>

Disconnected == [server EXCEPT !.asked = NoRequest, !.fed = <<>>]

Lose ==
  /\ s_tls = "open" /\ Fault
  /\ s_tls' = "dead" /\ pipe' = <<>> /\ server' = Disconnected
  /\ UNCHANGED <<ctrl, registered, nextSid, mapRx, known, home,
                 endpoints, dirty, pubip, api, probes>>

\* A connection that carries no stream and no request is closed by the
\* coordinator, or by something on the way.
Idle ==
  /\ s_tls = "open" /\ pipe = <<>> /\ ctrl.pc = "poll"
  /\ mapRx.sid \notin DOMAIN server.fed
  /\ s_tls' = "dead" /\ pipe' = <<>> /\ server' = Disconnected
  /\ UNCHANGED <<ctrl, registered, nextSid, mapRx, known, home,
                 endpoints, dirty, pubip, api, faults, probes>>

Coordinator ==
  \/ Accept \/ Refuse \/ TailnetChanges \/ Lose \/ Idle
  \/ \E sid \in DOMAIN server.fed :
       SendChange(sid) \/ KeepAlive(sid) \/ EndStream(sid) \/ Supersede(sid)

-----------------------------------------------------------------------------
(* ts_ctrl_register: ctrl_connect closes a leftover connection, fetches the  *)
(* key over one of its own, and opens the one that stays.                    *)

At(pc) == ctrl.pc = pc
Goto(pc) == ctrl' = [ctrl EXCEPT !.pc = pc]

\* The poll loop goes on polling when a registration fails, ctrl_task tries
\* again.
RegisterFailed == IF ctrl.caller = "lost" THEN Goto("poll") ELSE Goto("register")

\* With s_stop set every read and write fails.
MayFail == IF s_stop THEN UNCHANGED faults ELSE Fault

\* The server's key, over a connection that is closed again.
FetchKey ==
  /\ At("register") /\ ~s_stop /\ Goto("connect")
  /\ s_tls' = "null" /\ pipe' = <<>> /\ server' = Disconnected
  /\ UNCHANGED <<registered, nextSid, mapRx, known, home,
                 endpoints, dirty, pubip, api, faults, probes>>

\* h2_init: nothing received, and streams are counted from 1 again.
H2Init == nextSid' = 1 /\ pipe' = <<>>

\* The upgrade, the Noise handshake and the exchange of SETTINGS.
Connect ==
  /\ At("connect") /\ ~s_stop /\ Goto("post")
  /\ s_tls' = "open" /\ H2Init
  /\ UNCHANGED <<registered, mapRx, known, home,
                 endpoints, dirty, pubip, api, server, faults, probes>>

ConnectFails ==
  /\ At("register") \/ At("connect")
  /\ MayFail /\ RegisterFailed
  /\ s_tls' = "null" /\ pipe' = <<>> /\ server' = Disconnected
  /\ UNCHANGED <<registered, nextSid, mapRx, known, home,
                 endpoints, dirty, pubip, api, probes>>

\* The RegisterRequest takes a stream; approved or not, the node counts as
\* registered.
Post ==
  /\ At("post") /\ s_tls = "open" /\ ~s_stop /\ Goto("build")
  /\ nextSid' = nextSid + 2 /\ registered' = TRUE
  /\ UNCHANGED <<s_tls, mapRx, known, home,
                 endpoints, dirty, pubip, api, net, faults, probes>>

\* An error leaves the connection to the next attempt.
PostFails ==
  /\ At("post") /\ RegisterFailed
  /\ IF s_tls = "open" THEN MayFail ELSE UNCHANGED faults
  /\ nextSid' = nextSid + 2
  /\ UNCHANGED <<registered, s_tls, mapRx, known, home,
                 endpoints, dirty, pubip, api, net, probes>>

-----------------------------------------------------------------------------
(* ts_ctrl_map_request *)

\* What its callers make of a failure: only the first is tried again.
Failed ==
  CASE ctrl.caller = "first" -> Goto("register")
    [] ctrl.caller = "home" -> Goto("probe")
    [] OTHER -> Goto("poll")

\* The body takes the endpoints of the moment ...
Build ==
  /\ At("build") /\ registered
  /\ ctrl' = [ctrl EXCEPT !.pc = "clear",
                          !.body.list = SubSeq(endpoints.list, 1, endpoints.n)]
  /\ UNCHANGED <<registered, s_tls, nextSid, mapRx, known, home,
                 endpoints, dirty, pubip, api, net, faults, probes>>

\* ... and the flag is cleared after they were read.
ClearDirty ==
  /\ At("clear") /\ dirty' = FALSE /\ Goto("send")
  /\ UNCHANGED <<registered, s_tls, nextSid, mapRx, known, home,
                 endpoints, pubip, api, net, faults, probes>>

Send ==
  /\ At("send") /\ s_tls = "open" /\ ~s_stop
  /\ nextSid' = nextSid + 2
  /\ server' = [server EXCEPT !.asked = [sid |-> nextSid, list |-> ctrl.body.list]]
  /\ ctrl' = [ctrl EXCEPT !.pc = "headers", !.body.sid = nextSid]
  /\ UNCHANGED <<registered, s_tls, mapRx, known, home,
                 endpoints, dirty, pubip, api, pipe, faults, probes>>

\* Also without memory for the body, before a stream is taken.
SendFails ==
  /\ At("send")
  /\ IF s_tls = "open" /\ ~s_stop THEN Fault ELSE faults' = faults
  /\ Failed
  /\ UNCHANGED <<registered, s_tls, nextSid, mapRx, known, home,
                 endpoints, dirty, pubip, api, net, probes>>

Readable == s_tls = "open" /\ ~s_stop /\ pipe # <<>>
Broken == s_tls # "open" \/ s_stop

\* The frames of other streams are dropped, whatever they carry.
ReadHeaders ==
  /\ At("headers") /\ Readable
  /\ pipe' = Tail(pipe)
  /\ LET f == Head(pipe) IN
       \/ f.sid # ctrl.body.sid /\ UNCHANGED <<ctrl, mapRx>>
       \/ /\ f.sid = ctrl.body.sid /\ f.kind = "headers"
          /\ mapRx' = [sid |-> ctrl.body.sid, done |-> FALSE] /\ Goto("segment")
       \/ /\ f.sid = ctrl.body.sid /\ f.kind = "refused"
          /\ Failed /\ UNCHANGED mapRx
  /\ UNCHANGED <<registered, s_tls, nextSid, known, home,
                 endpoints, dirty, pubip, api, server, faults, probes>>

HeadersFail ==
  /\ At("headers") /\ Broken /\ Failed
  /\ UNCHANGED <<registered, s_tls, nextSid, mapRx, known, home,
                 endpoints, dirty, pubip, api, net, faults, probes>>


\* map_read_one on the stream of the request: one segment.  Without memory
\* for it, the segment is drained.
Own == At("segment") \/ At("poll")

\* Mutant: segments of any stream are taken.
AnyStream(f) == f.kind \in {"full", "change", "keepalive", "end"}
ForUs(f) == f.sid = mapRx.sid /\ f.kind \in {"full", "change", "keepalive", "end"}

Skip ==
  /\ Own /\ Readable /\ ~mapRx.done /\ ~ForUs(Head(pipe)) /\ pipe' = Tail(pipe)
  /\ UNCHANGED <<task, endpoints, dirty, pubip, api, server, faults, probes>>

\* ts_netmap_apply: a segment is taken as the newest word on what it holds.
Apply(f) == IF f.kind = "keepalive" THEN known ELSE f.version

ReadSegment ==
  /\ Own /\ Readable /\ ~mapRx.done
  /\ ForUs(Head(pipe)) /\ Head(pipe).kind # "end"
  /\ pipe' = Tail(pipe)
  /\ known' = Apply(Head(pipe))
  /\ home' \in IF Head(pipe).kind = "full" THEN {TRUE, home} ELSE {home}
  /\ IF At("poll") THEN Goto("applied")
     ELSE IF ctrl.caller = "first" /\ home'
          THEN ctrl' = [ctrl EXCEPT !.pc = "build", !.caller = "home"]
          ELSE IF ctrl.caller = "home" THEN Goto("probe") ELSE Goto("poll")
  /\ UNCHANGED <<registered, s_tls, nextSid, mapRx,
                 endpoints, dirty, pubip, api, server, faults, probes>>

DrainSegment ==
  /\ Own /\ Readable /\ ~mapRx.done
  /\ ForUs(Head(pipe)) /\ Head(pipe).kind # "end"
  /\ pipe' = Tail(pipe) /\ Fault
  /\ IF At("poll") THEN UNCHANGED ctrl ELSE Failed
  /\ UNCHANGED <<registered, s_tls, nextSid, mapRx, known, home,
                 endpoints, dirty, pubip, api, server, probes>>

ReadEnd ==
  /\ Own /\ Readable /\ ~mapRx.done
  /\ ForUs(Head(pipe)) /\ Head(pipe).kind = "end"
  /\ pipe' = Tail(pipe) /\ mapRx' = [mapRx EXCEPT !.done = TRUE]
  /\ UNCHANGED <<ctrl, registered, s_tls, nextSid, known, home,
                 endpoints, dirty, pubip, api, server, faults, probes>>

SegmentFails ==
  /\ At("segment") /\ (Broken \/ mapRx.done) /\ Failed
  /\ UNCHANGED <<registered, s_tls, nextSid, mapRx, known, home,
                 endpoints, dirty, pubip, api, net, faults, probes>>

-----------------------------------------------------------------------------
(* ts_ctrl_poll_loop and the rest of ctrl_task *)

\* ts_pubip_init the first time (it may fail for want of memory), then
\* ts_pubip_kick, which gives the semaphore as the timer does.
StartProbe ==
  /\ At("probe") /\ Goto("poll")
  /\ \/ /\ ~pubip.inited /\ UNCHANGED faults
        /\ pubip' = [pubip EXCEPT !.pc = "wait", !.running = TRUE,
                                  !.cb = TRUE, !.inited = TRUE]
     \/ ~pubip.inited /\ Fault /\ UNCHANGED pubip
     \/ pubip.inited /\ UNCHANGED <<pubip, faults>>
  /\ UNCHANGED <<registered, s_tls, nextSid, mapRx, known, home,
                 endpoints, dirty, api, net, probes>>

\* ts_derp_set_home, of module Derp, and a look at the flag.
Applied ==
  /\ At("applied")
  /\ IF dirty /\ registered
     THEN ctrl' = [ctrl EXCEPT !.pc = "build", !.caller = "dirty"]
     ELSE Goto("poll")
  /\ UNCHANGED <<registered, s_tls, nextSid, mapRx, known, home,
                 endpoints, dirty, pubip, api, net, faults, probes>>

\* Mutant: the loop leaves a broken connection to whoever polls it next.
StaysBroken ==
  /\ At("poll") /\ (Broken \/ mapRx.done) /\ ~s_stop
  /\ UNCHANGED vars

\* The reader has failed: a new registration, whose map request may fail
\* without anybody looking.
Reconnect ==
  /\ At("poll") /\ (Broken \/ mapRx.done) /\ ~s_stop
  /\ s_tls' = "null" /\ pipe' = <<>> /\ server' = Disconnected
  /\ registered' = FALSE
  /\ ctrl' = [ctrl EXCEPT !.pc = "register", !.caller = "lost"]
  /\ UNCHANGED <<nextSid, mapRx, known, home,
                 endpoints, dirty, pubip, api, faults, probes>>

LeavePollLoop ==
  /\ At("poll") /\ s_stop
  /\ ctrl' = [ctrl EXCEPT !.pc = "register", !.caller = "first"]
  /\ UNCHANGED <<registered, s_tls, nextSid, mapRx, known, home,
                 endpoints, dirty, pubip, api, net, faults, probes>>

Ctrl ==
  \/ FetchKey \/ Connect \/ ConnectFails \/ Post \/ PostFails \/ Build \/ ClearDirty \/ Send \/ SendFails
  \/ ReadHeaders \/ HeadersFail \/ Skip \/ ReadSegment \/ DrainSegment
  \/ ReadEnd \/ SegmentFails \/ StartProbe \/ Applied \/ Reconnect
  \/ LeavePollLoop

-----------------------------------------------------------------------------
(* The probe *)

Shortened(s) == IF Len(s) > MaxRecent THEN SubSeq(s, 1, MaxRecent) ELSE s

\* lru_touch
Touch(recent, a) ==
  Shortened(<<a>> \o SelectSeq(recent, LAMBDA b : b # a))

IdleOrGone == IF pubip.running THEN "wait" ELSE "none"

PubipUnchanged == UNCHANGED <<task, api, net, faults>>

\* The timer gives the semaphore at any time: that it was given is no state.
Wake ==
  /\ pubip.pc = "wait"
  /\ pubip' = [pubip EXCEPT !.pc = IF pubip.running THEN "probe" ELSE "none"]
  /\ UNCHANGED <<endpoints, dirty, probes>> /\ PubipUnchanged

\* Neither service answers with an address.
ProbeFails ==
  /\ pubip.pc = "probe" /\ pubip' = [pubip EXCEPT !.pc = IdleOrGone]
  /\ UNCHANGED <<endpoints, dirty, probes>> /\ PubipUnchanged

\* run_probe: the callback is called when the list changed; it formats the
\* list into strings of its own.
Probe(a) ==
  /\ pubip.pc = "probe" /\ probes < MaxProbes /\ probes' = probes + 1
  /\ LET recent == Touch(pubip.recent, a) IN
       pubip' = [pubip EXCEPT
         !.recent = recent, !.at = 1,
         !.pc = IF recent # pubip.recent /\ pubip.cb THEN "set" ELSE IdleOrGone]
  /\ UNCHANGED <<endpoints, dirty>> /\ PubipUnchanged

\* ts_ctrl_set_endpoints writes one entry after the other, then the number.
SetEndpoint ==
  /\ pubip.pc = "set" /\ pubip.at <= Len(pubip.recent)
  /\ endpoints' = [endpoints EXCEPT !.list[pubip.at] = pubip.recent[pubip.at]]
  /\ pubip' = [pubip EXCEPT !.at = @ + 1]
  /\ UNCHANGED <<dirty, probes>> /\ PubipUnchanged

SetCount ==
  /\ pubip.pc = "set" /\ pubip.at > Len(pubip.recent)
  /\ endpoints' = [endpoints EXCEPT !.n = Len(pubip.recent)]
  /\ pubip' = [pubip EXCEPT !.pc = "dirty"]
  /\ UNCHANGED <<dirty, probes>> /\ PubipUnchanged

SignalDirty ==
  /\ pubip.pc = "dirty" /\ dirty' = TRUE
  /\ pubip' = [pubip EXCEPT !.pc = IdleOrGone]
  /\ UNCHANGED <<endpoints, probes>> /\ PubipUnchanged

Pubip ==
  \/ Wake \/ ProbeFails \/ SetEndpoint \/ SetCount \/ SignalDirty
  \/ \E a \in Address : Probe(a)

-----------------------------------------------------------------------------
(* The client's start and stop.  (Derp and Disco have the rest of the stop; *)
(* that it frees the TLS object under the control task is undefined there,  *)
(* and here an error of the next read.)                                     *)

Start ==
  /\ ~started /\ stop = "idle" /\ ~s_stop
  /\ started' = TRUE
  /\ registered' = FALSE
  /\ ctrl' = [ctrl EXCEPT !.pc = "register", !.caller = "first"]
  /\ UNCHANGED <<s_stop, stop, s_tls, nextSid, mapRx, known, home,
                 endpoints, dirty, pubip, net, faults, probes>>

StopSignal ==
  /\ started /\ stop = "idle" /\ stop' = "close"
  /\ s_stop' = TRUE
  /\ UNCHANGED <<task, endpoints, dirty, pubip, started, net, faults, probes>>

StopClose ==
  /\ stop = "close" /\ stop' = "pubip"
  /\ s_tls' = "null" /\ pipe' = <<>> /\ server' = Disconnected
  /\ UNCHANGED <<ctrl, registered, nextSid, mapRx, known, home,
                 endpoints, dirty, pubip, s_stop, started, faults, probes>>

\* ts_pubip_deinit wakes the probe's task and gives it a moment.
StopPubip ==
  /\ stop = "pubip" /\ stop' = "task"
  /\ pubip' = [pubip EXCEPT !.running = FALSE]
  /\ UNCHANGED <<task, endpoints, dirty, s_stop, started, net, faults, probes>>

\* In that moment a task that waits has seen the semaphore; one that is in a
\* probe runs on.
StopTask ==
  /\ stop = "task" /\ pubip.pc # "wait" /\ stop' = "done"
  /\ pubip' = [pubip EXCEPT !.cb = FALSE,
                            !.recent = IF pubip.pc = "set" THEN @ ELSE <<>>]
  /\ Goto("off") /\ started' = FALSE
  /\ UNCHANGED <<registered, s_tls, nextSid, mapRx, known, home,
                 endpoints, dirty, s_stop, net, faults, probes>>

Api == Start \/ StopSignal \/ StopClose \/ StopPubip \/ StopTask

Next == Ctrl \/ Pubip \/ Api \/ Coordinator

\* Tasks run, the coordinator answers and an idle connection is given up.
\* Nothing obliges the user to start or to stop the client.
Fairness ==
  /\ WF_vars(Ctrl)
  /\ WF_vars(Accept) /\ WF_vars(Idle)
  /\ WF_vars(StopClose) /\ WF_vars(StopPubip) /\ WF_vars(StopTask)

Spec == Init /\ [][Next]_vars /\ Fairness

-----------------------------------------------------------------------------
(* Properties *)

\* The network map never goes back to an older state of the tailnet: a change
\* still on its way on a stream that a newer request has superseded, or the
\* rest of an old connection, is not applied over the newer map.
MapNeverBack == [][known' >= known]_vars

\* The stream the client reads is one the coordinator feeds.
Listening == s_tls = "open" /\ ~mapRx.done /\ mapRx.sid \in DOMAIN server.fed

\* However often the connection, a request or a registration fails, the
\* client ends up reading a stream the coordinator feeds, until it is
\* stopped.
ListensAgain == []<>(Listening \/ s_stop \/ ~started)

\* The recent addresses are distinct, so that the oldest one is dropped only
\* for a fifth network, and both ways out of a home with two stay advertised.
RecentDistinct ==
  \A i, j \in 1 .. Len(pubip.recent) :
    i # j => pubip.recent[i] # pubip.recent[j]

Quiet ==
  /\ At("poll") /\ Listening /\ pubip.pc \in {"none", "wait", "probe"}
  /\ faults = 0 /\ stop = "idle"

\* ts_ctrl_signal_endpoints_dirty: an update of the endpoints lands on the
\* next segment or reconnect, so it is not forgotten before it has landed.
UpdateLands ==
  Quiet /\ ~dirty => server.published = SubSeq(endpoints.list, 1, endpoints.n)

=============================================================================
