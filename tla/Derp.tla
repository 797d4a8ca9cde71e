-------------------------------- MODULE Derp --------------------------------
(***************************************************************************)
(* The pool of DERP relay links (components/tailscale/src/                 *)
(* tailscale_derp.c).  DERP does not forward between regions, so a packet  *)
(* for a peer leaves over a link to that peer's home region, opened on     *)
(* demand.  Links live in a fixed array of slots under one mutex:          *)
(*   - a sender (the tcpip thread, DISCO, the control task) asks           *)
(*     derp_ensure_region for a link; it gets a ready one, or a slot is    *)
(*     claimed and a connect task spawned, and the packet is dropped;      *)
(*   - the connect task reaps what an earlier link left in the slot, dials *)
(*     and upgrades, and starts a receiver, a writer and a keepalive task; *)
(*   - the receiver's exit is what makes a link dead, and a dead slot is   *)
(*     claimed again by the next sender for the same region;               *)
(*   - tailscale_esp32_stop tears every slot down from its own task.       *)
(* The workers share the slot's record and look at it without the mutex.   *)
(* Packets are left out, and with them the keepalive task, which only      *)
(* queues one: a queue is there or not.                                    *)
(***************************************************************************)
EXTENDS Naturals, FiniteSets

CONSTANTS
  NumSlots,    \* DERP_MAX_CONNS
  Regions,     \* region ids that peers or the home setting ask for
  NoRegion,    \* a slot never used
  Senders,     \* tasks that call ts_derp_send / ts_derp_set_home
  Tasks,       \* connect tasks that may exist at once
  MaxWorkers   \* bound: workers of one kind on one slot

ASSUME DerpAssumption ==
  /\ NumSlots \in Nat \ {0}
  /\ MaxWorkers \in Nat \ {0} /\ NoRegion \notin Regions
  /\ IsFiniteSet(Regions) /\ IsFiniteSet(Senders) /\ IsFiniteSet(Tasks)

Slots == 1..NumSlots

VARIABLES
  inUse, connecting, region, running,  \* derp_conn_t, per slot
  tls,       \* the slot's tls pointer is set
  queue,     \* the slot has its tx_queue
  rx, tx,    \* receivers and writers alive on the slot
  sender,    \* where each sender is, and on which slot
  task,      \* where each connect task is, with its slot and region
  stop,      \* ts_derp_disconnect: where it is, and at which slot
  net        \* environment: relays reachable, memory there, links hold

slotVars == <<inUse, connecting, region, running, tls, queue>>
workers == <<rx, tx>>
vars == <<slotVars, workers, sender, task, stop, net>>

NoSlot == 0
Idle == [pc |-> "idle", slot |-> NoSlot]
NoTask == [pc |-> "none", slot |-> NoSlot, region |-> NoRegion]

TypeOK ==
  /\ inUse \in [Slots -> BOOLEAN] /\ connecting \in [Slots -> BOOLEAN]
  /\ running \in [Slots -> BOOLEAN] /\ tls \in [Slots -> BOOLEAN]
  /\ region \in [Slots -> Regions \cup {NoRegion}]
  /\ queue \in [Slots -> BOOLEAN]
  /\ rx \in [Slots -> 0..MaxWorkers] /\ tx \in [Slots -> 0..MaxWorkers]
  /\ sender \in [Senders -> [pc : {"idle", "spawn"},
                             slot : Slots \cup {NoSlot}]]
  /\ task \in [Tasks ->
       [pc : {"none", "start", "settle", "open", "dial", "upgrade", "failed", "up"},
        slot : Slots \cup {NoSlot}, region : Regions \cup {NoRegion}]]
  /\ stop \in [pc : {"idle", "look", "settle", "done"},
               slot : 0..NumSlots + 1]
  /\ net \in BOOLEAN

Init ==
  /\ inUse = [i \in Slots |-> FALSE] /\ connecting = [i \in Slots |-> FALSE]
  /\ running = [i \in Slots |-> FALSE] /\ tls = [i \in Slots |-> FALSE]
  /\ region = [i \in Slots |-> NoRegion] /\ queue = [i \in Slots |-> FALSE]
  /\ rx = [i \in Slots |-> 0] /\ tx = [i \in Slots |-> 0]
  /\ sender = [s \in Senders |-> Idle]
  /\ task = [t \in Tasks |-> NoTask]
  /\ stop = [pc |-> "idle", slot |-> NoSlot]
  /\ net = TRUE

(***************************************************************************)
(* Senders.                                                                *)
(***************************************************************************)
Living == stop.pc = "idle"    \* ts_derp_disconnect has not been called

First(S) == CHOOSE i \in S : \A j \in S : i <= j
\* Mutant: a slot whose link is still being made is not found.
ServingIfUp(r) == {i \in Slots : inUse[i] /\ region[i] = r /\ running[i]}
Serving(r) == {i \in Slots : inUse[i] /\ region[i] = r}
Free == {i \in Slots : ~inUse[i]}
Ready(i) == running[i] /\ tls[i]

\* derp_ensure_region, the part under the pool mutex.  Where it changes
\* nothing there is no action: the slot is connecting or the pool is full and
\* the packet is dropped, or the link is ready and the packet is queued.
\* Bound: nobody asks for a link once the stop has begun (the calls possible
\* until the netif and the control task are deleted are left out).
CanSend(s) == sender[s] = Idle /\ Living

\* Mutant: a dead slot is claimed without marking it.
ReclaimUnmarked(s, r) ==
  /\ CanSend(s) /\ Serving(r) # {}
  /\ LET i == First(Serving(r)) IN
       /\ ~connecting[i] /\ ~Ready(i)
       /\ sender' = [sender EXCEPT ![s] = [pc |-> "spawn", slot |-> i]]
  /\ UNCHANGED <<slotVars, workers, task, stop, net>>

\* Mutant: a slot that still has its TLS link is taken for a live one.
ReclaimWithoutTls(s, r) ==
  /\ CanSend(s) /\ Serving(r) # {}
  /\ LET i == First(Serving(r)) IN
       /\ ~connecting[i] /\ ~tls[i]
       /\ connecting' = [connecting EXCEPT ![i] = TRUE]
       /\ sender' = [sender EXCEPT ![s] = [pc |-> "spawn", slot |-> i]]
  /\ UNCHANGED <<inUse, region, running, tls, queue, workers, task, stop, net>>

Reclaim(s, r) ==
  /\ CanSend(s) /\ Serving(r) # {}
  /\ LET i == First(Serving(r)) IN
       /\ ~connecting[i] /\ ~Ready(i)
       /\ connecting' = [connecting EXCEPT ![i] = TRUE]
       /\ sender' = [sender EXCEPT ![s] = [pc |-> "spawn", slot |-> i]]
  /\ UNCHANGED <<inUse, region, running, tls, queue, workers, task, stop, net>>

Reserve(s, r) ==
  /\ CanSend(s) /\ Serving(r) = {} /\ Free # {}
  /\ LET i == First(Free) IN
       /\ inUse' = [inUse EXCEPT ![i] = TRUE]
       /\ connecting' = [connecting EXCEPT ![i] = TRUE]
       /\ region' = [region EXCEPT ![i] = r]
       /\ running' = [running EXCEPT ![i] = FALSE]
       /\ tls' = [tls EXCEPT ![i] = FALSE]
       /\ sender' = [sender EXCEPT ![s] = [pc |-> "spawn", slot |-> i]]
  /\ UNCHANGED <<queue, workers, task, stop, net>>

Ensure(s, r) == Reclaim(s, r) \/ Reserve(s, r)

\* xTaskCreate(derp_connect_task): the task reads its region from the slot.
Spawn(s) ==
  /\ sender[s].pc = "spawn"
  /\ \E t \in Tasks : task[t] = NoTask
  /\ LET i == sender[s].slot
         t == CHOOSE u \in Tasks : task[u] = NoTask
     IN task' = [task EXCEPT ![t] =
                   [pc |-> "start", slot |-> i, region |-> region[i]]]
  /\ sender' = [sender EXCEPT ![s] = Idle]
  /\ UNCHANGED <<slotVars, workers, stop, net>>

SpawnFails(s) ==
  /\ sender[s].pc = "spawn" /\ ~net
  /\ inUse' = [inUse EXCEPT ![sender[s].slot] = FALSE]
  /\ connecting' = [connecting EXCEPT ![sender[s].slot] = FALSE]
  /\ sender' = [sender EXCEPT ![s] = Idle]
  /\ UNCHANGED <<region, running, tls, queue, workers, task, stop, net>>

(***************************************************************************)
(* The connect task.                                                       *)
(***************************************************************************)
At(t, pc) == task[t].pc = pc
Goto(t, pc) == task' = [task EXCEPT ![t].pc = pc]

\* derp_conn_teardown up to its delay: running cleared, the link destroyed.
TearDown(i) ==
  /\ running' = [running EXCEPT ![i] = FALSE]
  /\ tls' = [tls EXCEPT ![i] = FALSE]

Reap(t) ==
  /\ At(t, "start")
  /\ LET i == task[t].slot IN
       IF tls[i] \/ queue[i]
         THEN TearDown(i) /\ Goto(t, "settle")
         ELSE Goto(t, "open") /\ UNCHANGED <<running, tls>>
  /\ UNCHANGED <<inUse, connecting, region, queue, workers, sender, stop, net>>

\* derp_conn_free_resources, after the 100 ms delay.  It does not look
\* whether the workers have left: the writer may still wait on this queue,
\* the keepalive task may still sleep.
FreeResources(t) ==
  /\ At(t, "settle")
  /\ queue' = [queue EXCEPT ![task[t].slot] = FALSE]
  /\ Goto(t, "open")
  /\ UNCHANGED <<inUse, connecting, region, running, tls, workers, sender, stop, net>>

\* The netmap does not know the region.
UnknownRegion(t) ==
  /\ At(t, "open") /\ ~net
  /\ Goto(t, "failed")
  /\ UNCHANGED <<slotVars, workers, sender, stop, net>>

\* derp_conn_open as far as esp_tls_init: the pointer is set before dialling.
Dial(t) ==
  /\ At(t, "open")
  /\ region' = [region EXCEPT ![task[t].slot] = task[t].region]
  /\ tls' = [tls EXCEPT ![task[t].slot] = TRUE]
  /\ Goto(t, "dial")
  /\ UNCHANGED <<inUse, connecting, running, queue, workers, sender, stop, net>>

DialFails(t) ==
  /\ At(t, "dial") /\ ~net
  /\ tls' = [tls EXCEPT ![task[t].slot] = FALSE]
  /\ Goto(t, "failed")
  /\ UNCHANGED <<inUse, connecting, region, running, queue, workers, sender, stop, net>>

\* The TLS link is there: the queue is made, unless one was left.
Upgrade(t) ==
  /\ At(t, "dial")
  /\ queue' = [queue EXCEPT ![task[t].slot] = TRUE]
  /\ Goto(t, "upgrade")
  /\ UNCHANGED <<inUse, connecting, region, running, tls, workers, sender, stop, net>>

\* derp_http_upgrade: the relay does not switch protocols, sends no key or
\* does not take the ClientInfo box.  The queue stays.
UpgradeFails(t) ==
  /\ At(t, "upgrade") /\ ~net
  /\ tls' = [tls EXCEPT ![task[t].slot] = FALSE]
  /\ Goto(t, "failed")
  /\ UNCHANGED <<inUse, connecting, region, running, queue, workers, sender, stop, net>>

\* The link is up and its three workers start.
Up(t) ==
  /\ At(t, "upgrade")
  /\ LET i == task[t].slot IN
       /\ rx[i] < MaxWorkers /\ tx[i] < MaxWorkers
       /\ running' = [running EXCEPT ![i] = TRUE]
       /\ rx' = [rx EXCEPT ![i] = @ + 1]
       /\ tx' = [tx EXCEPT ![i] = @ + 1]
  /\ Goto(t, "up")
  /\ UNCHANGED <<inUse, connecting, region, tls, queue, sender, stop, net>>

\* Under the mutex: a failed connect gives its slot back.
Finish(t) ==
  /\ task[t].pc \in {"failed", "up"}
  /\ LET i == task[t].slot IN
       /\ inUse' = [inUse EXCEPT ![i] = @ /\ At(t, "up")]
       /\ connecting' = [connecting EXCEPT ![i] = FALSE]
  /\ task' = [task EXCEPT ![t] = NoTask]
  /\ UNCHANGED <<region, running, tls, queue, workers, sender, stop, net>>

(***************************************************************************)
(* The workers of a link.                                                  *)
(***************************************************************************)
\* Mutant: the receiver leaves without clearing running.
RxLeaves(i) ==
  /\ rx[i] > 0
  /\ ~net \/ ~running[i] \/ ~tls[i]
  /\ rx' = [rx EXCEPT ![i] = @ - 1]
  /\ UNCHANGED <<slotVars, tx, sender, task, stop, net>>

\* The receiver leaves on a read error or when told to, and clears running.
RxStops(i) ==
  /\ rx[i] > 0
  /\ ~net \/ ~running[i] \/ ~tls[i]
  /\ running' = [running EXCEPT ![i] = FALSE]
  /\ rx' = [rx EXCEPT ![i] = @ - 1]
  /\ UNCHANGED <<inUse, connecting, region, tls, queue, tx, sender, task, stop, net>>

\* The writer wakes at least every 500 ms, sees running cleared, drains its
\* queue and leaves; it stays if a new link has set running again.
TxStops(i) ==
  /\ tx[i] > 0 /\ ~running[i]
  /\ tx' = [tx EXCEPT ![i] = @ - 1]
  /\ UNCHANGED <<inUse, connecting, region, running, tls, queue, rx, sender, task, stop, net>>

(***************************************************************************)
(* ts_derp_disconnect: one pass over the slots, called once by             *)
(* tailscale_esp32_stop, while senders and connect tasks are still there.  *)
(***************************************************************************)
StopAt(pc, i) == stop' = [pc |-> pc, slot |-> i]

\* Bound: it is called only while the relays can be reached.
StopBegins ==
  /\ Living /\ net
  /\ StopAt("look", 1)
  /\ UNCHANGED <<slotVars, workers, sender, task, net>>

StopLooks ==
  /\ stop.pc = "look"
  /\ LET i == stop.slot IN
       IF i > NumSlots
         THEN StopAt("done", NoSlot) /\ UNCHANGED <<running, tls>>
         ELSE IF inUse[i]
           THEN TearDown(i) /\ StopAt("settle", i)
           ELSE StopAt("look", i + 1) /\ UNCHANGED <<running, tls>>
  /\ UNCHANGED <<inUse, connecting, region, queue, workers, sender, task, net>>

\* The delay is over: the resources go, and the slot with them.
StopFrees ==
  /\ stop.pc = "settle"
  /\ queue' = [queue EXCEPT ![stop.slot] = FALSE]
  /\ inUse' = [inUse EXCEPT ![stop.slot] = FALSE]
  /\ connecting' = [connecting EXCEPT ![stop.slot] = FALSE]
  /\ StopAt("look", stop.slot + 1)
  /\ UNCHANGED <<region, running, tls, workers, sender, task, net>>

Disconnect == StopBegins \/ StopLooks \/ StopFrees

(***************************************************************************)
(* The environment, and the specification.                                 *)
(***************************************************************************)
\* Bound: the network no longer changes once the stop has begun.
NetChanges ==
  /\ Living
  /\ net' = ~net
  /\ UNCHANGED <<slotVars, workers, sender, task, stop>>

Connect(t) == Reap(t) \/ FreeResources(t) \/ UnknownRegion(t) \/ Dial(t)
                \/ DialFails(t) \/ Upgrade(t) \/ UpgradeFails(t) \/ Up(t) \/ Finish(t)
Work(i) == RxStops(i) \/ TxStops(i)

Next ==
  \/ \E s \in Senders : \/ \E r \in Regions : Ensure(s, r)
                        \/ Spawn(s) \/ SpawnFails(s)
  \/ \E t \in Tasks : Connect(t)
  \/ \E i \in Slots : Work(i)
  \/ Disconnect
  \/ NetChanges

\* Tasks run on.  Every region somebody wants is asked for again and again:
\* WireGuard repeats its handshake towards each peer every five seconds.
Fairness ==
  /\ \A r \in Regions : SF_vars(\E s \in Senders : Ensure(s, r))
  /\ \A s \in Senders : WF_vars(Spawn(s) \/ SpawnFails(s))
  /\ \A t \in Tasks : WF_vars(Connect(t))
  /\ \A i \in Slots : WF_vars(RxStops(i)) /\ WF_vars(TxStops(i))

Spec == Init /\ [][Next]_vars
LiveSpec == Spec /\ Fairness

-----------------------------------------------------------------------------
(***************************************************************************)
(* Properties.  The first three speak of the client's life until it is     *)
(* told to stop: ts_derp_disconnect does not wait for connect tasks.       *)
(***************************************************************************)
Workload(i) == {t \in Tasks : task[t].slot = i} 
Spawning(i) == {s \in Senders : sender[s] = [pc |-> "spawn", slot |-> i]}

\* However senders race, no region is served by two slots: a second link to
\* the same region would log the first one out at the relay.
OnePerRegion ==
  Living => \A i, j \in Slots :
    inUse[i] /\ inUse[j] /\ region[i] = region[j] => i = j

\* The connecting flag is a lock: it is set exactly while one connect task,
\* or one sender about to spawn it, owns the slot.
OneConnector ==
  Living => \A i \in Slots :
    Cardinality(Workload(i)) + Cardinality(Spawning(i)) =
      IF connecting[i] THEN 1 ELSE 0

\* A link that senders may use is whole: one receiver that has its TLS link,
\* a queue and a writer; the link is never destroyed under its receiver.
LinkWhole ==
  Living => \A i \in Slots :
    /\ rx[i] = IF running[i] THEN 1 ELSE 0
    /\ running[i] => tls[i] /\ queue[i] /\ tx[i] > 0

\* Once the relays are reachable for good, every region that is asked for
\* gets a link, after any number of failed dials, dead links and reaps -
\* unless other regions hold every slot: a slot is never taken from a region
\* that has one, even if its link is dead and nobody asks for it any more.
RegionComesUp ==
  \A r \in Regions :
    <>[](net /\ Living) =>
      []<>(\/ \E i \in Serving(r) : Ready(i) /\ ~connecting[i]
           \/ \A i \in Slots : inUse[i] /\ region[i] # r)

\* What the comment on derp_conn_free_resources asks of its callers: the
\* queue is deleted only after the writer that waits on it has gone.
FreedAfterExit == \A i \in Slots : tx[i] > 0 => queue[i]
=============================================================================
