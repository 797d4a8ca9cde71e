------------------------------ MODULE DerpProofs ------------------------------
(***************************************************************************)
(* The three safety invariants of the DERP pool, for any number of slots,  *)
(* regions, senders and connect tasks.  What makes them inductive is that  *)
(* `connecting' is a lock with one owner (Locked), and what the owner may  *)
(* count on where it stands (Held): the slot's link is down, and the       *)
(* region, the TLS link and the queue are those it has set.                *)
(***************************************************************************)
EXTENDS Derp, FiniteSetTheorems, TLAPS

\* The first of some slots is one of them: slots are numbers.
LEMMA FirstIn ==
  ASSUME NEW S, S \subseteq Slots, S # {}
  PROVE  First(S) \in S
<1> DEFINE Upto(i) == {j \in S : j <= i}
           T == {Upto(i) : i \in S}
           R == StrictSubsetOrdering(S)
<1>1. IsFiniteSet(S)
  <2>1. IsFiniteSet(1 .. NumSlots)
    BY DerpAssumption, FS_Interval
  <2> QED
    BY <2>1, FS_Subset DEF Slots
<1>2. T \subseteq FiniteSubsetsOf(S) /\ T # {}
  <2>1. ASSUME NEW i \in S
        PROVE  Upto(i) \in SUBSET S /\ IsFiniteSet(Upto(i))
    BY <1>1, FS_Subset
  <2> QED
    BY <2>1 DEF FiniteSubsetsOf
<1>3. IsWellFoundedOn(R, FiniteSubsetsOf(S))
  BY FS_StrictSubsetOrderingWellFounded
<1>4. \E u \in T : \A v \in T : ~(<<v, u>> \in R)
  <2> HIDE DEF T, R
  <2> QED
    BY <1>2, <1>3, WFMin
<1>5. PICK i \in S : \A j \in S : ~(<<Upto(j), Upto(i)>> \in R)
  BY <1>4
<1>6. \A j \in S : i \in Nat /\ j \in Nat
  BY DerpAssumption DEF Slots
<1>7. ASSUME NEW j \in S, j < i
      PROVE  FALSE
  <2>1. Upto(j) \subseteq Upto(i) /\ i \in Upto(i) /\ i \notin Upto(j)
    BY <1>6, <1>7
  <2>2. <<Upto(j), Upto(i)>> \in R
    BY <2>1 DEF StrictSubsetOrdering
  <2> QED
    BY <2>2, <1>5
<1>8. \A j \in S : i <= j
  BY <1>6, <1>7
<1> QED
  BY <1>8 DEF First

-----------------------------------------------------------------------------
\* Where the connect tasks and the senders are, and on which slot.
Placed ==
  /\ \A t \in Tasks : IF task[t].pc = "none" THEN task[t] = NoTask
                                             ELSE task[t].slot \in Slots
  /\ \A s \in Senders : IF sender[s].pc = "idle" THEN sender[s] = Idle
                                                 ELSE sender[s].slot \in Slots

Has(t, i) == task[t].slot = i
Claims(s, i) == sender[s].pc = "spawn" /\ sender[s].slot = i

\* One owner at most, and connecting just if there is one.
Locked ==
  \A i \in Slots :
    /\ connecting[i] => inUse[i]
    /\ connecting[i] <=> (\E t \in Tasks : Has(t, i)) \/ (\E s \in Senders : Claims(s, i))
    /\ \A t, u \in Tasks : Has(t, i) /\ Has(u, i) => t = u
    /\ \A s, z \in Senders : Claims(s, i) /\ Claims(z, i) => s = z
    /\ \A t \in Tasks, s \in Senders : ~(Has(t, i) /\ Claims(s, i))

\* What the owner of a slot finds there.
Held ==
  /\ \A t \in Tasks, i \in Slots : Has(t, i) =>
       /\ task[t].region = region[i]
       /\ task[t].pc # "up" => ~running[i]
       /\ task[t].pc \in {"dial", "upgrade"} => tls[i]
       /\ task[t].pc = "upgrade" => queue[i]
  /\ \A s \in Senders, i \in Slots : Claims(s, i) => ~running[i]

Distinct ==
  \A i, j \in Slots : inUse[i] /\ inUse[j] /\ region[i] = region[j] => i = j

Whole ==
  \A i \in Slots :
    /\ rx[i] = IF running[i] THEN 1 ELSE 0
    /\ running[i] => inUse[i] /\ tls[i] /\ queue[i] /\ tx[i] > 0

Client == Placed /\ Locked /\ Held /\ Distinct /\ Whole

\* ts_derp_disconnect waits for nobody: afterwards none of this holds.
Inv == Living => TypeOK /\ Client

-----------------------------------------------------------------------------
LEMMA NothingAtFirst == Init => Inv
<1> SUFFICES ASSUME Init PROVE Inv
  OBVIOUS
<1> USE DEF Init
<1>1. NoSlot \notin Slots /\ Slots \subseteq Nat
  BY DerpAssumption DEF NoSlot, Slots
<1>2. TypeOK
  BY <1>1, DerpAssumption DEF TypeOK, Idle, NoTask, NoSlot
<1>3. Placed
  BY DEF Placed, Idle, NoTask
<1>4. \A i \in Slots : /\ \A t \in Tasks : ~Has(t, i)
                       /\ \A s \in Senders : ~Claims(s, i)
  BY <1>1 DEF Has, Claims, NoTask, Idle
<1>5. Locked /\ Held
  BY <1>4 DEF Locked, Held
<1>6. Distinct /\ Whole
  BY DEF Distinct, Whole
<1> QED
  BY <1>2, <1>3, <1>5, <1>6 DEF Inv, Client

LEMMA Owner ==
  ASSUME TypeOK, Client, NEW t \in Tasks, task[t].pc # "none"
  PROVE  /\ task[t].slot \in Slots /\ connecting[task[t].slot] /\ inUse[task[t].slot]
         /\ \A u \in Tasks : task[u].slot = task[t].slot => u = t
         /\ \A s \in Senders : ~Claims(s, task[t].slot)
BY DEF Client, Placed, Locked, Has

\* The region a sender asks for is served nowhere, or by a slot that it claims.
LEMMA EnsureKeeps ==
  ASSUME TypeOK, Client, Living, NEW s \in Senders, NEW r \in Regions, Ensure(s, r)
  PROVE  TypeOK' /\ Client'
<1>1. CASE Reclaim(s, r)
  <2> DEFINE i == First(Serving(r))
  <2>1. i \in Serving(r)
    BY <1>1, FirstIn DEF Reclaim, Serving
  <2>2. i \in Slots /\ inUse[i] /\ region[i] = r
    BY <2>1 DEF Serving
  <2>3. /\ ~connecting[i] /\ ~Ready(i) /\ sender[s] = Idle
        /\ connecting' = [connecting EXCEPT ![i] = TRUE]
        /\ sender' = [sender EXCEPT ![s] = [pc |-> "spawn", slot |-> i]]
        /\ UNCHANGED <<inUse, region, running, tls, queue, rx, tx, task, stop, net>>
    BY <1>1 DEF Reclaim, CanSend, workers
  <2> HIDE DEF i
  <2>4. ~running[i]
    BY <2>2, <2>3 DEF Client, Whole, Ready
  <2>5. TypeOK'
    BY <2>2, <2>3 DEF TypeOK
  <2>6. Placed'
    BY <2>2, <2>3 DEF Client, Placed, TypeOK
  <2>7. \A j \in Slots : /\ \A t \in Tasks : Has(t, j)' <=> Has(t, j)
                         /\ \A z \in Senders : Claims(z, j)' <=> Claims(z, j) \/ (z = s /\ j = i)
    BY <2>2, <2>3 DEF Has, Claims, TypeOK, Idle
  <2>8. Locked'
    BY <2>2, <2>3, <2>7 DEF Client, Locked, TypeOK
  <2>9. Held'
    BY <2>2, <2>3, <2>4, <2>7 DEF Client, Held
  <2> QED
    BY <2>3, <2>5, <2>6, <2>8, <2>9 DEF Client, Distinct, Whole
<1>2. CASE Reserve(s, r)
  <2> DEFINE i == First(Free)
  <2>1. i \in Free
    BY <1>2, FirstIn DEF Reserve, Free
  <2>2. i \in Slots /\ ~inUse[i]
    BY <2>1 DEF Free
  <2>3. /\ Serving(r) = {} /\ sender[s] = Idle
        /\ inUse' = [inUse EXCEPT ![i] = TRUE]
        /\ connecting' = [connecting EXCEPT ![i] = TRUE]
        /\ region' = [region EXCEPT ![i] = r]
        /\ running' = [running EXCEPT ![i] = FALSE]
        /\ tls' = [tls EXCEPT ![i] = FALSE]
        /\ sender' = [sender EXCEPT ![s] = [pc |-> "spawn", slot |-> i]]
        /\ UNCHANGED <<queue, rx, tx, task, stop, net>>
    BY <1>2 DEF Reserve, CanSend, workers
  <2> HIDE DEF i
  <2>4. ~running[i] /\ ~connecting[i]
    BY <2>2 DEF Client, Whole, Locked
  <2>5. TypeOK'
    BY <2>2, <2>3 DEF TypeOK
  <2>6. Placed'
    BY <2>2, <2>3 DEF Client, Placed, TypeOK
  <2>7. \A j \in Slots : /\ \A t \in Tasks : Has(t, j)' <=> Has(t, j)
                         /\ \A z \in Senders : Claims(z, j)' <=> Claims(z, j) \/ (z = s /\ j = i)
    BY <2>2, <2>3 DEF Has, Claims, TypeOK, Idle
  <2>8. Locked'
    BY <2>2, <2>3, <2>4, <2>7 DEF Client, Locked, TypeOK
  <2>9. \A t \in Tasks : ~Has(t, i)
    BY <2>2, <2>4 DEF Client, Locked
  <2>10. Held'
    BY <2>2, <2>3, <2>7, <2>9 DEF Client, Held, TypeOK
  <2>11. Distinct'
    BY <2>2, <2>3 DEF Client, Distinct, Serving, TypeOK
  <2>12. Whole'
    BY <2>2, <2>3, <2>4 DEF Client, Whole, TypeOK
  <2> QED
    BY <2>5, <2>6, <2>8, <2>10, <2>11, <2>12 DEF Client
<1> QED
  BY <1>1, <1>2 DEF Ensure

\* The claim passes to a task that knows the region, or is given back.
LEMMA SpawnKeeps ==
  ASSUME TypeOK, Client, NEW s \in Senders, Spawn(s) \/ SpawnFails(s)
  PROVE  TypeOK' /\ Client'
<1> DEFINE i == sender[s].slot
<1>1. i \in Slots /\ Claims(s, i)
  BY DEF Client, Placed, Spawn, SpawnFails, Claims
<1>2. /\ connecting[i] /\ inUse[i] /\ ~running[i]
      /\ \A t \in Tasks : ~Has(t, i)
      /\ \A z \in Senders : Claims(z, i) => z = s
  BY <1>1 DEF Client, Locked, Held
<1>3. NoSlot \notin Slots
  BY DEF NoSlot, Slots
<1>4. CASE Spawn(s)
  <2> DEFINE t == CHOOSE u \in Tasks : task[u] = NoTask
  <2>1. t \in Tasks /\ task[t] = NoTask
    BY <1>4 DEF Spawn
  <2>2. /\ task' = [task EXCEPT ![t] = [pc |-> "start", slot |-> i, region |-> region[i]]]
        /\ sender' = [sender EXCEPT ![s] = Idle]
        /\ UNCHANGED <<inUse, connecting, region, running, tls, queue, rx, tx, stop, net>>
    BY <1>4 DEF Spawn, slotVars, workers
  <2> HIDE DEF t, i
  <2>3. TypeOK'
    BY <1>1, <2>1, <2>2 DEF TypeOK, Idle
  <2>4. Placed'
    BY <1>1, <2>1, <2>2 DEF Client, Placed, TypeOK, Idle
  <2>5. \A j \in Slots :
          /\ \A u \in Tasks : Has(u, j)' <=> Has(u, j) \/ (u = t /\ j = i)
          /\ \A z \in Senders : Claims(z, j)' <=> Claims(z, j) /\ z # s
    BY <1>1, <1>3, <2>1, <2>2 DEF Has, Claims, TypeOK, Idle, NoTask
  <2>6. \A j \in Slots : Claims(s, j) => j = i
    BY DEF Claims, i
  <2>7. Locked'
    BY <1>1, <1>2, <2>2, <2>5, <2>6, <2>1 DEF Client, Locked
  <2>8. Held'
    <3>1. \A j \in Slots, u \in Tasks : Has(u, j)' /\ u # t => Has(u, j) /\ task'[u] = task[u]
      BY <2>1, <2>2, <2>5
    <3>2. /\ task'[t].region = region[i] /\ task'[t].pc = "start"
          /\ task'[t].slot = i
      BY <2>1, <2>2 DEF TypeOK
    <3>3. \A j \in Slots, u \in Tasks : Has(u, j)' /\ u = t => j = i
      BY <3>2 DEF Has
    <3> QED
      BY <1>2, <2>2, <2>5, <3>1, <3>2, <3>3 DEF Client, Held
  <2> QED
    BY <2>2, <2>3, <2>4, <2>7, <2>8 DEF Client, Distinct, Whole
<1>5. CASE SpawnFails(s)
  <2>1. /\ inUse' = [inUse EXCEPT ![i] = FALSE]
        /\ connecting' = [connecting EXCEPT ![i] = FALSE]
        /\ sender' = [sender EXCEPT ![s] = Idle]
        /\ UNCHANGED <<region, running, tls, queue, rx, tx, task, stop, net>>
    BY <1>5 DEF SpawnFails, workers
  <2>2. \A j \in Slots : Claims(s, j) => j = i
    BY DEF Claims
  <2> HIDE DEF i
  <2>3. TypeOK'
    BY <1>1, <2>1 DEF TypeOK, Idle
  <2>4. Placed'
    BY <1>1, <2>1 DEF Client, Placed, TypeOK, Idle
  <2>5. \A j \in Slots :
          /\ \A u \in Tasks : Has(u, j)' <=> Has(u, j)
          /\ \A z \in Senders : Claims(z, j)' <=> Claims(z, j) /\ z # s
    BY <1>1, <2>1 DEF Has, Claims, TypeOK, Idle
  <2>6. Locked'
    BY <1>1, <1>2, <2>1, <2>2, <2>5 DEF Client, Locked, TypeOK
  <2>7. Held' /\ Distinct' /\ Whole'
    BY <1>1, <1>2, <2>1, <2>5 DEF Client, Held, Distinct, Whole, TypeOK
  <2> QED
    BY <2>3, <2>4, <2>6, <2>7 DEF Client
<1> QED
  BY <1>4, <1>5

\* A task that moves on stays where it is: placed, and alone on its slot.
LEMMA MoveKeeps ==
  ASSUME TypeOK, Client, NEW t \in Tasks, NEW pc, task[t].pc # "none",
         pc \in {"start", "settle", "open", "dial", "upgrade", "failed", "up"},
         Goto(t, pc), UNCHANGED <<inUse, connecting, sender>>
  PROVE  /\ Placed' /\ Locked'
         /\ task' \in [Tasks ->
              [pc : {"none", "start", "settle", "open", "dial", "upgrade", "failed", "up"},
               slot : Slots \cup {NoSlot}, region : Regions \cup {NoRegion}]]
         /\ task'[t].pc = pc /\ task'[t].slot = task[t].slot
         /\ task'[t].region = task[t].region
         /\ \A u \in Tasks, j \in Slots : Has(u, j)' <=> Has(u, j)
         /\ \A s \in Senders, j \in Slots : Claims(s, j)' <=> Claims(s, j)
         /\ \A u \in Tasks : u # t => task'[u] = task[u]
<1>1. /\ task' \in [Tasks ->
           [pc : {"none", "start", "settle", "open", "dial", "upgrade", "failed", "up"},
            slot : Slots \cup {NoSlot}, region : Regions \cup {NoRegion}]]
      /\ task'[t].pc = pc /\ task'[t].slot = task[t].slot
      /\ task'[t].region = task[t].region
      /\ \A u \in Tasks : u # t => task'[u] = task[u]
  BY DEF Goto, TypeOK
<1>2. /\ \A u \in Tasks, j \in Slots : Has(u, j)' <=> Has(u, j)
      /\ \A s \in Senders, j \in Slots : Claims(s, j)' <=> Claims(s, j)
  BY <1>1 DEF Has, Claims
<1>3. Placed'
  BY <1>1 DEF Client, Placed
<1>4. Locked'
  BY <1>2 DEF Client, Locked
<1> QED
  BY <1>1, <1>2, <1>3, <1>4

\* The steps of the connect task, each with the slot that it holds.
LEMMA FreeResourcesKeeps ==
  ASSUME TypeOK, Client, NEW t \in Tasks, FreeResources(t)
  PROVE  TypeOK' /\ Client'
<1> DEFINE i == task[t].slot
<1>1. task[t].pc = "settle" /\ Has(t, i)
  BY DEF FreeResources, At, Has
<1>2. /\ i \in Slots /\ connecting[i] /\ inUse[i] /\ ~running[i]
      /\ task[t].region = region[i]
      /\ \A u \in Tasks : Has(u, i) => u = t
      /\ \A s \in Senders : ~Claims(s, i)
  BY <1>1, Owner DEF Client, Held, Has
<1>3. /\ Goto(t, "open") /\ UNCHANGED <<inUse, connecting, sender>>
      /\ UNCHANGED <<region, running, tls, rx, tx, stop, net>>
      /\ queue' = [queue EXCEPT ![i] = FALSE]
  BY <1>1 DEF FreeResources, slotVars, workers
<1> HIDE DEF i
<1>4. /\ Placed' /\ Locked'
      /\ task' \in [Tasks ->
           [pc : {"none", "start", "settle", "open", "dial", "upgrade", "failed", "up"},
            slot : Slots \cup {NoSlot}, region : Regions \cup {NoRegion}]]
      /\ task'[t].pc = "open" /\ task'[t].region = region[i]
      /\ \A u \in Tasks, j \in Slots : Has(u, j)' <=> Has(u, j)
      /\ \A s \in Senders, j \in Slots : Claims(s, j)' <=> Claims(s, j)
      /\ \A u \in Tasks : u # t => task'[u] = task[u]
  BY <1>1, <1>2, <1>3, MoveKeeps
<1>5. TypeOK'
  BY <1>2, <1>3, <1>4 DEF TypeOK
<1>6. Held'
  <2>1. \A j \in Slots : Has(t, j) => j = i
    BY <1>1 DEF Has
  <2>2. \A u \in Tasks, j \in Slots : Has(u, j) /\ u # t => j # i
    BY <1>2
  <2>3. \A j \in Slots : Has(t, j) =>
          /\ task'[t].region = region'[j] /\ ~running'[j]
          /\ task'[t].pc \in {"dial", "upgrade"} => tls'[j]
          /\ task'[t].pc = "upgrade" => queue'[j]
    BY <1>1, <1>2, <1>3, <1>4, <2>1 DEF Client, Held, TypeOK
  <2>4. \A u \in Tasks, j \in Slots : Has(u, j) /\ u # t =>
          /\ task'[u] = task[u] /\ region'[j] = region[j] /\ running'[j] = running[j]
          /\ tls'[j] = tls[j] /\ queue'[j] = queue[j]
    BY <1>2, <1>3, <1>4, <2>2 DEF TypeOK
  <2>5. running' = running
    BY <1>3
  <2> QED
    BY <1>4, <2>3, <2>4, <2>5 DEF Client, Held
<1>7. Distinct' /\ Whole'
  BY <1>2, <1>3 DEF Client, Distinct, Whole, TypeOK
<1> QED
  BY <1>4, <1>5, <1>6, <1>7 DEF Client

LEMMA UnknownRegionKeeps ==
  ASSUME TypeOK, Client, NEW t \in Tasks, UnknownRegion(t)
  PROVE  TypeOK' /\ Client'
<1> DEFINE i == task[t].slot
<1>1. task[t].pc = "open" /\ Has(t, i)
  BY DEF UnknownRegion, At, Has
<1>2. /\ i \in Slots /\ connecting[i] /\ inUse[i] /\ ~running[i]
      /\ task[t].region = region[i]
      /\ \A u \in Tasks : Has(u, i) => u = t
      /\ \A s \in Senders : ~Claims(s, i)
  BY <1>1, Owner DEF Client, Held, Has
<1>3. /\ Goto(t, "failed") /\ UNCHANGED <<inUse, connecting, sender>>
      /\ UNCHANGED <<region, running, tls, queue, rx, tx, stop, net>>
  BY <1>1 DEF UnknownRegion, slotVars, workers
<1> HIDE DEF i
<1>4. /\ Placed' /\ Locked'
      /\ task' \in [Tasks ->
           [pc : {"none", "start", "settle", "open", "dial", "upgrade", "failed", "up"},
            slot : Slots \cup {NoSlot}, region : Regions \cup {NoRegion}]]
      /\ task'[t].pc = "failed" /\ task'[t].region = region[i]
      /\ \A u \in Tasks, j \in Slots : Has(u, j)' <=> Has(u, j)
      /\ \A s \in Senders, j \in Slots : Claims(s, j)' <=> Claims(s, j)
      /\ \A u \in Tasks : u # t => task'[u] = task[u]
  BY <1>1, <1>2, <1>3, MoveKeeps
<1>5. TypeOK'
  BY <1>2, <1>3, <1>4 DEF TypeOK
<1>6. Held'
  <2>1. \A j \in Slots : Has(t, j) => j = i
    BY <1>1 DEF Has
  <2>2. \A u \in Tasks, j \in Slots : Has(u, j) /\ u # t => j # i
    BY <1>2
  <2>3. \A j \in Slots : Has(t, j) =>
          /\ task'[t].region = region'[j] /\ ~running'[j]
          /\ task'[t].pc \in {"dial", "upgrade"} => tls'[j]
          /\ task'[t].pc = "upgrade" => queue'[j]
    BY <1>1, <1>2, <1>3, <1>4, <2>1 DEF Client, Held, TypeOK
  <2>4. \A u \in Tasks, j \in Slots : Has(u, j) /\ u # t =>
          /\ task'[u] = task[u] /\ region'[j] = region[j] /\ running'[j] = running[j]
          /\ tls'[j] = tls[j] /\ queue'[j] = queue[j]
    BY <1>2, <1>3, <1>4, <2>2 DEF TypeOK
  <2>5. running' = running
    BY <1>3
  <2> QED
    BY <1>4, <2>3, <2>4, <2>5 DEF Client, Held
<1>7. Distinct' /\ Whole'
  BY <1>2, <1>3 DEF Client, Distinct, Whole, TypeOK
<1> QED
  BY <1>4, <1>5, <1>6, <1>7 DEF Client

LEMMA DialKeeps ==
  ASSUME TypeOK, Client, NEW t \in Tasks, Dial(t)
  PROVE  TypeOK' /\ Client'
<1> DEFINE i == task[t].slot
<1>1. task[t].pc = "open" /\ Has(t, i)
  BY DEF Dial, At, Has
<1>2. /\ i \in Slots /\ connecting[i] /\ inUse[i] /\ ~running[i]
      /\ task[t].region = region[i]
      /\ \A u \in Tasks : Has(u, i) => u = t
      /\ \A s \in Senders : ~Claims(s, i)
  BY <1>1, Owner DEF Client, Held, Has
<1>3. /\ Goto(t, "dial") /\ UNCHANGED <<inUse, connecting, sender>>
      /\ UNCHANGED <<running, queue, rx, tx, stop, net>>
      /\ region' = region /\ tls' = [tls EXCEPT ![i] = TRUE]
  BY <1>1, <1>2 DEF Dial, slotVars, workers, TypeOK
<1> HIDE DEF i
<1>4. /\ Placed' /\ Locked'
      /\ task' \in [Tasks ->
           [pc : {"none", "start", "settle", "open", "dial", "upgrade", "failed", "up"},
            slot : Slots \cup {NoSlot}, region : Regions \cup {NoRegion}]]
      /\ task'[t].pc = "dial" /\ task'[t].region = region[i]
      /\ \A u \in Tasks, j \in Slots : Has(u, j)' <=> Has(u, j)
      /\ \A s \in Senders, j \in Slots : Claims(s, j)' <=> Claims(s, j)
      /\ \A u \in Tasks : u # t => task'[u] = task[u]
  BY <1>1, <1>2, <1>3, MoveKeeps
<1>5. TypeOK'
  BY <1>2, <1>3, <1>4 DEF TypeOK
<1>6. Held'
  <2>1. \A j \in Slots : Has(t, j) => j = i
    BY <1>1 DEF Has
  <2>2. \A u \in Tasks, j \in Slots : Has(u, j) /\ u # t => j # i
    BY <1>2
  <2>3. \A j \in Slots : Has(t, j) =>
          /\ task'[t].region = region'[j] /\ ~running'[j]
          /\ task'[t].pc \in {"dial", "upgrade"} => tls'[j]
          /\ task'[t].pc = "upgrade" => queue'[j]
    BY <1>1, <1>2, <1>3, <1>4, <2>1 DEF Client, Held, TypeOK
  <2>4. \A u \in Tasks, j \in Slots : Has(u, j) /\ u # t =>
          /\ task'[u] = task[u] /\ region'[j] = region[j] /\ running'[j] = running[j]
          /\ tls'[j] = tls[j] /\ queue'[j] = queue[j]
    BY <1>2, <1>3, <1>4, <2>2 DEF TypeOK
  <2>5. running' = running
    BY <1>3
  <2> QED
    BY <1>4, <2>3, <2>4, <2>5 DEF Client, Held
<1>7. Distinct' /\ Whole'
  BY <1>2, <1>3 DEF Client, Distinct, Whole, TypeOK
<1> QED
  BY <1>4, <1>5, <1>6, <1>7 DEF Client

LEMMA DialFailsKeeps ==
  ASSUME TypeOK, Client, NEW t \in Tasks, DialFails(t)
  PROVE  TypeOK' /\ Client'
<1> DEFINE i == task[t].slot
<1>1. task[t].pc = "dial" /\ Has(t, i)
  BY DEF DialFails, At, Has
<1>2. /\ i \in Slots /\ connecting[i] /\ inUse[i] /\ ~running[i]
      /\ task[t].region = region[i]
      /\ \A u \in Tasks : Has(u, i) => u = t
      /\ \A s \in Senders : ~Claims(s, i)
  BY <1>1, Owner DEF Client, Held, Has
<1>3. /\ Goto(t, "failed") /\ UNCHANGED <<inUse, connecting, sender>>
      /\ UNCHANGED <<region, running, queue, rx, tx, stop, net>>
      /\ tls' = [tls EXCEPT ![i] = FALSE]
  BY <1>1 DEF DialFails, slotVars, workers
<1> HIDE DEF i
<1>4. /\ Placed' /\ Locked'
      /\ task' \in [Tasks ->
           [pc : {"none", "start", "settle", "open", "dial", "upgrade", "failed", "up"},
            slot : Slots \cup {NoSlot}, region : Regions \cup {NoRegion}]]
      /\ task'[t].pc = "failed" /\ task'[t].region = region[i]
      /\ \A u \in Tasks, j \in Slots : Has(u, j)' <=> Has(u, j)
      /\ \A s \in Senders, j \in Slots : Claims(s, j)' <=> Claims(s, j)
      /\ \A u \in Tasks : u # t => task'[u] = task[u]
  BY <1>1, <1>2, <1>3, MoveKeeps
<1>5. TypeOK'
  BY <1>2, <1>3, <1>4 DEF TypeOK
<1>6. Held'
  <2>1. \A j \in Slots : Has(t, j) => j = i
    BY <1>1 DEF Has
  <2>2. \A u \in Tasks, j \in Slots : Has(u, j) /\ u # t => j # i
    BY <1>2
  <2>3. \A j \in Slots : Has(t, j) =>
          /\ task'[t].region = region'[j] /\ ~running'[j]
          /\ task'[t].pc \in {"dial", "upgrade"} => tls'[j]
          /\ task'[t].pc = "upgrade" => queue'[j]
    BY <1>1, <1>2, <1>3, <1>4, <2>1 DEF Client, Held, TypeOK
  <2>4. \A u \in Tasks, j \in Slots : Has(u, j) /\ u # t =>
          /\ task'[u] = task[u] /\ region'[j] = region[j] /\ running'[j] = running[j]
          /\ tls'[j] = tls[j] /\ queue'[j] = queue[j]
    BY <1>2, <1>3, <1>4, <2>2 DEF TypeOK
  <2>5. running' = running
    BY <1>3
  <2> QED
    BY <1>4, <2>3, <2>4, <2>5 DEF Client, Held
<1>7. Distinct' /\ Whole'
  BY <1>2, <1>3 DEF Client, Distinct, Whole, TypeOK
<1> QED
  BY <1>4, <1>5, <1>6, <1>7 DEF Client

LEMMA UpgradeKeeps ==
  ASSUME TypeOK, Client, NEW t \in Tasks, Upgrade(t)
  PROVE  TypeOK' /\ Client'
<1> DEFINE i == task[t].slot
<1>1. task[t].pc = "dial" /\ Has(t, i)
  BY DEF Upgrade, At, Has
<1>2. /\ i \in Slots /\ connecting[i] /\ inUse[i] /\ ~running[i]
      /\ task[t].region = region[i]
      /\ \A u \in Tasks : Has(u, i) => u = t
      /\ \A s \in Senders : ~Claims(s, i)
  BY <1>1, Owner DEF Client, Held, Has
<1>3. /\ Goto(t, "upgrade") /\ UNCHANGED <<inUse, connecting, sender>>
      /\ UNCHANGED <<region, running, tls, rx, tx, stop, net>>
      /\ queue' = [queue EXCEPT ![i] = TRUE]
  BY <1>1 DEF Upgrade, slotVars, workers
<1> HIDE DEF i
<1>4. /\ Placed' /\ Locked'
      /\ task' \in [Tasks ->
           [pc : {"none", "start", "settle", "open", "dial", "upgrade", "failed", "up"},
            slot : Slots \cup {NoSlot}, region : Regions \cup {NoRegion}]]
      /\ task'[t].pc = "upgrade" /\ task'[t].region = region[i]
      /\ \A u \in Tasks, j \in Slots : Has(u, j)' <=> Has(u, j)
      /\ \A s \in Senders, j \in Slots : Claims(s, j)' <=> Claims(s, j)
      /\ \A u \in Tasks : u # t => task'[u] = task[u]
  BY <1>1, <1>2, <1>3, MoveKeeps
<1>5. TypeOK'
  BY <1>2, <1>3, <1>4 DEF TypeOK
<1>6. Held'
  <2>1. \A j \in Slots : Has(t, j) => j = i
    BY <1>1 DEF Has
  <2>2. \A u \in Tasks, j \in Slots : Has(u, j) /\ u # t => j # i
    BY <1>2
  <2>3. \A j \in Slots : Has(t, j) =>
          /\ task'[t].region = region'[j] /\ ~running'[j]
          /\ task'[t].pc \in {"dial", "upgrade"} => tls'[j]
          /\ task'[t].pc = "upgrade" => queue'[j]
    BY <1>1, <1>2, <1>3, <1>4, <2>1 DEF Client, Held, TypeOK
  <2>4. \A u \in Tasks, j \in Slots : Has(u, j) /\ u # t =>
          /\ task'[u] = task[u] /\ region'[j] = region[j] /\ running'[j] = running[j]
          /\ tls'[j] = tls[j] /\ queue'[j] = queue[j]
    BY <1>2, <1>3, <1>4, <2>2 DEF TypeOK
  <2>5. running' = running
    BY <1>3
  <2> QED
    BY <1>4, <2>3, <2>4, <2>5 DEF Client, Held
<1>7. Distinct' /\ Whole'
  BY <1>2, <1>3 DEF Client, Distinct, Whole, TypeOK
<1> QED
  BY <1>4, <1>5, <1>6, <1>7 DEF Client

LEMMA UpgradeFailsKeeps ==
  ASSUME TypeOK, Client, NEW t \in Tasks, UpgradeFails(t)
  PROVE  TypeOK' /\ Client'
<1> DEFINE i == task[t].slot
<1>1. task[t].pc = "upgrade" /\ Has(t, i)
  BY DEF UpgradeFails, At, Has
<1>2. /\ i \in Slots /\ connecting[i] /\ inUse[i] /\ ~running[i]
      /\ task[t].region = region[i]
      /\ \A u \in Tasks : Has(u, i) => u = t
      /\ \A s \in Senders : ~Claims(s, i)
  BY <1>1, Owner DEF Client, Held, Has
<1>3. /\ Goto(t, "failed") /\ UNCHANGED <<inUse, connecting, sender>>
      /\ UNCHANGED <<region, running, queue, rx, tx, stop, net>>
      /\ tls' = [tls EXCEPT ![i] = FALSE]
  BY <1>1 DEF UpgradeFails, slotVars, workers
<1> HIDE DEF i
<1>4. /\ Placed' /\ Locked'
      /\ task' \in [Tasks ->
           [pc : {"none", "start", "settle", "open", "dial", "upgrade", "failed", "up"},
            slot : Slots \cup {NoSlot}, region : Regions \cup {NoRegion}]]
      /\ task'[t].pc = "failed" /\ task'[t].region = region[i]
      /\ \A u \in Tasks, j \in Slots : Has(u, j)' <=> Has(u, j)
      /\ \A s \in Senders, j \in Slots : Claims(s, j)' <=> Claims(s, j)
      /\ \A u \in Tasks : u # t => task'[u] = task[u]
  BY <1>1, <1>2, <1>3, MoveKeeps
<1>5. TypeOK'
  BY <1>2, <1>3, <1>4 DEF TypeOK
<1>6. Held'
  <2>1. \A j \in Slots : Has(t, j) => j = i
    BY <1>1 DEF Has
  <2>2. \A u \in Tasks, j \in Slots : Has(u, j) /\ u # t => j # i
    BY <1>2
  <2>3. \A j \in Slots : Has(t, j) =>
          /\ task'[t].region = region'[j] /\ ~running'[j]
          /\ task'[t].pc \in {"dial", "upgrade"} => tls'[j]
          /\ task'[t].pc = "upgrade" => queue'[j]
    BY <1>1, <1>2, <1>3, <1>4, <2>1 DEF Client, Held, TypeOK
  <2>4. \A u \in Tasks, j \in Slots : Has(u, j) /\ u # t =>
          /\ task'[u] = task[u] /\ region'[j] = region[j] /\ running'[j] = running[j]
          /\ tls'[j] = tls[j] /\ queue'[j] = queue[j]
    BY <1>2, <1>3, <1>4, <2>2 DEF TypeOK
  <2>5. running' = running
    BY <1>3
  <2> QED
    BY <1>4, <2>3, <2>4, <2>5 DEF Client, Held
<1>7. Distinct' /\ Whole'
  BY <1>2, <1>3 DEF Client, Distinct, Whole, TypeOK
<1> QED
  BY <1>4, <1>5, <1>6, <1>7 DEF Client

LEMMA ReapKeeps ==
  ASSUME TypeOK, Client, NEW t \in Tasks, Reap(t)
  PROVE  TypeOK' /\ Client'
<1> DEFINE i == task[t].slot
           pc == IF tls[i] \/ queue[i] THEN "settle" ELSE "open"
<1>1. task[t].pc = "start" /\ Has(t, i)
  BY DEF Reap, At, Has
<1>2. /\ i \in Slots /\ connecting[i] /\ inUse[i] /\ ~running[i]
      /\ task[t].region = region[i]
      /\ \A u \in Tasks : Has(u, i) => u = t
  BY <1>1, Owner DEF Client, Held, Has
<1>3. /\ Goto(t, pc) /\ UNCHANGED <<inUse, connecting, sender>>
      /\ UNCHANGED <<region, queue, rx, tx, stop, net>>
      /\ running' = running
      /\ tls' \in [Slots -> BOOLEAN]
      /\ \A j \in Slots : j # i => tls'[j] = tls[j]
  <2>1. CASE tls[i] \/ queue[i]
    <3>1. /\ Goto(t, "settle") /\ pc = "settle"
          /\ running' = [running EXCEPT ![i] = FALSE] /\ tls' = [tls EXCEPT ![i] = FALSE]
          /\ UNCHANGED <<inUse, connecting, region, queue, rx, tx, sender, stop, net>>
      BY <2>1 DEF Reap, TearDown, workers
    <3> HIDE DEF i, pc
    <3>2. running' = running
      BY <1>2, <3>1 DEF TypeOK
    <3> QED
      BY <3>1, <3>2 DEF TypeOK
  <2>2. CASE ~(tls[i] \/ queue[i])
    <3>1. /\ Goto(t, "open") /\ pc = "open" /\ running' = running /\ tls' = tls
          /\ UNCHANGED <<inUse, connecting, region, queue, rx, tx, sender, stop, net>>
      BY <2>2 DEF Reap, workers
    <3> HIDE DEF i, pc
    <3> QED
      BY <3>1 DEF TypeOK
  <2> QED
    BY <2>1, <2>2
<1>4. pc \in {"settle", "open"}
  OBVIOUS
<1> HIDE DEF i, pc
<1>5. /\ Placed' /\ Locked'
      /\ task' \in [Tasks ->
           [pc : {"none", "start", "settle", "open", "dial", "upgrade", "failed", "up"},
            slot : Slots \cup {NoSlot}, region : Regions \cup {NoRegion}]]
      /\ task'[t].pc = pc /\ task'[t].region = region[i]
      /\ \A u \in Tasks, j \in Slots : Has(u, j)' <=> Has(u, j)
      /\ \A s \in Senders, j \in Slots : Claims(s, j)' <=> Claims(s, j)
      /\ \A u \in Tasks : u # t => task'[u] = task[u]
  BY <1>1, <1>2, <1>3, <1>4, MoveKeeps
<1>6. TypeOK'
  BY <1>2, <1>3, <1>5 DEF TypeOK
<1>7. Held'
  <2>1. \A j \in Slots : Has(t, j) => j = i
    BY <1>1 DEF Has
  <2> QED
    BY <1>1, <1>2, <1>3, <1>4, <1>5, <2>1 DEF Client, Held
<1>8. Distinct' /\ Whole'
  BY <1>2, <1>3 DEF Client, Distinct, Whole
<1> QED
  BY <1>5, <1>6, <1>7, <1>8 DEF Client

LEMMA UpKeeps ==
  ASSUME TypeOK, Client, NEW t \in Tasks, Up(t)
  PROVE  TypeOK' /\ Client'
<1> DEFINE i == task[t].slot
<1>1. task[t].pc = "upgrade" /\ Has(t, i)
  BY DEF Up, At, Has
<1>2. /\ i \in Slots /\ connecting[i] /\ inUse[i] /\ ~running[i] /\ tls[i] /\ queue[i]
      /\ task[t].region = region[i]
      /\ \A u \in Tasks : Has(u, i) => u = t
      /\ \A s \in Senders : ~Claims(s, i)
  BY <1>1, Owner DEF Client, Held, Has
<1>3. /\ Goto(t, "up") /\ UNCHANGED <<inUse, connecting, sender>>
      /\ UNCHANGED <<region, tls, queue, stop, net>>
      /\ rx[i] < MaxWorkers /\ tx[i] < MaxWorkers
      /\ running' = [running EXCEPT ![i] = TRUE]
      /\ rx' = [rx EXCEPT ![i] = @ + 1]
      /\ tx' = [tx EXCEPT ![i] = @ + 1]
  BY DEF Up
<1> HIDE DEF i
<1>4. /\ Placed' /\ Locked'
      /\ task' \in [Tasks ->
           [pc : {"none", "start", "settle", "open", "dial", "upgrade", "failed", "up"},
            slot : Slots \cup {NoSlot}, region : Regions \cup {NoRegion}]]
      /\ task'[t].pc = "up" /\ task'[t].region = region[i]
      /\ \A u \in Tasks, j \in Slots : Has(u, j)' <=> Has(u, j)
      /\ \A s \in Senders, j \in Slots : Claims(s, j)' <=> Claims(s, j)
      /\ \A u \in Tasks : u # t => task'[u] = task[u]
  BY <1>1, <1>2, <1>3, MoveKeeps
<1>5. TypeOK'
  <2>1. rx' \in [Slots -> 0 .. MaxWorkers] /\ tx' \in [Slots -> 0 .. MaxWorkers]
    BY <1>2, <1>3, DerpAssumption DEF TypeOK
  <2> QED
    BY <1>2, <1>3, <1>4, <2>1 DEF TypeOK
<1>6. Held'
  <2>1. \A j \in Slots : Has(t, j) => j = i
    BY <1>1 DEF Has
  <2>2. \A j \in Slots : j # i => running'[j] = running[j]
    BY <1>3
  <2> QED
    BY <1>1, <1>2, <1>3, <1>4, <2>1, <2>2 DEF Client, Held
<1>7. Distinct'
  BY <1>3 DEF Client, Distinct
<1>8. Whole'
  <2>1. rx[i] = 0
    BY <1>2 DEF Client, Whole
  <2>2. tx[i] \in Nat
    BY <1>2, DerpAssumption DEF TypeOK
  <2>3. rx'[i] = 1 /\ tx'[i] > 0 /\ running'[i]
    BY <1>2, <1>3, <2>1, <2>2 DEF TypeOK
  <2>4. \A j \in Slots : j # i => rx'[j] = rx[j] /\ tx'[j] = tx[j] /\ running'[j] = running[j]
    BY <1>2, <1>3 DEF TypeOK
  <2> QED
    BY <1>2, <1>3, <2>3, <2>4 DEF Client, Whole
<1> QED
  BY <1>4, <1>5, <1>6, <1>7, <1>8 DEF Client

\* The task ends: the slot is no longer locked, and after a failure nobody's.
LEMMA FinishKeeps ==
  ASSUME TypeOK, Client, NEW t \in Tasks, Finish(t)
  PROVE  TypeOK' /\ Client'
<1> DEFINE i == task[t].slot
<1>1. task[t].pc \in {"failed", "up"} /\ Has(t, i)
  BY DEF Finish, Has
<1>2. /\ i \in Slots /\ connecting[i] /\ inUse[i]
      /\ task[t].pc = "failed" => ~running[i]
      /\ \A u \in Tasks : Has(u, i) => u = t
      /\ \A s \in Senders : ~Claims(s, i)
  BY <1>1, Owner DEF Client, Held, Has
<1>3. /\ inUse' = [inUse EXCEPT ![i] = @ /\ task[t].pc = "up"]
      /\ connecting' = [connecting EXCEPT ![i] = FALSE]
      /\ task' = [task EXCEPT ![t] = NoTask]
      /\ UNCHANGED <<region, running, tls, queue, rx, tx, sender, stop, net>>
  BY DEF Finish, At, workers
<1>4. \A j \in Slots : Has(t, j) => j = i
  BY DEF Has
<1> HIDE DEF i
<1>5. NoSlot \notin Slots
  BY DEF NoSlot, Slots
<1>6. /\ \A u \in Tasks : u # t => task'[u] = task[u]
      /\ task'[t] = NoTask
      /\ \A u \in Tasks, j \in Slots : Has(u, j)' <=> Has(u, j) /\ u # t
      /\ \A s \in Senders, j \in Slots : Claims(s, j)' <=> Claims(s, j)
  BY <1>3, <1>5 DEF Has, Claims, TypeOK, NoTask
<1>7. /\ inUse'[i] = (task[t].pc = "up") /\ ~connecting'[i]
      /\ \A j \in Slots : j # i => inUse'[j] = inUse[j] /\ connecting'[j] = connecting[j]
  BY <1>2, <1>3 DEF TypeOK
<1>8. TypeOK'
  <2>1. inUse' \in [Slots -> BOOLEAN] /\ connecting' \in [Slots -> BOOLEAN]
    BY <1>3 DEF TypeOK
  <2>2. task' \in [Tasks ->
           [pc : {"none", "start", "settle", "open", "dial", "upgrade", "failed", "up"},
            slot : Slots \cup {NoSlot}, region : Regions \cup {NoRegion}]]
    BY <1>3 DEF TypeOK, NoTask
  <2> QED
    BY <1>3, <2>1, <2>2 DEF TypeOK
<1>9. Placed'
  BY <1>3, <1>6 DEF Client, Placed, NoTask
<1>10. Locked'
  BY <1>2, <1>4, <1>6, <1>7 DEF Client, Locked
<1>11. Held'
  BY <1>3, <1>6 DEF Client, Held
<1>12. Distinct' /\ Whole'
  BY <1>1, <1>2, <1>3, <1>7 DEF Client, Distinct, Whole
<1> QED
  BY <1>8, <1>9, <1>10, <1>11, <1>12 DEF Client

\* The receiver takes `running' with it; the writer leaves only after that.
LEMMA WorkKeeps ==
  ASSUME TypeOK, Client, NEW i \in Slots, Work(i)
  PROVE  TypeOK' /\ Client'
<1>1. /\ Placed' /\ Locked' /\ Distinct'
  BY DEF Work, RxStops, TxStops, Client, Placed, Locked, Distinct, Has, Claims
<1>2. CASE RxStops(i)
  <2>1. /\ rx[i] = 1 /\ running[i]
        /\ running' = [running EXCEPT ![i] = FALSE]
        /\ rx' = [rx EXCEPT ![i] = @ - 1]
        /\ UNCHANGED <<inUse, connecting, region, tls, queue, tx, sender, task, stop, net>>
    BY <1>2 DEF RxStops, Client, Whole
  <2>2. /\ rx'[i] = 0 /\ ~running'[i] /\ running' \in [Slots -> BOOLEAN]
        /\ rx' \in [Slots -> 0 .. MaxWorkers]
        /\ \A j \in Slots : j # i => rx'[j] = rx[j] /\ running'[j] = running[j]
    BY <2>1, DerpAssumption DEF TypeOK
  <2>3. TypeOK'
    BY <2>1, <2>2 DEF TypeOK
  <2>4. Held' /\ Whole'
    BY <2>1, <2>2 DEF Client, Held, Whole, Has, Claims
  <2> QED
    BY <1>1, <2>3, <2>4 DEF Client
<1>3. CASE TxStops(i)
  <2>1. /\ ~running[i] /\ tx' = [tx EXCEPT ![i] = @ - 1] /\ tx[i] > 0
        /\ UNCHANGED <<inUse, connecting, region, running, tls, queue, rx, sender, task, stop, net>>
    BY <1>3 DEF TxStops
  <2>2. /\ tx' \in [Slots -> 0 .. MaxWorkers]
        /\ \A j \in Slots : j # i => tx'[j] = tx[j]
    BY <2>1, DerpAssumption DEF TypeOK
  <2>3. TypeOK'
    BY <2>1, <2>2 DEF TypeOK
  <2>4. Held' /\ Whole'
    BY <2>1, <2>2 DEF Client, Held, Whole, Has, Claims
  <2> QED
    BY <1>1, <2>3, <2>4 DEF Client
<1> QED
  BY <1>2, <1>3 DEF Work

-----------------------------------------------------------------------------
\* What a step may break counts only as long as the client has not been stopped.
LEMMA Invariant == Spec => []Inv
<1>1. Inv /\ [Next]_vars => Inv'
  <2> SUFFICES ASSUME Living => TypeOK /\ Client, [Next]_vars, Living'
               PROVE  TypeOK' /\ Client'
    BY DEF Inv
  <2>1. Living /\ ~Disconnect
    <3>1. ~Disconnect
      <4>1. \A pc, k : StopAt(pc, k) => stop'.pc = pc
        BY DEF StopAt
      <4>2. ~StopBegins /\ ~StopLooks /\ ~StopFrees
        BY <4>1 DEF StopBegins, StopLooks, StopFrees, Living
      <4> QED
        BY <4>2 DEF Disconnect
    <3>2. stop' = stop
      <4>1. \A s \in Senders, r \in Regions : Ensure(s, r) => stop' = stop
        BY DEF Ensure, Reclaim, Reserve
      <4>2. \A s \in Senders : Spawn(s) \/ SpawnFails(s) => stop' = stop
        BY DEF Spawn, SpawnFails
      <4>3. \A t \in Tasks : Connect(t) => stop' = stop
        BY DEF Connect, Reap, FreeResources, UnknownRegion, Dial, DialFails, Upgrade,
               UpgradeFails, Up, Finish
      <4> QED
        BY <3>1, <4>1, <4>2, <4>3 DEF Next, vars, Work, RxStops, TxStops, NetChanges
    <3> QED
      BY <3>1, <3>2 DEF Living
  <2>2. TypeOK /\ Client
    BY <2>1
  <2>3. ASSUME NEW s \in Senders, NEW r \in Regions, Ensure(s, r)
        PROVE  TypeOK' /\ Client'
    BY <2>1, <2>2, <2>3, EnsureKeeps
  <2>4. ASSUME NEW s \in Senders, Spawn(s) \/ SpawnFails(s)
        PROVE  TypeOK' /\ Client'
    BY <2>2, <2>4, SpawnKeeps
  <2>5. ASSUME NEW t \in Tasks, Connect(t)
        PROVE  TypeOK' /\ Client'
    BY <2>2, <2>5, ReapKeeps, FreeResourcesKeeps, UnknownRegionKeeps, DialKeeps,
       DialFailsKeeps, UpgradeKeeps, UpgradeFailsKeeps, UpKeeps, FinishKeeps DEF Connect
  <2>6. ASSUME NEW i \in Slots, Work(i)
        PROVE  TypeOK' /\ Client'
    BY <2>2, <2>6, WorkKeeps
  <2>7. CASE NetChanges \/ UNCHANGED vars
    <3>1. UNCHANGED <<inUse, connecting, region, running, tls, queue, rx, tx, sender,
                      task, stop>> /\ net' \in BOOLEAN
      BY <2>2, <2>7 DEF NetChanges, vars, slotVars, workers, TypeOK
    <3>2. TypeOK'
      BY <2>2, <3>1 DEF TypeOK
    <3> QED
      BY <2>2, <3>1, <3>2 DEF Client, Placed, Locked, Held, Distinct, Whole, Has, Claims
  <2> QED
    BY <2>1, <2>3, <2>4, <2>5, <2>6, <2>7 DEF Next
<1> QED
  BY <1>1, NothingAtFirst, PTL DEF Spec

(* However many tasks send, no region is served by two slots.               *)
THEOREM NoSecondLink == Spec => []OnePerRegion
<1>1. Inv => OnePerRegion
  BY DEF Inv, Client, Distinct, OnePerRegion
<1> QED
  BY <1>1, Invariant, PTL

(* A link that may be used is whole, and it is not torn down under its      *)
(* receiver, however many times slots have been reaped and claimed.         *)
THEOREM LinksAreWhole == Spec => []LinkWhole
<1>1. Inv => LinkWhole
  BY DEF Inv, Client, Whole, LinkWhole
<1> QED
  BY <1>1, Invariant, PTL

\* The size of a set with one possible element.
LEMMA AtMostOne ==
  ASSUME NEW S, NEW x, \A y \in S : y = x
  PROVE  Cardinality(S) = IF x \in S THEN 1 ELSE 0
<1>1. CASE x \in S
  <2>1. S = {x}
    BY <1>1
  <2> QED
    BY <1>1, <2>1, FS_Singleton
<1>2. CASE x \notin S
  <2>1. S = {}
    BY <1>2
  <2> QED
    BY <1>2, <2>1, FS_EmptySet
<1> QED
  BY <1>1, <1>2

(* The flag `connecting' is a lock: one task, or one sender about to start  *)
(* it, owns the slot as long as it is set, and nobody otherwise.            *)
THEOREM OneOwner == Spec => []OneConnector
<1>1. ASSUME Inv, Living, NEW i \in Slots
      PROVE  Cardinality(Workload(i)) + Cardinality(Spawning(i)) =
               IF connecting[i] THEN 1 ELSE 0
  <2>1. /\ \A t : t \in Workload(i) <=> t \in Tasks /\ Has(t, i)
        /\ \A s : s \in Spawning(i) <=> s \in Senders /\ Claims(s, i)
    <3>1. \A s \in Senders : sender[s] = [pc |-> "spawn", slot |-> i] <=> Claims(s, i)
      BY <1>1 DEF Inv, TypeOK, Claims
    <3> QED
      BY <3>1 DEF Workload, Spawning, Has
  <2>2. /\ connecting[i] <=> (\E t \in Tasks : Has(t, i)) \/ (\E s \in Senders : Claims(s, i))
        /\ \A t, u \in Tasks : Has(t, i) /\ Has(u, i) => t = u
        /\ \A s, z \in Senders : Claims(s, i) /\ Claims(z, i) => s = z
        /\ \A t \in Tasks, s \in Senders : ~(Has(t, i) /\ Claims(s, i))
    BY <1>1 DEF Inv, Client, Locked
  <2>3. CASE \E t \in Tasks : Has(t, i)
    <3>1. PICK t \in Tasks : Has(t, i)
      BY <2>3
    <3>2. Spawning(i) = {} /\ t \in Workload(i) /\ \A u \in Workload(i) : u = t
      BY <2>1, <2>2, <3>1
    <3>3. Cardinality(Workload(i)) = 1 /\ Cardinality(Spawning(i)) = 0
      BY <3>2, AtMostOne, FS_EmptySet
    <3> QED
      BY <2>2, <3>1, <3>3
  <2>4. CASE \E s \in Senders : Claims(s, i)
    <3>1. PICK s \in Senders : Claims(s, i)
      BY <2>4
    <3>2. Workload(i) = {} /\ s \in Spawning(i) /\ \A z \in Spawning(i) : z = s
      BY <2>1, <2>2, <3>1
    <3>3. Cardinality(Spawning(i)) = 1 /\ Cardinality(Workload(i)) = 0
      BY <3>2, AtMostOne, FS_EmptySet
    <3> QED
      BY <2>2, <3>1, <3>3
  <2>5. CASE ~(\E t \in Tasks : Has(t, i)) /\ ~(\E s \in Senders : Claims(s, i))
    <3>1. Workload(i) = {} /\ Spawning(i) = {}
      BY <2>1, <2>5
    <3> QED
      BY <2>2, <2>5, <3>1, FS_EmptySet
  <2> QED
    BY <2>3, <2>4, <2>5
<1>2. Inv => OneConnector
  BY <1>1 DEF OneConnector
<1> QED
  BY <1>2, Invariant, PTL
=============================================================================
