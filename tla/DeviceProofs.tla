---------------------------- MODULE DeviceProofs ----------------------------
(***************************************************************************)
(* The update task.  What it relies on and no test shows: whichever of its *)
(* steps a power cut, a crash or a restart falls on, and for any set of    *)
(* sound versions, the bootloader finds a complete image to start          *)
(* (Bootable), the slot that runs is never an aborted one (NeverAborted),  *)
(* and an image that is not confirmed has a confirmed one to go back to    *)
(* (Fallback).                                                             *)
(*                                                                         *)
(* The invariant follows the two slots: the slot that runs is confirmed,   *)
(* or pending with the other one confirmed (Runs); the newest slot is the  *)
(* one that runs, unless it was aborted or is waiting for its first start  *)
(* (Newest); the other slot is written only from a confirmed one (Writes). *)
(*                                                                         *)
(* The profile store, for any number of profiles: none is lost, wherever   *)
(* the chip restarts.  During a removal one slot may hold anything, and    *)
(* what the user keeps is in the others (Held).                            *)
(*                                                                         *)
(* The device does what each of them does, and nothing else, so that what  *)
(* holds of them holds of it.                                              *)
(***************************************************************************)
EXTENDS Device, TLAPS

-----------------------------------------------------------------------------
(* The update task. *)


States == {"undefined", "new", "pending", "valid", "aborted"}

\* An image that has proved itself, or was flashed by wire.
Confirmed(s) == st[s] \in {"undefined", "valid"} /\ img[s] \in Sound

Types ==
  /\ img \in [Slots -> 0 .. MaxVersion] /\ st \in [Slots -> States]
  /\ newest \in Slots /\ running \in Slots
  /\ published \in Versions /\ man \in 0 .. MaxVersion
  /\ sup \in {"begin", "perform"} => man \in Versions

Runs ==
  \/ Confirmed(running)
  \/ st[running] = "pending" /\ img[running] \in Versions
       /\ newest = running /\ Confirmed(Other(running))

Newest ==
  newest # running =>
    \/ st[newest] = "aborted"
    \/ sup = "deferred" /\ st[newest] = "new" /\ img[newest] \in Versions

Writes == sup \in {"perform", "deferred"} => Confirmed(running)

Inv == Types /\ Runs /\ Newest /\ Writes

LEMMA SlotFacts ==
  /\ \A s \in Slots : Other(s) \in Slots /\ Other(s) # s /\ Other(Other(s)) = s
  /\ \A s, t \in Slots : s # t => t = Other(s)
BY DEF Slots, Other

LEMMA Starts == Init => Inv
<1> SUFFICES ASSUME Init PROVE Inv
  OBVIOUS
<1>1. img[0] = 1 /\ st[0] = "undefined" /\ running = 0 /\ newest = 0
  BY DEF Init, Slots
<1>2. Types
  BY OtaAssumption DEF Init, Types, Slots, States, Versions
<1>3. Runs
  BY <1>1, OtaAssumption DEF Runs, Confirmed
<1> QED
  BY <1>1, <1>2, <1>3 DEF Inv, Newest, Writes, Init

\* The bootloader starts a confirmed image, or a complete one with a confirmed
\* one to go back to.
LEMMA BootKeeps ==
  ASSUME Inv, Boot
  PROVE  Inv'
<1> DEFINE r == running
           o == Other(running)
<1> USE DEF Inv
<1>1. /\ r \in Slots /\ o \in Slots /\ o # r /\ newest \in {r, o}
      /\ Other(o) = r
  BY SlotFacts DEF Types
<1>2. /\ img' = img /\ newest' = newest /\ running' = Choice /\ sup' = "none"
      /\ st' = [Aborted EXCEPT ![Choice] = IF @ = "new" THEN "pending" ELSE @]
      /\ published' = published /\ man' = 0
  BY DEF Boot
<1>3. /\ Aborted \in [Slots -> States]
      /\ \A s \in Slots : Aborted[s] = IF st[s] = "pending" THEN "aborted" ELSE st[s]
  BY DEF Aborted, Types, States
<1>4. Choice \in Slots
  BY <1>1, SlotFacts DEF Choice
<1>5. /\ st' \in [Slots -> States]
      /\ st'[Choice] = IF Aborted[Choice] = "new" THEN "pending" ELSE Aborted[Choice]
      /\ \A s \in Slots \ {Choice} : st'[s] = Aborted[s]
  BY <1>2, <1>3, <1>4 DEF States
<1>6. Types'
  BY <1>2, <1>4, <1>5, OtaAssumption DEF Types
<1>7. Writes'
  BY <1>2 DEF Writes
<1>8. CASE newest = r /\ Confirmed(r)
  <2>1. Choice = r /\ st'[r] = st[r]
    BY <1>1, <1>3, <1>5, <1>8 DEF Choice, Confirmed
  <2> QED
    BY <1>2, <1>6, <1>7, <1>8, <2>1 DEF Runs, Newest, Confirmed
<1>9. CASE newest = r /\ ~Confirmed(r)
  <2>1. Choice = o /\ st'[o] = st[o] /\ st'[r] = "aborted" /\ Confirmed(o)
    BY <1>1, <1>3, <1>5, <1>9 DEF Choice, Confirmed, Runs
  <2> QED
    BY <1>2, <1>6, <1>7, <1>9, <2>1 DEF Runs, Newest, Confirmed
<1>10. CASE newest = o /\ st[o] = "aborted"
  <2>1. Confirmed(r)
    BY <1>1, <1>10 DEF Runs
  <2>2. Choice = r /\ st'[r] = st[r] /\ st'[o] = "aborted"
    BY <1>1, <1>3, <1>5, <1>10, <2>1 DEF Choice, Confirmed
  <2> QED
    BY <1>2, <1>6, <1>7, <1>10, <2>1, <2>2 DEF Runs, Newest, Confirmed
<1>11. CASE newest = o /\ st[o] # "aborted"
  <2>1. Confirmed(r) /\ st[o] = "new" /\ img[o] \in Versions
    BY <1>1, <1>11 DEF Runs, Newest
  <2>2. Choice = o /\ st'[o] = "pending" /\ st'[r] = st[r]
    BY <1>1, <1>3, <1>5, <1>11, <2>1 DEF Choice, Confirmed
  <2> QED
    BY <1>1, <1>2, <1>6, <1>7, <1>11, <2>1, <2>2 DEF Runs, Newest, Confirmed
<1> QED
  BY <1>1, <1>8, <1>9, <1>10, <1>11

LEMMA StepsKeep ==
  ASSUME Inv, Steps
  PROVE  Inv'
<1> DEFINE r == running
           o == Other(running)
<1> USE DEF Inv
<1>0. r \in Slots /\ o \in Slots /\ o # r /\ newest \in {r, o}
  BY SlotFacts DEF Types
<1>1. CASE Start
  BY <1>1 DEF Start, flash, outside, Types, Runs, Newest, Writes, Confirmed
<1>2. CASE Poll
  <2>1. Wanted(published) => published \in Versions
    BY DEF Types
  <2>2. Types' /\ Runs' /\ Newest' /\ Writes'
    BY <1>2, <2>1 DEF Poll, Fetched, flash, outside, Types, Runs, Newest, Writes,
                      Confirmed, Versions
  <2> QED
    BY <2>2
<1>3. CASE BeginOta /\ st[running] = "pending"
  BY <1>3 DEF BeginOta, outside, Types, Runs, Newest, Writes, Confirmed
<1>4. CASE BeginOta /\ st[running] # "pending"
  <2>1. Confirmed(r)
    BY <1>4 DEF Runs
  <2>2. /\ img' = [img EXCEPT ![o] = 0] /\ sup' = "perform" /\ sup = "begin"
        /\ st' = st /\ newest' = newest /\ running' = running /\ man' = man
        /\ published' = published
    BY <1>4 DEF BeginOta, outside
  <2>3. img'[r] = img[r] /\ img' \in [Slots -> 0 .. MaxVersion]
    BY <1>0, <2>2, OtaAssumption DEF Types
  <2>4. newest # running => st[newest] = "aborted"
    BY <2>2 DEF Newest
  <2> QED
    BY <2>1, <2>2, <2>3, <2>4 DEF Types, Runs, Newest, Writes, Confirmed
<1>5. CASE Perform
  <2>1. Confirmed(r) /\ man \in Versions
    BY <1>5 DEF Perform, Writes, Types
  <2>2. /\ img' = [img EXCEPT ![o] = man] /\ st' = [st EXCEPT ![o] = "new"]
        /\ newest' = o /\ running' = running /\ sup' = "deferred" /\ man' = man
        /\ published' = published
    BY <1>5 DEF Perform, outside
  <2>3. /\ img'[r] = img[r] /\ st'[r] = st[r] /\ img'[o] = man /\ st'[o] = "new"
        /\ img' \in [Slots -> 0 .. MaxVersion] /\ st' \in [Slots -> States]
    BY <1>0, <2>1, <2>2 DEF Types, States, Versions
  <2> QED
    BY <1>0, <2>1, <2>2, <2>3 DEF Types, Runs, Newest, Writes, Confirmed
<1>6. CASE PerformFails
  BY <1>6 DEF PerformFails, flash, outside, Types, Runs, Newest, Writes, Confirmed
<1>7. CASE TimeOut \/ Session
  BY <1>7 DEF TimeOut, Session, flash, outside, Types, Runs, Newest, Writes, Confirmed
<1>8. CASE Confirm
  <2>1. /\ st' = [st EXCEPT ![r] = "valid"] /\ img[r] \in Sound
        /\ img' = img /\ newest' = newest /\ running' = running /\ sup' = sup
        /\ man' = man /\ published' = published
    BY <1>8 DEF Confirm, outside
  <2>2. st'[r] = "valid" /\ st'[o] = st[o] /\ st' \in [Slots -> States]
    BY <1>0, <2>1 DEF Types, States
  <2> QED
    BY <1>0, <2>1, <2>2 DEF Types, Runs, Newest, Writes, Confirmed
<1>9. CASE Publish
  <2>1. published' \in Versions
    BY <1>9, OtaAssumption DEF Publish, Types, Versions
  <2> QED
    BY <1>9, <2>1 DEF Publish, flash, Types, Runs, Newest, Writes, Confirmed
<1> QED
  BY <1>1, <1>2, <1>3, <1>4, <1>5, <1>6, <1>7, <1>8, <1>9 DEF Steps

LEMMA Invariant == Spec => []Inv
<1>1. Inv /\ [Next]_vars => Inv'
  <2> SUFFICES ASSUME Inv, [Next]_vars PROVE Inv'
    OBVIOUS
  <2>1. CASE Steps
    BY <2>1, StepsKeep
  <2>2. CASE Reboot \/ Crash \/ Boot
    BY <2>2, BootKeeps DEF Reboot, Crash
  <2>3. CASE UNCHANGED vars
    BY <2>3 DEF vars, flash, outside, Inv, Types, Runs, Newest, Writes, Confirmed
  <2> QED
    BY <2>1, <2>2, <2>3 DEF Next
<1> QED
  BY <1>1, Starts, PTL DEF Spec

-----------------------------------------------------------------------------
(* Whenever the chip is restarted, the slot the bootloader then chooses     *)
(* holds a complete image: never one that is half downloaded, and never one *)
(* that has failed before.                                                  *)
Bootable == img[Choice] \in Versions /\ Aborted[Choice] # "aborted"

THEOREM AlwaysBootable == Spec => []Bootable
<1>1. Inv => Bootable
  <2> SUFFICES ASSUME Inv PROVE Bootable
    OBVIOUS
  <2> USE DEF Inv
  <2>1. /\ running \in Slots /\ Other(running) \in Slots
        /\ newest \in {running, Other(running)} /\ Other(Other(running)) = running
    BY SlotFacts DEF Types
  <2>2. \A s \in Slots : Aborted[s] = IF st[s] = "pending" THEN "aborted" ELSE st[s]
    BY DEF Aborted
  <2>3. \A s : Confirmed(s) => img[s] \in Versions /\ st[s] \notin {"pending", "aborted"}
    BY OtaAssumption DEF Confirmed, Versions
  <2> QED
    BY <2>1, <2>2, <2>3 DEF Bootable, Choice, Runs, Newest
<1> QED
  BY <1>1, Invariant, PTL

(* The slot that runs is never ABORTED: the branch after a start that would  *)
(* begin a cool-down after a failed update (ota_task.cpp:584) is not taken. *)
NeverAborted == st[running] # "aborted"

THEOREM CoolDownNotEntered == Spec => []NeverAborted
<1>1. Inv => NeverAborted
  BY DEF Inv, Runs, Confirmed, NeverAborted
<1> QED
  BY <1>1, Invariant, PTL

(* An image on trial has a confirmed, sound one to go back to, and what is  *)
(* being written is never the only confirmed one.                           *)
Fallback == Confirmed(running) \/ (st[running] = "pending" /\ Confirmed(Other(running)))

THEOREM AlwaysFallsBack == Spec => []Fallback
<1>1. Inv => Fallback
  BY DEF Inv, Runs, Fallback
<1> QED
  BY <1>1, Invariant, PTL

-----------------------------------------------------------------------------
(* The profile store.  The invariant. *)

Places == 0 .. Max - 1
Works == {"idle", "append", "counted", "update", "shift", "recount", "reselect", "select", "restart"}

StoreTypes ==
  /\ slot \in [Places -> Nat] /\ nvsCount \in 0 .. Max /\ count \in 0 .. Max
  /\ op \in [S!Tasks -> [at : Works, idx : Nat, p : Nat]]
  /\ made \in Nat /\ kept \subseteq Nat \ {0} /\ raced \in BOOLEAN

\* The web task only adds and updates, and one task is at work at a time.
OneWriter ==
  /\ op["web"].at \in {"idle", "append", "counted", "update"}
  /\ op["menu"] = S!Idle \/ op["web"] = S!Idle

\* The count in NVS is behind between the two steps of a removal.
Counted ==
  IF op["menu"].at = "recount"
  THEN nvsCount = count + 1 /\ slot[count] = 0
  ELSE nvsCount = count

\* A call writes where it has looked.
Placed ==
  \A t \in S!Tasks :
    /\ op[t].at \in {"append", "counted"} => op[t].idx = count /\ count < Max /\ op[t].p # 0
    /\ op[t].at = "counted" => slot[op[t].idx] = op[t].p
    /\ op[t].at = "update" => op[t].idx < count /\ op[t].p # 0
    /\ op[t].at = "shift" => op[t].idx < count

\* The slot a removal may lose: what is kept is in the others.
Gap == IF op["menu"].at = "shift" THEN op["menu"].idx ELSE Max
Held(p) == \E i \in Places : i < nvsCount /\ i # Gap /\ slot[i] = p

StoreInv ==
  raced \/ (StoreTypes /\ OneWriter /\ Counted /\ Placed /\ \A p \in kept : Held(p))

LEMMA StoreBegins == S!Init => StoreInv
<1> SUFFICES ASSUME S!Init PROVE StoreInv
  OBVIOUS
<1>1. Max \in Nat \ {0} /\ Filled \subseteq 0 .. Max
  BY DeviceAssumption DEF S!Sizes
<1>2. /\ nvsCount \in 0 .. Max /\ count = nvsCount /\ made = nvsCount
      /\ kept = 1 .. nvsCount /\ raced = FALSE
      /\ slot = [i \in Places |-> IF i < nvsCount THEN i + 1 ELSE 0]
      /\ op = [t \in S!Tasks |-> S!Idle]
  BY <1>1 DEF S!Init, Places
<1>3. S!Idle = [at |-> "idle", idx |-> 0, p |-> 0]
  BY DEF S!Idle
<1>4. StoreTypes
  <2>1. slot \in [Places -> Nat]
    BY <1>2 DEF Places
  <2>2. op \in [S!Tasks -> [at : Works, idx : Nat, p : Nat]]
    BY <1>2, <1>3 DEF Works
  <2>3. made \in Nat /\ kept \subseteq Nat \ {0} /\ nvsCount \in 0 .. Max /\ count \in 0 .. Max
    BY <1>1, <1>2
  <2>4. raced \in BOOLEAN
    BY <1>2
  <2> QED
    BY <2>1, <2>2, <2>3, <2>4 DEF StoreTypes
<1>5. OneWriter /\ Counted /\ Placed /\ Gap = Max
  BY <1>2, <1>3 DEF OneWriter, Counted, Placed, Gap, S!Tasks
<1>6. ASSUME NEW p \in kept
      PROVE  Held(p)
  <2>1. p - 1 \in Places /\ p - 1 < nvsCount /\ p - 1 # Max /\ slot[p - 1] = p
    BY <1>1, <1>2 DEF Places
  <2> QED
    BY <1>5, <2>1 DEF Held
<1> QED
  BY <1>4, <1>5, <1>6 DEF StoreInv

\* What a call leaves in op: one entry is replaced.
LEMMA Entries ==
  ASSUME StoreTypes, NEW t \in S!Tasks, NEW at \in Works, NEW idx \in Nat, NEW p \in Nat
  PROVE  /\ S!Goes(t, at, idx, p) =>
              /\ op' \in [S!Tasks -> [at : Works, idx : Nat, p : Nat]]
              /\ op'[t].at = at /\ op'[t].idx = idx /\ op'[t].p = p
              /\ \A u \in S!Tasks : u # t => op'[u] = op[u]
         /\ S!Done(t) =>
              /\ op' \in [S!Tasks -> [at : Works, idx : Nat, p : Nat]]
              /\ op'[t] = S!Idle /\ op'[t].at = "idle"
              /\ \A u \in S!Tasks : u # t => op'[u] = op[u]
BY DEF StoreTypes, S!Goes, S!Done, S!Idle, Works

LEMMA TwoTasks ==
  /\ "menu" \in S!Tasks /\ "web" \in S!Tasks
  /\ \A t \in S!Tasks : t = "menu" \/ t = "web"
BY DEF S!Tasks

Good == StoreTypes /\ OneWriter /\ Counted /\ Placed /\ \A p \in kept : Held(p)

\* A call: from now on the task is at work, and the other one is not.
LEMMA CallsKeep ==
  ASSUME Good, ~raced',
         S!MenuAdds \/ S!WebPosts
         \/ \E i \in Places : S!MenuUpdates(i) \/ S!MenuRemoves(i) \/ S!MenuSelects(i)
  PROVE  Good'
<1> USE DEF Good
<1>1. ASSUME NEW t \in S!Tasks, NEW at \in Works, NEW idx \in Nat, NEW p \in Nat,
             S!Call(t, at, idx, p)
      PROVE  /\ UNCHANGED <<slot, nvsCount, nvsSelected, count, selected>>
             /\ \A u \in S!Tasks : op[u] = S!Idle
             /\ op' \in [S!Tasks -> [at : Works, idx : Nat, p : Nat]]
             /\ op'[t].at = at /\ op'[t].idx = idx /\ op'[t].p = p
             /\ \A u \in S!Tasks : u # t => op'[u] = S!Idle
             /\ raced' \in BOOLEAN
  <2>1. /\ UNCHANGED <<slot, nvsCount, nvsSelected, count, selected>>
        /\ raced' = (raced \/ \E u \in S!Tasks : op[u] # S!Idle)
        /\ S!Goes(t, at, idx, p)
    BY <1>1 DEF S!Call, S!nvs, S!ram
  <2>2. \A u \in S!Tasks : op[u] = S!Idle
    BY <2>1
  <2> QED
    BY <2>1, <2>2, Entries
<1>2. /\ S!Idle.at = "idle" /\ S!Idle.idx = 0 /\ S!Idle.p = 0
      /\ made \in Nat /\ S!New \in Nat /\ S!New # 0 /\ count \in Nat /\ nvsCount \in 0 .. Max
      /\ slot \in [Places -> Nat] /\ kept \subseteq Nat \ {0} /\ count <= Max
      /\ Max \in Nat \ {0}
  BY DeviceAssumption DEF S!Idle, S!New, StoreTypes, S!Sizes
<1>3. ASSUME NEW t \in S!Tasks, NEW at \in {"append", "update", "select"}, NEW idx \in Nat,
             NEW p \in Nat, S!Call(t, at, idx, p), made' \in Nat, kept' = kept,
             at = "append" => idx = count /\ count < Max /\ p # 0,
             at = "update" => idx < count /\ p # 0,
             at = "select" => t = "menu"
      PROVE  Good'
  <2>1. /\ UNCHANGED <<slot, nvsCount, count>> /\ \A u \in S!Tasks : op[u] = S!Idle
        /\ op' \in [S!Tasks -> [at : Works, idx : Nat, p : Nat]]
        /\ op'[t].at = at /\ op'[t].idx = idx /\ op'[t].p = p
        /\ \A u \in S!Tasks : u # t => op'[u] = S!Idle
        /\ raced' \in BOOLEAN
    BY <1>1, <1>3 DEF Works
  <2>2. op["menu"].at = "idle" /\ op'["menu"].at \notin {"shift", "recount"}
    BY <1>2, <1>3, <2>1, TwoTasks
  <2>3. StoreTypes' /\ OneWriter'
    BY <1>2, <1>3, <2>1, TwoTasks DEF StoreTypes, OneWriter
  <2>4. Counted' /\ Gap' = Gap
    BY <2>1, <2>2 DEF Counted, Gap
  <2>5. Placed'
    BY <1>2, <1>3, <2>1 DEF Placed
  <2>6. \A q \in kept' : Held(q)'
    BY <1>3, <2>1, <2>4 DEF Held
  <2> QED
    BY <2>3, <2>4, <2>5, <2>6
<1>4. CASE S!MenuAdds
  BY <1>2, <1>3, <1>4, TwoTasks DEF S!MenuAdds
<1>5. CASE S!WebPosts
  <2>1. CASE count > 0
    BY <1>2, <1>3, <1>5, <2>1, TwoTasks DEF S!WebPosts
  <2>2. CASE ~(count > 0)
    BY <1>2, <1>3, <1>5, <2>2, TwoTasks DEF S!WebPosts
  <2> QED
    BY <2>1, <2>2
<1>6. ASSUME NEW i \in Places, S!MenuUpdates(i)
      PROVE  Good'
  BY <1>2, <1>3, <1>6, TwoTasks DEF S!MenuUpdates, Places
<1>7. ASSUME NEW i \in Places, S!MenuSelects(i)
      PROVE  Good'
  BY <1>2, <1>3, <1>7, TwoTasks DEF S!MenuSelects, Places
<1>8. ASSUME NEW i \in Places, S!MenuRemoves(i)
      PROVE  Good'
  <2>1. /\ i < count /\ made' = made /\ kept' = kept \ {slot[i]} /\ i \in Nat /\ i # Max
        /\ S!Call("menu", "shift", i, 0)
    BY <1>2, <1>8 DEF S!MenuRemoves, Places
  <2>2. /\ UNCHANGED <<slot, nvsCount, count>> /\ \A u \in S!Tasks : op[u] = S!Idle
        /\ op' \in [S!Tasks -> [at : Works, idx : Nat, p : Nat]]
        /\ op'["menu"].at = "shift" /\ op'["menu"].idx = i /\ op'["menu"].p = 0
        /\ op'["web"] = S!Idle
        /\ raced' \in BOOLEAN
    BY <1>1, <2>1, TwoTasks DEF Works
  <2>3. StoreTypes' /\ OneWriter'
    BY <1>2, <2>1, <2>2 DEF StoreTypes, OneWriter
  <2>4. Gap' = i /\ Gap = Max /\ Counted'
    BY <1>2, <2>2, TwoTasks DEF Gap, Counted
  <2>5. Placed'
    BY <1>2, <2>1, <2>2, TwoTasks DEF Placed
  <2>6. ASSUME NEW q \in kept'
        PROVE  Held(q)'
    <3>1. q \in kept /\ q # slot[i]
      BY <2>1
    <3>2. PICK j \in Places : j < nvsCount /\ slot[j] = q
      BY <3>1 DEF Held
    <3>3. j # i
      BY <3>1, <3>2
    <3> QED
      BY <2>2, <2>4, <3>2, <3>3 DEF Held
  <2> QED
    BY <2>3, <2>4, <2>5, <2>6
<1> QED
  BY <1>4, <1>5, <1>6, <1>7, <1>8

\* Adding and updating write the slot that was found, and keep the rest.
LEMMA WritesKeep ==
  ASSUME Good, NEW t \in S!Tasks, S!Append(t) \/ S!Counted(t) \/ S!Update(t)
  PROVE  Good'
<1> USE DEF Good
<1> DEFINE o == op[t]
           i == op[t].idx
<1>1. /\ o \in [at : Works, idx : Nat, p : Nat] /\ i \in Nat /\ o.p \in Nat
      /\ slot \in [Places -> Nat] /\ nvsCount \in 0 .. Max /\ count \in 0 .. Max
      /\ made \in Nat /\ kept \subseteq Nat \ {0} /\ raced \in BOOLEAN
      /\ Max \in Nat \ {0}
      /\ S!Idle = [at |-> "idle", idx |-> 0, p |-> 0]
  BY DeviceAssumption DEF StoreTypes, S!Sizes, S!Idle
<1>2. o.at # "idle" => /\ \A u \in S!Tasks : u # t => op[u] = S!Idle
                       /\ op["menu"].at \in {o.at, "idle"}
  BY <1>1, TwoTasks DEF OneWriter
<1>3. o.at \in {"append", "counted", "update"} => Gap = Max /\ nvsCount = count
  BY <1>2 DEF Gap, Counted
<1>4. CASE S!Append(t)
  <2>1. /\ o.at = "append" /\ slot' = [slot EXCEPT ![i] = o.p]
        /\ S!Goes(t, "counted", i, o.p)
        /\ UNCHANGED <<nvsCount, nvsSelected, count, selected, made, kept, raced>>
    BY <1>4 DEF S!Append, S!ram, S!history
  <2>2. i = count /\ count < Max /\ o.p # 0 /\ i \in Places
    BY <1>1, <2>1 DEF Placed, Places
  <2>3. /\ op' \in [S!Tasks -> [at : Works, idx : Nat, p : Nat]]
        /\ op'[t].at = "counted" /\ op'[t].idx = i /\ op'[t].p = o.p
        /\ \A u \in S!Tasks : u # t => op'[u] = S!Idle
    <3>1. "counted" \in Works /\ i \in Nat /\ o.p \in Nat
      BY <1>1 DEF Works
    <3>2. /\ op' \in [S!Tasks -> [at : Works, idx : Nat, p : Nat]]
          /\ op'[t].at = "counted" /\ op'[t].idx = i /\ op'[t].p = o.p
          /\ \A u \in S!Tasks : u # t => op'[u] = op[u]
      BY <2>1, <3>1, Entries
    <3> QED
      BY <1>2, <2>1, <3>2
  <2>4. slot' \in [Places -> Nat] /\ slot'[i] = o.p /\ \A j \in Places \ {i} : slot'[j] = slot[j]
    BY <1>1, <2>1, <2>2
  <2>5. StoreTypes' /\ OneWriter'
    BY <1>1, <2>1, <2>3, <2>4, TwoTasks DEF StoreTypes, OneWriter
  <2>6. Counted' /\ Gap' = Max /\ nvsCount = count
    BY <1>1, <1>3, <2>1, <2>3, TwoTasks DEF Counted, Gap
  <2>7. Placed'
    BY <1>1, <2>1, <2>2, <2>3, <2>4 DEF Placed
  <2>8. ASSUME NEW q \in kept'
        PROVE  Held(q)'
    <3>1. PICK j \in Places : j < nvsCount /\ j # Max /\ slot[j] = q
      BY <1>3, <2>1 DEF Held
    <3>2. j # i
      BY <1>1, <2>2, <2>6, <3>1 DEF Places
    <3> QED
      BY <2>1, <2>4, <2>6, <3>1, <3>2 DEF Held
  <2> QED
    BY <2>5, <2>6, <2>7, <2>8
<1>5. CASE S!Counted(t)
  <2>1. /\ o.at = "counted" /\ count' = i + 1 /\ nvsCount' = count'
        /\ kept' = kept \cup {o.p}
        /\ S!Done(t) \/ (t = "menu" /\ S!Goes(t, "select", i, 0))
        /\ UNCHANGED <<slot, made, raced>>
    BY <1>5 DEF S!Counted
  <2>2. i = count /\ count < Max /\ o.p # 0 /\ i \in Places /\ slot[i] = o.p
    BY <1>1, <2>1 DEF Placed, Places
  <2>3. /\ op' \in [S!Tasks -> [at : Works, idx : Nat, p : Nat]]
        /\ op'[t].at = "idle" \/ (t = "menu" /\ op'[t].at = "select")
        /\ t # "menu" => op'[t] = S!Idle
        /\ \A u \in S!Tasks : u # t => op'[u] = S!Idle
    BY <1>1, <1>2, <2>1, Entries DEF Works
  <2>4. StoreTypes' /\ OneWriter'
    <3>1. count' \in 0 .. Max /\ nvsCount' \in 0 .. Max
      BY <1>1, <2>1, <2>2
    <3> QED
      BY <1>1, <2>1, <2>2, <2>3, <3>1, TwoTasks DEF StoreTypes, OneWriter
  <2>5. Counted' /\ Gap' = Max /\ nvsCount = count
    BY <1>1, <1>3, <2>1, <2>3, TwoTasks DEF Counted, Gap
  <2>6. Placed'
    BY <1>1, <2>3 DEF Placed
  <2>7. ASSUME NEW q \in kept'
        PROVE  Held(q)'
    <3>1. CASE q = o.p
      BY <1>1, <2>1, <2>2, <2>5, <3>1 DEF Held
    <3>2. CASE q \in kept
      <4>1. PICK j \in Places : j < nvsCount /\ j # Max /\ slot[j] = q
        BY <1>3, <2>1, <3>2 DEF Held
      <4>2. j < nvsCount'
        BY <1>1, <2>1, <2>2, <2>5, <4>1 DEF Places
      <4> QED
        BY <2>1, <2>5, <4>1, <4>2 DEF Held
    <3> QED
      BY <2>1, <3>1, <3>2
  <2> QED
    BY <2>4, <2>5, <2>6, <2>7
<1>6. CASE S!Update(t)
  <2>1. /\ o.at = "update" /\ slot' = [slot EXCEPT ![i] = o.p]
        /\ kept' = (kept \ {slot[i]}) \cup {o.p} /\ S!Done(t)
        /\ UNCHANGED <<nvsCount, count, made, raced>>
    BY <1>6 DEF S!Update, S!ram
  <2>2. i < count /\ o.p # 0 /\ i \in Places
    BY <1>1, <2>1 DEF Placed, Places
  <2>3. /\ op' \in [S!Tasks -> [at : Works, idx : Nat, p : Nat]]
        /\ op'[t] = S!Idle /\ op'[t].at = "idle"
        /\ \A u \in S!Tasks : u # t => op'[u] = S!Idle
    BY <1>1, <1>2, <2>1, Entries DEF Works
  <2>4. slot' \in [Places -> Nat] /\ slot'[i] = o.p /\ \A j \in Places \ {i} : slot'[j] = slot[j]
    BY <1>1, <2>1, <2>2
  <2>5. StoreTypes' /\ OneWriter'
    BY <1>1, <2>1, <2>2, <2>3, <2>4, TwoTasks DEF StoreTypes, OneWriter
  <2>6. Counted' /\ Gap' = Max /\ nvsCount = count
    BY <1>1, <1>3, <2>1, <2>3, TwoTasks DEF Counted, Gap
  <2>7. Placed'
    BY <1>1, <2>3 DEF Placed
  <2>8. ASSUME NEW q \in kept'
        PROVE  Held(q)'
    <3>1. CASE q = o.p
      <4>1. i < nvsCount' /\ i # Max
        BY <1>1, <2>1, <2>2, <2>6
      <4> QED
        BY <2>2, <2>4, <2>6, <3>1, <4>1 DEF Held
    <3>2. CASE q \in kept /\ q # slot[i]
      <4>1. PICK j \in Places : j < nvsCount /\ j # Max /\ slot[j] = q
        BY <1>3, <2>1, <3>2 DEF Held
      <4>2. j # i
        BY <3>2, <4>1
      <4> QED
        BY <2>1, <2>4, <2>6, <4>1, <4>2 DEF Held
    <3> QED
      BY <2>1, <3>1, <3>2
  <2> QED
    BY <2>5, <2>6, <2>7, <2>8
<1> QED
  BY <1>4, <1>5, <1>6

\* A removal: the gap moves up slot by slot, to the last one, which is erased.
LEMMA RemovalKeeps ==
  ASSUME Good, S!Shift \/ S!Erase \/ S!Recount \/ S!Reselect \/ S!Select
  PROVE  Good'
<1> USE DEF Good
<1> DEFINE o == op["menu"]
           i == op["menu"].idx
<1>1. /\ o \in [at : Works, idx : Nat, p : Nat] /\ i \in Nat
      /\ slot \in [Places -> Nat] /\ nvsCount \in 0 .. Max /\ count \in 0 .. Max
      /\ made \in Nat /\ kept \subseteq Nat \ {0} /\ raced \in BOOLEAN
      /\ Max \in Nat \ {0}
      /\ S!Idle = [at |-> "idle", idx |-> 0, p |-> 0]
  BY DeviceAssumption, TwoTasks DEF StoreTypes, S!Sizes, S!Idle
<1>2. o.at # "idle" => op["web"] = S!Idle
  BY <1>1 DEF OneWriter
\* What a step that is done with the slots leaves.
<1>3. ASSUME NEW at \in {"idle", "reselect", "select", "restart"},
             op' \in [S!Tasks -> [at : Works, idx : Nat, p : Nat]],
             op'["menu"].at = at, op'["web"] = S!Idle,
             UNCHANGED <<slot, count, made, kept, raced>>, nvsCount' = count,
             \A q \in kept : \E j \in Places : j < count /\ slot[j] = q
      PROVE  Good'
  <2>1. StoreTypes' /\ OneWriter' /\ Counted' /\ Gap' = Max
    BY <1>1, <1>3 DEF StoreTypes, OneWriter, Counted, Gap
  <2>2. Placed'
    BY <1>1, <1>3, TwoTasks DEF Placed
  <2>3. \A j \in Places : j # Max
    BY <1>1 DEF Places
  <2> QED
    BY <1>3, <2>1, <2>2, <2>3 DEF Held
<1>4. CASE S!Shift
  <2>1. o.at = "shift" /\ i + 1 < count /\ UNCHANGED <<nvsCount, count, made, kept, raced>>
    BY <1>4 DEF S!Shift, S!ram, S!history
  <2>2. /\ i \in Places /\ i + 1 \in Places /\ Gap = i /\ nvsCount = count /\ i # i + 1
    BY <1>1, <2>1 DEF Places, Gap, Counted
  <2>3. CASE slot[i + 1] = 0
    <3>1. S!Done("menu") /\ slot' = slot
      BY <1>4, <2>3 DEF S!Shift
    <3>2. /\ op' \in [S!Tasks -> [at : Works, idx : Nat, p : Nat]]
          /\ op'["menu"].at = "idle" /\ op'["web"] = op["web"]
      BY <3>1, Entries, TwoTasks DEF Works
    <3>3. \A q \in kept : \E j \in Places : j < count /\ slot[j] = q
      BY <2>2 DEF Held
    <3> QED
      BY <1>2, <1>3, <2>1, <2>2, <3>1, <3>2, <3>3
  <2>4. CASE slot[i + 1] # 0
    <3>1. S!Goes("menu", "shift", i + 1, 0) /\ slot' = [slot EXCEPT ![i] = slot[i + 1]]
      BY <1>4, <2>4 DEF S!Shift
    <3>2. /\ op' \in [S!Tasks -> [at : Works, idx : Nat, p : Nat]]
          /\ op'["menu"].at = "shift" /\ op'["menu"].idx = i + 1 /\ op'["web"] = S!Idle
      <4>1. "shift" \in Works /\ i + 1 \in Nat /\ 0 \in Nat /\ op["web"] = S!Idle
        BY <1>1, <1>2, <2>1 DEF Works
      <4> QED
        BY <3>1, <4>1, Entries, TwoTasks
    <3>3. /\ slot' \in [Places -> Nat] /\ slot'[i] = slot[i + 1]
          /\ \A j \in Places \ {i} : slot'[j] = slot[j]
      BY <1>1, <2>2, <3>1
    <3>4. StoreTypes' /\ OneWriter' /\ Counted' /\ Gap' = i + 1
      BY <1>1, <2>1, <2>2, <3>2, <3>3 DEF StoreTypes, OneWriter, Counted, Gap
    <3>5. Placed'
      BY <1>1, <2>1, <3>2, TwoTasks DEF Placed
    <3>6. ASSUME NEW q \in kept'
          PROVE  Held(q)'
      <4>1. PICK j \in Places : j < nvsCount /\ j # i /\ slot[j] = q
        BY <2>1, <2>2 DEF Held
      <4>2. CASE j = i + 1
        <5>1. i < nvsCount' /\ slot'[i] = q
          BY <1>1, <2>1, <2>2, <3>3, <4>1, <4>2
        <5> QED
          BY <2>2, <3>4, <5>1 DEF Held
      <4>3. CASE j # i + 1
        BY <2>1, <3>3, <3>4, <4>1, <4>3 DEF Held
      <4> QED
        BY <4>2, <4>3
    <3> QED
      BY <3>4, <3>5, <3>6
  <2> QED
    BY <2>3, <2>4
<1>5. CASE S!Erase
  <2>1. /\ o.at = "shift" /\ i + 1 >= count /\ slot' = [slot EXCEPT ![count - 1] = 0]
        /\ count' = count - 1 /\ S!Goes("menu", "recount", 0, 0)
        /\ UNCHANGED <<nvsCount, made, kept, raced>>
    BY <1>5 DEF S!Erase, S!history
  <2>2. i < count /\ Gap = i /\ nvsCount = count
    BY <2>1, TwoTasks DEF Placed, Gap, Counted
  <2>3. i = count - 1 /\ i \in Places /\ i # Max /\ count' = i /\ count' \in 0 .. Max
    BY <1>1, <2>1, <2>2 DEF Places
  <2>4. /\ op' \in [S!Tasks -> [at : Works, idx : Nat, p : Nat]]
        /\ op'["menu"].at = "recount" /\ op'["web"] = S!Idle
    BY <1>1, <1>2, <2>1, Entries, TwoTasks DEF Works
  <2>5. slot' \in [Places -> Nat] /\ slot'[i] = 0 /\ \A j \in Places \ {i} : slot'[j] = slot[j]
    BY <1>1, <2>1, <2>3
  <2>6. StoreTypes' /\ OneWriter' /\ Gap' = Max
    BY <1>1, <2>1, <2>3, <2>4, <2>5 DEF StoreTypes, OneWriter, Gap
  <2>7. Counted'
    BY <1>1, <2>1, <2>2, <2>3, <2>4, <2>5 DEF Counted
  <2>8. Placed'
    BY <1>1, <2>4, TwoTasks DEF Placed
  <2>9. ASSUME NEW q \in kept'
        PROVE  Held(q)'
    <3>1. PICK j \in Places : j < nvsCount /\ j # i /\ slot[j] = q
      BY <2>1, <2>2 DEF Held
    <3>2. j # Max /\ j < nvsCount' /\ slot'[j] = q
      BY <1>1, <2>1, <2>5, <3>1 DEF Places
    <3> QED
      BY <2>6, <3>2 DEF Held
  <2> QED
    BY <2>6, <2>7, <2>8, <2>9
<1>6. CASE S!Recount
  <2>1. /\ o.at = "recount" /\ nvsCount' = count /\ S!Goes("menu", "reselect", 0, 0)
        /\ UNCHANGED <<slot, count, made, kept, raced>>
    BY <1>6 DEF S!Recount, S!ram, S!history
  <2>2. nvsCount = count + 1 /\ slot[count] = 0
    BY <2>1 DEF Counted
  <2>3. /\ op' \in [S!Tasks -> [at : Works, idx : Nat, p : Nat]]
        /\ op'["menu"].at = "reselect" /\ op'["web"] = S!Idle
    BY <1>2, <2>1, Entries, TwoTasks DEF Works
  <2>4. ASSUME NEW q \in kept
        PROVE  \E j \in Places : j < count /\ slot[j] = q
    <3>1. PICK j \in Places : j < nvsCount /\ slot[j] = q
      BY DEF Held
    <3>2. j # count /\ j \in Nat
      BY <1>1, <2>2, <3>1 DEF Places
    <3> QED
      BY <1>1, <2>2, <3>1, <3>2
  <2> QED
    BY <1>3, <2>1, <2>3, <2>4
<1>7. CASE S!Reselect \/ S!Select
  <2>1. /\ o.at \in {"reselect", "select"} /\ UNCHANGED <<slot, nvsCount, count, made, kept, raced>>
        /\ S!Done("menu") \/ S!Goes("menu", "restart", 0, 0)
    BY <1>7 DEF S!Reselect, S!Select, S!ram, S!history
  <2>2. nvsCount = count
    BY <2>1 DEF Counted
  <2>3. /\ op' \in [S!Tasks -> [at : Works, idx : Nat, p : Nat]]
        /\ op'["menu"].at \in {"idle", "restart"} /\ op'["web"] = S!Idle
    BY <1>2, <2>1, Entries, TwoTasks DEF Works
  <2>4. \A q \in kept : \E j \in Places : j < count /\ slot[j] = q
    BY <2>2 DEF Held
  <2> QED
    BY <1>3, <2>1, <2>2, <2>3, <2>4
<1> QED
  BY <1>4, <1>5, <1>6, <1>7

\* A restart forgets what was being done: no slot is a gap any more.
LEMMA LoadKeeps ==
  ASSUME Good, S!Load
  PROVE  Good'
<1> USE DEF Good
<1>1. /\ count' = nvsCount /\ op' = [t \in S!Tasks |-> S!Idle]
      /\ UNCHANGED <<slot, nvsCount, made, kept, raced>>
  BY DEF S!Load, S!nvs, S!history
<1>2. S!Idle = [at |-> "idle", idx |-> 0, p |-> 0]
  BY DEF S!Idle
<1>3. op' \in [S!Tasks -> [at : Works, idx : Nat, p : Nat]]
  BY <1>1, <1>2 DEF Works
<1>4. StoreTypes'
  BY <1>1, <1>3 DEF StoreTypes
<1>5. OneWriter' /\ Counted' /\ Gap' = Max /\ Placed'
  BY <1>1, <1>2, TwoTasks DEF OneWriter, Counted, Gap, Placed
<1>6. \A j \in Places : j # Max
  BY DeviceAssumption DEF Places, S!Sizes
<1>7. \A q \in kept' : Held(q)'
  BY <1>1, <1>5, <1>6 DEF Held
<1> QED
  BY <1>4, <1>5, <1>7

LEMMA StoreKeeps ==
  ASSUME StoreInv, [S!Next]_store
  PROVE  StoreInv'
<1>1. CASE UNCHANGED store
  BY <1>1
  DEF store, StoreInv, StoreTypes, OneWriter, Counted, Placed, Held, Gap
<1>2. CASE S!Next
  <2>1. raced => raced'
    BY <1>2
    DEF S!Next, S!Steps, S!Restart, S!Load, S!MenuAdds, S!WebPosts, S!MenuUpdates,
        S!MenuRemoves, S!MenuSelects, S!Call, S!Append, S!Counted, S!Update, S!Shift, S!Erase,
        S!Recount, S!Reselect, S!Select, S!history
  <2>2. CASE ~raced'
    <3>1. Good
      BY <2>1, <2>2 DEF StoreInv, Good
    <3>2. Good'
      BY <1>2, <2>2, <3>1, CallsKeep, WritesKeep, RemovalKeeps, LoadKeeps
      DEF S!Next, S!Steps, S!Restart, Places
    <3> QED
      BY <3>2 DEF StoreInv, Good
  <2> QED
    BY <2>2 DEF StoreInv
<1> QED
  BY <1>1, <1>2

-----------------------------------------------------------------------------
(* The device. *)

\* A restart, whatever it is for, is a restart of the update task and of the
\* store, and no other step of one is a step of the other: what is proved of
\* the update task holds on the chip.
THEOREM DeviceRunsTheUpdate == DeviceSpec => Spec
<1>1. DeviceInit => Init
  BY DEF DeviceInit
<1>2. [DeviceNext]_device => [Next]_vars
  BY DEF DeviceNext, device, firmware, Update, Edit, UpdateReboots, ImageCrashes, MenuRestarts,
         PowerCut, Next
<1> QED
  BY <1>1, <1>2, PTL DEF DeviceSpec, Spec

LEMMA DeviceKeepsAStore == DeviceSpec => S!Init /\ [][S!Next]_store
<1>1. DeviceInit => S!Init
  BY DEF DeviceInit
<1>2. [DeviceNext]_device => [S!Next]_store
  BY DEF DeviceNext, device, Update, Edit, UpdateReboots, ImageCrashes, MenuRestarts, PowerCut,
         S!Next
<1> QED
  BY <1>1, <1>2, PTL DEF DeviceSpec

\* Profiles::add, update and remove write one NVS key after the other: at
\* whichever of them the chip restarts, and however often, every profile that
\* the user has not removed is in a slot that Profiles::init finds.
THEOREM ProfilesStay == DeviceSpec => []NoProfileLost
<1>1. StoreInv => NoProfileLost
  <2> SUFFICES ASSUME StoreInv, ~raced, NEW p \in kept
               PROVE  p \in S!Stored
    BY DEF NoProfileLost, S!NoProfileLost
  <2>1. PICK i \in Places : i < nvsCount /\ slot[i] = p
    BY DEF StoreInv, Held
  <2> QED
    BY <2>1 DEF S!Stored, Places
<1> QED
  BY <1>1, StoreBegins, StoreKeeps, DeviceKeepsAStore, PTL

\* On the chip, too, the bootloader finds an image to start, and one on trial
\* has a sound one to go back to.
THEOREM DeviceAlwaysBoots == DeviceSpec => [](Bootable /\ Fallback)
BY DeviceRunsTheUpdate, AlwaysBootable, AlwaysFallsBack, PTL

=============================================================================
