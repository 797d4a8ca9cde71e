------------------------------ MODULE Settings ------------------------------
(***************************************************************************)
(* The profile store, profiles.cpp, and its two writers: the menu on the   *)
(* touch task (menu.cpp) and the settings page on the task of the HTTP     *)
(* server (http_config.cpp).  Every NVS write is a step of its own and in  *)
(* flash when it is made; a restart may come between any two.              *)
(*                                                                         *)
(* A profile is a number, and an edited profile another one.  Flash does   *)
(* not run full.  The writes of the first boot are made in one go.         *)
(***************************************************************************)
EXTENDS Naturals, FiniteSets

CONSTANTS Max,        \* CONFIG_TAB5_MAX_PROFILES
          Filled,     \* how many profiles there are at the start
          MaxMade     \* bound: and how many are ever made

\* What the sizes must be (DeviceAssumption).
Sizes ==
  Max \in Nat \ {0} /\ Filled \subseteq 0 .. Max /\ MaxMade \in Nat

VARIABLES
  slot, nvsCount, nvsSelected,   \* NVS; 0 for a key that is not there
  count, selected,               \* count_, selected_
  op,          \* what each task is doing: [at, idx, p]
  made,        \* the last profile
  kept,        \* history: the profiles the user has
  raced        \* history: have the two tasks edited at a time?

nvs == <<slot, nvsCount, nvsSelected>>
ram == <<count, selected>>
history == <<made, kept, raced>>
vars == <<nvs, ram, op, history>>

Tasks == {"menu", "web"}
Idle == [at |-> "idle", idx |-> 0, p |-> 0]
Stored == {slot[i] : i \in {j \in 0 .. Max - 1 : j < nvsCount}}

Init ==
  /\ nvsCount \in Filled /\ nvsSelected \in 0 .. Max - 1
  /\ nvsSelected < nvsCount \/ nvsSelected = 0
  /\ slot = [i \in 0 .. Max - 1 |-> IF i < nvsCount THEN i + 1 ELSE 0]
  /\ count = nvsCount /\ selected = nvsSelected
  /\ op = [t \in Tasks |-> Idle] /\ made = nvsCount /\ kept = 1 .. nvsCount /\ raced = FALSE

Goes(t, at, idx, p) == op' = [op EXCEPT ![t] = [at |-> at, idx |-> idx, p |-> p]]
Done(t) == op' = [op EXCEPT ![t] = Idle]

\* A task calls the store; it matters whether the other one is at work.
Call(t, at, idx, p) ==
  /\ op[t] = Idle /\ Goes(t, at, idx, p)
  /\ raced' = (raced \/ \E u \in Tasks : op[u] # Idle)
  /\ UNCHANGED <<nvs, ram>>

New == made + 1
MayMake == made < MaxMade

-----------------------------------------------------------------------------
(* The calls *)

\* A store that is full refuses, and nothing changes.
MenuAdds ==
  /\ count < Max /\ MayMake /\ made' = New /\ UNCHANGED kept
  /\ Call("menu", "append", count, New)

MenuUpdates(i) ==
  /\ i < count /\ MayMake /\ made' = New /\ UNCHANGED kept
  /\ Call("menu", "update", i, New)

MenuRemoves(i) ==
  /\ i < count /\ UNCHANGED made
  /\ kept' = kept \ {slot[i]}
  /\ Call("menu", "shift", i, 0)

MenuSelects(i) ==
  /\ i < count /\ UNCHANGED <<made, kept>>
  /\ Call("menu", "select", i, 1)

\* POST /api/profile
WebPosts ==
  /\ MayMake /\ made' = New /\ UNCHANGED kept
  /\ Call("web", IF count > 0 THEN "update" ELSE "append", 0, New)

-----------------------------------------------------------------------------
(* Profiles::add, update, remove, select, a write a step *)

Append(t) ==
  /\ op[t].at = "append"
  /\ slot' = [slot EXCEPT ![op[t].idx] = op[t].p]
  /\ Goes(t, "counted", op[t].idx, op[t].p)
  /\ UNCHANGED <<nvsCount, nvsSelected, ram, history>>

\* The menu then selects what it has added.
Counted(t) ==
  /\ op[t].at = "counted"
  /\ count' = op[t].idx + 1 /\ nvsCount' = count' /\ kept' = kept \cup {op[t].p}
  /\ IF t = "menu" THEN Goes(t, "select", op[t].idx, 0) ELSE Done(t)
  /\ UNCHANGED <<slot, nvsSelected, selected, made, raced>>

Update(t) ==
  /\ op[t].at = "update"
  /\ slot' = [slot EXCEPT ![op[t].idx] = op[t].p]
  /\ kept' = (kept \ {slot[op[t].idx]}) \cup {op[t].p}
  /\ Done(t)
  /\ UNCHANGED <<nvsCount, nvsSelected, ram, made, raced>>

\* Mutant: a profile is erased before it is written one slot below.
ShiftByMoving ==
  LET o == op["menu"] IN
    /\ o.at = "shift" /\ o.idx + 1 < count
    /\ IF o.p = 0
       THEN /\ Goes("menu", "shift", o.idx, slot[o.idx + 1])
            /\ slot' = [slot EXCEPT ![o.idx + 1] = 0]
       ELSE Goes("menu", "shift", o.idx + 1, 0) /\ slot' = [slot EXCEPT ![o.idx] = o.p]
    /\ UNCHANGED <<nvsCount, nvsSelected, ram, history>>

\* The slots above move down, as far as they can be loaded.
Shift ==
  LET i == op["menu"].idx IN
    /\ op["menu"].at = "shift" /\ i + 1 < count
    /\ IF slot[i + 1] = 0 THEN Done("menu") /\ UNCHANGED slot
       ELSE slot' = [slot EXCEPT ![i] = slot[i + 1]] /\ Goes("menu", "shift", i + 1, 0)
    /\ UNCHANGED <<nvsCount, nvsSelected, ram, history>>

Erase ==
  /\ op["menu"].at = "shift" /\ op["menu"].idx + 1 >= count
  /\ slot' = [slot EXCEPT ![count - 1] = 0]
  /\ count' = count - 1
  /\ selected' = IF selected < count' THEN selected ELSE IF count' > 0 THEN count' - 1 ELSE 0
  /\ Goes("menu", "recount", 0, 0)
  /\ UNCHANGED <<nvsCount, nvsSelected, history>>

Recount ==
  /\ op["menu"].at = "recount" /\ nvsCount' = count
  /\ Goes("menu", "reselect", 0, 0)
  /\ UNCHANGED <<slot, nvsSelected, ram, history>>

Reselect ==
  /\ op["menu"].at = "reselect" /\ nvsSelected' = selected /\ Done("menu")
  /\ UNCHANGED <<slot, nvsCount, ram, history>>

\* A row that is tapped restarts the program.
Select ==
  /\ op["menu"].at = "select"
  /\ IF op["menu"].idx < count
     THEN selected' = op["menu"].idx /\ nvsSelected' = selected'
     ELSE UNCHANGED <<selected, nvsSelected>>
  /\ IF op["menu"].p = 1 THEN Goes("menu", "restart", 0, 0) ELSE Done("menu")
  /\ UNCHANGED <<slot, nvsCount, count, history>>

Steps ==
  \/ MenuAdds \/ WebPosts
  \/ \E i \in 0 .. Max - 1 : MenuUpdates(i) \/ MenuRemoves(i) \/ MenuSelects(i)
  \/ \E t \in Tasks : Append(t) \/ Counted(t) \/ Update(t)
  \/ Shift \/ Erase \/ Recount \/ Reselect \/ Select

\* Profiles::init
Load ==
  /\ count' = nvsCount /\ selected' = IF nvsSelected < nvsCount THEN nvsSelected ELSE 0
  /\ op' = [t \in Tasks |-> Idle]
  /\ UNCHANGED <<nvs, history>>

Restart == op["menu"].at = "restart" /\ Load

Next == Steps \/ Restart \/ Load

Spec == Init /\ [][Next]_vars

\* A profile that was not removed is in the store at any time, also if the
\* program is stopped in the middle of a removal, which moves the profiles
\* above it one by one.  (Not if the page is posted during an edit.)
NoProfileLost == raced \/ kept \subseteq Stored
=============================================================================
