--------------------------------- MODULE Ui ---------------------------------
(***************************************************************************)
(* Who owns the display and the input of the device: the idle lock         *)
(* (main/screen_lock.cpp), the settings menu (main/menu.cpp), the soft     *)
(* keyboard, the AP-QR overlay, the compositor (main/ui_root.cpp) and the  *)
(* closures of app_main.cpp that tie them together.                        *)
(*                                                                         *)
(* Every handler runs under the UI lock, but the input tasks decide which  *)
(* handler to run BEFORE they take it, one atomic load at a time: at[s] is *)
(* where the task of byte source s stands, touch where the touch task      *)
(* does.  Time is counted in the 30 s of the lock timer.                   *)
(*                                                                         *)
(* Left out: what is drawn (shown is the topmost thing painted last over   *)
(* the terminal area), what the fields hold, the position of a tap.  A PIN *)
(* entry is empty, a match of the stored PIN, or something else.           *)
(***************************************************************************)
EXTENDS Integers

CONSTANTS
    Sources,        \* byte sources with a task of their own: USB-JTAG, UART, USB HID
    LockAfter,      \* g_timeout_min, in half minutes
    LockoutAfter,   \* wrong PINs before the first lockout (5 in the code)
    MaxShift,       \* how often the lockout doubles (3 in the code)
    MaxWrong        \* bound of the model: wrong PINs in a row

ASSUME BoundsAreNatural ==
    /\ LockAfter \in Nat \ {0} /\ LockoutAfter \in Nat \ {0}
    /\ MaxShift \in Nat /\ MaxWrong \in Nat

VARIABLES
    locked, awake, entry, attempts, lockout,  \* screen_lock, lockout in half minutes
    idle,                                     \* half minutes since activity_note()
    pinSet, enabled,                          \* what NVS holds
    menu, qr, kbd,                            \* menu.state_, the overlays' visible()
    sink, saved,                              \* where the soft keyboard types; the saved sinks
    overlay,                                  \* ui_root's overlay flag
    shown,                                    \* what the user sees in the terminal area
    boot,                                     \* whether the boot task still runs
    at, touch                                 \* where the input tasks stand

lockVars == <<locked, awake, entry, attempts, lockout>>
cfgVars  == <<pinSet, enabled>>
viewVars == <<menu, qr, kbd, overlay, shown>>
sinkVars == <<sink, saved>>
taskVars == <<boot, at, touch>>
vars == <<lockVars, idle, cfgVars, viewVars, sinkVars, taskVars>>

Editors == {"ProfileEditor", "WifiEdit"}
Menus   == {"Hidden", "ProfileList", "TofuList"} \cup Editors
Sinks   == {"terminal", "none"} \cup Editors
Keys    == {"digit", "back", "ok", "esc", "enter", "other"}

Smaller(a, b) == IF a < b THEN a ELSE b

\* The highest visible layer of the compositor, for a lock l, QR q, menu m.
Top(l, q, m) ==
    CASE l -> "lock" [] ~ l /\ q -> "qr" [] ~ l /\ ~ q /\ m # "Hidden" -> "menu"
      [] OTHER -> "terminal"

\* ui_root::invalidate of the whole screen.
Repaint == shown' = Top(locked', qr', menu')

-----------------------------------------------------------------------------
(* What a start of the device finds: RAM is fresh, NVS holds the settings. *)

Init ==
    /\ pinSet \in BOOLEAN
    /\ enabled \in {e \in BOOLEAN : e => pinSet}
    /\ locked = FALSE /\ awake = TRUE /\ entry = "empty" /\ attempts = 0 /\ lockout = 0
    /\ idle = 0
    /\ menu = "Hidden" /\ qr = FALSE /\ kbd = FALSE
    /\ sink = "terminal" /\ saved = [e \in Editors |-> "none"]
    /\ overlay = FALSE /\ shown = "terminal"
    /\ boot = "running"
    /\ at = [s \in Sources |-> "idle"] /\ touch = "idle"

-----------------------------------------------------------------------------
(* Locking: lock_now() and the on_lock hook, and the 30 s timer. *)

\* lock_now() after its two refusals, with app_main's on_lock hook.
Lock ==
    /\ locked' = TRUE /\ awake' = FALSE /\ entry' = "empty"
    /\ menu' = "Hidden" /\ qr' = FALSE /\ kbd' = FALSE
    /\ overlay' = TRUE
    /\ Repaint
    /\ UNCHANGED <<attempts, lockout, sinkVars>>

\* Mutant: the timer leaves an open menu alone.
IdleTickNotOverMenu ==
    /\ ~ locked /\ enabled /\ pinSet
    /\ \/ overlay /\ UNCHANGED <<idle, lockVars, viewVars, sinkVars>>
       \/ ~ overlay /\ idle >= LockAfter /\ Lock /\ UNCHANGED idle
    /\ UNCHANGED <<cfgVars, taskVars>>

\* on_scrlock_tick: tick() never locks over the QR overlay, it re-arms.
IdleTick ==
    /\ ~ locked /\ enabled /\ pinSet
    /\ \/ qr /\ idle' = 0 /\ UNCHANGED <<lockVars, viewVars, sinkVars>>
       \/ ~ qr /\ idle >= LockAfter /\ Lock /\ UNCHANGED idle
    /\ UNCHANGED <<cfgVars, taskVars>>

\* Half a minute passes.
Clock ==
    /\ idle' = Smaller(idle + 1, LockAfter)
    /\ lockout' = IF lockout > 0 THEN lockout - 1 ELSE 0
    /\ UNCHANGED <<locked, awake, entry, attempts, cfgVars, viewVars, sinkVars, taskVars>>

-----------------------------------------------------------------------------
(* The PIN pad: press_key, submit_entry, do_unlock. *)

\* do_unlock() and the on_unlock hook (its activity_note is in PadIdle).
Unlock ==
    /\ locked' = FALSE /\ attempts' = 0 /\ lockout' = 0
    /\ UNCHANGED <<awake, menu, qr, kbd>>
    /\ overlay' = (menu # "Hidden" \/ qr)
    /\ Repaint

\* A wrong PIN: from the LockoutAfter-th on the pad is disabled, ever longer.
Reject ==
    LET n == attempts + 1 IN
    /\ attempts < MaxWrong
    /\ attempts' = n
    /\ lockout' = IF n >= LockoutAfter THEN 2 ^ Smaller(n - LockoutAfter, MaxShift)
                  ELSE lockout
    /\ UNCHANGED <<locked, awake, viewVars>>

Submit ==
    /\ entry' = "empty"
    /\ IF entry = "match" THEN Unlock ELSE Reject

\* Mutant: [OK] works during a lockout.
PadKeyAlways(k) ==
    /\ \/ k = "ok" /\ Submit
       \/ /\ k # "ok" /\ entry' \in {"match", "other"}
          /\ UNCHANGED <<locked, awake, attempts, lockout, viewVars>>
    /\ UNCHANGED sinkVars

\* One byte or tap on the pad (press_key; feed_key maps bytes to keys).
PadKey(k) ==
    /\ \/ lockout = 0 /\ k = "ok" /\ Submit
       \/ /\ lockout = 0
          /\ \/ k = "digit" /\ entry' \in IF entry = "other" THEN {"match", "other"} ELSE {"other"}
             \/ k = "back"  /\ entry' \in CASE entry = "empty" -> {"empty"}
                                            [] entry = "match" -> {"other"}
                                            [] entry = "other" -> {"empty", "match", "other"}
          /\ UNCHANGED <<locked, awake, attempts, lockout, viewVars>>
       \/ /\ lockout > 0 \/ k \notin {"ok", "digit", "back"}
          /\ UNCHANGED <<lockVars, viewVars>>
    /\ UNCHANGED sinkVars

\* Mutant: the input that wakes the display is also typed.
OnPadWhileDark(k) ==
    \/ ~ locked /\ UNCHANGED <<lockVars, viewVars, sinkVars>>
    \/ locked /\ PadKey(k)

\* Input that belongs to the lock screen, once its task has the UI lock: the
\* first one only wakes the backlight; it is dropped if the lock is gone.
OnPad(k) ==
    \/ ~ locked /\ UNCHANGED <<lockVars, viewVars, sinkVars>>
    \/ /\ locked /\ ~ awake
       /\ awake' = TRUE
       /\ UNCHANGED <<locked, entry, attempts, lockout, viewVars, sinkVars>>
    \/ locked /\ awake /\ PadKey(k)

\* do_unlock() notes an activity, nothing else the pad does is one.
PadIdle == idle' = IF locked /\ ~ locked' THEN 0 ELSE idle

-----------------------------------------------------------------------------
(* The menu and the soft keyboard, under the UI lock. *)

\* repaint_menu after m became the menu's state.
MenuRepaint(m) ==
    /\ menu' = m /\ UNCHANGED <<locked, qr>>
    /\ overlay' = (m # "Hidden" \/ qr)
    /\ Repaint

OpenMenu ==
    /\ menu = "Hidden"
    /\ kbd' = FALSE
    /\ MenuRepaint("ProfileList")
    /\ UNCHANGED sinkVars

CloseMenu == MenuRepaint("Hidden") /\ UNCHANGED <<kbd, sinkVars>>

\* open_editor / open_wifi: take the keyboard's sink, and show the keyboard.
\* Showing it repaints through the compositor; else the menu paints itself.
OpenEditor(e) ==
    /\ menu' = e /\ kbd' = TRUE
    /\ saved' = [saved EXCEPT ![e] = sink] /\ sink' = e
    /\ UNCHANGED <<qr, overlay>>
    /\ shown' = IF kbd THEN "menu" ELSE Top(locked, qr, e)

\* close_editor / close_wifi: give the sink back, and hide the keyboard.
CloseEditor(e) ==
    /\ menu = e
    /\ menu' = "ProfileList" /\ kbd' = FALSE
    /\ sink' = saved[e] /\ saved' = [saved EXCEPT ![e] = "none"]
    /\ UNCHANGED <<qr, overlay>>
    /\ shown' = IF kbd THEN Top(locked, qr, menu') ELSE "menu"

\* Another view of the menu that just renders itself over everything.
ShowView(m) ==
    /\ menu' = m /\ shown' = "menu"
    /\ UNCHANGED <<qr, kbd, overlay, sinkVars>>

\* The [AP QR] button of the profile list (nothing when the portal is down).
ShowApQr ==
    /\ menu' = "Hidden" /\ qr' = TRUE /\ overlay' = TRUE
    /\ shown' = Top(locked, TRUE, "Hidden")
    /\ UNCHANGED <<kbd, sinkVars>>

\* A byte of a keyboard while the menu is up: Menu::feed.
MenuKey(k) ==
    /\ \/ menu = "Hidden" /\ UNCHANGED <<viewVars, sinkVars>>
       \/ k = "esc" /\ menu = "ProfileList" /\ CloseMenu
       \/ k = "esc" /\ menu = "TofuList" /\ MenuRepaint("ProfileList") /\ UNCHANGED <<kbd, sinkVars>>
       \/ k = "esc" /\ \E e \in Editors : CloseEditor(e)
       \/ k = "enter" /\ menu = "ProfileList" /\ OpenEditor("ProfileEditor")
       \/ k # "esc" /\ menu # "Hidden" /\ ShowView(menu)
       \/ k # "esc" /\ UNCHANGED <<viewVars, sinkVars>>
    /\ UNCHANGED lockVars

\* A tap that Menu::handle_touch consumes, restarts excepted.
MenuTap ==
    \/ /\ menu = "ProfileList"
       /\ \/ CloseMenu \/ ShowApQr \/ ShowView("TofuList")
          \/ \E e \in Editors : OpenEditor(e)
          \/ ShowView("ProfileList")
       /\ UNCHANGED lockVars
    \/ /\ menu = "ProfileList" /\ pinSet
       /\ \/ ~ locked /\ Lock
          \/ locked /\ menu' = "Hidden" /\ UNCHANGED <<lockVars, qr, kbd, overlay, shown, sinkVars>>
    \/ /\ menu = "TofuList"
       /\ CloseMenu \/ ShowView("ProfileList") \/ ShowView("TofuList")
       /\ UNCHANGED lockVars
    \/ /\ menu \in Editors
       /\ CloseEditor(menu) \/ ShowView(menu)
       /\ UNCHANGED lockVars

\* SoftKeyboard::toggle with repaint_kbd: the panel's region is repainted.
ToggleKbd ==
    /\ kbd' = ~ kbd
    /\ shown' = IF Top(locked, qr, menu) = "terminal" THEN shown ELSE Top(locked, qr, menu)
    /\ UNCHANGED <<menu, qr, overlay, lockVars, sinkVars>>

\* Mutant: dismissing the overlay forgets the menu below it.
DismissAll ==
    /\ qr' = FALSE /\ UNCHANGED <<menu, locked>>
    /\ overlay' = FALSE
    /\ Repaint
    /\ UNCHANGED <<awake, entry, attempts, lockout, kbd, sinkVars>>

\* dismiss_qr_screen_if_visible after its unlocked test.
Dismiss ==
    /\ qr' = FALSE /\ UNCHANGED <<menu, locked>>
    /\ overlay' = (menu # "Hidden")
    /\ Repaint
    /\ UNCHANGED <<awake, entry, attempts, lockout, kbd, sinkVars>>

\* A byte for the remote, or fed to the local terminal and painted (apply).
ToTerminal ==
    /\ shown' \in IF overlay THEN {shown} ELSE {shown, "terminal"}
    /\ UNCHANGED <<lockVars, menu, qr, kbd, overlay, sinkVars>>

\* A key of the soft keyboard goes to the sink in place: an editor's, or, with
\* the UI lock still held, the whole of make_source_sink.  An editor's feed
\* takes any sequence that starts with ESC for a lone ESC.
SoftKey(k) ==
    \/ /\ sink \in Editors
       /\ \/ k = "esc" /\ CloseEditor(sink)
          \/ menu = sink /\ ShowView(menu)
          \/ UNCHANGED <<viewVars, sinkVars>>
       /\ UNCHANGED lockVars
    \/ /\ sink = "terminal"
       /\ CASE locked -> OnPad(k)
            [] ~ locked /\ qr -> Dismiss
            [] ~ locked /\ ~ qr /\ menu # "Hidden" -> MenuKey(k)
            [] OTHER -> ToTerminal

\* SoftKeyboard::handle_touch but for the keys that type: the two buttons,
\* which the menu covers, and the panel with its [Hide] key.
KbdTap ==
    \/ menu = "Hidden" /\ ToggleKbd
    \/ menu = "Hidden" /\ OpenMenu /\ UNCHANGED lockVars
    \/ kbd /\ ToggleKbd
    \/ UNCHANGED <<lockVars, viewVars, sinkVars>>

-----------------------------------------------------------------------------
(* make_source_sink, on the task of byte source s. *)

Goto(s, pc) == at' = [at EXCEPT ![s] = pc] /\ UNCHANGED <<boot, touch>>

\* Bytes arrive: activity_note(), then locked() without the UI lock.
SourceByte(s) ==
    /\ at[s] = "idle"
    /\ idle' = 0
    /\ Goto(s, IF locked THEN "pad" ELSE "testQr")
    /\ UNCHANGED <<lockVars, cfgVars, viewVars, sinkVars>>

SourcePad(s) ==
    /\ at[s] = "pad"
    /\ \E k \in Keys : OnPad(k)
    /\ PadIdle
    /\ Goto(s, "idle") /\ UNCHANGED cfgVars

\* The visible() tests of the QR overlay and of the menu, still unlocked.
SourceTest(s) ==
    /\ \/ at[s] = "testQr" /\ Goto(s, IF qr THEN "dismiss" ELSE "testMenu")
       \/ at[s] = "testMenu" /\ Goto(s, IF menu # "Hidden" THEN "menu" ELSE "out")
    /\ UNCHANGED <<lockVars, idle, cfgVars, viewVars, sinkVars>>

\* The handler that the tests chose.
SourceAct(s) ==
    /\ \/ at[s] = "dismiss" /\ Dismiss
       \/ at[s] = "menu" /\ \E k \in Keys : MenuKey(k)
       \/ at[s] = "out" /\ ToTerminal
    /\ Goto(s, "idle") /\ UNCHANGED <<idle, cfgVars>>

-----------------------------------------------------------------------------
(* The touch task. *)

TouchGoto(pc) == touch' = pc /\ UNCHANGED <<boot, at>>

TouchEvent ==
    /\ touch = "idle"
    /\ idle' = 0
    /\ TouchGoto(IF locked THEN "pad" ELSE "testQr")
    /\ UNCHANGED <<lockVars, cfgVars, viewVars, sinkVars>>

\* Only a touch-down reaches a key of the pad; every event wakes it.
TouchPad ==
    /\ touch = "pad"
    /\ \E k \in Keys : OnPad(k)
    /\ PadIdle
    /\ TouchGoto("idle") /\ UNCHANGED cfgVars

\* The boot panel's [Cancel] button and the QR overlay take the event first.
TouchTest ==
    /\ touch = "testQr"
    /\ \/ TouchGoto(IF qr THEN "dismiss" ELSE "under")
       \/ (boot = "running" \/ qr) /\ TouchGoto("idle")
    /\ UNCHANGED <<lockVars, idle, cfgVars, viewVars, sinkVars>>

TouchDismiss ==
    /\ touch = "dismiss"
    /\ Dismiss
    /\ TouchGoto("idle") /\ UNCHANGED <<idle, cfgVars>>

\* The menu, or what it lets through to the keyboard.
TouchUnder ==
    /\ touch = "under"
    /\ \/ MenuTap /\ UNCHANGED idle
       \/ menu \in Editors \cup {"Hidden"} /\ KbdTap /\ UNCHANGED idle
       \/ /\ menu \in Editors \cup {"Hidden"} /\ kbd
          /\ \E k \in Keys : SoftKey(k)
          /\ idle' = IF sink = "terminal" THEN 0 ELSE idle
    /\ TouchGoto("idle") /\ UNCHANGED cfgVars

\* Selecting a profile and saving the Wi-Fi settings restart the device.
Restart ==
    /\ touch = "under" /\ menu \in {"ProfileList", "WifiEdit"}
    /\ locked' = FALSE /\ awake' = TRUE /\ entry' = "empty" /\ attempts' = 0 /\ lockout' = 0
    /\ idle' = 0
    /\ menu' = "Hidden" /\ qr' = FALSE /\ kbd' = FALSE
    /\ sink' = "terminal" /\ saved' = [e \in Editors |-> "none"]
    /\ overlay' = FALSE /\ shown' = "terminal"
    /\ boot' = "running"
    /\ at' = [s \in Sources |-> "idle"] /\ touch' = "idle"
    /\ UNCHANGED cfgVars

-----------------------------------------------------------------------------
(* The other tasks. *)

\* POST of the lock settings: the PIN first, then the flag, either may fail.
\* A PIN that is replaced leaves an entry that matched the old one.
SaveConfig ==
    /\ \E enable, newPin, saveFails \in BOOLEAN :
          /\ enable => newPin \/ pinSet
          /\ newPin \/ ~ saveFails
          /\ pinSet' = (pinSet \/ newPin)
          /\ enabled' = IF saveFails THEN enabled ELSE enable
          /\ idle' = IF saveFails THEN idle ELSE 0
          /\ entry' \in IF newPin /\ entry # "empty" THEN {"match", "other"} ELSE {entry}
    /\ UNCHANGED <<locked, awake, attempts, lockout, viewVars, sinkVars, taskVars>>

\* Remote output: fed under an overlay, painted without one.
RemoteRx ==
    /\ ~ overlay /\ shown' = "terminal"
    /\ UNCHANGED <<lockVars, idle, cfgVars, menu, qr, kbd, overlay, sinkVars, taskVars>>

\* The boot task's term_write, which does not look at the overlay flag.
BootWrite ==
    /\ boot = "running"
    /\ shown' = "terminal"
    /\ UNCHANGED <<lockVars, idle, cfgVars, menu, qr, kbd, overlay, sinkVars, taskVars>>

\* The boot task ends, over the provisioning overlay when there is no Wi-Fi.
BootEnds ==
    /\ boot = "running" /\ boot' = "done"
    /\ \/ UNCHANGED viewVars
       \/ qr' = TRUE /\ overlay' = TRUE /\ UNCHANGED <<locked, menu, kbd>> /\ Repaint
    /\ UNCHANGED <<lockVars, idle, cfgVars, sinkVars, at, touch>>

Next ==
    \/ \E s \in Sources : SourceByte(s) \/ SourcePad(s) \/ SourceTest(s) \/ SourceAct(s)
    \/ TouchEvent \/ TouchPad \/ TouchTest \/ TouchDismiss \/ TouchUnder \/ Restart
    \/ IdleTick \/ Clock \/ SaveConfig \/ RemoteRx \/ BootWrite \/ BootEnds

\* Time passes and the lock timer keeps firing; nobody has to touch anything.
Spec == Init /\ [][Next]_vars /\ WF_vars(Clock) /\ WF_vars(IdleTick)

-----------------------------------------------------------------------------
(* Properties. *)

\* Every variable keeps its type: the states of screen_lock, menu and ui_root.
TypeOK ==
    /\ {locked, awake, pinSet, enabled, qr, kbd, overlay} \subseteq BOOLEAN
    /\ entry \in {"empty", "match", "other"}
    /\ attempts \in 0 .. MaxWrong
    /\ lockout \in 0 .. 2 ^ MaxShift
    /\ idle \in 0 .. LockAfter
    /\ menu \in Menus /\ sink \in Sinks /\ saved \in [Editors -> Sinks]
    /\ shown \in {"lock", "qr", "menu", "terminal"}
    /\ boot \in {"running", "done"}
    /\ at \in [Sources -> {"idle", "pad", "testQr", "testMenu", "dismiss", "menu", "out"}]
    /\ touch \in {"idle", "pad", "testQr", "dismiss", "under"}

\* While the device is unlocked, ui_root's overlay flag, which gates what
\* remote output and the cursor paint, says whether a modal is up: whichever
\* of the menu, the QR overlay and the lock came and went, on whatever task.
OverlayFlagTracks == ~ locked => (overlay <=> menu # "Hidden" \/ qr)

\* The backlight is off only under the lock, and the input that turns it on is
\* never part of a PIN: no blank screen over a live terminal, no blind typing.
DarkOnlyWhenLocked == ~ awake => locked /\ entry = "empty"

\* During a lockout no input of any task, physical key, tap or soft key, can
\* unlock the device or be counted as a try; only a restart ends it early.
LockoutHolds ==
    [][lockout > 0 /\ ~ Restart => locked' = locked /\ attempts' = attempts]_vars

\* With the lock enabled, a device nobody uses locks: the timer fires however
\* the overlays come and go, and only activity, or a QR overlay, puts it off.
IdleLocks == []<>(locked \/ idle = 0 \/ ~ enabled)

\* menu.cpp: the keyboard's sink is redirected `until close_editor() restores
\* it'; outside the two editors the soft keyboard types into the terminal.
SinkRestored == menu \notin Editors => sink = "terminal"

\* app_main.cpp: `topmost -- nothing may paint over the PIN pad'.
NothingOverPinPad == locked => shown = "lock"

=============================================================================
