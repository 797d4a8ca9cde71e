----------------------------- MODULE Reconnect -----------------------------
(***************************************************************************)
(* The supervisor (reconnect.cpp), the boot task's first connect and the   *)
(* soft keyboard that changes the height of the terminal (app_main.cpp),   *)
(* over any IConnection.  The transport is the one of module Connection,   *)
(* with the one pending resize it keeps for its I/O task.  A delay is a    *)
(* step of its own: how long it takes is what `backoff' is about.          *)
(***************************************************************************)
EXTENDS Integers

CONSTANTS
    InitialBackoff, MaxBackoff, Factor,  \* ReconnectConfig
    FullRows, KbdRows,                   \* kRows, kRowsKbd
    NoRows                               \* no resize is pending

ASSUME BackoffConfig ==
    /\ {InitialBackoff, MaxBackoff, Factor} \subseteq Nat \ {0}
    /\ InitialBackoff <= MaxBackoff
ASSUME NoRowsIsNoHeight == NoRows \notin {FullRows, KbdRows}

VARIABLES
    session,          \* Connection: down, opening, open or closing
    active,           \* set_active_connection was called
    super,            \* where the boot task, then the supervisor stands
    backoff, was,     \* its locals: the delay and was_connected
    replay,           \* the rows get_size returned
    gridRows,         \* the height of the terminal
    keyboard,         \* where the touch task stands in repaint_kbd
    pending,          \* the resize the transport still has to send
    ptyRows,          \* the height the remote pty has
    lostRows,         \* history: the last resize, if the transport lost it
    network,          \* whether a connect can succeed
    upSince,          \* history: a session opened since the last attempt
    opener, toggled   \* history: who opened it, and a toggle since it began

localVars == <<backoff, was, replay>>
ptyVars == <<ptyRows, lostRows>>
sizeVars  == <<gridRows, keyboard, pending, ptyVars, toggled>>
history   == <<upSince, opener>>
reconnectVars == <<session, active, super, localVars, sizeVars, network, history>>

Transport == INSTANCE Connection

Heights == {FullRows, KbdRows}

Shorter(a, b) == IF a <= b THEN a ELSE b

-----------------------------------------------------------------------------
(* start(), from either task, and what the transport does by itself. *)

StartBegins(from, to) ==
    /\ super = from /\ super' = to
    /\ Transport!Begin
    /\ upSince' = FALSE /\ opener' = from /\ toggled' = FALSE
    /\ UNCHANGED <<active, localVars, gridRows, keyboard, pending, ptyVars, network>>

\* start() refuses while the last session is still being torn down.
StartRefused(from, to) ==
    /\ super = from /\ super' = to
    /\ session = "closing"
    /\ upSince' = FALSE
    /\ UNCHANGED <<session, active, sizeVars, network, opener>>

\* A new session has a pty of the configured height (a resize that was left
\* pending is still sent to it).
StartSucceeds(from, to) ==
    /\ super = from /\ super' = to
    /\ network
    /\ Transport!Establish
    /\ ptyRows' = FullRows /\ lostRows' = NoRows
    /\ upSince' = TRUE
    /\ UNCHANGED <<active, gridRows, keyboard, pending, toggled, network, opener>>

StartFails(from, to) ==
    /\ super = from /\ super' = to
    /\ ~ network
    /\ Transport!Refuse
    /\ UNCHANGED <<active, sizeVars, network, history>>

\* The I/O task takes a pending resize and sends it, or fails to, with the
\* session still open, and does not try again.
SendResize ==
    /\ session = "open" /\ pending # NoRows
    /\ \/ ptyRows' = pending /\ lostRows' = NoRows
       \/ lostRows' = pending /\ UNCHANGED ptyRows
    /\ pending' = NoRows
    /\ UNCHANGED <<session, active, super, localVars, gridRows, keyboard, toggled, network, history>>

\* The session drops with the network, or because the remote ends it.
SessionDrops ==
    /\ Transport!Drop
    /\ UNCHANGED <<active, super, localVars, sizeVars, network, history>>

SessionEnds ==
    /\ Transport!Finish
    /\ UNCHANGED <<active, super, localVars, sizeVars, network, history>>

NetworkChanges ==
    /\ network' = ~ network
    /\ UNCHANGED <<session, active, super, localVars, sizeVars, history>>

\* resize(): dropped unless connected.
AskResize(rows) == pending' = IF session = "open" THEN rows ELSE pending

-----------------------------------------------------------------------------
(* The boot task: one attempt, then the connection is made active. *)

BootStart == StartBegins("boot", "booting")

BootStarted ==
    /\ StartSucceeds("booting", "booted") \/ StartFails("booting", "booted")
    /\ UNCHANGED localVars

Activate ==
    /\ super = "booted" /\ super' = "first"
    /\ active' = TRUE
    /\ UNCHANGED <<session, localVars, sizeVars, network, history>>

-----------------------------------------------------------------------------
(* supervisor_task *)

\* was_connected = is_connected(), before the loop.
SuperviseFirst ==
    /\ super = "first" /\ super' = "check"
    /\ was' = (session = "open")
    /\ UNCHANGED <<session, active, backoff, replay, sizeVars, network, history>>

\* Mutant: only a drop the supervisor saw starts a reconnect.
CheckOnDrop ==
    /\ super = "check"
    /\ IF session = "open" \/ ~ was
       THEN super' = "look" /\ UNCHANGED backoff
       ELSE super' = "delay" /\ backoff' = InitialBackoff
    /\ UNCHANGED <<session, active, was, replay, sizeVars, network, history>>

Check ==
    /\ super = "check"
    /\ IF session = "open"
       THEN super' = "look" /\ UNCHANGED backoff
       ELSE /\ super' = "delay"
            /\ backoff' = IF was THEN InitialBackoff ELSE backoff
    /\ UNCHANGED <<session, active, was, replay, sizeVars, network, history>>

Retry == StartBegins("delay", "starting")

\* A refusal counts as a failure.
Failed ==
    /\ StartFails("starting", "look") \/ StartRefused("delay", "look")
    /\ backoff' = Shorter(backoff * Factor, MaxBackoff)
    /\ UNCHANGED <<was, replay>>

Reconnected ==
    /\ StartSucceeds("starting", "size")
    /\ UNCHANGED localVars

\* Mutant: the size is read but never sent.
GetSizeOnly ==
    /\ super = "size" /\ super' = "look"
    /\ UNCHANGED <<session, active, localVars, sizeVars, network, history>>

GetSize ==
    /\ super = "size" /\ super' = "resize"
    /\ replay' = gridRows
    /\ UNCHANGED <<session, active, backoff, was, sizeVars, network, history>>

Replay ==
    /\ super = "resize" /\ super' = "look"
    /\ AskResize(replay)
    /\ backoff' = InitialBackoff
    /\ UNCHANGED <<session, active, was, replay, gridRows, keyboard, ptyVars, toggled,
                   network, history>>

\* The loop's end: was_connected is read again, then the poll delay.
Look ==
    /\ super = "look" /\ super' = "check"
    /\ was' = (session = "open")
    /\ UNCHANGED <<session, active, backoff, replay, sizeVars, network, history>>

Supervise == SuperviseFirst \/ Check \/ Retry \/ Failed \/ Reconnected \/ GetSize \/ Replay \/ Look

-----------------------------------------------------------------------------
(* repaint_kbd, under the UI lock: the grid first, then the remote. *)

ToggleKeyboard ==
    /\ keyboard = "idle"
    /\ gridRows' \in Heights \ {gridRows}
    /\ keyboard' = "resized"
    /\ toggled' = TRUE
    /\ UNCHANGED <<session, active, super, localVars, pending, ptyVars, network, history>>

NotifyRemote ==
    /\ keyboard = "resized" /\ keyboard' = "idle"
    /\ IF active THEN AskResize(gridRows) ELSE UNCHANGED pending
    /\ UNCHANGED <<session, active, super, localVars, gridRows, ptyVars, toggled, network, history>>

Keyboard == ToggleKeyboard \/ NotifyRemote

-----------------------------------------------------------------------------

ReconnectInit ==
    /\ Transport!Init
    /\ active = FALSE /\ super = "boot"
    /\ backoff = InitialBackoff /\ was = FALSE /\ replay = FullRows
    /\ gridRows = FullRows /\ keyboard = "idle" /\ pending = NoRows
    /\ ptyRows = FullRows /\ lostRows = NoRows /\ toggled = FALSE
    /\ network \in BOOLEAN /\ upSince = FALSE /\ opener = "boot"

Boot == BootStart \/ BootStarted \/ Activate

ReconnectNext == Boot \/ Supervise \/ SendResize \/ SessionDrops \/ SessionEnds
        \/ NetworkChanges \/ Keyboard

ReconnectFairness ==
    /\ WF_reconnectVars(Boot) /\ WF_reconnectVars(Supervise) /\ WF_reconnectVars(SendResize)
    /\ WF_reconnectVars(SessionEnds) /\ WF_reconnectVars(NotifyRemote)

ReconnectSpec == ReconnectInit /\ [][ReconnectNext]_reconnectVars /\ ReconnectFairness
-----------------------------------------------------------------------------
(* Properties. *)

ReconnectTypeOK ==
    /\ session \in Transport!Phases /\ active \in BOOLEAN
    /\ super \in {"boot", "booting", "booted", "first", "check", "delay", "starting",
                  "size", "resize", "look"}
    /\ backoff \in InitialBackoff .. MaxBackoff /\ was \in BOOLEAN
    /\ {replay, gridRows, ptyRows} \subseteq Heights
    /\ keyboard \in {"idle", "resized"} /\ {pending, lostRows} \subseteq Heights \cup {NoRows}
    /\ network \in BOOLEAN /\ upSince \in BOOLEAN /\ toggled \in BOOLEAN
    /\ opener \in {"boot", "delay"}

\* A session that was up is retried after the initial delay, however long the
\* outage before it was, and also when it drops before the supervisor looks.
FirstRetryIsPrompt == super = "delay" /\ upSince => backoff = InitialBackoff

\* Nobody is about to change the size of the grid or of the remote pty.
Quiet ==
    /\ session = "open" /\ pending = NoRows /\ keyboard = "idle"
    /\ super \notin {"boot", "booting", "size", "resize"}

\* A session the supervisor opened has the height of the terminal, when the
\* keyboard was not toggled meanwhile: the replay makes up for a height that
\* changed during the outage, and for a stale resize left by the last session.
\* (Only the transport can lose it, when it fails to send that very height.)
SizeReplayed ==
    Quiet /\ opener = "delay" /\ ~ toggled => gridRows \in {ptyRows, lostRows}

\* reconnect.hpp: "After a successful reconnect, replays the current pty size
\* via resize() so the remote starts at the right geometry."
SizeAgreesAfterReconnect ==
    Quiet /\ opener = "delay" => gridRows \in {ptyRows, lostRows}

\* app_main.cpp on the soft keyboard: "resize the terminal grid (and the remote
\* pty via SSH WINCH)", for the session the boot task opened.
SizeAgreesAfterBoot ==
    Quiet /\ opener = "boot" => gridRows \in {ptyRows, lostRows}

\* As long as connects can succeed, a session is opened again and again,
\* whether the first attempt failed or a later session was lost.
Reconnects == <>[]network => []<>(session = "open")
=============================================================================
