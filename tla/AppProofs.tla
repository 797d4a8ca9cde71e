------------------------------ MODULE AppProofs ------------------------------
(***************************************************************************)
(* Proofs about the application.                                           *)
(*                                                                         *)
(* The user interface (Ui), for any set of byte sources and any timeouts.  *)
(* The invariant is a conjunction of three parts that each handler keeps   *)
(* on its own; the lemmas follow the layers of Ui: what a handler does to  *)
(* the menu, then what it does to the lock, then the actions.              *)
(*                                                                         *)
(* The supervisor (Reconnect), for any delays and any two heights: what it *)
(* opens has the height of the terminal, its first retry is prompt, and    *)
(* what it makes of the transport is a session of an IConnection.          *)
(*                                                                         *)
(* The USB serial transport (Serial), for any packet size, transfer size,  *)
(* clocks and rates.  No byte of a session is lost, added or out of order  *)
(* (StreamArrives): what matters is where a transfer in flight begins in   *)
(* the stream, and that the data of its packets, the status bytes taken    *)
(* out, are adjacent (StrippedCounts), which is arithmetic modulo the      *)
(* packet size.  What an ended session leaves (LetsGo) is read off the     *)
(* points of start().                                                      *)
(***************************************************************************)
EXTENDS Ui, Reconnect, Serial, SequenceTheorems, TLAPS

\* Wrong PINs and lockouts exist only under the lock (do_unlock resets them).
LockoutOwned == ~ locked => lockout = 0

\* The inductive invariant: the two invariants of Ui's run, and what makes
\* LockoutHolds true of a step that locks.
UiInv == OverlayFlagTracks /\ DarkOnlyWhenLocked /\ LockoutOwned

\* What a handler of the menu, the keyboard or the QR overlay may do: it may
\* lock the device or leave the lock alone, and it keeps the flag right.
ViewStep ==
    /\ \/ locked' /\ ~ locked /\ entry' = "empty" /\ UNCHANGED <<attempts, lockout>>
       \/ UNCHANGED lockVars
    /\ OverlayFlagTracks'

\* What the PIN pad may do.
PadStep ==
    /\ ~ locked => UNCHANGED <<lockVars, menu, qr, overlay>>
    /\ ~ awake => UNCHANGED <<locked, entry, attempts, lockout>>
    /\ lockout > 0 => UNCHANGED <<locked, attempts>>
    /\ awake => awake'
    /\ ~ locked' => (lockout' = 0 /\ awake' = awake)
    /\ OverlayFlagTracks'

-----------------------------------------------------------------------------
(* The handlers. *)

LEMMA LockStep == ASSUME UiInv, ~ locked, Lock PROVE ViewStep
  BY DEF UiInv, Lock, ViewStep, OverlayFlagTracks

LEMMA RepaintStep ==
  ASSUME NEW m, MenuRepaint(m), UNCHANGED lockVars PROVE ViewStep
  BY DEF MenuRepaint, ViewStep, OverlayFlagTracks, lockVars

LEMMA EditorStep ==
  ASSUME UiInv, UNCHANGED lockVars, NEW e \in Editors,
         (OpenEditor(e) /\ menu = "ProfileList") \/ CloseEditor(e)
  PROVE  ViewStep
  BY DEF UiInv, OpenEditor, CloseEditor, ViewStep, OverlayFlagTracks, lockVars, Editors

LEMMA ViewOnly ==
  ASSUME UiInv, UNCHANGED lockVars, menu # "Hidden", NEW m, m # "Hidden", ShowView(m)
  PROVE  ViewStep
  BY DEF UiInv, ShowView, ViewStep, OverlayFlagTracks, lockVars

LEMMA NothingMoves ==
  ASSUME UiInv, UNCHANGED <<lockVars, menu, qr, overlay>> PROVE ViewStep
  BY DEF UiInv, ViewStep, OverlayFlagTracks, lockVars

\* Menu::feed.
LEMMA MenuKeyStep == ASSUME UiInv, NEW k \in Keys, MenuKey(k) PROVE ViewStep
<1>1. UNCHANGED lockVars BY DEF MenuKey
<1>2. CASE UNCHANGED <<viewVars, sinkVars>>
  BY <1>1, <1>2, NothingMoves DEF viewVars
<1>3. CASE CloseMenu \/ MenuRepaint("ProfileList")
  BY <1>1, <1>3, RepaintStep DEF CloseMenu
<1>4. CASE \E e \in Editors : CloseEditor(e)
  BY <1>1, <1>4, EditorStep
<1>5. CASE menu = "ProfileList" /\ OpenEditor("ProfileEditor")
  BY <1>1, <1>5, EditorStep DEF Editors
<1>6. CASE menu # "Hidden" /\ ShowView(menu)
  BY <1>1, <1>6, ViewOnly
<1> QED BY <1>2, <1>3, <1>4, <1>5, <1>6 DEF MenuKey

\* Menu::handle_touch.
LEMMA MenuTapStep == ASSUME UiInv, MenuTap PROVE ViewStep
<1>1. CASE menu = "ProfileList" /\ UNCHANGED lockVars
           /\ (CloseMenu \/ ShowApQr \/ ShowView("TofuList")
               \/ (\E e \in Editors : OpenEditor(e)) \/ ShowView("ProfileList"))
  <2>1. CASE CloseMenu BY <1>1, <2>1, RepaintStep DEF CloseMenu
  <2>2. CASE ShowApQr
    BY <1>1, <2>2 DEF ShowApQr, ViewStep, OverlayFlagTracks, lockVars
  <2>3. CASE ShowView("TofuList") \/ ShowView("ProfileList")
    BY <1>1, <2>3, ViewOnly
  <2>4. CASE \E e \in Editors : OpenEditor(e) BY <1>1, <2>4, EditorStep
  <2> QED BY <1>1, <2>1, <2>2, <2>3, <2>4
<1>2. CASE ~ locked /\ Lock BY <1>2, LockStep
<1>3. CASE locked /\ UNCHANGED lockVars
  BY <1>3 DEF ViewStep, OverlayFlagTracks, lockVars
<1>4. CASE menu = "TofuList" /\ UNCHANGED lockVars
           /\ (CloseMenu \/ ShowView("ProfileList") \/ ShowView("TofuList"))
  BY <1>4, RepaintStep, ViewOnly DEF CloseMenu
<1>5. CASE menu \in Editors /\ UNCHANGED lockVars /\ (CloseEditor(menu) \/ ShowView(menu))
  BY <1>5, EditorStep, ViewOnly DEF Editors
<1> QED BY <1>1, <1>2, <1>3, <1>4, <1>5 DEF MenuTap

\* SoftKeyboard::handle_touch, keys that type excepted.
LEMMA KbdTapStep == ASSUME UiInv, KbdTap PROVE ViewStep
<1>1. CASE ToggleKbd BY <1>1, NothingMoves DEF ToggleKbd
<1>2. CASE OpenMenu /\ UNCHANGED lockVars BY <1>2, RepaintStep DEF OpenMenu
<1>3. CASE UNCHANGED <<lockVars, viewVars, sinkVars>> BY <1>3, NothingMoves DEF viewVars
<1> QED BY <1>1, <1>2, <1>3 DEF KbdTap

LEMMA DismissStep == ASSUME UiInv, Dismiss PROVE ViewStep
  BY DEF Dismiss, ViewStep, OverlayFlagTracks, lockVars

LEMMA OutStep == ASSUME UiInv, ToTerminal PROVE ViewStep
  BY NothingMoves DEF ToTerminal

-----------------------------------------------------------------------------
(* The PIN pad. *)

LEMMA PadKeyStep == ASSUME UiInv, locked, awake, NEW k, PadKey(k) PROVE PadStep
<1>1. CASE lockout = 0 /\ k = "ok" /\ Submit
  <2>1. CASE Unlock
    <3>1. OverlayFlagTracks' BY <2>1 DEF Unlock, OverlayFlagTracks
    <3>2. lockout' = 0 /\ awake' = awake BY <2>1 DEF Unlock
    <3>3. awake' BY <3>2
    <3>4. ~ (lockout > 0) BY <1>1
    <3> QED BY <3>1, <3>2, <3>3, <3>4 DEF PadStep
  <2>2. CASE Reject
    BY <1>1, <2>2 DEF Reject, PadStep, OverlayFlagTracks, viewVars
  <2> QED BY <1>1, <2>1, <2>2 DEF Submit
<1>2. CASE UNCHANGED <<locked, awake, attempts, lockout, viewVars>>
  BY <1>2 DEF PadStep, OverlayFlagTracks, viewVars
<1>3. CASE UNCHANGED <<lockVars, viewVars>>
  BY <1>3 DEF PadStep, OverlayFlagTracks, lockVars, viewVars
<1> QED BY <1>1, <1>2, <1>3 DEF PadKey

LEMMA OnPadStep == ASSUME UiInv, NEW k, OnPad(k) PROVE PadStep
<1>1. CASE ~ locked /\ UNCHANGED <<lockVars, viewVars, sinkVars>>
  BY <1>1 DEF UiInv, LockoutOwned, PadStep, OverlayFlagTracks, lockVars, viewVars
<1>2. CASE locked /\ ~ awake /\ awake' = TRUE
           /\ UNCHANGED <<locked, entry, attempts, lockout, viewVars, sinkVars>>
  BY <1>2 DEF PadStep, OverlayFlagTracks, viewVars
<1>3. CASE locked /\ awake /\ PadKey(k) BY <1>3, PadKeyStep
<1> QED BY <1>1, <1>2, <1>3 DEF OnPad

\* A key of the soft keyboard, which goes to any of the above.
LEMMA SoftKeyStep == ASSUME UiInv, NEW k \in Keys, SoftKey(k) PROVE ViewStep \/ PadStep
<1>1. CASE sink \in Editors /\ UNCHANGED lockVars /\ CloseEditor(sink)
  BY <1>1, EditorStep
<1>2. CASE sink \in Editors /\ UNCHANGED lockVars /\ menu = sink /\ ShowView(menu)
  BY <1>2, ViewOnly DEF Editors
<1>3. CASE UNCHANGED lockVars /\ UNCHANGED <<viewVars, sinkVars>>
  BY <1>3, NothingMoves DEF viewVars
<1>4. CASE locked /\ OnPad(k) BY <1>4, OnPadStep
<1>5. CASE ~ locked /\ (Dismiss \/ MenuKey(k) \/ ToTerminal)
  BY <1>5, DismissStep, MenuKeyStep, OutStep
<1> QED BY <1>1, <1>2, <1>3, <1>4, <1>5 DEF SoftKey

-----------------------------------------------------------------------------
(* Steps to the invariant. *)

LEMMA ViewKeeps == ASSUME UiInv, ViewStep PROVE UiInv'
  BY DEF UiInv, ViewStep, DarkOnlyWhenLocked, LockoutOwned, lockVars

LEMMA PadKeeps == ASSUME UiInv, PadStep PROVE UiInv'
  BY DEF UiInv, PadStep, DarkOnlyWhenLocked, LockoutOwned, lockVars

\* Every action is a step of the views, of the pad, or one of the few that
\* are neither.
LEMMA StepKinds ==
  ASSUME UiInv, [Next]_vars
  PROVE  ViewStep \/ PadStep \/ Clock \/ SaveConfig \/ Restart
<1>1. CASE \E s \in Sources : SourceByte(s) \/ SourceTest(s)
  BY <1>1, NothingMoves DEF SourceByte, SourceTest, viewVars
<1>2. CASE \E s \in Sources : SourcePad(s)
  BY <1>2, OnPadStep DEF SourcePad
<1>3. CASE \E s \in Sources : SourceAct(s)
  BY <1>3, DismissStep, MenuKeyStep, OutStep DEF SourceAct
<1>4. CASE TouchEvent \/ TouchTest
  BY <1>4, NothingMoves DEF TouchEvent, TouchTest, viewVars
<1>5. CASE TouchPad BY <1>5, OnPadStep DEF TouchPad
<1>6. CASE TouchDismiss BY <1>6, DismissStep DEF TouchDismiss
<1>7. CASE TouchUnder
  BY <1>7, MenuTapStep, KbdTapStep, SoftKeyStep DEF TouchUnder
<1>8. CASE IdleTick
  BY <1>8, LockStep, NothingMoves DEF IdleTick, viewVars
<1>9. CASE RemoteRx \/ BootWrite
  BY <1>9, NothingMoves DEF RemoteRx, BootWrite
<1>10. CASE BootEnds
  BY <1>10 DEF UiInv, BootEnds, ViewStep, OverlayFlagTracks, lockVars, viewVars
<1>11. CASE UNCHANGED vars
  BY <1>11, NothingMoves DEF vars, viewVars
<1> QED BY <1>1, <1>2, <1>3, <1>4, <1>5, <1>6, <1>7, <1>8, <1>9, <1>10, <1>11 DEF Next

LEMMA InitHolds == Init => UiInv
  BY DEF Init, UiInv, OverlayFlagTracks, DarkOnlyWhenLocked, LockoutOwned

LEMMA StepHolds == UiInv /\ [Next]_vars => UiInv'
<1> SUFFICES ASSUME UiInv, [Next]_vars PROVE UiInv'
  OBVIOUS
<1>1. CASE ViewStep BY <1>1, ViewKeeps
<1>2. CASE PadStep BY <1>2, PadKeeps
<1>3. CASE Clock
  BY <1>3 DEF UiInv, Clock, OverlayFlagTracks, DarkOnlyWhenLocked, LockoutOwned, viewVars
<1>4. CASE SaveConfig
  BY <1>4 DEF UiInv, SaveConfig, OverlayFlagTracks, DarkOnlyWhenLocked, LockoutOwned, viewVars
<1>5. CASE Restart
  BY <1>5 DEF UiInv, Restart, OverlayFlagTracks, DarkOnlyWhenLocked, LockoutOwned
<1> QED BY <1>1, <1>2, <1>3, <1>4, <1>5, StepKinds

LEMMA Invariance == Spec => []UiInv
  BY InitHolds, StepHolds, PTL DEF Spec

-----------------------------------------------------------------------------
(* The theorems. *)

\* The overlay flag of ui_root is right whenever the device is unlocked,
\* however many input tasks race the lock timer, the boot task and each other.
THEOREM OverlayFlag == Spec => []OverlayFlagTracks
<1>1. UiInv => OverlayFlagTracks BY DEF UiInv
<1> QED BY <1>1, Invariance, PTL

\* The backlight is never off over an unlocked device, and no input of the
\* dark is part of a PIN.
THEOREM DarkMeansLocked == Spec => []DarkOnlyWhenLocked
<1>1. UiInv => DarkOnlyWhenLocked BY DEF UiInv
<1> QED BY <1>1, Invariance, PTL

\* No input of any task unlocks the device, or counts as a try, in a lockout.
THEOREM Lockouts == Spec => LockoutHolds
<1>1. ASSUME UiInv, [Next]_vars
      PROVE  [lockout > 0 /\ ~ Restart => locked' = locked /\ attempts' = attempts]_vars
  <2> SUFFICES ASSUME lockout > 0, ~ Restart
               PROVE  locked' = locked /\ attempts' = attempts
    OBVIOUS
  <2>1. locked BY <1>1 DEF UiInv, LockoutOwned
  <2>2. CASE ViewStep BY <2>1, <2>2 DEF ViewStep, lockVars
  <2>3. CASE PadStep BY <2>3 DEF PadStep
  <2>4. CASE Clock \/ SaveConfig BY <2>4 DEF Clock, SaveConfig
  <2> QED BY <1>1, <2>2, <2>3, <2>4, StepKinds
<1> QED BY <1>1, Invariance, PTL DEF Spec, LockoutHolds

-----------------------------------------------------------------------------
(* The supervisor.  The invariant. *)

\* The boot task's session is the first one, and a start that was begun is
\* seen by nobody else.
Openers ==
    /\ super \in {"boot", "booting", "booted", "first"} => opener = "boot"
    /\ super \in {"booting", "starting"} => session = "opening"
    /\ super \in {"starting", "size", "resize"} => opener = "delay"

\* The height that was sent last, or will be, and the one that failed to be.
NewHeights == IF pending = NoRows THEN {ptyRows, lostRows} ELSE {pending}

\* From the replay on it is the one of the grid, and the replay sends that.
Replayed ==
    opener = "delay" /\ ~ toggled =>
        /\ session = "open" /\ super \notin {"size", "resize"} => gridRows \in NewHeights
        /\ super = "resize" => replay = gridRows

\* The first attempt finds the initial delay, and a session that opened has
\* brought it back by the time it is looked at.
Prompt ==
    /\ super \in {"boot", "booting"} => backoff = InitialBackoff
    /\ upSince => /\ super # "starting"
                  /\ super \notin {"size", "resize"} => backoff = InitialBackoff

ReconnectInv == ReconnectTypeOK /\ Openers /\ Replayed /\ Prompt

\* A delay that grows stays between the first and the greatest.
LEMMA BackoffGrows ==
  ASSUME NEW b \in InitialBackoff .. MaxBackoff
  PROVE  Shorter(b * Factor, MaxBackoff) \in InitialBackoff .. MaxBackoff
<1>1. /\ InitialBackoff \in Nat \ {0} /\ MaxBackoff \in Nat \ {0} /\ Factor \in Nat \ {0}
      /\ InitialBackoff <= MaxBackoff
  BY BackoffConfig
<1>2. \A x \in Nat, f \in Nat \ {0} : x * f \in Nat /\ x * f >= x
  OBVIOUS
<1>3. b \in Nat /\ b * Factor \in Nat /\ b * Factor >= b
  BY <1>1, <1>2
<1> QED
  BY <1>1, <1>3 DEF Shorter

LEMMA ReconnectBegins == ReconnectInit => ReconnectInv
<1> SUFFICES ASSUME ReconnectInit PROVE ReconnectInv
  OBVIOUS
<1> USE DEF ReconnectInit, Transport!Init
<1>1. ReconnectTypeOK
  <2>1. backoff \in InitialBackoff .. MaxBackoff
    BY BackoffConfig
  <2> QED
    BY <2>1, Zenon DEF ReconnectTypeOK, Transport!Phases, Heights
<1>2. Openers /\ Replayed /\ Prompt
  BY DEF Openers, Replayed, Prompt, NewHeights
<1> QED
  BY <1>1, <1>2 DEF ReconnectInv

\* The types: what a step sets, it sets to a value that fits.
LEMMA TypesKept ==
  ASSUME ReconnectTypeOK, ReconnectNext
  PROVE  ReconnectTypeOK'
<1> USE DEF ReconnectTypeOK, localVars, sizeVars, ptyVars, history
<1>1. CASE BootStart \/ Retry
  BY <1>1, Zenon DEF BootStart, Retry, StartBegins, Transport!Begin, Transport!Phases
<1>2. CASE BootStarted \/ Reconnected
  BY <1>2, Zenon
  DEF BootStarted, Reconnected, StartSucceeds, StartFails, Transport!Establish, Transport!Refuse,
      Transport!Phases, Heights
<1>3. CASE Activate \/ SuperviseFirst \/ GetSize \/ Look
  BY <1>3, Zenon DEF Activate, SuperviseFirst, GetSize, Look
<1>4. CASE Check \/ Replay
  <2>1. InitialBackoff \in InitialBackoff .. MaxBackoff
    BY BackoffConfig
  <2> QED
    BY <1>4, <2>1, Zenon DEF Check, Replay, AskResize
<1>5. CASE Failed
  <2>1. backoff' \in InitialBackoff .. MaxBackoff
    BY <1>5, BackoffGrows DEF Failed
  <2> QED
    BY <1>5, <2>1, Zenon DEF Failed, StartFails, StartRefused, Transport!Refuse, Transport!Phases
<1>6. CASE SendResize \/ SessionDrops \/ SessionEnds \/ NetworkChanges
  BY <1>6, Zenon
  DEF SendResize, SessionDrops, SessionEnds, NetworkChanges, Transport!Drop, Transport!Finish,
      Transport!Phases
<1>7. CASE Keyboard
  BY <1>7, Zenon DEF Keyboard, ToggleKeyboard, NotifyRemote, AskResize
<1> QED
  BY <1>1, <1>2, <1>3, <1>4, <1>5, <1>6, <1>7
  DEF ReconnectNext, Boot, Supervise

\* What is said of who opened the session, of the heights and of the delay.
Rules == Openers /\ Replayed /\ Prompt

LEMMA BootKeeps ==
  ASSUME ReconnectInv, Boot
  PROVE  Rules'
<1> USE DEF ReconnectInv, Openers, Replayed, Prompt, NewHeights, localVars, sizeVars, ptyVars, history, Rules
<1>1. CASE BootStart
  BY <1>1 DEF BootStart, StartBegins, Transport!Begin
<1>2. CASE BootStarted
  BY <1>2 DEF BootStarted, StartSucceeds, StartFails, Transport!Establish, Transport!Refuse
<1>3. CASE Activate
  BY <1>3 DEF Activate
<1> QED
  BY <1>1, <1>2, <1>3 DEF Boot

LEMMA SuperviseKeeps ==
  ASSUME ReconnectInv, Supervise
  PROVE  Rules'
<1> USE DEF ReconnectInv, Openers, Replayed, Prompt, NewHeights, localVars, sizeVars, ptyVars, history, Rules
<1>1. CASE SuperviseFirst \/ Look
  BY <1>1 DEF SuperviseFirst, Look
<1>2. CASE Check
  BY <1>2 DEF Check
<1>3. CASE Retry
  BY <1>3 DEF Retry, StartBegins, Transport!Begin
<1>4. CASE Failed
  BY <1>4 DEF Failed, StartFails, StartRefused, Transport!Refuse
<1>5. CASE Reconnected
  BY <1>5 DEF Reconnected, StartSucceeds, Transport!Establish
<1>6. CASE GetSize
  BY <1>6 DEF GetSize
<1>7. CASE Replay
  <2>1. replay # NoRows
    BY NoRowsIsNoHeight DEF ReconnectTypeOK, Heights
  <2> QED
    BY <1>7, <2>1 DEF Replay, AskResize
<1> QED
  BY <1>1, <1>2, <1>3, <1>4, <1>5, <1>6, <1>7 DEF Supervise

LEMMA OthersKeep ==
  ASSUME ReconnectInv,
         SendResize \/ SessionDrops \/ SessionEnds \/ NetworkChanges \/ Keyboard
  PROVE  Rules'
<1> USE DEF ReconnectInv, Openers, Replayed, Prompt, NewHeights, localVars, sizeVars, ptyVars, history, Rules
<1>1. CASE SendResize
  BY <1>1 DEF SendResize
<1>2. CASE SessionDrops \/ SessionEnds \/ NetworkChanges
  BY <1>2 DEF SessionDrops, SessionEnds, NetworkChanges, Transport!Drop, Transport!Finish
<1>3. CASE ToggleKeyboard
  BY <1>3 DEF ToggleKeyboard
<1>4. CASE NotifyRemote
  <2>1. gridRows # NoRows
    BY NoRowsIsNoHeight DEF ReconnectTypeOK, Heights
  <2> QED
    BY <1>4, <2>1 DEF NotifyRemote, AskResize
<1> QED
  BY <1>1, <1>2, <1>3, <1>4 DEF Keyboard

LEMMA ReconnectInvariance == ReconnectSpec => []ReconnectInv
<1>1. ReconnectInv /\ [ReconnectNext]_reconnectVars => ReconnectInv'
  <2> SUFFICES ASSUME ReconnectInv, [ReconnectNext]_reconnectVars PROVE ReconnectInv'
    OBVIOUS
  <2>1. CASE UNCHANGED reconnectVars
    BY <2>1
    DEF reconnectVars, ReconnectInv, ReconnectTypeOK, Transport!Phases, Openers, Replayed, Prompt,
        NewHeights, localVars, sizeVars, ptyVars, history, Heights
  <2>2. CASE ReconnectNext
    <3>1. ReconnectTypeOK'
      BY <2>2, TypesKept DEF ReconnectInv
    <3>2. Rules'
      BY <2>2, BootKeeps, SuperviseKeeps, OthersKeep DEF ReconnectNext
    <3> QED
      BY <3>1, <3>2 DEF ReconnectInv, Rules
  <2> QED
    BY <2>1, <2>2
<1> QED
  BY <1>1, ReconnectBegins, PTL DEF ReconnectSpec

-----------------------------------------------------------------------------
(* What follows. *)

\* Also after any number of failed attempts: the delay is between the first
\* and the greatest (the product does not run away), and a height is one the
\* terminal has.
THEOREM ReconnectTypes == ReconnectSpec => []ReconnectTypeOK
<1>1. ReconnectInv => ReconnectTypeOK
  BY DEF ReconnectInv
<1> QED
  BY <1>1, ReconnectInvariance, PTL

\* The supervisor's resize(get_size()) after start(): whatever was left to be
\* sent from the last session, whenever the I/O task sends it, and also when
\* the keyboard's own resize comes in between, the height the remote is told
\* last is the one of the terminal, unless sending that one failed.
THEOREM SizesAgree == ReconnectSpec => []SizeReplayed
<1>1. ReconnectInv => SizeReplayed
  BY DEF ReconnectInv, Openers, Replayed, NewHeights, SizeReplayed, Quiet
<1> QED
  BY <1>1, ReconnectInvariance, PTL

\* was_connected and the reset of the delay: a session that was up is retried
\* after the initial delay, although the supervisor may never have seen it up.
THEOREM PromptRetry == ReconnectSpec => []FirstRetryIsPrompt
<1>1. ReconnectInv => FirstRetryIsPrompt
  BY DEF ReconnectInv, Prompt, FirstRetryIsPrompt
<1> QED
  BY <1>1, ReconnectInvariance, PTL

\* The boot task and the supervisor use a transport as an IConnection is
\* meant to be used: each step either leaves the session alone or is a step of
\* the session of Connection.
THEOREM UsesOneSession == ReconnectSpec => Transport!Init /\ [][Transport!Next]_session
<1>1. ReconnectInit => Transport!Init
  BY DEF ReconnectInit
<1>2. [ReconnectNext]_reconnectVars => [Transport!Next]_session
  BY DEF ReconnectNext, reconnectVars, Boot, BootStart, BootStarted, Activate, Supervise,
         SuperviseFirst, Check, Retry, Failed, Reconnected, GetSize, Replay, Look,
         StartBegins, StartRefused, StartSucceeds, StartFails, SendResize, SessionDrops,
         SessionEnds, NetworkChanges, Keyboard, ToggleKeyboard, NotifyRemote, Transport!Next
<1> QED
  BY <1>1, <1>2, PTL DEF ReconnectSpec

-----------------------------------------------------------------------------
(* Serial: the invariant *)

Points ==
  {"idle", "open", "insert", "reset", "latency", "modem", "return", "baud", "line", "run"}

\* The first n bytes of a stream.
Counting(n) == [i \in 1 .. n |-> i]

\* The IN transfer goes on where the sink is.
Arriving ==
  /\ in \in [flight : BOOLEAN, bytes : Seq(Nat)] /\ data \in Nat
  /\ Len(rcvd) \in Nat /\ rcvd = Counting(Len(rcvd))
  /\ in.flight /\ in.bytes = <<>> => Len(rcvd) = data
  /\ in.bytes # <<>> =>
       \E length \in Nat : /\ in.bytes = Transfer(Len(rcvd), length)
                           /\ data = Len(rcvd) + Kept(length)
  /\ plug = 0 => ~in.flight /\ in.bytes = <<>>

\* What is open, by the point start() is at.
Holding ==
  /\ owner \in Points /\ serialUp \in BOOLEAN
  /\ owner # "idle" => dev # 0 /\ ~serialUp
  /\ owner = "open" => claimed = {} /\ list = {}
  /\ claimed \subseteq opened /\ list \subseteq opened
  /\ owner \in {"open", "insert", "reset", "latency", "modem", "return"} => hdl = 0
  /\ owner \in {"baud", "line", "run"} => hdl \in {0, dev}
  /\ hdl # 0 => opened = {hdl}
  /\ owner \in {"idle", "baud", "line", "run"} /\ hdl = 0 => opened = {}
  /\ owner \in {"open", "insert", "reset", "latency", "modem", "return"} => opened = {dev}
  /\ owner = "idle" /\ ~serialUp => hdl = 0

\* A request for a rate is one for the rate of this session, on this chip.
Right(r) == r[1] = "baud" => r = BaudRequest /\ Accepted(clock, baud)
Requested ==
  /\ clock \in BaseClock /\ baud \in Baud
  /\ \A r \in set : Right(r)
  /\ ctl = [flight |-> ctl.flight, was |-> ctl.was, buf |-> ctl.buf]
  /\ ctl.flight => Right(ctl.was) /\ Right(ctl.buf)
  /\ plug = 0 => ~ctl.flight

\* A device has its number once.
Numbered ==
  /\ plugs \in Nat /\ {plug, dev, hdl} \subseteq 0 .. plugs

\* From SetBaud on the rate has been set or is about to be, and the request for
\* it is alone in the transfer, or else one was lost.
BaudSet == \E r \in set : r[1] = "baud"
PastBaud == owner \in {"line", "run"} \/ (owner = "idle" /\ serialUp)
Asked ==
  PastBaud /\ hdl # 0 /\ hdl = plug /\ ~lost /\ Accepted(clock, baud) =>
    BaudSet \/ (ctl.flight /\ ctl.was = BaudRequest /\ ctl.buf = BaudRequest)

SerialInv == Arriving /\ Holding /\ Requested /\ Numbered /\ Asked

-----------------------------------------------------------------------------
(* Serial: arithmetic *)

\* Division with remainder, and that it is unique.
LEMMA Division ==
  ASSUME NEW n \in Nat, NEW m \in Nat \ {0}
  PROVE  /\ n \div m \in Nat /\ n % m \in 0 .. (m - 1)
         /\ n = (n \div m) * m + (n % m)
OBVIOUS

LEMMA Unique ==
  ASSUME NEW m \in Nat \ {0}, NEW q \in Nat, NEW r \in 0 .. (m - 1)
  PROVE  (q * m + r) \div m = q /\ (q * m + r) % m = r
<1> DEFINE n == q * m + r
           p == n \div m
           s == n % m
<1>1. n \in Nat
  OBVIOUS
<1>2. p \in Nat /\ s \in 0 .. (m - 1) /\ n = p * m + s
  BY <1>1, Division
<1> HIDE DEF p, s
<1>3. ~ p < q
  <2> SUFFICES ASSUME p < q PROVE FALSE
    OBVIOUS
  <2>1. (p + 1) * m <= q * m
    BY <1>2
  <2> QED BY <1>2, <2>1
<1>4. ~ q < p
  <2> SUFFICES ASSUME q < p PROVE FALSE
    OBVIOUS
  <2>1. (q + 1) * m <= p * m
    BY <1>2
  <2> QED BY <1>2, <2>1
<1>5. p = q
  BY <1>2, <1>3, <1>4
<1>6. s = r
  BY <1>2, <1>5
<1> QED BY <1>5, <1>6 DEF p, s

-----------------------------------------------------------------------------
(* The packets of a transfer *)

\* The data bytes of q full packets and r further bytes.
LEMMA KeptOf ==
  ASSUME NEW q \in Nat, NEW r \in 0 .. (Mps - 1)
  PROVE  /\ Kept(q * Mps + r) = q * (Mps - 2) + IF r > 2 THEN r - 2 ELSE 0
         /\ Kept(q * Mps + r) \in Nat
<1>1. (q * Mps + r) \div Mps = q /\ (q * Mps + r) % Mps = r
  BY SizesAssumption, Unique
<1>2. q * (Mps - 2) \in Nat
  BY SizesAssumption
<1> QED BY <1>1, <1>2, SizesAssumption DEF Kept

\* Where data byte k of a transfer of that length is.
LEMMA InPacket ==
  ASSUME NEW length \in Nat, NEW k \in 1 .. Kept(length)
  PROVE  LET q == (k - 1) \div (Mps - 2)
             r == (k - 1) % (Mps - 2)
         IN  /\ q \in Nat /\ r \in 0 .. (Mps - 3)
             /\ q * Mps + r + 3 \in 1 .. length
             /\ q * (Mps - 2) + r + 1 = k
<1> DEFINE P == Mps - 2
           q == (k - 1) \div P
           r == (k - 1) % P
           full == length \div Mps
           rest == length % Mps
<1>1. Mps \in Nat /\ Mps > 2 /\ P \in Nat \ {0} /\ Mps = P + 2
  BY SizesAssumption
<1>2. full \in Nat /\ rest \in 0 .. (Mps - 1) /\ length = full * Mps + rest
  <2>1. Mps \in Nat \ {0}
    BY SizesAssumption
  <2> QED BY <2>1, Division
<1>3. /\ Kept(length) = full * P + (IF rest > 2 THEN rest - 2 ELSE 0)
      /\ Kept(length) \in Nat
  <2> HIDE DEF full, rest
  <2> QED BY <1>1, <1>2, KeptOf
<1>4. q \in Nat /\ r \in 0 .. (P - 1) /\ k - 1 = q * P + r
  <2>1. k - 1 \in Nat
    BY <1>3
  <2> QED BY <1>1, <2>1, Division
<1> HIDE DEF q, r, full, rest, P
<1>5. q * P \in Nat /\ full * P \in Nat /\ q * Mps \in Nat /\ full * Mps \in Nat
  BY <1>1, <1>2, <1>4
<1>6. q <= full
  <2> SUFFICES ASSUME q > full PROVE FALSE
    BY <1>2, <1>4
  <2>1. (full + 1) * P <= q * P
    BY <1>1, <1>2, <1>4
  <2>2. full * P + P <= q * P
    BY <1>1, <1>2, <2>1
  <2> QED BY <1>1, <1>2, <1>3, <1>4, <1>5, <2>2
<1>7. CASE q = full
  <2>1. q * P = full * P /\ q * Mps = full * Mps
    BY <1>7
  <2>2. r + 2 < rest
    BY <1>1, <1>2, <1>3, <1>4, <1>5, <2>1
  <2>3. q * Mps + r + 3 \in 1 .. length
    BY <1>1, <1>2, <1>4, <1>5, <2>1, <2>2
  <2> QED BY <1>1, <1>4, <1>5, <2>3 DEF q, r, P
<1>8. CASE q < full
  <2>1. (q + 1) * Mps <= full * Mps
    BY <1>1, <1>2, <1>4, <1>8
  <2>2. q * Mps + Mps <= full * Mps
    BY <1>1, <1>4, <2>1
  <2>3. q * Mps + r + 3 \in 1 .. length
    BY <1>1, <1>2, <1>4, <1>5, <2>2
  <2> QED BY <1>1, <1>4, <1>5, <2>3 DEF q, r, P
<1> QED BY <1>2, <1>4, <1>6, <1>7, <1>8

LEMMA TransferType ==
  ASSUME NEW from \in Nat, NEW length \in Nat
  PROVE  Transfer(from, length) \in Seq(Nat) /\ Len(Transfer(from, length)) = length
<1>1. ASSUME NEW i \in 1 .. length, ~ (i - 1) % Mps < 2
      PROVE  from + ((i - 1) \div Mps) * (Mps - 2) + ((i - 1) % Mps) - 1 \in Nat
  <2>1. (i - 1) \div Mps \in Nat /\ (i - 1) % Mps \in Nat
    BY SizesAssumption, Division
  <2>2. ((i - 1) \div Mps) * (Mps - 2) \in Nat
    BY <2>1, SizesAssumption
  <2> QED BY <1>1, <2>1, <2>2
<1>2. Transfer(from, length) \in [1 .. length -> Nat]
  BY <1>1 DEF Transfer
<1> QED BY <1>2, IsASeq, LenProperties

\* What is left of a transfer without its status bytes continues the stream.
LEMMA StrippedCounts ==
  ASSUME NEW from \in Nat, NEW length \in Nat
  PROVE  Stripped(Transfer(from, length)) = [k \in 1 .. Kept(length) |-> from + k]
<1> DEFINE T == Transfer(from, length)
<1>1. Len(T) = length
  BY TransferType
<1>2. ASSUME NEW k \in 1 .. Kept(length)
      PROVE  T[((k - 1) \div (Mps - 2)) * Mps + ((k - 1) % (Mps - 2)) + 3] = from + k
  <2> DEFINE q == (k - 1) \div (Mps - 2)
             r == (k - 1) % (Mps - 2)
             i == q * Mps + r + 3
  <2>1. /\ q \in Nat /\ r \in 0 .. (Mps - 3) /\ i \in 1 .. length
        /\ q * (Mps - 2) + r + 1 = k
    BY <1>2, InPacket
  <2> HIDE DEF q, r
  <2>2. i - 1 = q * Mps + (r + 2) /\ r + 2 \in 0 .. (Mps - 1)
    <3>1. q * Mps \in Nat
      BY <2>1, SizesAssumption
    <3> QED BY <2>1, <3>1, SizesAssumption
  <2> HIDE DEF i
  <2>3. (i - 1) \div Mps = q /\ (i - 1) % Mps = r + 2
    <3>1. Mps \in Nat \ {0}
      BY SizesAssumption
    <3>2. (q * Mps + (r + 2)) \div Mps = q /\ (q * Mps + (r + 2)) % Mps = r + 2
      BY <2>1, <2>2, <3>1, Unique
    <3> QED BY <2>2, <3>2
  <2>4. T[i] = from + q * (Mps - 2) + (r + 2) - 1
    BY <2>1, <2>3, SizesAssumption DEF Transfer
  <2>5. q * (Mps - 2) \in Nat
    BY <2>1, SizesAssumption
  <2> QED BY <2>1, <2>4, <2>5 DEF i, q, r
<1> QED BY <1>1, <1>2 DEF Stripped

LEMMA CountingType ==
  ASSUME NEW n \in Nat
  PROVE  Counting(n) \in Seq(Nat) /\ Len(Counting(n)) = n
BY IsASeq, LenProperties DEF Counting

LEMMA CountingOn ==
  ASSUME NEW m \in Nat, NEW n \in Nat
  PROVE  Counting(m) \o [k \in 1 .. n |-> m + k] = Counting(m + n)
<1> DEFINE s == Counting(m)
           t == [k \in 1 .. n |-> m + k]
           u == Counting(m + n)
<1>1. t \in Seq(Nat) /\ Len(t) = n
  <2>1. t \in [1 .. n -> Nat]
    OBVIOUS
  <2> HIDE DEF t
  <2> QED BY <2>1, IsASeq, LenProperties
<1>2. s \in Seq(Nat) /\ Len(s) = m /\ u \in Seq(Nat) /\ Len(u) = m + n
  BY CountingType
<1>3. s \o t \in Seq(Nat) /\ Len(s \o t) = m + n
  BY <1>1, <1>2, ConcatProperties
<1>4. ASSUME NEW i \in 1 .. (m + n)
      PROVE  (s \o t)[i] = i
  <2>1. (s \o t)[i] = IF i <= m THEN s[i] ELSE t[i - m]
    BY <1>1, <1>2, ConcatProperties
  <2>2. CASE i <= m
    BY <2>1, <2>2 DEF Counting
  <2>3. CASE i > m
    <3>1. i - m \in 1 .. n /\ ~ i <= m
      BY <2>3
    <3>2. t[i - m] = m + (i - m)
      BY <3>1
    <3> HIDE DEF s, t
    <3>3. (s \o t)[i] = t[i - m]
      BY <2>1, <3>1
    <3> QED BY <3>2, <3>3
  <2>4. i <= m \/ i > m
    OBVIOUS
  <2> QED BY <2>2, <2>3, <2>4
<1>5. ASSUME NEW i \in 1 .. (m + n)
      PROVE  u[i] = i
  BY DEF Counting
<1> HIDE DEF s, t, u
<1>6. s \o t = u
  BY <1>2, <1>3, <1>4, <1>5, SeqEqual
<1> QED BY <1>6 DEF s, t, u

-----------------------------------------------------------------------------
(* The divisor *)

\* What the chip reads is what the driver computed, if it fits.
LEMMA CodeRead ==
  ASSUME NEW d \in Nat, NEW c, NEW b, d = Eighths(c, b), d < 8 * Integral
  PROVE  Decoded(Encoded(c, b)) = d
<1> DEFINE whole == d \div 8
           f == d % 8
           code == FractionCode[f]
<1>1. /\ whole \in Nat /\ whole < Integral /\ f \in 0 .. 7 /\ d = 8 * whole + f
  BY DEF Integral
<1>2. Encoded(c, b) = (whole % Integral) + Integral * Or(whole \div Integral, code)
  BY DEF Encoded
<1> HIDE DEF whole, f
<1>3. code \in 0 .. 7
  BY <1>1 DEF FractionCode
<1>4. \A g \in 0 .. 7 : <<0, 3, 2, 4, 1, 5, 6, 7>>[g + 1] = code => g = f
  BY <1>1 DEF FractionCode
<1>5. <<0, 3, 2, 4, 1, 5, 6, 7>>[f + 1] = code
  BY <1>1 DEF FractionCode
<1> HIDE DEF code
<1>6. whole % Integral = whole /\ whole \div Integral = 0
  BY <1>1 DEF Integral
<1>7. Or(0, code) = code
  BY <1>3 DEF Or
<1>8. Encoded(c, b) = whole + Integral * code
  BY <1>2, <1>6, <1>7
<1>9. /\ (whole + Integral * code) % Integral = whole
      /\ ((whole + Integral * code) \div Integral) % 8 = code
  BY <1>1, <1>3 DEF Integral
<1>10. Decoded(Encoded(c, b)) =
         8 * whole + CHOOSE g \in 0 .. 7 : <<0, 3, 2, 4, 1, 5, 6, 7>>[g + 1] = code
  BY <1>8, <1>9 DEF Decoded
<1>11. (CHOOSE g \in 0 .. 7 : <<0, 3, 2, 4, 1, 5, 6, 7>>[g + 1] = code) = f
  BY <1>1, <1>4, <1>5
<1> QED BY <1>1, <1>10, <1>11

\* The divisor is the quotient rounded down to an eighth.
LEMMA Rounded ==
  ASSUME NEW c \in Nat, NEW b \in Nat \ {0}
  PROVE  /\ Eighths(c, b) \in Nat
         /\ Eighths(c, b) * b <= 8 * c /\ (Eighths(c, b) + 1) * b > 8 * c
<1> DEFINE d == (c * 8) \div b
           r == (c * 8) % b
<1>1. d \in Nat /\ r \in 0 .. (b - 1) /\ c * 8 = d * b + r
  <2>1. c * 8 \in Nat
    OBVIOUS
  <2> QED BY <2>1, Division
<1> HIDE DEF d, r
<1>2. d * b \in Nat /\ (d + 1) * b = d * b + b
  BY <1>1
<1>3. d * b <= 8 * c /\ (d + 1) * b > 8 * c
  BY <1>1, <1>2
<1> QED BY <1>1, <1>3 DEF Eighths, d

-----------------------------------------------------------------------------
(* The inductive invariant *)

LEMMA SerialBegins == SerialInit => SerialInv
<1> SUFFICES ASSUME SerialInit PROVE SerialInv
  OBVIOUS
<1>1. Len(<<>>) = 0 /\ <<>> = Counting(0) /\ <<>> \in Seq(Nat)
  BY DEF Counting
<1>2. Arriving
  BY <1>1 DEF SerialInit, Arriving
<1>3. Holding
  BY DEF SerialInit, Holding, Points
<1>4. Requested
  BY DEF SerialInit, Requested, Still
<1>5. Numbered /\ Asked
  BY DEF SerialInit, Numbered, Asked, PastBaud
<1> QED BY <1>2, <1>3, <1>4, <1>5 DEF SerialInv

\* A transfer that ends has the data that come next, and as many as it is
\* said to have.
LEMMA InDoneArrives ==
  ASSUME SerialInv, InDone
  PROVE  Arriving'
<1> USE DEF SerialInv, Arriving
<1>1. in.flight /\ in.bytes = <<>> /\ Len(rcvd) = data /\ data \in Nat
  BY DEF InDone
<1>2. PICK full \in 0 .. Packets, last \in 0 .. (Mps - 3) :
        /\ data' = data + (full * (Mps - 2) + IF full < Packets THEN last ELSE 0)
        /\ in' = [in EXCEPT !.bytes =
             Transfer(data, full * Mps + IF full < Packets THEN last + 2 ELSE 0)]
  BY DEF InDone
<1> DEFINE rest == IF full < Packets THEN last + 2 ELSE 0
           length == full * Mps + rest
<1>3. full \in Nat /\ rest \in 0 .. (Mps - 1)
  BY SizesAssumption
<1>4. length \in Nat /\ full * (Mps - 2) \in Nat
  BY <1>3, SizesAssumption
<1>5. Kept(length) = full * (Mps - 2) + (IF full < Packets THEN last ELSE 0)
  <2>1. Kept(length) = full * (Mps - 2) + IF rest > 2 THEN rest - 2 ELSE 0
    BY <1>3, KeptOf
  <2> QED BY <2>1, SizesAssumption
<1>6. Transfer(data, length) \in Seq(Nat)
  BY <1>1, <1>4, TransferType
<1>7. rcvd' = rcvd /\ plug' = plug
  BY DEF InDone, world
<1>8. in'.bytes = Transfer(Len(rcvd'), length) /\ in'.flight
      /\ in' \in [flight : BOOLEAN, bytes : Seq(Nat)]
  BY <1>1, <1>2, <1>6, <1>7
<1>9. data' = Len(rcvd') + Kept(length) /\ data' \in Nat
  <2>1. data' = data + Kept(length)
    BY <1>2, <1>5
  <2>2. Kept(length) \in Nat
    BY <1>4, <1>5, SizesAssumption
  <2> QED BY <1>1, <1>7, <2>1, <2>2
<1>10. in'.bytes = <<>> => Len(rcvd') = data'
  <2> SUFFICES ASSUME in'.bytes = <<>> PROVE Len(rcvd') = data'
    OBVIOUS
  <2>1. length = 0
    BY <1>1, <1>4, <1>7, <1>8, TransferType
  <2>2. Kept(0) = 0
    <3>1. 0 * Mps + 0 = 0 /\ 0 * (Mps - 2) = 0 /\ 0 \in 0 .. (Mps - 1)
      BY SizesAssumption
    <3> QED BY <3>1, KeptOf
  <2> QED BY <1>1, <1>7, <1>9, <2>1, <2>2
<1>11. plug # 0
  BY <1>1
<1> HIDE DEF length
<1> QED BY <1>1, <1>4, <1>7, <1>8, <1>9, <1>10, <1>11

\* The sink is given what comes next.
LEMMA InXferCbArrives ==
  ASSUME SerialInv, InXferCb
  PROVE  Arriving'
<1> USE DEF SerialInv, Arriving
<1>1. PICK length \in Nat : /\ in.bytes = Transfer(Len(rcvd), length)
                            /\ data = Len(rcvd) + Kept(length)
  BY DEF InXferCb
<1>2. Kept(length) \in Nat
  <2>1. Mps \in Nat \ {0}
    BY SizesAssumption
  <2>2. /\ length \div Mps \in Nat /\ length % Mps \in 0 .. (Mps - 1)
        /\ length = (length \div Mps) * Mps + (length % Mps)
    BY <2>1, Division
  <2> QED BY <2>2, KeptOf
<1>3. rcvd' = rcvd \o [k \in 1 .. Kept(length) |-> Len(rcvd) + k]
  BY <1>1, StrippedCounts DEF InXferCb
<1>4. rcvd' = Counting(Len(rcvd) + Kept(length))
  BY <1>2, <1>3, CountingOn
<1>5. Len(rcvd') = data'
  BY <1>1, <1>2, <1>4, CountingType DEF InXferCb
<1>6. data' = data /\ plug' = plug /\ in' = [in EXCEPT !.bytes = <<>>]
  BY DEF InXferCb, world
<1>7. <<>> \in Seq(Nat) /\ Len(rcvd) + Kept(length) = data'
  BY <1>1, <1>6
<1>8. in' \in [flight : BOOLEAN, bytes : Seq(Nat)] /\ in'.bytes = <<>> /\ in'.flight = in.flight
  BY <1>6, <1>7
<1> QED BY <1>4, <1>5, <1>6, <1>7, <1>8

LEMMA ArrivingKept ==
  ASSUME SerialInv, [SerialNext]_serialVars
  PROVE  Arriving'
<1> USE DEF SerialInv, Arriving
<1>1. CASE Plug
  BY <1>1 DEF Plug
<1>2. CASE Unplug
  BY <1>2 DEF Unplug
<1>3. CASE Claim
  <2>1. CASE plug = dev
    <3>1. in' = [flight |-> TRUE, bytes |-> <<>>] /\ rcvd' = Counting(data)
          /\ data' = data /\ plug' = plug
      BY <1>3, <2>1 DEF Claim, Counting
    <3>2. plug # 0
      BY <1>3, <2>1 DEF Claim, At, Holding
    <3> QED BY <3>1, <3>2, CountingType
  <2>2. CASE plug # dev
    BY <1>3, <2>2 DEF Claim
  <2> QED BY <2>1, <2>2
<1>4. CASE InDone
  BY <1>4, InDoneArrives
<1>5. CASE InXferCb
  BY <1>5, InXferCbArrives
<1>6. CASE UNCHANGED <<plug, in, data, rcvd>>
  BY <1>6
<1>7. ASSUME NEW d \in Devices, DeviceGone(d)
      PROVE  UNCHANGED <<plug, in, data, rcvd>>
  BY <1>7 DEF DeviceGone, transfer
<1>8. CASE OutDone \/ CtlDone \/ OpenFails \/ \E x \in Typed : Send(x)
  <2>1. UNCHANGED <<plug, in, data, rcvd>>
    BY <1>8 DEF OutDone, CtlDone, OpenFails, Send, world, transfer
  <2> QED BY <1>6, <2>1
<1>9. CASE Start /\ ~Claim
  <2>1. UNCHANGED <<plug, in, data, rcvd>>
    BY <1>9 DEF Start, Find, Insert, Reset, Latency, ModemCtrl, Ask, Return, SetBaud, SetLine,
                Run, world, transfer
  <2> QED BY <1>6, <2>1
<1>10. CASE UNCHANGED serialVars
  BY <1>6, <1>10 DEF serialVars, world, transfer
<1> QED BY <1>1, <1>2, <1>3, <1>4, <1>5, <1>6, <1>7, <1>8, <1>9, <1>10 DEF SerialNext, Client

LEMMA HoldingKept ==
  ASSUME SerialInv, [SerialNext]_serialVars
  PROVE  Holding'
<1> USE DEF SerialInv, Holding, Points
<1>1. CASE Plug \/ Unplug \/ InDone \/ OutDone \/ CtlDone \/ InXferCb
  BY <1>1 DEF Plug, Unplug, InDone, OutDone, CtlDone, InXferCb, usb
<1>2. ASSUME NEW d \in Devices, DeviceGone(d)
      PROVE  Holding'
  <2>1. CASE d \notin list
    BY <1>2, <2>1 DEF DeviceGone, usb
  <2>2. CASE d \in list /\ hdl = 0
    BY <1>2, <2>2 DEF DeviceGone, usb
  <2>3. CASE d \in list /\ hdl # 0
    BY <1>2, <2>3 DEF DeviceGone, Closed
  <2> QED BY <2>1, <2>2, <2>3
<1>3. CASE Find \/ OpenFails
  <2>1. CASE Find /\ plug # 0
    BY <2>1 DEF Find, At, To
  <2>2. CASE Find /\ plug = 0
    BY <2>2 DEF Find, At, To
  <2>3. CASE OpenFails
    BY <2>3 DEF OpenFails, At, To
  <2> QED BY <1>3, <2>1, <2>2, <2>3
<1>4. CASE Claim
  <2>1. CASE plug = dev
    BY <1>4, <2>1 DEF Claim, At, To
  <2>2. CASE plug # dev
    BY <1>4, <2>2 DEF Claim, At, To
  <2> QED BY <2>1, <2>2
<1>5. CASE Insert
  BY <1>5 DEF Insert, At, To
<1>6. CASE Reset \/ Latency \/ ModemCtrl
  BY <1>6 DEF Reset, Latency, ModemCtrl, Ask, At, To, usb
<1>7. CASE Return
  BY <1>7 DEF Return, At, To, usb
<1>8. CASE SetBaud \/ SetLine
  BY <1>8 DEF SetBaud, SetLine, At, To, usb
<1>9. CASE Run
  BY <1>9 DEF Run, At, To, usb
<1>10. CASE \E x \in Typed : Send(x)
  BY <1>10 DEF Send, usb
<1>11. CASE UNCHANGED serialVars
  BY <1>11 DEF serialVars, usb
<1> QED BY <1>1, <1>2, <1>3, <1>4, <1>5, <1>6, <1>7, <1>8, <1>9, <1>10, <1>11
        DEF SerialNext, Client, Start

\* A request to the device that is plugged in, or to none.
LEMMA RequestKeeps ==
  ASSUME SerialInv, NEW d, d # 0, NEW r, Right(r), Request(d, r), UNCHANGED <<world, set>>
  PROVE  Requested'
<1> USE DEF SerialInv, Requested
<1>1. UNCHANGED <<clock, baud, plug>>
  BY DEF world
<1>2. \A q : Right(q)' <=> Right(q)
  BY <1>1 DEF Right, BaudRequest
<1>3. ctl'.flight => plug # 0
  BY DEF Request
<1>4. CASE d # plug
  BY <1>1, <1>2, <1>4 DEF Request
<1>5. CASE d = plug /\ ctl.flight
  <2>1. ctl' = [flight |-> TRUE, was |-> ctl.was, buf |-> r]
    BY <1>5 DEF Request
  <2> QED BY <1>1, <1>2, <1>3, <1>5, <2>1
<1>6. CASE d = plug /\ ~ctl.flight
  <2>1. ctl' = [flight |-> TRUE, was |-> r, buf |-> r]
    BY <1>6 DEF Request
  <2> QED BY <1>1, <1>2, <1>3, <2>1
<1> QED BY <1>4, <1>5, <1>6

LEMMA RequestedKept ==
  ASSUME SerialInv, [SerialNext]_serialVars
  PROVE  Requested'
<1> USE DEF SerialInv, Requested
<1>1. ASSUME UNCHANGED <<clock, baud>>
      PROVE  \A q : Right(q)' <=> Right(q)
  BY <1>1 DEF Right, BaudRequest
<1>2. CASE Plug
  BY <1>2 DEF Plug
<1>3. CASE Unplug
  <2>1. ctl' = Still /\ set' = set /\ UNCHANGED <<clock, baud>>
    BY <1>3 DEF Unplug
  <2> QED BY <1>1, <2>1 DEF Still
<1>4. CASE CtlDone
  <2>1. ctl' = Still /\ UNCHANGED <<clock, baud>> /\ ctl.flight
    BY <1>4 DEF CtlDone, world
  <2>2. \A q \in set' : q \in set \/ q = ctl.was \/ q = ctl.buf
    BY <1>4 DEF CtlDone
  <2> QED BY <1>1, <2>1, <2>2 DEF Still
<1>5. CASE Claim
  <2>1. (ctl' = Still \/ ctl' = ctl) /\ UNCHANGED <<set, clock, baud, plug>>
    BY <1>5 DEF Claim
  <2> QED BY <1>1, <2>1 DEF Still
<1>6. ASSUME NEW pc, NEW next, NEW r, Ask(pc, next, r), pc # "idle", r[1] # "baud"
      PROVE  Requested'
  <2>1. dev # 0
    BY <1>6 DEF Ask, At, Holding
  <2> QED BY <1>6, <2>1, RequestKeeps DEF Ask, Right
<1>7. CASE Reset \/ Latency \/ ModemCtrl
  BY <1>6, <1>7 DEF Reset, Latency, ModemCtrl
<1>8. CASE UNCHANGED <<clock, baud, plug, ctl, set>>
  BY <1>1, <1>8
<1>9. CASE SetBaud
  <2>1. CASE hdl # 0 /\ Accepted(clock, baud)
    <3>1. Right(BaudRequest) /\ Request(hdl, BaudRequest)
      BY <1>9, <2>1 DEF SetBaud, Right
    <3> QED BY <1>9, <2>1, <3>1, RequestKeeps DEF SetBaud
  <2>2. CASE ~ (hdl # 0 /\ Accepted(clock, baud))
    BY <1>8, <1>9, <2>2 DEF SetBaud, world
  <2> QED BY <2>1, <2>2
<1>10. CASE SetLine
  <2>1. CASE hdl # 0
    <3>1. Right(LineRequest) /\ Request(hdl, LineRequest)
      BY <1>10, <2>1 DEF SetLine, Right, LineRequest
    <3> QED BY <1>10, <2>1, <3>1, RequestKeeps DEF SetLine
  <2>2. CASE hdl = 0
    BY <1>8, <1>10, <2>2 DEF SetLine, world
  <2> QED BY <2>1, <2>2
<1>11. ASSUME NEW d \in Devices, DeviceGone(d)
       PROVE  Requested'
  BY <1>8, <1>11 DEF DeviceGone, outgoing, requests
<1>12. CASE InDone \/ OutDone \/ InXferCb \/ OpenFails \/ \E x \in Typed : Send(x)
  BY <1>8, <1>12 DEF InDone, OutDone, InXferCb, OpenFails, Send, world, outgoing,
               requests
<1>13. CASE Find \/ Insert \/ Return \/ Run
  BY <1>8, <1>13 DEF Find, Insert, Return, Run, world, outgoing, requests
<1>14. CASE UNCHANGED serialVars
  BY <1>8, <1>14 DEF serialVars, world, outgoing, requests
<1> QED BY <1>2, <1>3, <1>4, <1>5, <1>7, <1>9, <1>10, <1>11, <1>12, <1>13, <1>14
        DEF SerialNext, Client, Start

LEMMA NumberedKept ==
  ASSUME SerialInv, [SerialNext]_serialVars
  PROVE  Numbered'
<1> USE DEF SerialInv, Numbered
<1>1. CASE Plug
  BY <1>1 DEF Plug
<1>2. CASE Unplug
  BY <1>2 DEF Unplug
<1>3. CASE UNCHANGED <<plug, plugs, dev, hdl>>
  BY <1>3
<1>4. CASE InDone \/ OutDone \/ CtlDone \/ InXferCb \/ \E x \in Typed : Send(x)
  <2>1. UNCHANGED <<plug, plugs, dev, hdl>>
    BY <1>4 DEF InDone, OutDone, CtlDone, InXferCb, Send, world
  <2> QED BY <1>3, <2>1
<1>5. ASSUME NEW d \in Devices, DeviceGone(d)
      PROVE  Numbered'
  BY <1>5 DEF DeviceGone
<1>6. CASE Find \/ OpenFails \/ Claim \/ Return \/ Run
  BY <1>6 DEF Find, OpenFails, Claim, Return, Run, world
<1>7. CASE Insert \/ Reset \/ Latency \/ ModemCtrl \/ SetBaud \/ SetLine
  <2>1. UNCHANGED <<plug, plugs, dev, hdl>>
    BY <1>7 DEF Insert, Reset, Latency, ModemCtrl, Ask, SetBaud, SetLine, world
  <2> QED BY <1>3, <2>1
<1>8. CASE UNCHANGED serialVars
  BY <1>3, <1>8 DEF serialVars, world
<1> QED BY <1>1, <1>2, <1>4, <1>5, <1>6, <1>7, <1>8 DEF SerialNext, Client, Start

LEMMA AskedKept ==
  ASSUME SerialInv, [SerialNext]_serialVars
  PROVE  Asked'
<1> USE DEF SerialInv, Asked, PastBaud, BaudSet
<1>1. CASE Plug
  <2>1. hdl' = hdl /\ hdl' # plug'
    BY <1>1 DEF Plug, Numbered
  <2> QED BY <2>1
<1>2. CASE Unplug
  BY <1>2 DEF Unplug
<1>3. CASE UNCHANGED <<owner, serialUp, hdl, plug, clock, baud, ctl, set, lost>>
  <2>1. BaudRequest' = BaudRequest
    BY <1>3 DEF BaudRequest
  <2> QED BY <1>3, <2>1
<1>4. CASE InDone \/ OutDone \/ InXferCb \/ \E x \in Typed : Send(x)
  <2>1. UNCHANGED <<owner, serialUp, hdl, plug, clock, baud, ctl, set, lost>>
    BY <1>4 DEF InDone, OutDone, InXferCb, Send, world, outgoing, requests
  <2> QED BY <1>3, <2>1
<1>5. CASE CtlDone
  <2>1. UNCHANGED <<owner, serialUp, hdl, plug, clock, baud>>
    BY <1>5 DEF CtlDone, world
  <2>2. CASE lost'
    BY <2>2
  <2>3. CASE ~lost'
    <3>1. PICK r \in {ctl.was, ctl.buf} : set' = {x \in set : x[1] # r[1]} \cup {r}
      BY <1>5, <2>3 DEF CtlDone
    <3>2. lost' = lost /\ ctl.flight
      BY <1>5, <2>3 DEF CtlDone
    <3>3. CASE BaudSet
      BY <2>1, <3>1, <3>3
    <3>4. CASE ctl.was = BaudRequest /\ ctl.buf = BaudRequest
      BY <2>1, <3>1, <3>4 DEF BaudRequest
    <3> QED BY <2>1, <3>2, <3>3, <3>4
  <2> QED BY <2>2, <2>3
<1>6. ASSUME NEW d \in Devices, DeviceGone(d)
      PROVE  Asked'
  <2>1. CASE d \in list
    BY <1>6, <2>1 DEF DeviceGone
  <2>2. CASE d \notin list
    BY <1>3, <1>6, <2>2 DEF DeviceGone, outgoing, requests
  <2> QED BY <2>1, <2>2
<1>7. CASE Find \/ OpenFails \/ Claim \/ Insert \/ Reset \/ Latency \/ ModemCtrl \/ Return
  <2>1. owner # "idle" => ~serialUp
    BY DEF Holding
  <2>2. ~PastBaud'
    BY <1>7, <2>1 DEF Find, OpenFails, Claim, Insert, Reset, Latency, ModemCtrl, Ask, Return,
                      At, To
  <2> QED BY <2>2
<1>8. CASE SetBaud
  <2>1. CASE hdl # 0 /\ Accepted(clock, baud) /\ hdl = plug
    <3>1. /\ ctl' = IF ctl.flight THEN [ctl EXCEPT !.buf = BaudRequest]
                    ELSE [flight |-> TRUE, was |-> BaudRequest, buf |-> BaudRequest]
          /\ lost' = (lost \/ ctl.flight) /\ UNCHANGED <<clock, baud>>
      BY <1>8, <2>1 DEF SetBaud, Request, world
    <3>2. BaudRequest' = BaudRequest
      BY <3>1 DEF BaudRequest
    <3> QED BY <3>1, <3>2
  <2>2. CASE ~ (hdl # 0 /\ Accepted(clock, baud) /\ hdl = plug)
    BY <1>8, <2>2 DEF SetBaud, world
  <2> QED BY <2>1, <2>2
<1>9. CASE SetLine
  <2>1. UNCHANGED <<hdl, plug, clock, baud, set>> /\ owner = "line"
    BY <1>9 DEF SetLine, world, At
  <2>2. BaudRequest' = BaudRequest
    BY <2>1 DEF BaudRequest
  <2>3. CASE hdl # 0 /\ hdl = plug
    BY <1>9, <2>1, <2>2, <2>3 DEF SetLine, Request
  <2>4. CASE ~ (hdl # 0 /\ hdl = plug)
    BY <2>1, <2>4
  <2> QED BY <2>3, <2>4
<1>10. CASE Run
  <2>1. UNCHANGED <<hdl, plug, clock, baud, ctl, set, lost>> /\ owner = "run"
    BY <1>10 DEF Run, world, outgoing, requests, At
  <2>2. BaudRequest' = BaudRequest
    BY <2>1 DEF BaudRequest
  <2> QED BY <2>1, <2>2
<1>11. CASE UNCHANGED serialVars
  BY <1>3, <1>11 DEF serialVars, world, outgoing, requests
<1> QED BY <1>1, <1>2, <1>4, <1>5, <1>6, <1>7, <1>8, <1>9, <1>10, <1>11
        DEF SerialNext, Client, Start

LEMMA SerialInvariant == SerialSpec => []SerialInv
<1>1. SerialInv /\ [SerialNext]_serialVars => SerialInv'
  BY ArrivingKept, HoldingKept, RequestedKept, NumberedKept, AskedKept DEF SerialInv
<1> QED BY SerialBegins, <1>1, PTL DEF SerialSpec

-----------------------------------------------------------------------------
(* The theorems *)

\* For any packet size, and transfers of any length cut short anywhere: the
\* sink has what the adapter sent, each byte once and in order, and none of
\* the status bytes (in_xfer_cb).
THEOREM StreamArrives == SerialSpec => []StreamIntact
<1>1. SerialInv => StreamIntact
  BY DEF SerialInv, Arriving, Counting, StreamIntact
<1> QED BY <1>1, SerialInvariant, PTL

\* Every rate whose divisor fits the 14 bits of its field is the one that is set,
\* to the eighth of a divisor: the code of the fraction and the place it is put
\* in do not spoil it, and no request of an earlier session, for another adapter
\* or for the line stands for it.
THEOREM RatesArrive == SerialSpec => []RateHonoured
<1>1. SerialInv => RateHonoured
  <2> SUFFICES ASSUME SerialInv, Accepted(clock, baud), Fits(clock, baud)
               PROVE  /\ \A r \in set : r[1] = "baud" => RightRate(r)
                      /\ serialUp /\ hdl # 0 /\ hdl = plug /\ ~ctl.flight /\ ~lost => BaudSet
    BY DEF RateHonoured, BaudSet
  <2>1. ASSUME NEW r \in set, r[1] = "baud"
        PROVE  RightRate(r)
    <3>1. /\ r[2] = Encoded(clock, baud)
          /\ clock \in BaseClock /\ baud \in Baud
      BY <2>1 DEF SerialInv, Requested, Right, BaudRequest
    <3>2. clock \in Nat /\ baud \in Nat \ {0}
      BY <3>1, RatesAssumption
    <3>3. Eighths(clock, baud) \in Nat /\ Eighths(clock, baud) < 8 * Integral
      BY <3>2, Rounded DEF Fits
    <3>4. Decoded(r[2]) = Eighths(clock, baud)
      BY <3>1, <3>3, CodeRead
    <3> QED BY <3>2, <3>4, Rounded DEF RightRate
  <2>2. ASSUME serialUp, hdl # 0, hdl = plug, ~ctl.flight, ~lost
        PROVE  BaudSet
    BY <2>2 DEF SerialInv, Holding, Asked, PastBaud
  <2> QED BY <2>1, <2>2
<1> QED BY <1>1, SerialInvariant, PTL

\* On a chip with a clock of 3 MHz, which the driver takes every unknown chip
\* for, every rate that the driver accepts fits.
THEOREM SlowClocksFit ==
  ASSUME NEW c \in BaseClock, NEW b \in Baud, c <= 3000000, Accepted(c, b)
  PROVE  Fits(c, b)
<1>1. c \in Nat /\ b \in Nat \ {0} /\ c <= 3000000 /\ b >= 300
  BY RatesAssumption DEF Accepted
<1>2. Eighths(c, b) \in Nat /\ Eighths(c, b) * b <= 8 * c
  BY <1>1, Rounded
<1>3. Eighths(c, b) * 300 <= Eighths(c, b) * b
  BY <1>1, <1>2
<1> QED BY <1>1, <1>2, <1>3 DEF Fits, Integral

\* A session that is over has let go of the adapter, however it ended and
\* wherever start() gave up.
THEOREM LetsGo == SerialSpec => []NothingLeft
<1>1. SerialInv => NothingLeft
  BY DEF SerialInv, Holding, NothingLeft
<1> QED BY <1>1, SerialInvariant, PTL

=============================================================================
