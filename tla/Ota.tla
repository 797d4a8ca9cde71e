--------------------------------- MODULE Ota ---------------------------------
(***************************************************************************)
(* The update task, ota_task.cpp: it polls the manifest, downloads an      *)
(* image to the slot that does not run, waits for the session to end and   *)
(* restarts; two minutes after the start of a new image the health timer   *)
(* confirms it, and until then any restart goes back to the other slot.    *)
(*                                                                         *)
(* Times are left out, and with them the back-off: a poll comes at any     *)
(* time, and a fetch that fails is none.  Nothing calls kick() or sets the *)
(* NVS key "auto".  The tag of a manifest is the version of its image, and *)
(* versions grow.  The slot that runs is never ABORTED (DeviceProofs), so *)
(* that the cool-down is not entered and is left out.                      *)
(***************************************************************************)
EXTENDS Naturals

CONSTANTS MaxVersion,   \* versions are 1 .. MaxVersion
          Sound,        \* versions that survive their first two minutes
          Pins          \* values of the NVS key "pinned_tag"; 0 for none

ASSUME OtaAssumption ==
  MaxVersion \in Nat \ {0} /\ 1 \in Sound /\ Sound \subseteq 1 .. MaxVersion

VARIABLES
  img, st,     \* external: image of each slot, 0 for none; its state in otadata
  newest,      \* external: the slot with the higher sequence number
  running,     \* external: the slot that runs
  sup, man,    \* the step of supervisor_task; its Manifest
  waited,      \* the deferred restart has timed out
  armed,       \* ota_health
  session,     \* is the active connection connected?
  published, pinned   \* external: the tag of latest.json; NVS

flash == <<img, st, newest, running>>
outside == <<session, published, pinned>>
vars == <<flash, sup, man, waited, armed, outside>>

Slots == {0, 1}
Other(s) == 1 - s
Versions == 1 .. MaxVersion

Init ==
  /\ running = 0 /\ newest = 0
  /\ img = [s \in Slots |-> IF s = 0 THEN 1 ELSE 0]
  /\ st = [s \in Slots |-> "undefined"]
  /\ sup = "none" /\ man = 0 /\ waited = FALSE /\ armed = FALSE
  /\ session = FALSE /\ published = 1 /\ pinned \in Pins

-----------------------------------------------------------------------------
\* ota::start, at the end of the boot task.
Start ==
  /\ sup = "none" /\ sup' = "wait"
  /\ UNCHANGED <<flash, man, waited, armed, outside>>

\* latest.json: its tag, when it can be fetched and has one.
Fetched == published

\* semver_cmp
Newer(tag, version) == tag > version

\* do_poll_cycle: an image is wanted if no other tag is pinned and it is newer.
Wanted(tag) == (pinned = 0 \/ pinned = tag) /\ Newer(tag, img[running])

Poll ==
  /\ sup = "wait" /\ man' = Fetched
  /\ sup' = IF Wanted(Fetched) THEN "begin" ELSE "wait"
  /\ UNCHANGED <<flash, waited, armed, outside>>

\* esp_https_ota_begin refuses while the running image is not confirmed.
BeginOta ==
  /\ sup = "begin"
  /\ IF st[running] = "pending" THEN sup' = "wait" /\ UNCHANGED img
     ELSE sup' = "perform" /\ img' = [img EXCEPT ![Other(running)] = 0]
  /\ UNCHANGED <<st, newest, running, man, waited, armed, outside>>

Perform ==
  /\ sup = "perform" /\ sup' = "deferred"
  /\ img' = [img EXCEPT ![Other(running)] = man]
  /\ st' = [st EXCEPT ![Other(running)] = "new"]
  /\ newest' = Other(running) /\ waited' = FALSE
  /\ UNCHANGED <<running, man, armed, outside>>

PerformFails ==
  /\ sup = "perform" /\ sup' = "wait"
  /\ UNCHANGED <<flash, man, waited, armed, outside>>

TimeOut ==
  /\ sup = "deferred" /\ ~waited /\ waited' = TRUE
  /\ UNCHANGED <<flash, sup, man, armed, outside>>

\* Mutant: an image is confirmed as soon as it runs.
ConfirmAtOnce ==
  /\ armed
  /\ armed' = FALSE /\ st' = [st EXCEPT ![running] = "valid"]
  /\ UNCHANGED <<img, newest, running, sup, man, waited, outside>>

\* health_timer_cb
Confirm ==
  /\ armed /\ img[running] \in Sound
  /\ armed' = FALSE /\ st' = [st EXCEPT ![running] = "valid"]
  /\ UNCHANGED <<img, newest, running, sup, man, waited, outside>>

-----------------------------------------------------------------------------
(* External: the bootloader.  What was not confirmed is aborted; of the      *)
(* slots that are left the newest is started.                                *)

Aborted == [s \in Slots |-> IF st[s] = "pending" THEN "aborted" ELSE st[s]]
Choice == IF Aborted[newest] = "aborted" THEN Other(newest) ELSE newest

\* ... and arm_post_boot_health_check.
Boot ==
  /\ running' = Choice
  /\ st' = [Aborted EXCEPT ![Choice] = IF @ = "new" THEN "pending" ELSE @]
  /\ armed' = (st'[Choice] = "pending")
  /\ sup' = "none" /\ man' = 0 /\ waited' = FALSE /\ session' = FALSE
  /\ UNCHANGED <<img, newest, published, pinned>>

\* Mutant: a session that stays up is waited for without end.
RebootWhenIdle == sup = "deferred" /\ ~session

\* wait_and_reboot
MayReboot == sup = "deferred" /\ (~session \/ waited)

Reboot == MayReboot /\ Boot

\* External: an image that is not sound does not see its two minutes end.
Crash == img[running] \notin Sound /\ Boot

\* External: sessions come and go, versions appear.
Session ==
  /\ session' = ~session
  /\ UNCHANGED <<flash, sup, man, waited, armed, published, pinned>>

Publish ==
  /\ published < MaxVersion /\ published' = published + 1
  /\ UNCHANGED <<flash, sup, man, waited, armed, session, pinned>>

Steps ==
  \/ Start \/ Poll \/ BeginOta \/ Perform
  \/ PerformFails \/ TimeOut \/ Confirm \/ Session \/ Publish

\* Boot without a reason of the task's own is a power cut.
Next == Steps \/ Reboot \/ Crash \/ Boot

Spec == Init /\ [][Next]_vars
=============================================================================
