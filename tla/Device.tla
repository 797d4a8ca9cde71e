------------------------------- MODULE Device -------------------------------
(***************************************************************************)
(* The update task and the profile store on the chip they share: whatever  *)
(* restarts it - the update task, a bad image, a profile that is tapped, a *)
(* power cut - restarts both, wherever the other one stands.  (The menu's  *)
(* restart of a saved Wi-Fi network and that of /api/reboot come at any    *)
(* time, as a power cut does.)                                             *)
(***************************************************************************)
EXTENDS Ota

CONSTANTS Max, Filled, MaxMade,
          MaxCuts     \* bound: restarts that are not for an update

VARIABLES
  slot, nvsCount, nvsSelected, count, selected, op, made, kept, raced,
  cuts        \* restarts that were not for an update

S == INSTANCE Settings

ASSUME DeviceAssumption == S!Sizes /\ MaxCuts \in Nat

firmware == vars
store == <<slot, nvsCount, nvsSelected, count, selected, op, made, kept, raced>>
device == <<firmware, store, cuts>>

DeviceInit == Init /\ S!Init /\ cuts = 0

Update == Steps /\ UNCHANGED <<store, cuts>>
Edit == S!Steps /\ UNCHANGED <<firmware, cuts>>

UpdateReboots == Reboot /\ S!Load /\ UNCHANGED cuts
ImageCrashes == Crash /\ S!Load /\ UNCHANGED cuts

Cut == cuts < MaxCuts /\ cuts' = cuts + 1
MenuRestarts == Cut /\ S!Restart /\ Boot
PowerCut == Cut /\ S!Load /\ Boot

DeviceNext == Update \/ Edit \/ UpdateReboots \/ ImageCrashes \/ MenuRestarts \/ PowerCut

\* The tasks run; an image that is not sound does crash; a server that goes on
\* serving an image is reached in the end.
OwnSteps == Start \/ Poll \/ BeginOta \/ Perform \/ PerformFails

Fairness ==
  /\ WF_device(OwnSteps /\ UNCHANGED <<store, cuts>>)
  /\ WF_device((TimeOut \/ Confirm) /\ UNCHANGED <<store, cuts>>)
  /\ WF_device(UpdateReboots) /\ WF_device(ImageCrashes)
  /\ SF_device(Perform /\ UNCHANGED <<store, cuts>>)

DeviceSpec == DeviceInit /\ [][DeviceNext]_device /\ Fairness

-----------------------------------------------------------------------------
(* Properties *)

\* See Settings: here an update may restart the program during an edit.
NoProfileLost == S!NoProfileLost

\* The device does not stay with an image that does not survive its first two
\* minutes: time and again it runs one that is confirmed and sound.
Recovers == []<>(st[running] # "pending" /\ img[running] \in Sound)

\* The last version that is published is the one that runs in the end, if it is
\* sound and no other is pinned: after versions that were not, after failed
\* downloads, and with a session that never ends.
UpdateArrives ==
  \A v \in Sound :
    <>[](published = v /\ pinned \in {0, v}) => <>[](img[running] = v)
=============================================================================
