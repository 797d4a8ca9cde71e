----------------------------- MODULE MCSessions -----------------------------
(***************************************************************************)
(* Three descriptions of a connection, checked in one run: the SSH         *)
(* transport, the USB serial one, and the supervisor over any transport.   *)
(* They have no variable in common; app_main.cpp makes one connection, at  *)
(* boot and for the protocol of the profile, and `followed' says which of  *)
(* the descriptions this behaviour is about.  The other two stand still.   *)
(***************************************************************************)
EXTENDS SshSession, Serial, Reconnect

VARIABLE followed

allVars == <<followed, vars, serialVars, reconnectVars>>

Ssh == followed = "ssh"
Usb == followed = "serial"
Any == followed = "any"

\* What stands still does so in one state, and without a network.
AllInit ==
  /\ followed \in {"ssh", "serial", "any"}
  /\ Init /\ SerialInit /\ ReconnectInit
  /\ ~Usb => <<clock, baud>> = CHOOSE x \in BaseClock \X Baud : TRUE
  /\ ~Any => ~network

\* Only a number of plugs bounds the adapter: with the last one pulled out and
\* every task waiting the run is at its end.
Exhausted == plug = 0 /\ plugs = MaxPlugs /\ UNCHANGED serialVars

AllNext ==
  \/ Ssh /\ Next /\ UNCHANGED <<followed, serialVars, reconnectVars>>
  \/ Usb /\ (SerialNext \/ Exhausted) /\ UNCHANGED <<followed, vars, reconnectVars>>
  \/ Any /\ ReconnectNext /\ UNCHANGED <<followed, vars, serialVars>>

\* The fairness of each of them, for as long as it is followed.
AllSpec ==
  /\ AllInit /\ [][AllNext]_allVars
  /\ WF_vars(Ssh /\ TaskStep) /\ WF_vars(Ssh /\ StartStep) /\ WF_vars(Ssh /\ LinkSettles)
  /\ WF_serialVars(Usb /\ Client) /\ WF_serialVars(Usb /\ Find) /\ SF_serialVars(Usb /\ Claim)
  /\ WF_serialVars(Usb /\ Start /\ owner # "idle")
  /\ WF_serialVars(Usb /\ OutDone) /\ WF_serialVars(Usb /\ CtlDone)
  /\ WF_reconnectVars(Any /\ Boot) /\ WF_reconnectVars(Any /\ Supervise)
  /\ WF_reconnectVars(Any /\ SendResize) /\ WF_reconnectVars(Any /\ SessionEnds)
  /\ WF_reconnectVars(Any /\ NotifyRemote)
=============================================================================
