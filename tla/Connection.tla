----------------------------- MODULE Connection -----------------------------
(***************************************************************************)
(* What IConnection (connection.hpp) promises of a transport, seen by the  *)
(* boot task, the supervisor and the tasks that type into it: one session  *)
(* at a time, opened from scratch, and over before the next one begins.    *)
(***************************************************************************)
VARIABLE session

Phases == {"down", "opening", "open", "closing"}

Init == session = "down"

\* start() is called and begins to build a session.
Begin == session = "down" /\ session' = "opening"

\* start() gives up: the object is in its not-started state again.
Refuse == session = "opening" /\ session' = "down"

\* It gives up with something to clean up first.
Abort == session = "opening" /\ session' = "closing"

\* is_connected() becomes true.
Establish == session = "opening" /\ session' = "open"

\* The session is lost: is_connected() becomes false, the I/O task cleans up.
Drop == session = "open" /\ session' = "closing"

Finish == session = "closing" /\ session' = "down"

Next == Begin \/ Refuse \/ Abort \/ Establish \/ Drop \/ Finish

Spec == Init /\ [][Next]_session /\ WF_session(Finish)
=============================================================================
