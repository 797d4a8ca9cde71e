------------------------------ MODULE MCTelnet ------------------------------
(* Telnet with one byte typed and one shown in a session, two sessions.     *)
EXTENDS Telnet

MCOffers == {<<DO, NAWS>>, <<SB, 24>>}
MCSizes == {<<100, 30>>}
MCCfgSize == <<80, 24>>
=============================================================================
