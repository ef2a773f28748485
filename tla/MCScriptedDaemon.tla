------------------------- MODULE MCScriptedDaemon -------------------------
(* A small instance of ScriptedDaemon: two clients that together ask for   *)
(* more turns than the script has.                                         *)
EXTENDS ScriptedDaemon, TLC

CONSTANTS c1, c2

TwoClients == {c1, c2}

===========================================================================
