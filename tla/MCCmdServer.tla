----------------------------- MODULE MCCmdServer -----------------------------
(* More clients than the array has room for.                               *)
EXTENDS CmdServer

CONSTANTS c1, c2, c3

MCClients == {c1, c2, c3}

=============================================================================
