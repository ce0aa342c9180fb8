-------------------------- MODULE MCDaemonRuntime --------------------------
(* DaemonRuntime on a few holds and commands. *)
EXTENDS DaemonRuntime

CalmOrNot == {{}, {"reconnect", "deaths"}}
Reconnecting == {{"reconnect"}}
=============================================================================
