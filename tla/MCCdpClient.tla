---------------------------- MODULE MCCdpClient -----------------------------
(***************************************************************************)
(* CdpClient with callers and readers, in behaviours that have calls, or   *)
(* events, but not both: they share the read loop and the connection, and  *)
(* nothing else.                                                           *)
(***************************************************************************)
EXTENDS CdpClient

NoCalls == next = 0
NoEvents ==
  arrived = <<>> /\ ~subscribed /\ \A r \in Readers : reader[r] = "idle"

MCNext == Next /\ (NoCalls' \/ NoEvents')
MCSpec == Init /\ [][MCNext]_vars /\ Fairness
=============================================================================
