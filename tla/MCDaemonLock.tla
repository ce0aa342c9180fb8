---------------------------- MODULE MCDaemonLock ----------------------------
(* DaemonLock on small sets of processes. *)
EXTENDS DaemonLock, TLC

Symmetry == Permutations(Contenders)
=============================================================================
