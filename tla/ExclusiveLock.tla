---------------------------- MODULE ExclusiveLock ----------------------------
(* What a lock promises those that work under it: who takes it found it     *)
(* free, and it is free again when they leave, whatever made them leave.    *)
CONSTANT Procs

VARIABLE holders

Init == holders = {}

Take(p) == holders = {} /\ holders' = {p}

Leave(p) == holders = {p} /\ holders' = {}

Next == \E p \in Procs : Take(p) \/ Leave(p)

Spec == Init /\ [][Next]_holders
=============================================================================
