--------------------------- MODULE MCManagedChrome ---------------------------
(* ManagedChrome with few commands at a time. *)
EXTENDS ManagedChrome

CONSTANTS s1, s2, w, k

\* Starts that overlap; one start with a sweep, or with a stop, which meets a
\* weak identity only there.
Pairs == {[who |-> {s1, s2}, weak |-> {}, launches |-> 3, faults |-> 0],
          [who |-> {s1, w}, weak |-> {}, launches |-> 3, faults |-> 2],
          [who |-> {s1, k}, weak |-> {}, launches |-> 2, faults |-> 2],
          [who |-> {s1, k}, weak |-> {1}, launches |-> 2, faults |-> 2]}
=============================================================================
