------------------------------ MODULE EventFeed ------------------------------
(***************************************************************************)
(* What the event queue of internal/cdp/client.go promises to its readers: *)
(* an event is handled as it comes or waits, with at most Cap others, the  *)
(* oldest of which gives way to a new one; a reader is given the oldest of *)
(* those that wait for it, one or more at a time, and nobody else is given *)
(* them again.                                                             *)
(***************************************************************************)
EXTENDS Naturals, Sequences, FiniteSets

CONSTANTS
  Readers,      \* each is known by the session it reads
  Unscoped,     \* those who read every session
  Cap

VARIABLES
  events,       \* the session of each event
  handled, waiting,     \* positions in events
  given         \* to each reader, in order

feedVars == <<events, handled, waiting, given>>

Init ==
  /\ events = <<>> /\ handled = {} /\ waiting = {}
  /\ given = [r \in Readers |-> <<>>]

Newest(S) == {n \in S : Cardinality({m \in S : m > n}) < Cap}

Offer(s) ==
  LET n == Len(events) + 1
  IN /\ events' = Append(events, s)
     /\ \/ handled' = handled \cup {n} /\ UNCHANGED waiting
        \/ waiting' = Newest(waiting \cup {n}) /\ UNCHANGED handled
     /\ UNCHANGED given

For(r) == {n \in waiting : r \in Unscoped \/ events[n] = r}

\* The elements of S, in order.
Sorted(S) ==
  {s \in [1 .. Cardinality(S) -> S] : \A i, j \in DOMAIN s : i < j => s[i] < s[j]}

Give(r) ==
  \E last \in For(r) :
    LET oldest == {n \in For(r) : n <= last}
    IN /\ \E s \in Sorted(oldest) : given' = [given EXCEPT ![r] = @ \o s]
       /\ waiting' = waiting \ oldest
       /\ UNCHANGED <<events, handled>>

Next == \E r \in Readers : Offer(r) \/ Give(r)

Spec == Init /\ [][Next]_feedVars
=============================================================================
