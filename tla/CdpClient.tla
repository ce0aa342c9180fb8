------------------------------ MODULE CdpClient ------------------------------
(***************************************************************************)
(* internal/cdp/client.go: one websocket to the browser shared by every    *)
(* goroutine of the daemon.  Callers send commands through a write gate    *)
(* and wait for the answer with their id; one read loop hands answers to   *)
(* callers, and events to a handler or to a bounded queue, from which      *)
(* readers take the events of their session.                               *)
(***************************************************************************)
EXTENDS Naturals, Sequences, FiniteSets, SequencesExt

CONSTANTS
  Callers,
  Readers,      \* each is known by the session it reads
  Unscoped,     \* readers that use ReadEvent and DrainEvents
  None,
  MaxCalls,     \* bound on the commands of all callers
  MaxEvents,    \* bound on the events of the browser
  Cap           \* maxBufferedEvents

ASSUME CdpAssumption ==
  /\ Unscoped \subseteq Readers
  /\ None \notin Callers
  /\ MaxCalls \in Nat /\ MaxEvents \in Nat /\ Cap \in Nat \ {0}

VARIABLES
  pc,           \* of each caller
  call,         \* the id of its latest command
  next, pending,
  respCh,       \* the answer in the channel of each id
  gate,         \* who has the write gate
  sent,         \* commands written and not answered
  conn,         \* "open" or "broken"
  terminal,     \* the read loop has ended, and said so
  readLoop,
  subscribed,   \* a handler is registered
  arrived,      \* the session of each event, in order of arrival
  consumed,     \* events a handler consumed
  eventBuf,     \* the queue
  reader,       \* "idle", "reading", or "parked" on the notify channel
  got           \* what each reader has taken, in order

callVars == <<pc, call, next, respCh, gate>>
eventVars == <<subscribed, arrived, consumed, eventBuf, reader, got>>
vars == <<pc, call, next, pending, respCh, gate, sent, conn, terminal,
          readLoop, subscribed, arrived, consumed, eventBuf, reader, got>>

Ids == 1 .. MaxCalls
Reading == [at |-> "read", id |-> 0, seen |-> FALSE]

Init ==
  /\ pc = [c \in Callers |-> "idle"] /\ call = [c \in Callers |-> 0]
  /\ next = 0 /\ pending = {} /\ respCh = [i \in Ids |-> "none"]
  /\ gate = None /\ sent = {} /\ conn = "open" /\ terminal = FALSE
  /\ readLoop = Reading
  /\ subscribed = FALSE /\ arrived = <<>> /\ consumed = {}
  /\ eventBuf = <<>> /\ reader = [r \in Readers |-> "idle"]
  /\ got = [r \in Readers |-> <<>>]

Goto(c, label) == pc' = [pc EXCEPT ![c] = label]

-----------------------------------------------------------------------------
\* CallSession.  A context may end at any of the points where it is looked at.
AddPending(c) ==
  /\ pc[c] = "idle" /\ next < MaxCalls
  /\ next' = next + 1 /\ call' = [call EXCEPT ![c] = next + 1]
  /\ \/ terminal /\ UNCHANGED <<pc, pending>>
     \/ ~terminal /\ pending' = pending \cup {next + 1} /\ Goto(c, "gate")
  /\ UNCHANGED <<respCh, gate, sent, conn, terminal, readLoop, eventVars>>

AcquireWrite(c) ==
  /\ pc[c] = "gate" /\ gate = None /\ ~terminal
  /\ gate' = c /\ Goto(c, "write")
  /\ UNCHANGED <<call, next, pending, respCh, sent, conn, terminal, readLoop, eventVars>>

\* The context, or the connection, has ended.
AcquireFails(c) ==
  /\ pc[c] = "gate"
  /\ Goto(c, "remove")
  /\ UNCHANGED <<call, next, pending, respCh, gate, sent, conn, terminal,
                 readLoop, eventVars>>

Write(c) ==
  /\ pc[c] = "write"
  /\ sent' = sent \cup {call[c]}
  /\ gate' = None /\ Goto(c, "wait")
  /\ UNCHANGED <<call, next, pending, respCh, conn, terminal, readLoop, eventVars>>

\* Variant: the early return for an ended context keeps the gate.
WriteCancelledKeepingGate(c) ==
  /\ pc[c] = "write"
  /\ Goto(c, "remove")
  /\ UNCHANGED <<call, next, pending, respCh, gate, sent, conn, terminal,
                 readLoop, eventVars>>

WriteCancelled(c) ==
  /\ pc[c] = "write"
  /\ gate' = None /\ Goto(c, "remove")
  /\ UNCHANGED <<call, next, pending, respCh, sent, conn, terminal, readLoop, eventVars>>

\* A write that fails or exceeds its bound leaves the connection closed.
WriteFails(c) ==
  /\ pc[c] = "write"
  /\ conn' = "broken"
  /\ gate' = None /\ Goto(c, "remove")
  /\ UNCHANGED <<call, next, pending, respCh, sent, terminal, readLoop, eventVars>>

\* Answered, with a result or with the error the connection ended with.
Receive(c) ==
  /\ pc[c] = "wait" /\ respCh[call[c]] # "none"
  /\ respCh' = [respCh EXCEPT ![call[c]] = "none"]
  /\ Goto(c, "idle")
  /\ UNCHANGED <<call, next, pending, gate, sent, conn, terminal, readLoop, eventVars>>

\* Variant: the return for an ended context leaves the entry behind.
WaitCancelledLeaking(c) ==
  /\ pc[c] = "wait"
  /\ Goto(c, "idle")
  /\ UNCHANGED <<call, next, pending, respCh, gate, sent, conn, terminal,
                 readLoop, eventVars>>

WaitCancelled(c) ==
  /\ pc[c] = "wait"
  /\ Goto(c, "remove")
  /\ UNCHANGED <<call, next, pending, respCh, gate, sent, conn, terminal,
                 readLoop, eventVars>>

RemovePending(c) ==
  /\ pc[c] = "remove"
  /\ pending' = pending \ {call[c]}
  /\ Goto(c, "idle")
  /\ UNCHANGED <<call, next, respCh, gate, sent, conn, terminal, readLoop, eventVars>>

-----------------------------------------------------------------------------
\* readLoop.
\* Variant: the entry of an answered command stays.
TakePendingLeaving(id) ==
  /\ readLoop.at = "read" /\ id \in sent
  /\ sent' = sent \ {id} /\ pending' = pending
  /\ readLoop' = IF id \in pending
                 THEN [Reading EXCEPT !.at = "deliver", !.id = id] ELSE readLoop
  /\ UNCHANGED <<callVars, conn, terminal, eventVars>>

TakePending(id) ==
  /\ readLoop.at = "read" /\ id \in sent
  /\ sent' = sent \ {id} /\ pending' = pending \ {id}
  /\ readLoop' = IF id \in pending
                 THEN [Reading EXCEPT !.at = "deliver", !.id = id] ELSE readLoop
  /\ UNCHANGED <<callVars, conn, terminal, eventVars>>

Deliver ==
  /\ readLoop.at = "deliver" /\ respCh[readLoop.id] = "none"
  /\ respCh' = [respCh EXCEPT ![readLoop.id] = "answer"]
  /\ readLoop' = Reading
  /\ UNCHANGED <<pc, call, next, pending, gate, sent, conn, terminal, eventVars>>

\* Variant: the end of the connection is announced, but not to who waits.
FailNobody ==
  /\ readLoop.at = "read" /\ conn = "broken"
  /\ terminal' = TRUE
  /\ readLoop' = [Reading EXCEPT !.at = "done"]
  /\ UNCHANGED <<callVars, pending, sent, conn, eventVars>>

FailPending ==
  /\ readLoop.at = "read" /\ conn = "broken"
  /\ \A id \in pending : respCh[id] = "none"
  /\ terminal' = TRUE
  /\ readLoop' = [Reading EXCEPT !.at = "done"]
  /\ respCh' = [id \in Ids |-> IF id \in pending THEN "error" ELSE respCh[id]]
  /\ pending' = {}
  /\ UNCHANGED <<pc, call, next, gate, sent, conn, eventVars>>

\* An event arrives, and the handlers of its method are copied.
EventArrives(session) ==
  /\ readLoop.at = "read" /\ Len(arrived) < MaxEvents
  /\ arrived' = Append(arrived, session)
  /\ readLoop' = [Reading EXCEPT !.at = "dispatch", !.seen = subscribed]
  /\ UNCHANGED <<callVars, pending, sent, conn, terminal, subscribed, consumed,
                 eventBuf, reader, got>>

\* A handler consumes it, or it is buffered: the queue keeps its latest Cap
\* events, and everybody who is parked wakes.
DispatchEvent ==
  /\ readLoop.at = "dispatch" /\ readLoop.seen
  /\ consumed' = consumed \cup {Len(arrived)}
  /\ readLoop' = Reading
  /\ UNCHANGED <<callVars, pending, sent, conn, terminal, subscribed, arrived,
                 eventBuf, reader, got>>

\* Variant: off by one.
TrimLate(buf) ==
  IF Len(buf) > Cap + 1 THEN SubSeq(buf, Len(buf) - Cap + 1, Len(buf)) ELSE buf

Trim(buf) == IF Len(buf) > Cap THEN SubSeq(buf, Len(buf) - Cap + 1, Len(buf)) ELSE buf

\* Variant: only one of those who are parked is told.
WakeOne(rd) ==
  IF \E r \in Readers : rd[r] = "parked"
  THEN [rd EXCEPT ![CHOOSE r \in Readers : rd[r] = "parked"] = "reading"]
  ELSE rd

Wake(rd) == [r \in Readers |-> IF rd[r] = "parked" THEN "reading" ELSE rd[r]]

BufferEvent ==
  /\ readLoop.at = "dispatch"
  /\ eventBuf' = Trim(Append(eventBuf, Len(arrived)))
  /\ reader' = Wake(reader)
  /\ readLoop' = Reading
  /\ UNCHANGED <<callVars, pending, sent, conn, terminal, subscribed, arrived,
                 consumed, got>>

-----------------------------------------------------------------------------
\* The events of the queue.
StartRead(r) ==
  /\ reader[r] = "idle"
  /\ reader' = [reader EXCEPT ![r] = "reading"]
  /\ UNCHANGED <<callVars, pending, sent, conn, terminal, readLoop, subscribed,
                 arrived, consumed, eventBuf, got>>

Matches(r, n) == r \in Unscoped \/ arrived[n] = r

\* Variant: the last event takes the place of the one removed.
SwapOut(buf, i) == SubSeq([buf EXCEPT ![i] = buf[Len(buf)]], 1, Len(buf) - 1)

Take(buf, i) == RemoveAt(buf, i)

\* popEventOrWait: the first match, even if the context has ended.
PopEvent(r) ==
  /\ reader[r] = "reading"
  /\ LET found == {i \in DOMAIN eventBuf : Matches(r, eventBuf[i])}
     IN IF found = {}
        THEN /\ reader' = [reader EXCEPT ![r] = "parked"]
             /\ UNCHANGED <<eventBuf, got>>
        ELSE LET first == CHOOSE i \in found : \A j \in found : i <= j
             IN /\ got' = [got EXCEPT ![r] = Append(@, eventBuf[first])]
                /\ eventBuf' = Take(eventBuf, first)
                /\ reader' = [reader EXCEPT ![r] = "idle"]
  /\ UNCHANGED <<callVars, pending, sent, conn, terminal, readLoop, subscribed,
                 arrived, consumed>>

ReadCancelled(r) ==
  /\ reader[r] = "parked"
  /\ reader' = [reader EXCEPT ![r] = "idle"]
  /\ UNCHANGED <<callVars, pending, sent, conn, terminal, readLoop, subscribed,
                 arrived, consumed, eventBuf, got>>

\* The entries of buf at the positions of S, in their order.
Nth(S, k) == CHOOSE i \in S : Cardinality({j \in S : j <= i}) = k
Pick(buf, S) == [k \in 1 .. Cardinality(S) |-> buf[Nth(S, k)]]

\* DrainSessionEvents, DrainEvents.
Drain(r) ==
  /\ reader[r] = "idle"
  /\ LET found == {i \in DOMAIN eventBuf : Matches(r, eventBuf[i])}
     IN /\ got' = [got EXCEPT ![r] = @ \o Pick(eventBuf, found)]
        /\ eventBuf' = Pick(eventBuf, DOMAIN eventBuf \ found)
  /\ UNCHANGED <<callVars, pending, sent, conn, terminal, readLoop, subscribed,
                 arrived, consumed, reader>>

\* SubscribeEvent and the function it returns.
Subscribe ==
  /\ subscribed' = ~subscribed
  /\ UNCHANGED <<callVars, pending, sent, conn, terminal, readLoop, arrived,
                 consumed, eventBuf, reader, got>>

\* Close, or the browser goes away.
ConnectionBreaks ==
  /\ conn = "open" /\ conn' = "broken"
  /\ UNCHANGED <<callVars, pending, sent, terminal, readLoop, eventVars>>

-----------------------------------------------------------------------------
CallStep(c) ==
  \/ AddPending(c) \/ AcquireWrite(c) \/ AcquireFails(c)
  \/ Write(c) \/ WriteCancelled(c) \/ WriteFails(c)
  \/ Receive(c) \/ WaitCancelled(c) \/ RemovePending(c)

ReadStep ==
  \/ \E id \in Ids : TakePending(id)
  \/ Deliver \/ FailPending \/ DispatchEvent \/ BufferEvent

EventStep(r) == StartRead(r) \/ PopEvent(r) \/ ReadCancelled(r) \/ Drain(r)

Next ==
  \/ \E c \in Callers : CallStep(c)
  \/ ReadStep
  \/ \E s \in Readers : EventArrives(s)
  \/ \E r \in Readers : EventStep(r)
  \/ Subscribe \/ ConnectionBreaks

Spec == Init /\ [][Next]_vars

\* The read loop runs.  A write ends within cdpWriteTimeout, who waits for the
\* gate is served in turn, and a call returns once it can; no context has to
\* end.
Fairness ==
  /\ WF_vars(Deliver \/ FailPending \/ DispatchEvent \/ BufferEvent)
  /\ \A c \in Callers :
       /\ SF_vars(AcquireWrite(c))
       /\ WF_vars(terminal /\ AcquireFails(c))
       /\ WF_vars(Write(c) \/ WriteFails(c))
       /\ WF_vars(Receive(c)) /\ WF_vars(RemovePending(c))

FairSpec == Spec /\ Fairness

-----------------------------------------------------------------------------
\* Type correctness of the client.
TypeOK ==
  /\ pc \in [Callers -> {"idle", "gate", "write", "wait", "remove"}]
  /\ call \in [Callers -> 0 .. MaxCalls] /\ next \in 0 .. MaxCalls
  /\ pending \subseteq Ids /\ sent \subseteq Ids
  /\ respCh \in [Ids -> {"none", "answer", "error"}]
  /\ gate \in Callers \cup {None}
  /\ conn \in {"open", "broken"} /\ terminal \in BOOLEAN
  /\ readLoop \in [at : {"read", "deliver", "dispatch", "done"},
                   id : 0 .. MaxCalls, seen : BOOLEAN]
  /\ subscribed \in BOOLEAN
  /\ arrived \in Seq(Readers) /\ consumed \subseteq 1 .. MaxEvents
  /\ eventBuf \in Seq(1 .. MaxEvents) /\ Len(eventBuf) <= Cap
  /\ reader \in [Readers -> {"idle", "reading", "parked"}]
  /\ got \in [Readers -> Seq(1 .. MaxEvents)]

\* A command is registered only while its call runs (CallSession takes its
\* entry out on every return, or the read loop has done it).
NothingLeaks ==
  \A id \in pending : \E c \in Callers : call[c] = id /\ pc[c] # "idle"

\* The read loop never waits for a caller: there is room for what it hands out,
\* also to those it fails (the channel of a call has room for one answer and
\* gets at most one).
ReadLoopNeverBlocks ==
  /\ readLoop.at = "deliver" => respCh[readLoop.id] = "none"
  /\ \A id \in pending : respCh[id] = "none"

\* When the connection ends, every call that has begun returns, whether or not
\* its context ends (failPending).
BrokenEndsCalls ==
  \A c \in Callers : (conn = "broken" /\ pc[c] # "idle") ~> (pc[c] = "idle")

\* A call that waits for the write gate gets it, or returns (releaseWrite on
\* every path of CallSession).
GateIsPassedOn == \A c \in Callers : (pc[c] = "gate") ~> (pc[c] # "gate")

\* The queue is an EventFeed of the events that have been dispatched: each
\* reader gets its own events, in order and once, whether it reads or drains,
\* and an event is lost only to make room for a newer one (bufferEvent,
\* popEventOrWait, drainEvents; README.md: "one observer cannot consume and
\* discard another observer's records").
Feed == INSTANCE EventFeed WITH
  events <- IF readLoop.at = "dispatch" THEN Front(arrived) ELSE arrived,
  handled <- consumed, waiting <- ToSet(eventBuf), given <- got

ImplementsFeed == Feed!Spec

\* Nobody is parked while an event of its session is in the queue.
NoLostWakeup ==
  \A r \in Readers :
    reader[r] = "parked" => \A i \in DOMAIN eventBuf : ~Matches(r, eventBuf[i])
=============================================================================
