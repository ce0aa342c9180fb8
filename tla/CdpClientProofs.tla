--------------------------- MODULE CdpClientProofs ---------------------------
(***************************************************************************)
(* The calls of the client: an entry in the pending table belongs to a     *)
(* call that runs, and the read loop never waits when it hands out an      *)
(* answer or the end of the connection.  The events share the read loop,   *)
(* and change nothing of this.                                             *)
(*                                                                         *)
(* The events of the client: the queue keeps their order and at most Cap   *)
(* of them, nobody is parked beside an event of its own, and so it is the  *)
(* feed that EventFeed specifies.                                          *)
(***************************************************************************)
EXTENDS CdpClient, FiniteSetTheorems, SequenceTheorems, TLAPS

\* What the argument needs of the types.
CallsTyped ==
  /\ pc \in [Callers -> {"idle", "gate", "write", "wait", "remove"}]
  /\ call \in [Callers -> 0 .. MaxCalls] /\ next \in 0 .. MaxCalls
  /\ \A c \in Callers : pc[c] # "idle" => call[c] \in Ids
  /\ pending \subseteq Ids
  /\ respCh \in [Ids -> {"none", "answer", "error"}]
  /\ readLoop.at \in {"read", "deliver", "dispatch", "done"}
  /\ readLoop.id \in 0 .. MaxCalls
  /\ readLoop.at = "deliver" => readLoop.id \in Ids

\* An id that has not been given out has no entry and no answer, now or about
\* to be delivered.
FreshIds ==
  \A id \in Ids : id > next =>
    id \notin pending /\ respCh[id] = "none" /\ readLoop.id # id

\* An answer in the channel is the only one: its entry is gone, and it is not
\* delivered again.
AnsweredOnce ==
  \A id \in Ids : respCh[id] # "none" =>
    id \notin pending /\ ~(readLoop.at = "deliver" /\ readLoop.id = id)

\* What is about to be delivered has lost its entry.
DeliveredOnce == readLoop.at = "deliver" => readLoop.id \notin pending

CallsInv ==
  /\ CallsTyped /\ FreshIds /\ AnsweredOnce /\ DeliveredOnce /\ NothingLeaks

callsState == <<pc, call, next, pending, respCh, readLoop>>
-----------------------------------------------------------------------------
\* The invariant says that the read loop never waits.
LEMMA NeverBlocks ==
  ASSUME CallsInv
  PROVE  ReadLoopNeverBlocks
BY DEF CallsInv, CallsTyped, AnsweredOnce, ReadLoopNeverBlocks

\* Dial.
LEMMA InitCalls ==
  ASSUME Init
  PROVE  CallsInv
BY CdpAssumption
   DEF Init, CallsInv, CallsTyped, FreshIds, AnsweredOnce, DeliveredOnce,
       NothingLeaks, Ids, Reading

\* CallSession registers an id that nobody has seen, unless the connection has
\* ended.
LEMMA AddPendingCalls ==
  ASSUME CallsInv, NEW c \in Callers, AddPending(c)
  PROVE  CallsInv'
<1> DEFINE id == next + 1
<1>1. id \in Ids /\ pc[c] = "idle" /\ next' = id /\ call' = [call EXCEPT ![c] = id]
      /\ UNCHANGED <<respCh, readLoop>>
  BY CdpAssumption DEF CallsInv, CallsTyped, AddPending, Ids
<1>2. \/ UNCHANGED <<pc, pending>>
      \/ pending' = pending \cup {id} /\ pc' = [pc EXCEPT ![c] = "gate"]
  BY DEF AddPending, Goto
<1>3. id > next /\ \A i \in Ids : i > id => i > next
  BY CdpAssumption DEF CallsInv, CallsTyped, Ids
<1>4. CallsTyped'
  <2>1. call' \in [Callers -> 0 .. MaxCalls] /\ next' \in 0 .. MaxCalls
    BY <1>1, CdpAssumption DEF CallsInv, CallsTyped, Ids
  <2>2. pc' \in [Callers -> {"idle", "gate", "write", "wait", "remove"}]
        /\ pending' \subseteq Ids
    BY <1>1, <1>2 DEF CallsInv, CallsTyped
  <2>3. \A d \in Callers : pc'[d] # "idle" => call'[d] \in Ids
    BY <1>1, <1>2 DEF CallsInv, CallsTyped
  <2>4. QED
    BY <2>1, <2>2, <2>3, <1>1 DEF CallsInv, CallsTyped
<1>5. FreshIds'
  BY <1>1, <1>2, <1>3 DEF CallsInv, FreshIds, Ids
<1>6. AnsweredOnce' /\ DeliveredOnce'
  BY <1>1, <1>2, <1>3 DEF CallsInv, FreshIds, AnsweredOnce, DeliveredOnce
<1>7. NothingLeaks'
  <2> SUFFICES ASSUME NEW i \in pending'
               PROVE  \E d \in Callers : call'[d] = i /\ pc'[d] # "idle"
    BY DEF NothingLeaks
  <2>1. CASE i \in pending
    <3>1. PICK d \in Callers : call[d] = i /\ pc[d] # "idle"
      BY <2>1 DEF CallsInv, NothingLeaks
    <3>2. d # c
      BY <3>1, <1>1
    <3>3. QED
      BY <3>1, <3>2, <1>1, <1>2 DEF CallsInv, CallsTyped
  <2>2. CASE i \notin pending
    <3>1. i = id /\ pc' = [pc EXCEPT ![c] = "gate"]
      BY <2>2, <1>2
    <3>2. QED
      BY <3>1, <1>1 DEF CallsInv, CallsTyped
  <2>3. QED
    BY <2>1, <2>2
<1>8. QED
  BY <1>4, <1>5, <1>6, <1>7 DEF CallsInv

\* Between registering and waiting, a call moves on and keeps its entry.
LEMMA MoveOn ==
  ASSUME CallsInv, NEW c \in Callers, pc[c] # "idle",
         NEW label \in {"write", "wait", "remove"}, Goto(c, label),
         UNCHANGED <<call, next, pending, respCh, readLoop>>
  PROVE  CallsInv'
<1>1. CallsTyped'
  BY DEF CallsInv, CallsTyped, Goto
<1>2. FreshIds' /\ AnsweredOnce' /\ DeliveredOnce'
  BY DEF CallsInv, FreshIds, AnsweredOnce, DeliveredOnce
<1>3. NothingLeaks'
  BY DEF CallsInv, CallsTyped, Goto, NothingLeaks
<1>4. QED
  BY <1>1, <1>2, <1>3 DEF CallsInv

\* A call returns, and its entry is gone.
LEMMA ReturnKeeps ==
  ASSUME CallsInv, NEW c \in Callers, Goto(c, "idle"), UNCHANGED call,
         pending' \subseteq pending, call[c] \notin pending'
  PROVE  NothingLeaks'
<1> SUFFICES ASSUME NEW i \in pending'
             PROVE  \E d \in Callers : call'[d] = i /\ pc'[d] # "idle"
  BY DEF NothingLeaks
<1>1. PICK d \in Callers : call[d] = i /\ pc[d] # "idle"
  BY DEF CallsInv, NothingLeaks
<1>2. d # c
  BY <1>1
<1>3. QED
  BY <1>1, <1>2 DEF CallsInv, CallsTyped, Goto

\* A call that is answered returns without taking its entry out: it is gone.
LEMMA ReceiveCalls ==
  ASSUME CallsInv, NEW c \in Callers, Receive(c)
  PROVE  CallsInv'
<1>1. call[c] \in Ids /\ respCh[call[c]] # "none" /\ Goto(c, "idle")
      /\ respCh' = [respCh EXCEPT ![call[c]] = "none"]
      /\ UNCHANGED <<call, next, pending, readLoop>>
  BY DEF CallsInv, CallsTyped, Receive
<1>2. call[c] \notin pending
  BY <1>1 DEF CallsInv, AnsweredOnce
<1>3. CallsTyped'
  BY <1>1 DEF CallsInv, CallsTyped, Goto
<1>4. \A i \in Ids : respCh'[i] # "none" => respCh'[i] = respCh[i]
  BY <1>1 DEF CallsInv, CallsTyped
<1>5. FreshIds' /\ AnsweredOnce' /\ DeliveredOnce'
  BY <1>1, <1>4 DEF CallsInv, FreshIds, AnsweredOnce, DeliveredOnce
<1>6. NothingLeaks'
  BY <1>1, <1>2, ReturnKeeps
<1>7. QED
  BY <1>3, <1>5, <1>6 DEF CallsInv

\* A call that gives up takes its entry out.
LEMMA RemovePendingCalls ==
  ASSUME CallsInv, NEW c \in Callers, RemovePending(c)
  PROVE  CallsInv'
<1>1. pending' = pending \ {call[c]} /\ Goto(c, "idle")
      /\ UNCHANGED <<call, next, respCh, readLoop>>
  BY DEF RemovePending
<1>2. CallsTyped'
  BY <1>1 DEF CallsInv, CallsTyped, Goto
<1>3. FreshIds' /\ AnsweredOnce' /\ DeliveredOnce'
  BY <1>1 DEF CallsInv, FreshIds, AnsweredOnce, DeliveredOnce
<1>4. NothingLeaks'
  BY <1>1, ReturnKeeps
<1>5. QED
  BY <1>2, <1>3, <1>4 DEF CallsInv

\* What a caller does keeps the invariant.
LEMMA CallStepCalls ==
  ASSUME CallsInv, NEW c \in Callers, CallStep(c)
  PROVE  CallsInv'
<1>1. ASSUME AddPending(c) PROVE CallsInv'
  BY <1>1, AddPendingCalls
<1>2. ASSUME AcquireWrite(c) PROVE CallsInv'
  BY <1>2, MoveOn DEF AcquireWrite, eventVars
<1>3. ASSUME AcquireFails(c) PROVE CallsInv'
  BY <1>3, MoveOn DEF AcquireFails, eventVars
<1>4. ASSUME Write(c) PROVE CallsInv'
  BY <1>4, MoveOn DEF Write, eventVars
<1>5. ASSUME WriteCancelled(c) PROVE CallsInv'
  BY <1>5, MoveOn DEF WriteCancelled, eventVars
<1>6. ASSUME WriteFails(c) PROVE CallsInv'
  BY <1>6, MoveOn DEF WriteFails, eventVars
<1>7. ASSUME WaitCancelled(c) PROVE CallsInv'
  BY <1>7, MoveOn DEF WaitCancelled, eventVars
<1>8. ASSUME Receive(c) PROVE CallsInv'
  BY <1>8, ReceiveCalls
<1>9. ASSUME RemovePending(c) PROVE CallsInv'
  BY <1>9, RemovePendingCalls
<1>10. QED
  BY <1>1, <1>2, <1>3, <1>4, <1>5, <1>6, <1>7, <1>8, <1>9 DEF CallStep
-----------------------------------------------------------------------------
\* An entry leaves the table as its answer is taken to the caller.
LEMMA TakePendingCalls ==
  ASSUME CallsInv, NEW id \in Ids, TakePending(id)
  PROVE  CallsInv'
<1>1. pending' = pending \ {id} /\ readLoop.at = "read"
      /\ UNCHANGED <<pc, call, next, respCh>>
  BY DEF TakePending, callVars
<1>2. \/ UNCHANGED readLoop
      \/ /\ id \in pending
         /\ readLoop' = [at |-> "deliver", id |-> id, seen |-> FALSE]
  BY DEF TakePending, Reading
<1>3. CallsTyped'
  <2>1. id \in 0 .. MaxCalls
    BY CdpAssumption DEF Ids
  <2>2. QED
    BY <1>1, <1>2, <2>1 DEF CallsInv, CallsTyped
<1>4. FreshIds' /\ AnsweredOnce' /\ DeliveredOnce'
  BY <1>1, <1>2 DEF CallsInv, FreshIds, AnsweredOnce, DeliveredOnce
<1>5. NothingLeaks'
  BY <1>1 DEF CallsInv, NothingLeaks
<1>6. QED
  BY <1>3, <1>4, <1>5 DEF CallsInv

\* The answer goes into the channel of its call.
LEMMA DeliverCalls ==
  ASSUME CallsInv, Deliver
  PROVE  CallsInv'
<1> DEFINE id == readLoop.id
<1>1. id \in Ids /\ id \notin pending /\ readLoop.at = "deliver"
      /\ respCh' = [respCh EXCEPT ![id] = "answer"]
      /\ readLoop' = [at |-> "read", id |-> 0, seen |-> FALSE]
      /\ UNCHANGED <<pc, call, next, pending>>
  BY DEF CallsInv, CallsTyped, DeliveredOnce, Deliver, Reading
<1>2. CallsTyped'
  <2>1. 0 \in 0 .. MaxCalls
    BY CdpAssumption
  <2>2. QED
    BY <1>1, <2>1 DEF CallsInv, CallsTyped
<1>3. FreshIds'
  <2>1. \A i \in Ids : i # 0
    BY DEF Ids
  <2>2. \A i \in Ids : i # id => respCh'[i] = respCh[i]
    BY <1>1 DEF CallsInv, CallsTyped
  <2>3. QED
    BY <1>1, <2>1, <2>2 DEF CallsInv, FreshIds
<1>4. AnsweredOnce' /\ DeliveredOnce'
  BY <1>1 DEF CallsInv, CallsTyped, AnsweredOnce, DeliveredOnce
<1>5. NothingLeaks'
  BY <1>1 DEF CallsInv, NothingLeaks
<1>6. QED
  BY <1>2, <1>3, <1>4, <1>5 DEF CallsInv

\* The end of the connection answers every entry and empties the table.
LEMMA FailPendingCalls ==
  ASSUME CallsInv, FailPending
  PROVE  CallsInv'
<1>1. respCh' = [i \in Ids |-> IF i \in pending THEN "error" ELSE respCh[i]]
      /\ pending' = {} /\ readLoop' = [at |-> "done", id |-> 0, seen |-> FALSE]
      /\ UNCHANGED <<pc, call, next>>
  BY DEF FailPending, Reading
<1>2. CallsTyped'
  <2>1. 0 \in 0 .. MaxCalls
    BY CdpAssumption
  <2>2. QED
    BY <1>1, <2>1 DEF CallsInv, CallsTyped
<1>3. FreshIds'
  <2>1. \A i \in Ids : i # 0
    BY DEF Ids
  <2>2. QED
    BY <1>1, <2>1 DEF CallsInv, FreshIds
<1>4. AnsweredOnce' /\ DeliveredOnce' /\ NothingLeaks'
  BY <1>1 DEF AnsweredOnce, DeliveredOnce, NothingLeaks
<1>5. QED
  BY <1>2, <1>3, <1>4 DEF CallsInv

\* An event takes the read loop away from the answers and back.
LEMMA EventCalls ==
  ASSUME CallsInv, UNCHANGED <<pc, call, next, pending, respCh>>,
         readLoop'.at \in {"read", "dispatch"}, readLoop'.id = 0
  PROVE  CallsInv'
<1>1. 0 \in 0 .. MaxCalls /\ \A i \in Ids : i # 0
  BY CdpAssumption DEF Ids
<1>2. CallsTyped'
  BY <1>1 DEF CallsInv, CallsTyped
<1>3. FreshIds' /\ AnsweredOnce' /\ DeliveredOnce'
  BY <1>1 DEF CallsInv, FreshIds, AnsweredOnce, DeliveredOnce
<1>4. NothingLeaks'
  BY DEF CallsInv, NothingLeaks
<1>5. QED
  BY <1>2, <1>3, <1>4 DEF CallsInv

\* Nothing else in the client touches the calls.
LEMMA OtherCalls ==
  ASSUME CallsInv, UNCHANGED callsState
  PROVE  CallsInv'
BY DEF CallsInv, callsState, CallsTyped, FreshIds, AnsweredOnce, DeliveredOnce,
       NothingLeaks

\* Every step of the client keeps the invariant.
LEMMA NextCalls ==
  ASSUME CallsInv, [Next]_vars
  PROVE  CallsInv'
<1>1. ASSUME NEW c \in Callers, CallStep(c) PROVE CallsInv'
  BY <1>1, CallStepCalls
<1>2. ASSUME NEW id \in Ids, TakePending(id) PROVE CallsInv'
  BY <1>2, TakePendingCalls
<1>3. ASSUME Deliver PROVE CallsInv'
  BY <1>3, DeliverCalls
<1>4. ASSUME FailPending PROVE CallsInv'
  BY <1>4, FailPendingCalls
<1>5. ASSUME DispatchEvent \/ BufferEvent PROVE CallsInv'
  BY <1>5, EventCalls DEF DispatchEvent, BufferEvent, callVars, Reading
<1>6. ASSUME NEW s \in Readers, EventArrives(s) PROVE CallsInv'
  BY <1>6, EventCalls DEF EventArrives, callVars, Reading
<1>7. ASSUME NEW r \in Readers, EventStep(r) PROVE CallsInv'
  <2>1. UNCHANGED callsState
    BY <1>7 DEF EventStep, StartRead, PopEvent, ReadCancelled, Drain, callVars,
                callsState
  <2>2. QED
    BY <2>1, OtherCalls
<1>8. ASSUME Subscribe \/ ConnectionBreaks \/ UNCHANGED vars PROVE CallsInv'
  BY <1>8, OtherCalls DEF Subscribe, ConnectionBreaks, callVars, vars, callsState
<1>9. QED
  BY <1>1, <1>2, <1>3, <1>4, <1>5, <1>6, <1>7, <1>8 DEF Next, ReadStep

\* The invariant holds in every state of the client.
LEMMA CallsHold == Spec => []CallsInv
<1>1. Init => CallsInv
  BY InitCalls
<1>2. CallsInv /\ [Next]_vars => CallsInv'
  BY NextCalls
<1>3. QED
  BY <1>1, <1>2, PTL DEF Spec

\* Whatever callers, the browser and the readers do, an entry of the pending
\* table belongs to a call that has not returned (CallSession).
THEOREM CallsLeakNothing == Spec => []NothingLeaks
<1>1. CallsInv => NothingLeaks
  BY DEF CallsInv
<1>2. QED
  BY <1>1, CallsHold, PTL

\* The read loop finds room for every answer, and for the error of every entry
\* when the connection ends (readLoop, failPending).
THEOREM ReadLoopRuns == Spec => []ReadLoopNeverBlocks
<1>1. CallsInv => ReadLoopNeverBlocks
  BY NeverBlocks
<1>2. QED
  BY <1>1, CallsHold, PTL
-----------------------------------------------------------------------------
\* In the order the events came.
Increasing(s) == \A i, j \in DOMAIN s : i < j => s[i] < s[j]

\* How many of S are not above i.
Rank(S, i) == Cardinality({j \in S : j <= i})

\* There are n positions up to n.
LEMMA UpTo ==
  ASSUME NEW n \in Nat
  PROVE  IsFiniteSet(1 .. n) /\ Cardinality(1 .. n) = n
BY FS_Interval

\* A rank counts from one.
LEMMA RankBounds ==
  ASSUME NEW S \in SUBSET Nat, IsFiniteSet(S), NEW i \in S
  PROVE  Rank(S, i) \in 1 .. Cardinality(S)
<1> DEFINE T == {j \in S : j <= i}
<1>1. IsFiniteSet(T) /\ Cardinality(T) <= Cardinality(S)
  BY FS_Subset
<1>2. Cardinality(T) \in Nat /\ Cardinality(S) \in Nat
  BY <1>1, FS_CardinalityType
<1>3. i \in T
  OBVIOUS
<1>4. Cardinality(T) # 0
  BY <1>1, <1>3, FS_EmptySet
<1>5. QED
  BY <1>1, <1>2, <1>4 DEF Rank

\* Ranks grow with what they rank.
LEMMA RankGrows ==
  ASSUME NEW S \in SUBSET Nat, IsFiniteSet(S), NEW i \in S, NEW j \in S, i < j
  PROVE  Rank(S, i) < Rank(S, j)
<1> DEFINE T == {k \in S : k <= i}
           U == {k \in S : k <= j}
<1>1. IsFiniteSet(U)
  BY FS_Subset
<1>2. T \subseteq U /\ T # U
  <2>1. j \in U /\ j \notin T
    OBVIOUS
  <2>2. \A k \in S : k <= i => k <= j
    OBVIOUS
  <2>3. QED
    BY <2>1, <2>2
<1>3. Cardinality(T) <= Cardinality(U) /\ Cardinality(U) # Cardinality(T)
  BY <1>1, <1>2, FS_Subset
<1>4. Rank(S, i) \in Nat /\ Rank(S, j) \in Nat
  BY FS_CardinalityType, FS_Subset DEF Rank
<1>5. QED
  BY <1>3, <1>4 DEF Rank

\* Every rank up to the size of S is taken.
LEMMA NthRanks ==
  ASSUME NEW S \in SUBSET Nat, IsFiniteSet(S), NEW k \in 1 .. Cardinality(S)
  PROVE  Nth(S, k) \in S /\ Rank(S, Nth(S, k)) = k
<1> DEFINE f == [i \in S |-> Rank(S, i)]
           T == 1 .. Cardinality(S)
<1>1. Cardinality(S) \in Nat
  BY FS_CardinalityType
<1>2. IsFiniteSet(T) /\ Cardinality(T) = Cardinality(S)
  BY <1>1, FS_Interval
<1>3. \A i, j \in S : f[i] = f[j] => i = j
  <2> SUFFICES ASSUME NEW i \in S, NEW j \in S, i # j
               PROVE  Rank(S, i) # Rank(S, j)
    OBVIOUS
  <2>1. i < j \/ j < i
    OBVIOUS
  <2>2. Rank(S, i) < Rank(S, j) \/ Rank(S, j) < Rank(S, i)
    BY <2>1, RankGrows
  <2>3. Rank(S, i) \in Nat /\ Rank(S, j) \in Nat
    BY RankBounds, <1>1
  <2>4. QED
    BY <2>2, <2>3
<1>4. f \in [S -> T]
  BY RankBounds
<1>5. f \in Injection(S, T)
  BY <1>3, <1>4 DEF Injection, IsInjective
<1>6. f \in Surjection(S, T)
  BY <1>2, <1>5, FS_Injection
<1>7. \E i \in S : Rank(S, i) = k
  BY <1>6 DEF Surjection
<1>8. QED
  BY <1>7 DEF Nth, Rank

\* The positions of S are visited in their order,
LEMMA NthGrows ==
  ASSUME NEW S \in SUBSET Nat, IsFiniteSet(S),
         NEW k \in 1 .. Cardinality(S), NEW l \in 1 .. Cardinality(S), k < l
  PROVE  Nth(S, k) < Nth(S, l)
<1>1. Nth(S, k) \in S /\ Nth(S, l) \in S
      /\ Rank(S, Nth(S, k)) = k /\ Rank(S, Nth(S, l)) = l
  BY NthRanks
<1>2. CASE Nth(S, l) < Nth(S, k)
  <2>1. l < k
    BY <1>1, <1>2, RankGrows
  <2>2. QED
    BY <2>1
<1>3. CASE Nth(S, l) = Nth(S, k)
  BY <1>1, <1>3
<1>4. Nth(S, k) \in Nat /\ Nth(S, l) \in Nat
  BY <1>1
<1>5. QED
  BY <1>2, <1>3, <1>4

\* and none is left out.
LEMMA NthVisits ==
  ASSUME NEW S \in SUBSET Nat, IsFiniteSet(S), NEW i \in S
  PROVE  \E k \in 1 .. Cardinality(S) : Nth(S, k) = i
<1> DEFINE k == Rank(S, i)
<1>1. k \in 1 .. Cardinality(S)
  BY RankBounds
<1>2. Nth(S, k) \in S /\ Rank(S, Nth(S, k)) = k
  BY <1>1, NthRanks
<1>3. ~(Nth(S, k) < i) /\ ~(i < Nth(S, k))
  <2>1. ~(k < k)
    BY <1>1
  <2> HIDE DEF k
  <2>2. Rank(S, i) = k
    BY DEF k
  <2>3. QED
    BY <1>2, <2>1, <2>2, RankGrows
<1>4. Nth(S, k) \in Nat /\ i \in Nat
  BY <1>2
<1>5. Nth(S, k) = i
  BY <1>3, <1>4
<1>6. QED
  BY <1>1, <1>5
-----------------------------------------------------------------------------
\* Some of the events up to last, in the order they came, and a queue of them.
Ordered(buf, last) == buf \in Seq(1 .. last) /\ Increasing(buf)
Queue(buf, last) == Ordered(buf, last) /\ Len(buf) <= Cap

\* In such a sequence the order of the entries is that of their positions.
LEMMA OrderOf ==
  ASSUME NEW last \in Nat, NEW buf, Ordered(buf, last)
  PROVE  /\ Len(buf) \in Nat /\ DOMAIN buf = 1 .. Len(buf)
         /\ \A i \in 1 .. Len(buf) : buf[i] \in 1 .. last
         /\ \A i, j \in 1 .. Len(buf) : i < j <=> buf[i] < buf[j]
<1>1. Len(buf) \in Nat /\ DOMAIN buf = 1 .. Len(buf)
      /\ \A i \in 1 .. Len(buf) : buf[i] \in 1 .. last
  BY LenProperties, ElementOfSeq DEF Ordered
<1>2. ASSUME NEW i \in 1 .. Len(buf), NEW j \in 1 .. Len(buf)
      PROVE  i < j <=> buf[i] < buf[j]
  <2>1. buf[i] \in Nat /\ buf[j] \in Nat
    BY <1>1
  <2>2. (i < j => buf[i] < buf[j]) /\ (j < i => buf[j] < buf[i])
    BY <1>1 DEF Queue, Ordered, Increasing
  <2>3. i < j \/ i = j \/ j < i
    BY <1>1
  <2>4. QED
    BY <2>1, <2>2, <2>3
<1>3. QED
  BY <1>1, <1>2

\* What is picked from a queue is a queue, of the entries at those positions.
LEMMA PickIsQueue ==
  ASSUME NEW last \in Nat, NEW buf, Queue(buf, last), NEW S \in SUBSET DOMAIN buf
  PROVE  /\ Queue(Pick(buf, S), last)
         /\ Len(Pick(buf, S)) = Cardinality(S)
         /\ ToSet(Pick(buf, S)) = {buf[i] : i \in S}
<1> DEFINE n == Cardinality(S)
           p == Pick(buf, S)
<1>1. Len(buf) \in Nat /\ DOMAIN buf = 1 .. Len(buf)
      /\ \A i \in 1 .. Len(buf) : buf[i] \in 1 .. last
  BY OrderOf DEF Queue
<1>2. IsFiniteSet(S) /\ n <= Len(buf) /\ S \in SUBSET Nat
  <2>1. IsFiniteSet(1 .. Len(buf)) /\ Cardinality(1 .. Len(buf)) = Len(buf)
    BY <1>1, UpTo
  <2>2. S \in SUBSET (1 .. Len(buf))
    BY <1>1
  <2>3. IsFiniteSet(S) /\ n <= Len(buf)
    BY <2>1, <2>2, FS_Subset
  <2>4. QED
    BY <2>2, <2>3
<1>3. n \in Nat
  BY <1>2, FS_CardinalityType
<1>4. \A k \in 1 .. n : Nth(S, k) \in S
  BY <1>2, NthRanks
<1>5. p = [k \in 1 .. n |-> buf[Nth(S, k)]]
  BY DEF Pick
<1>6. p \in [1 .. n -> 1 .. last] /\ DOMAIN p = 1 .. n
  BY <1>1, <1>4, <1>5
<1> HIDE DEF p
<1>7. p \in Seq(1 .. last) /\ Len(p) = n
  BY <1>3, <1>6
<1>8. Increasing(p)
  <2> SUFFICES ASSUME NEW k \in 1 .. n, NEW l \in 1 .. n, k < l
               PROVE  p[k] < p[l]
    BY <1>6 DEF Increasing
  <2>1. Nth(S, k) < Nth(S, l)
    BY <1>2, NthGrows
  <2>2. Nth(S, k) \in DOMAIN buf /\ Nth(S, l) \in DOMAIN buf
    BY <1>4
  <2>3. buf[Nth(S, k)] < buf[Nth(S, l)]
    BY <2>1, <2>2 DEF Queue, Ordered, Increasing
  <2>4. QED
    BY <2>3, <1>5
<1>9. ToSet(p) = {buf[i] : i \in S}
  <2>1. ToSet(p) = {p[k] : k \in 1 .. n}
    BY <1>6 DEF ToSet
  <2>2. \A k \in 1 .. n : p[k] = buf[Nth(S, k)]
    BY <1>5
  <2>3. \A i \in S : \E k \in 1 .. n : Nth(S, k) = i
    BY <1>2, NthVisits
  <2>4. QED
    BY <2>1, <2>2, <2>3, <1>4
<1>10. Len(p) <= Cap
  <2>1. Cap \in Nat /\ Len(buf) <= Cap
    BY CdpAssumption DEF Queue
  <2>2. QED
    BY <2>1, <1>1, <1>2, <1>3, <1>7
<1>11. QED
  BY <1>7, <1>8, <1>9, <1>10 DEF Queue, Ordered, p

\* Taking one entry out leaves the queue of the others.
LEMMA TakeIsQueue ==
  ASSUME NEW last \in Nat, NEW buf, Queue(buf, last), NEW i \in DOMAIN buf
  PROVE  /\ Queue(Take(buf, i), last)
         /\ ToSet(Take(buf, i)) = ToSet(buf) \ {buf[i]}
<1> DEFINE n == Len(buf)
           s == SubSeq(buf, 1, i - 1)
           t == SubSeq(buf, i + 1, n)
           p == Take(buf, i)
<1>1. n \in Nat /\ DOMAIN buf = 1 .. n /\ \A j \in 1 .. n : buf[j] \in 1 .. last
  BY OrderOf DEF Queue
<1>2. i \in 1 .. n
  BY <1>1
<1>3. s \in Seq(1 .. last) /\ Len(s) = i - 1
      /\ \A j \in 1 .. i - 1 : s[j] = buf[j]
  BY <1>1, <1>2, SubSeqProperties
<1>4. t \in Seq(1 .. last) /\ Len(t) = n - i
      /\ \A j \in 1 .. n - i : t[j] = buf[i + j]
  <2>1. \A j \in i + 1 .. n : buf[j] \in 1 .. last
    BY <1>1, <1>2
  <2>2. i + 1 \in Int /\ n \in Int
    BY <1>1, <1>2
  <2>3. t \in Seq(1 .. last) /\ Len(t) = (IF i + 1 <= n THEN n - (i + 1) + 1 ELSE 0)
        /\ \A j \in 1 .. n - (i + 1) + 1 : t[j] = buf[(i + 1) + j - 1]
    BY <2>1, <2>2, SubSeqProperties
  <2>4. n - (i + 1) + 1 = n - i /\ \A j \in 1 .. n - i : (i + 1) + j - 1 = i + j
    BY <1>1, <1>2
  <2>5. QED
    BY <2>3, <2>4, <1>1, <1>2
<1>5. p = s \o t
  BY DEF Take, RemoveAt
<1> HIDE DEF s, t, p
<1>6. p \in Seq(1 .. last) /\ Len(p) = n - 1
      /\ \A j \in 1 .. n - 1 : p[j] = IF j < i THEN buf[j] ELSE buf[j + 1]
  <2>1. p \in Seq(1 .. last) /\ Len(p) = Len(s) + Len(t)
        /\ \A j \in 1 .. Len(s) + Len(t) :
             p[j] = IF j <= Len(s) THEN s[j] ELSE t[j - Len(s)]
    BY <1>3, <1>4, <1>5, ConcatProperties
  <2>2. Len(s) + Len(t) = n - 1
    BY <1>1, <1>2, <1>3, <1>4
  <2>3. ASSUME NEW j \in 1 .. n - 1
        PROVE  p[j] = IF j < i THEN buf[j] ELSE buf[j + 1]
    <3> DEFINE m == i - 1
    <3>5. j \in 1 .. Len(s) + Len(t) /\ Len(s) = m /\ (j <= Len(s) <=> j < i)
      BY <2>2, <1>2, <1>3
    <3>4. p[j] = IF j <= Len(s) THEN s[j] ELSE t[j - Len(s)]
      BY <2>1, <3>5
    <3>1. CASE j < i
      <4>1. j \in 1 .. m
        BY <3>1, <1>2
      <4>2. s[j] = buf[j]
        BY <4>1, <1>3
      <4>3. QED
        BY <3>5, <3>4, <3>1, <4>2
    <3>2. CASE ~(j < i)
      <4>1. j - m \in 1 .. n - i /\ i + (j - m) = j + 1
        BY <3>2, <1>1, <1>2
      <4>2. t[j - m] = buf[i + (j - m)]
        BY <4>1, <1>4
      <4>3. QED
        BY <3>5, <3>4, <3>2, <4>1, <4>2
    <3>3. QED
      BY <3>1, <3>2
  <2>4. QED
    BY <2>1, <2>2, <2>3
<1>7. DOMAIN p = 1 .. n - 1
  BY <1>6
<1>8. Increasing(p)
  <2> SUFFICES ASSUME NEW k \in 1 .. n - 1, NEW l \in 1 .. n - 1, k < l
               PROVE  p[k] < p[l]
    BY <1>7 DEF Increasing
  <2>1. k \in 1 .. n /\ l \in 1 .. n /\ k + 1 \in 1 .. n /\ l + 1 \in 1 .. n
    BY <1>1
  <2>2. p[k] = (IF k < i THEN buf[k] ELSE buf[k + 1])
        /\ p[l] = (IF l < i THEN buf[l] ELSE buf[l + 1])
    BY <1>6
  <2>3. k < l + 1 /\ k + 1 < l + 1 /\ (l < i => k < i)
    BY <2>1, <1>2
  <2>4. buf[k] < buf[l] /\ buf[k] < buf[l + 1] /\ buf[k + 1] < buf[l + 1]
    BY <2>1, <2>3, <1>1 DEF Queue, Ordered, Increasing
  <2>5. QED
    BY <2>2, <2>3, <2>4
<1>9. ToSet(p) = ToSet(buf) \ {buf[i]}
  <2>1. ASSUME NEW j \in 1 .. n - 1
        PROVE  \E k \in 1 .. n : k # i /\ p[j] = buf[k]
    <3>1. j \in 1 .. n /\ j + 1 \in 1 .. n
      BY <1>1
    <3>2. p[j] = (IF j < i THEN buf[j] ELSE buf[j + 1])
      BY <1>6
    <3>4. (j < i => j # i) /\ (~(j < i) => j + 1 # i)
      BY <1>2
    <3>3. CASE j < i
      BY <3>1, <3>2, <3>3, <3>4
    <3>5. CASE ~(j < i)
      BY <3>1, <3>2, <3>5, <3>4
    <3>6. QED
      BY <3>3, <3>5
  <2>2. ASSUME NEW k \in 1 .. n, k # i
        PROVE  \E j \in 1 .. n - 1 : p[j] = buf[k]
    <3>1. CASE k < i
      <4>1. k \in 1 .. n - 1
        BY <3>1, <1>1, <1>2
      <4>2. QED
        BY <3>1, <4>1, <1>6
    <3>2. CASE k > i
      <4>1. k - 1 \in 1 .. n - 1 /\ ~(k - 1 < i) /\ (k - 1) + 1 = k
        BY <3>2, <1>1, <1>2
      <4>2. p[k - 1] = buf[(k - 1) + 1]
        BY <4>1, <1>6
      <4>3. QED
        BY <4>1, <4>2
    <3>3. QED
      BY <2>2, <3>1, <3>2, <1>1, <1>2
  <2>3. \A k \in 1 .. n : k # i => buf[k] # buf[i]
    <3> SUFFICES ASSUME NEW k \in 1 .. n, k # i PROVE buf[k] # buf[i]
      OBVIOUS
    <3>1. k < i \/ i < k
      BY <1>1, <1>2
    <3>2. buf[k] < buf[i] \/ buf[i] < buf[k]
      BY <3>1, <1>2, OrderOf DEF Queue
    <3>3. buf[k] \in Nat /\ buf[i] \in Nat
      BY <1>1, <1>2
    <3>4. QED
      BY <3>2, <3>3
  <2>4. ToSet(p) = {p[j] : j \in 1 .. n - 1} /\ ToSet(buf) = {buf[k] : k \in 1 .. n}
    BY <1>1, <1>7 DEF ToSet
  <2>5. ToSet(p) \subseteq ToSet(buf) \ {buf[i]}
    BY <2>1, <2>3, <2>4
  <2>6. ToSet(buf) \ {buf[i]} \subseteq ToSet(p)
    <3> SUFFICES ASSUME NEW k \in 1 .. n, buf[k] # buf[i]
                 PROVE  buf[k] \in ToSet(p)
      BY <2>4
    <3>1. k # i
      OBVIOUS
    <3>2. PICK j \in 1 .. n - 1 : p[j] = buf[k]
      BY <3>1, <2>2
    <3>3. QED
      BY <3>2, <2>4
  <2>7. QED
    BY <2>5, <2>6
<1>10. Len(p) <= Cap
  <2>1. Cap \in Nat /\ Len(buf) <= Cap
    BY CdpAssumption DEF Queue
  <2>2. QED
    BY <2>1, <1>1, <1>6
<1>11. QED
  BY <1>6, <1>8, <1>9, <1>10 DEF Queue, Ordered, p

\* The instance counts as the client does.
LEMMA FeedCounts == \A S : Feed!Cardinality(S) = Cardinality(S)
BY DEF Feed!Cardinality, Cardinality

\* As many entries are newer than the i-th as follow it.
LEMMA NewerThan ==
  ASSUME NEW last \in Nat, NEW buf, Ordered(buf, last), NEW i \in 1 .. Len(buf)
  PROVE  Cardinality({m \in ToSet(buf) : m > buf[i]}) = Len(buf) - i
<1> DEFINE T == {m \in ToSet(buf) : m > buf[i]}
           n == Len(buf) - i
           f == [k \in 1 .. n |-> buf[i + k]]
<1>1. /\ Len(buf) \in Nat /\ DOMAIN buf = 1 .. Len(buf)
      /\ \A j \in 1 .. Len(buf) : buf[j] \in 1 .. last
      /\ \A j, k \in 1 .. Len(buf) : j < k <=> buf[j] < buf[k]
  BY OrderOf
<1>2. n \in Nat /\ \A k \in 1 .. n : i + k \in 1 .. Len(buf) /\ i < i + k
  BY <1>1
<1>3. ToSet(buf) = {buf[j] : j \in 1 .. Len(buf)}
  BY <1>1 DEF ToSet
<1>4. \A k \in 1 .. n : f[k] \in T
  <2> SUFFICES ASSUME NEW k \in 1 .. n PROVE buf[i + k] \in T
    OBVIOUS
  <2>1. buf[i] < buf[i + k] /\ buf[i] \in Nat /\ buf[i + k] \in Nat
    BY <1>1, <1>2
  <2>2. QED
    BY <2>1, <1>2, <1>3
<1>5. \A m \in T : \E k \in 1 .. n : f[k] = m
  <2> SUFFICES ASSUME NEW m \in T PROVE \E k \in 1 .. n : buf[i + k] = m
    OBVIOUS
  <2>1. PICK j \in 1 .. Len(buf) : buf[j] = m
    BY <1>3
  <2>2. i < j
    <3>1. buf[i] \in Nat /\ buf[j] \in Nat /\ buf[j] > buf[i]
      BY <1>1, <2>1
    <3>2. buf[i] < buf[j]
      BY <3>1
    <3>3. QED
      BY <3>2, <1>1
  <2>3. j - i \in 1 .. n /\ i + (j - i) = j
    BY <2>2, <1>1
  <2>4. QED
    BY <2>1, <2>3
<1>6. \A k, l \in 1 .. n : f[k] = f[l] => k = l
  <2> SUFFICES ASSUME NEW k \in 1 .. n, NEW l \in 1 .. n, k < l
               PROVE  buf[i + k] # buf[i + l]
    OBVIOUS
  <2>1. i + k < i + l
    OBVIOUS
  <2>2. buf[i + k] < buf[i + l] /\ buf[i + k] \in Nat /\ buf[i + l] \in Nat
    BY <1>1, <1>2, <2>1
  <2>3. QED
    BY <2>2
<1>7. f \in Bijection(1 .. n, T)
  BY <1>4, <1>5, <1>6 DEF Bijection, Injection, IsInjective, Surjection
<1>8. ExistsBijection(1 .. n, T)
  BY <1>7 DEF ExistsBijection
<1>9. QED
  BY <1>2, <1>8, FS_CountingElements

\* A new event goes to the end of the queue, and of more than Cap the oldest
\* gives way.
LEMMA BufferIsQueue ==
  ASSUME NEW last \in Nat, NEW buf, Queue(buf, last)
  PROVE  /\ Queue(Trim(Append(buf, last + 1)), last + 1)
         /\ ToSet(Trim(Append(buf, last + 1))) =
              Feed!Newest(ToSet(buf) \cup {last + 1})
<1> DEFINE new == last + 1
           b == Append(buf, new)
           n == Len(buf) + 1
           p == Trim(b)
           first == IF n > Cap THEN n - Cap + 1 ELSE 1
<1>1. Len(buf) \in Nat /\ DOMAIN buf = 1 .. Len(buf) /\ Len(buf) <= Cap
      /\ (\A j \in 1 .. Len(buf) : buf[j] \in 1 .. last)
      /\ new \in 1 .. new /\ Cap \in Nat \ {0}
  BY OrderOf, CdpAssumption DEF Queue
<1>2. b \in Seq(1 .. new) /\ Len(b) = n /\ b[n] = new
      /\ \A j \in 1 .. Len(buf) : b[j] = buf[j]
  <2>1. buf \in Seq(1 .. new)
    <3>1. 1 .. last \subseteq 1 .. new
      OBVIOUS
    <3>2. QED
      BY <3>1, SeqMonotonic DEF Queue, Ordered
  <2>2. QED
    BY <2>1, <1>1, AppendProperties
<1>3. DOMAIN b = 1 .. n
  BY <1>2, LenProperties
<1> HIDE DEF b
<1>4. Increasing(b)
  <2> SUFFICES ASSUME NEW i \in 1 .. n, NEW j \in 1 .. n, i < j
               PROVE  b[i] < b[j]
    BY <1>3 DEF Increasing
  <2>1. i \in 1 .. Len(buf)
    BY <1>1
  <2>2. b[i] = buf[i] /\ buf[i] \in 1 .. last
    BY <1>1, <1>2, <2>1
  <2>3. CASE j = n
    BY <2>2, <2>3, <1>2
  <2>4. CASE j # n
    <3>1. j \in 1 .. Len(buf)
      <4>1. Len(buf) \in Nat
        BY <1>1
      <4>2. QED
        BY <2>4, <4>1
    <3>2. b[j] = buf[j] /\ buf[i] < buf[j]
      BY <3>1, <2>1, <1>1, <1>2 DEF Queue, Ordered, Increasing
    <3>3. QED
      BY <3>2, <2>2
  <2>5. QED
    BY <2>3, <2>4
<1>5. Ordered(b, new)
  BY <1>2, <1>4 DEF Ordered
<1>6. ToSet(b) = ToSet(buf) \cup {new}
  <2>1. ToSet(b) = {b[j] : j \in 1 .. n} /\ ToSet(buf) = {buf[j] : j \in 1 .. Len(buf)}
    BY <1>1, <1>3 DEF ToSet
  <2>2. 1 .. n = 1 .. Len(buf) \cup {n}
    BY <1>1
  <2>3. QED
    BY <2>1, <2>2, <1>2
<1>7. first \in 1 .. n /\ n - first + 1 <= Cap /\ n - first \in Nat
      /\ \A i \in 1 .. n : n - i < Cap <=> i >= first
  BY <1>1
<1> HIDE DEF first
<1>8. p = SubSeq(b, first, n)
  <2>1. CASE n > Cap
    BY <2>1, <1>2 DEF Trim, first
  <2>2. CASE ~(n > Cap)
    <3>1. SubSeq(b, 1, n) = b
      BY <1>2, SubSeqFull
    <3>2. QED
      BY <2>2, <3>1, <1>2 DEF Trim, first
  <2>3. QED
    BY <2>1, <2>2
<1> HIDE DEF p
<1>9. p \in Seq(1 .. new) /\ Len(p) = n - first + 1
      /\ \A i \in 1 .. n - first + 1 : p[i] = b[first + i - 1]
  <2>1. \A i \in first .. n : b[i] \in 1 .. new
    BY <1>2, <1>7, ElementOfSeq
  <2>2. first \in Int /\ n \in Int /\ first <= n
    BY <1>1, <1>7
  <2>3. QED
    BY <2>1, <2>2, <1>8, SubSeqProperties
<1>10. DOMAIN p = 1 .. n - first + 1
  BY <1>9, LenProperties
<1>11. Increasing(p)
  <2> SUFFICES ASSUME NEW i \in 1 .. n - first + 1, NEW j \in 1 .. n - first + 1,
                      i < j
               PROVE  p[i] < p[j]
    BY <1>10 DEF Increasing
  <2>1. first + i - 1 \in 1 .. n /\ first + j - 1 \in 1 .. n
        /\ first + i - 1 < first + j - 1
    BY <1>1, <1>7
  <2>2. b[first + i - 1] < b[first + j - 1]
    BY <2>1, <1>3, <1>4 DEF Increasing
  <2>3. QED
    BY <2>2, <1>9
<1>12. \A i \in 1 .. n :
         Cardinality({m \in ToSet(b) : m > b[i]}) < Cap <=> i >= first
  <2> SUFFICES ASSUME NEW i \in 1 .. n
               PROVE  Cardinality({m \in ToSet(b) : m > b[i]}) < Cap <=> i >= first
    OBVIOUS
  <2>1. new \in Nat /\ i \in 1 .. Len(b)
    BY <1>2
  <2>2. Cardinality({m \in ToSet(b) : m > b[i]}) = Len(b) - i
    BY <2>1, <1>5, NewerThan
  <2>3. QED
    BY <2>2, <1>2, <1>7
<1>13. ToSet(p) = {b[i] : i \in first .. n}
  <2>1. ToSet(p) = {p[i] : i \in 1 .. n - first + 1}
    BY <1>10 DEF ToSet
  <2>2. \A i \in 1 .. n - first + 1 : first + i - 1 \in first .. n
    BY <1>1, <1>7
  <2>3. \A i \in first .. n : i - first + 1 \in 1 .. n - first + 1
                              /\ first + (i - first + 1) - 1 = i
    BY <1>1, <1>7
  <2>4. ASSUME NEW i \in 1 .. n - first + 1
        PROVE  \E j \in first .. n : p[i] = b[j]
    BY <2>2, <1>9
  <2>5. ASSUME NEW j \in first .. n
        PROVE  \E i \in 1 .. n - first + 1 : p[i] = b[j]
    <3>1. j - first + 1 \in 1 .. n - first + 1
          /\ first + (j - first + 1) - 1 = j
      BY <2>3
    <3>2. p[j - first + 1] = b[first + (j - first + 1) - 1]
      BY <3>1, <1>9
    <3>3. QED
      BY <3>1, <3>2
  <2>6. ToSet(p) \subseteq {b[i] : i \in first .. n}
    BY <2>1, <2>4
  <2>7. {b[i] : i \in first .. n} \subseteq ToSet(p)
    BY <2>1, <2>5
  <2>8. QED
    BY <2>6, <2>7
<1>14. ToSet(p) = Feed!Newest(ToSet(b))
  <2>1. ToSet(b) = {b[i] : i \in 1 .. n}
    BY <1>3 DEF ToSet
  <2>2. first .. n = {i \in 1 .. n : i >= first}
    BY <1>1, <1>7
  <2>3. Feed!Newest(ToSet(b)) =
          {k \in ToSet(b) : Cardinality({m \in ToSet(b) : m > k}) < Cap}
    BY FeedCounts DEF Feed!Newest
  <2>4. ASSUME NEW k \in ToSet(p) PROVE k \in Feed!Newest(ToSet(b))
    <3>1. PICK i \in first .. n : k = b[i]
      BY <1>13
    <3>2. i \in 1 .. n /\ i >= first
      BY <2>2
    <3>3. k \in ToSet(b)
      BY <2>1, <3>1, <3>2
    <3>4. Cardinality({m \in ToSet(b) : m > k}) < Cap
      BY <1>12, <3>1, <3>2
    <3>5. QED
      BY <2>3, <3>3, <3>4
  <2>5. ASSUME NEW k \in Feed!Newest(ToSet(b)) PROVE k \in ToSet(p)
    <3>1. k \in ToSet(b) /\ Cardinality({m \in ToSet(b) : m > k}) < Cap
      BY <2>3
    <3>2. PICK i \in 1 .. n : k = b[i]
      BY <3>1, <2>1
    <3>3. i >= first
      BY <3>1, <3>2, <1>12
    <3>4. i \in first .. n
      BY <3>3, <2>2
    <3>5. QED
      BY <3>2, <3>4, <1>13
  <2>6. QED
    BY <2>4, <2>5
<1>15. Queue(p, new)
  BY <1>7, <1>9, <1>11 DEF Queue, Ordered
<1>16. QED
  BY <1>6, <1>14, <1>15 DEF p, b
-----------------------------------------------------------------------------
\* How many events have been handled or buffered.
Dispatched ==
  IF readLoop.at = "dispatch" THEN Len(arrived) - 1 ELSE Len(arrived)

\* What the argument needs of the types.
EventsTyped ==
  /\ arrived \in Seq(Readers) /\ Len(arrived) <= MaxEvents
  /\ readLoop.at = "dispatch" => Len(arrived) # 0
  /\ consumed \subseteq 1 .. MaxEvents
  /\ reader \in [Readers -> {"idle", "reading", "parked"}]
  /\ got \in [Readers -> Seq(1 .. MaxEvents)]

EventsInv == EventsTyped /\ Queue(eventBuf, Dispatched) /\ NoLostWakeup

\* The events that wait for a reader.
LEMMA DispatchedIsNat ==
  ASSUME EventsTyped
  PROVE  /\ Dispatched \in Nat /\ Len(arrived) \in Nat
         /\ Dispatched <= Len(arrived) /\ Dispatched <= MaxEvents
         /\ 1 .. Dispatched \subseteq 1 .. MaxEvents
<1>1. Len(arrived) \in Nat /\ MaxEvents \in Nat
  BY CdpAssumption, LenProperties DEF EventsTyped
<1>2. CASE readLoop.at = "dispatch"
  BY <1>1, <1>2 DEF EventsTyped, Dispatched
<1>3. CASE readLoop.at # "dispatch"
  BY <1>1, <1>3 DEF EventsTyped, Dispatched
<1>4. QED
  BY <1>2, <1>3

\* Dial.
LEMMA InitEvents ==
  ASSUME Init
  PROVE  EventsInv
<1>1. MaxEvents \in Nat /\ Cap \in Nat
  BY CdpAssumption
<1>2. EventsTyped
  BY <1>1 DEF Init, EventsTyped, Reading
<1>3. Queue(eventBuf, Dispatched)
  BY <1>1 DEF Init, Queue, Ordered, Increasing
<1>4. NoLostWakeup
  BY DEF Init, NoLostWakeup
<1>5. QED
  BY <1>2, <1>3, <1>4 DEF EventsInv

\* What leaves the events alone, and the read loop where it is with them.
LEMMA QuietEvents ==
  ASSUME EventsInv, UNCHANGED <<arrived, consumed, eventBuf, reader, got>>,
         readLoop'.at = "dispatch" <=> readLoop.at = "dispatch"
  PROVE  EventsInv'
<1>1. Dispatched' = Dispatched
  BY DEF Dispatched
<1>2. EventsTyped'
  BY DEF EventsInv, EventsTyped
<1>3. NoLostWakeup'
  BY DEF EventsInv, NoLostWakeup, Matches
<1>4. QED
  BY <1>1, <1>2, <1>3 DEF EventsInv, Queue, Ordered, Increasing

\* An event that arrives is in nobody's way: those that wait are older.
LEMMA ArrivesEvents ==
  ASSUME EventsInv, NEW s \in Readers, EventArrives(s)
  PROVE  EventsInv' /\ Dispatched' = Dispatched
<1>1. readLoop.at = "read" /\ readLoop'.at = "dispatch"
      /\ arrived' = Append(arrived, s) /\ Len(arrived) < MaxEvents
      /\ UNCHANGED <<consumed, eventBuf, reader, got>>
  BY DEF EventArrives, Reading
<1>2. Len(arrived) \in Nat /\ Dispatched = Len(arrived) /\ Dispatched \in Nat
  BY <1>1, DispatchedIsNat DEF EventsInv, Dispatched
<1>3. arrived' \in Seq(Readers) /\ Len(arrived') = Len(arrived) + 1
      /\ \A n \in 1 .. Len(arrived) : arrived'[n] = arrived[n]
  BY <1>1, AppendProperties DEF EventsInv, EventsTyped
<1>4. Dispatched' = Dispatched
  BY <1>1, <1>2, <1>3 DEF Dispatched
<1>5. EventsTyped'
  <2>1. MaxEvents \in Nat
    BY CdpAssumption
  <2>2. QED
    BY <1>1, <1>2, <1>3, <2>1 DEF EventsInv, EventsTyped
<1>6. NoLostWakeup'
  <2> SUFFICES ASSUME NEW r \in Readers, reader'[r] = "parked",
                      NEW i \in DOMAIN eventBuf'
               PROVE  ~(r \in Unscoped \/ arrived'[eventBuf'[i]] = r)
    BY DEF NoLostWakeup, Matches
  <2>1. reader[r] = "parked" /\ i \in DOMAIN eventBuf /\ eventBuf'[i] = eventBuf[i]
    BY <1>1
  <2>2. eventBuf[i] \in 1 .. Len(arrived)
    BY <1>2, <2>1, OrderOf DEF EventsInv, Queue
  <2>3. ~Matches(r, eventBuf[i])
    BY <2>1 DEF EventsInv, NoLostWakeup
  <2>4. QED
    BY <2>1, <2>2, <2>3, <1>3 DEF Matches
<1>7. Queue(eventBuf, Dispatched)'
  BY <1>1, <1>4 DEF EventsInv, Queue, Ordered, Increasing
<1>8. QED
  BY <1>4, <1>5, <1>6, <1>7 DEF EventsInv

\* A handler consumes the event.
LEMMA DispatchEvents ==
  ASSUME EventsInv, DispatchEvent
  PROVE  EventsInv'
<1>1. readLoop.at = "dispatch" /\ readLoop'.at = "read"
      /\ consumed' = consumed \cup {Len(arrived)}
      /\ UNCHANGED <<arrived, eventBuf, reader, got>>
  BY DEF DispatchEvent, Reading
<1>2. Len(arrived) \in 1 .. MaxEvents /\ Len(arrived) \in Nat
  <2>1. Len(arrived) \in Nat /\ MaxEvents \in Nat
    BY DispatchedIsNat, CdpAssumption DEF EventsInv
  <2>2. QED
    BY <1>1, <2>1 DEF EventsInv, EventsTyped
<1>3. EventsTyped'
  BY <1>1, <1>2 DEF EventsInv, EventsTyped
<1>4. Queue(eventBuf, Dispatched)'
  <2>1. Dispatched = Len(arrived) - 1 /\ Dispatched' = Len(arrived)
    BY <1>1 DEF Dispatched
  <2>2. 1 .. Dispatched \subseteq 1 .. Dispatched'
    BY <2>1, <1>2
  <2>3. eventBuf \in Seq(1 .. Dispatched')
    BY <2>2, SeqMonotonic DEF EventsInv, Queue, Ordered
  <2>4. QED
    BY <2>3, <1>1 DEF EventsInv, Queue, Ordered, Increasing
<1>5. NoLostWakeup'
  BY <1>1 DEF EventsInv, NoLostWakeup, Matches
<1>6. QED
  BY <1>3, <1>4, <1>5 DEF EventsInv

\* It is buffered, and nobody stays parked.
LEMMA BufferEvents ==
  ASSUME EventsInv, BufferEvent
  PROVE  EventsInv'
<1>1. readLoop.at = "dispatch" /\ readLoop'.at = "read"
      /\ eventBuf' = Trim(Append(eventBuf, Len(arrived)))
      /\ reader' = Wake(reader) /\ UNCHANGED <<arrived, consumed, got>>
  BY DEF BufferEvent, Reading
<1>2. Dispatched \in Nat /\ Len(arrived) = Dispatched + 1 /\ Dispatched' = Dispatched + 1
  <2>1. Dispatched \in Nat /\ Len(arrived) \in Nat
    BY DispatchedIsNat DEF EventsInv
  <2>2. Dispatched = Len(arrived) - 1 /\ Dispatched' = Len(arrived)
    BY <1>1 DEF Dispatched
  <2>3. QED
    BY <2>1, <2>2
<1>3. \A r \in Readers : reader'[r] # "parked"
  BY <1>1 DEF Wake
<1>4. reader' \in [Readers -> {"idle", "reading", "parked"}]
  BY <1>1 DEF EventsInv, EventsTyped, Wake
<1>5. EventsTyped'
  BY <1>1, <1>4 DEF EventsInv, EventsTyped
<1>6. Queue(eventBuf', Dispatched')
  BY <1>1, <1>2, BufferIsQueue DEF EventsInv
<1>7. NoLostWakeup'
  BY <1>3 DEF NoLostWakeup
<1>8. QED
  BY <1>5, <1>6, <1>7 DEF EventsInv, Queue, Ordered, Increasing

\* Taking entries out of the queue wakes nobody and has to wake nobody.
LEMMA RemovedWakeNobody ==
  ASSUME EventsInv, NEW r \in Readers, UNCHANGED arrived,
         ToSet(eventBuf') \subseteq ToSet(eventBuf),
         \A q \in Readers : reader'[q] = "parked" => reader[q] = "parked"
  PROVE  NoLostWakeup'
<1> SUFFICES ASSUME NEW q \in Readers, reader'[q] = "parked",
                    NEW i \in DOMAIN eventBuf'
             PROVE  ~(q \in Unscoped \/ arrived'[eventBuf'[i]] = q)
  BY DEF NoLostWakeup, Matches
<1>1. eventBuf'[i] \in ToSet(eventBuf)
  BY DEF ToSet
<1>2. PICK j \in DOMAIN eventBuf : eventBuf[j] = eventBuf'[i]
  BY <1>1 DEF ToSet
<1>3. ~Matches(q, eventBuf[j])
  BY DEF EventsInv, NoLostWakeup
<1>4. QED
  BY <1>2, <1>3 DEF Matches

\* The positions in the queue of what a reader may have.
Found(r) == {i \in DOMAIN eventBuf : Matches(r, eventBuf[i])}

\* The first and the last of some positions.
LEMMA EndsOf ==
  ASSUME NEW S \in SUBSET Nat, IsFiniteSet(S), S # {}
  PROVE  /\ Cardinality(S) \in Nat \ {0}
         /\ Nth(S, 1) \in S /\ \A j \in S : Nth(S, 1) <= j
         /\ Nth(S, Cardinality(S)) \in S
         /\ \A j \in S : j <= Nth(S, Cardinality(S))
<1> DEFINE n == Cardinality(S)
<1>1. n \in Nat /\ n # 0
  BY FS_CardinalityType, FS_EmptySet
<1>2. 1 \in 1 .. n /\ n \in 1 .. n
  BY <1>1
<1>3. Nth(S, 1) \in S /\ Nth(S, n) \in S
  BY <1>2, NthRanks
<1>4. ASSUME NEW j \in S PROVE Nth(S, 1) <= j /\ j <= Nth(S, n)
  <2>1. PICK k \in 1 .. n : Nth(S, k) = j
    BY NthVisits
  <2>2. (1 < k => Nth(S, 1) < j) /\ (k < n => j < Nth(S, n))
    BY <1>2, <2>1, NthGrows
  <2>3. 1 < k \/ k = 1
    OBVIOUS
  <2>4. k < n \/ k = n
    BY <1>1
  <2>5. Nth(S, 1) \in Nat /\ Nth(S, n) \in Nat /\ j \in Nat
    BY <1>3
  <2>6. QED
    BY <2>1, <2>2, <2>3, <2>4, <2>5
<1>5. QED
  BY <1>1, <1>3, <1>4

\* A read takes the first event of its session, or parks when there is none.
LEMMA PopCases ==
  ASSUME EventsInv, NEW r \in Readers, PopEvent(r)
  PROVE  /\ UNCHANGED <<arrived, consumed, readLoop>>
         /\ \/ /\ Found(r) = {} /\ reader' = [reader EXCEPT ![r] = "parked"]
               /\ UNCHANGED <<eventBuf, got>>
            \/ \E first \in Found(r) :
                 /\ \A j \in Found(r) : first <= j
                 /\ got' = [got EXCEPT ![r] = Append(@, eventBuf[first])]
                 /\ eventBuf' = Take(eventBuf, first)
                 /\ reader' = [reader EXCEPT ![r] = "idle"]
<1>1. UNCHANGED <<arrived, consumed, readLoop>>
  BY DEF PopEvent
<1>2. CASE Found(r) = {}
  BY <1>1, <1>2 DEF PopEvent, Found
<1>3. CASE Found(r) # {}
  <2> DEFINE first == CHOOSE i \in Found(r) : \A j \in Found(r) : i <= j
  <2>1. \E i \in Found(r) : \A j \in Found(r) : i <= j
    <3>1. Len(eventBuf) \in Nat /\ Found(r) \subseteq 1 .. Len(eventBuf)
      BY DispatchedIsNat, OrderOf DEF EventsInv, Queue, Found
    <3>2. Found(r) \in SUBSET Nat /\ IsFiniteSet(Found(r))
      BY <3>1, UpTo, FS_Subset
    <3>3. QED
      BY <3>2, <1>3, EndsOf
  <2>2. first \in Found(r) /\ \A j \in Found(r) : first <= j
    BY <2>1
  <2>3. /\ got' = [got EXCEPT ![r] = Append(@, eventBuf[first])]
        /\ eventBuf' = Take(eventBuf, first)
        /\ reader' = [reader EXCEPT ![r] = "idle"]
    BY <1>3 DEF PopEvent, Found
  <2> HIDE DEF first
  <2>4. QED
    BY <2>2, <2>3, <1>1
<1>4. QED
  BY <1>2, <1>3

\* Nobody else has to wake for it.
LEMMA PopEvents ==
  ASSUME EventsInv, NEW r \in Readers, PopEvent(r)
  PROVE  EventsInv'
<1>1. UNCHANGED <<arrived, consumed, readLoop>> /\ Dispatched' = Dispatched
  BY PopCases DEF Dispatched
<1>2. CASE /\ Found(r) = {} /\ reader' = [reader EXCEPT ![r] = "parked"]
           /\ UNCHANGED <<eventBuf, got>>
  <2>1. EventsTyped'
    BY <1>1, <1>2 DEF EventsInv, EventsTyped
  <2>2. NoLostWakeup'
    <3> SUFFICES ASSUME NEW q \in Readers, reader'[q] = "parked",
                        NEW i \in DOMAIN eventBuf
                 PROVE  ~Matches(q, eventBuf[i])
      BY <1>1, <1>2 DEF NoLostWakeup, Matches
    <3>1. CASE q = r
      BY <3>1, <1>2 DEF Found
    <3>2. CASE q # r
      BY <3>2, <1>2 DEF EventsInv, EventsTyped, NoLostWakeup
    <3>3. QED
      BY <3>1, <3>2
  <2>3. QED
    BY <2>1, <2>2, <1>1, <1>2 DEF EventsInv, Queue, Ordered, Increasing
<1>3. ASSUME NEW first \in Found(r),
             got' = [got EXCEPT ![r] = Append(@, eventBuf[first])],
             eventBuf' = Take(eventBuf, first),
             reader' = [reader EXCEPT ![r] = "idle"]
      PROVE  EventsInv'
  <2>1. first \in DOMAIN eventBuf /\ Dispatched \in Nat
    BY DispatchedIsNat DEF Found, EventsInv
  <2>2. eventBuf[first] \in 1 .. MaxEvents
    BY <2>1, OrderOf, DispatchedIsNat DEF EventsInv, Queue
  <2>3. Append(got[r], eventBuf[first]) \in Seq(1 .. MaxEvents)
    BY <2>2, AppendProperties DEF EventsInv, EventsTyped
  <2>4. EventsTyped'
    BY <1>1, <1>3, <2>3 DEF EventsInv, EventsTyped
  <2>5. Queue(eventBuf', Dispatched') /\ ToSet(eventBuf') \subseteq ToSet(eventBuf)
    BY <1>1, <1>3, <2>1, TakeIsQueue DEF EventsInv
  <2>6. \A q \in Readers : reader'[q] = "parked" => reader[q] = "parked"
    BY <1>3 DEF EventsInv, EventsTyped
  <2>7. NoLostWakeup'
    BY <1>1, <2>5, <2>6, RemovedWakeNobody
  <2>8. QED
    BY <2>4, <2>5, <2>7 DEF EventsInv, Queue, Ordered, Increasing
<1>4. QED
  BY <1>2, <1>3, PopCases

\* A drain takes all of them.
LEMMA DrainEvents ==
  ASSUME EventsInv, NEW r \in Readers, Drain(r)
  PROVE  EventsInv'
<1> DEFINE rest == DOMAIN eventBuf \ Found(r)
<1>1. UNCHANGED <<arrived, consumed, readLoop, reader>> /\ Dispatched' = Dispatched
      /\ got' = [got EXCEPT ![r] = @ \o Pick(eventBuf, Found(r))]
      /\ eventBuf' = Pick(eventBuf, rest)
  BY DEF Drain, Found, Dispatched
<1>2. Dispatched \in Nat /\ Queue(eventBuf, Dispatched)
      /\ Found(r) \in SUBSET DOMAIN eventBuf /\ rest \in SUBSET DOMAIN eventBuf
  BY DispatchedIsNat DEF EventsInv, Found
<1>3. Pick(eventBuf, Found(r)) \in Seq(1 .. MaxEvents)
  <2>1. Queue(Pick(eventBuf, Found(r)), Dispatched)
    BY <1>2, PickIsQueue
  <2>2. QED
    BY <2>1, DispatchedIsNat, SeqMonotonic DEF EventsInv, Queue, Ordered
<1>4. got[r] \o Pick(eventBuf, Found(r)) \in Seq(1 .. MaxEvents)
  BY <1>3, ConcatProperties DEF EventsInv, EventsTyped
<1>5. EventsTyped'
  BY <1>1, <1>4 DEF EventsInv, EventsTyped
<1>6. Queue(eventBuf', Dispatched')
      /\ ToSet(eventBuf') = {eventBuf[i] : i \in rest}
  BY <1>1, <1>2, PickIsQueue
<1>7. ToSet(eventBuf') \subseteq ToSet(eventBuf)
  BY <1>2, <1>6 DEF ToSet
<1>8. NoLostWakeup'
  BY <1>1, <1>7, RemovedWakeNobody
<1>9. QED
  BY <1>5, <1>6, <1>8 DEF EventsInv, Queue, Ordered, Increasing

\* A reader begins, or gives up.
LEMMA ReaderEvents ==
  ASSUME EventsInv, NEW r \in Readers, StartRead(r) \/ ReadCancelled(r)
  PROVE  EventsInv'
<1>1. UNCHANGED <<arrived, consumed, readLoop, eventBuf, got>>
      /\ Dispatched' = Dispatched
  BY DEF StartRead, ReadCancelled, Dispatched
<1>2. EventsTyped' /\ \A q \in Readers : reader'[q] = "parked" => reader[q] = "parked"
  BY <1>1 DEF EventsInv, EventsTyped, StartRead, ReadCancelled
<1>3. NoLostWakeup'
  BY <1>1, <1>2 DEF EventsInv, NoLostWakeup, Matches
<1>4. QED
  BY <1>1, <1>2, <1>3 DEF EventsInv, Queue, Ordered, Increasing

\* What callers and the end of the connection do is no event.
LEMMA CallStepIsQuiet ==
  ASSUME NEW c \in Callers, CallStep(c)
  PROVE  UNCHANGED <<readLoop, arrived, consumed, eventBuf, reader, got>>
BY DEF CallStep, AddPending, AcquireWrite, AcquireFails, Write, WriteCancelled,
       WriteFails, Receive, WaitCancelled, RemovePending, eventVars

\* Nor is an answer, or the end of the connection.
LEMMA AnswersAreQuiet ==
  ASSUME (\E id \in Ids : TakePending(id)) \/ Deliver \/ FailPending
         \/ Subscribe \/ ConnectionBreaks \/ UNCHANGED vars
  PROVE  /\ UNCHANGED <<arrived, consumed, eventBuf, reader, got>>
         /\ readLoop'.at = "dispatch" <=> readLoop.at = "dispatch"
<1>1. ASSUME NEW id \in Ids, TakePending(id)
      PROVE  /\ UNCHANGED <<arrived, consumed, eventBuf, reader, got>>
             /\ readLoop'.at = "dispatch" <=> readLoop.at = "dispatch"
  BY <1>1 DEF TakePending, Reading, eventVars
<1>2. QED
  BY <1>1 DEF Deliver, FailPending, Subscribe, ConnectionBreaks, vars, eventVars,
              Reading

\* Every step of the client keeps the invariant.
LEMMA NextEvents ==
  ASSUME EventsInv, [Next]_vars
  PROVE  EventsInv'
<1>1. ASSUME NEW c \in Callers, CallStep(c) PROVE EventsInv'
  BY <1>1, CallStepIsQuiet, QuietEvents
<1>2. ASSUME (\E id \in Ids : TakePending(id)) \/ Deliver \/ FailPending
             \/ Subscribe \/ ConnectionBreaks \/ UNCHANGED vars
      PROVE  EventsInv'
  BY <1>2, AnswersAreQuiet, QuietEvents
<1>3. ASSUME NEW s \in Readers, EventArrives(s) PROVE EventsInv'
  BY <1>3, ArrivesEvents
<1>4. CASE DispatchEvent
  BY <1>4, DispatchEvents
<1>5. CASE BufferEvent
  BY <1>5, BufferEvents
<1>6. ASSUME NEW r \in Readers, EventStep(r) PROVE EventsInv'
  BY <1>6, ReaderEvents, PopEvents, DrainEvents DEF EventStep
<1>7. QED
  BY <1>1, <1>2, <1>3, <1>4, <1>5, <1>6 DEF Next, ReadStep

\* The invariant holds in every state of the client.
LEMMA EventsHold == Spec => []EventsInv
<1>1. Init => EventsInv
  BY InitEvents
<1>2. EventsInv /\ [Next]_vars => EventsInv'
  BY NextEvents
<1>3. QED
  BY <1>1, <1>2, PTL DEF Spec
-----------------------------------------------------------------------------
\* What the feed sees of the events.
FeedEvents == IF readLoop.at = "dispatch" THEN Front(arrived) ELSE arrived

\* These are the events that have been dispatched.
LEMMA FeedEventsAre ==
  ASSUME EventsTyped
  PROVE  /\ FeedEvents \in Seq(Readers) /\ Len(FeedEvents) = Dispatched
         /\ \A n \in 1 .. Dispatched : FeedEvents[n] = arrived[n]
<1>1. Dispatched \in Nat /\ Len(arrived) \in Nat /\ arrived \in Seq(Readers)
  BY DispatchedIsNat DEF EventsTyped
<1>2. CASE readLoop.at = "dispatch"
  <2>1. FeedEvents = SubSeq(arrived, 1, Dispatched) /\ Dispatched = Len(arrived) - 1
    BY <1>2 DEF FeedEvents, Front, Dispatched
  <2>2. \A n \in 1 .. Dispatched : arrived[n] \in Readers
    BY <1>1, <2>1, ElementOfSeq
  <2>3. /\ FeedEvents \in Seq(Readers)
        /\ Len(FeedEvents) = (IF 1 <= Dispatched THEN Dispatched - 1 + 1 ELSE 0)
        /\ \A n \in 1 .. Dispatched - 1 + 1 : FeedEvents[n] = arrived[1 + n - 1]
    BY <1>1, <2>1, <2>2, SubSeqProperties
  <2>4. QED
    BY <1>1, <2>3
<1>3. CASE readLoop.at # "dispatch"
  BY <1>1, <1>3 DEF FeedEvents, Dispatched
<1>4. QED
  BY <1>2, <1>3

\* It sees nothing of an event that has only arrived,
LEMMA FrontOfAppend ==
  ASSUME NEW a \in Seq(Readers), NEW s \in Readers
  PROVE  Front(Append(a, s)) = a
<1> DEFINE n == Len(a)
           b == Append(a, s)
<1>1. n \in Nat /\ \A i \in 1 .. n : a[i] \in Readers
  BY LenProperties, ElementOfSeq
<1>2. Len(b) = n + 1 /\ \A i \in 1 .. n : b[i] = a[i]
  BY AppendProperties
<1>3. Front(b) = SubSeq(b, 1, n)
  BY <1>1, <1>2 DEF Front
<1> HIDE DEF b
<1>4. /\ SubSeq(b, 1, n) \in Seq(Readers)
      /\ Len(SubSeq(b, 1, n)) = (IF 1 <= n THEN n - 1 + 1 ELSE 0)
      /\ \A i \in 1 .. n - 1 + 1 : SubSeq(b, 1, n)[i] = b[1 + i - 1]
  <2>1. \A i \in 1 .. n : b[i] \in Readers
    BY <1>1, <1>2
  <2>2. QED
    BY <1>1, <2>1, SubSeqProperties
<1>5. Len(SubSeq(b, 1, n)) = n /\ \A i \in 1 .. n : SubSeq(b, 1, n)[i] = a[i]
  BY <1>1, <1>2, <1>4
<1>6. SubSeq(b, 1, n) = a
  BY <1>4, <1>5, SeqEqual
<1>7. QED
  BY <1>3, <1>6 DEF b

\* until it is dispatched.
LEMMA NextFeed ==
  ASSUME EventsTyped, readLoop.at = "dispatch", readLoop'.at = "read",
         UNCHANGED arrived
  PROVE  /\ arrived[Len(arrived)] \in Readers
         /\ Len(FeedEvents) + 1 = Len(arrived)
         /\ FeedEvents' = Append(FeedEvents, arrived[Len(arrived)])
<1> DEFINE n == Len(arrived)
           new == Append(FeedEvents, arrived[n])
<1>1. FeedEvents' = arrived
  BY DEF FeedEvents
<1>2. n \in Nat \ {0} /\ Dispatched = n - 1
  BY DispatchedIsNat DEF EventsTyped, Dispatched
<1>3. FeedEvents \in Seq(Readers) /\ Len(FeedEvents) = n - 1
      /\ \A i \in 1 .. n - 1 : FeedEvents[i] = arrived[i]
  BY <1>2, FeedEventsAre
<1>4. arrived \in Seq(Readers) /\ arrived[n] \in Readers
  BY <1>2, ElementOfSeq DEF EventsTyped
<1>5. new \in Seq(Readers) /\ Len(new) = n - 1 + 1 /\ new[n - 1 + 1] = arrived[n]
      /\ \A i \in 1 .. n - 1 : new[i] = FeedEvents[i]
  BY <1>3, <1>4, AppendProperties
<1>6. Len(new) = n /\ \A i \in 1 .. n : new[i] = arrived[i]
  BY <1>2, <1>3, <1>5
<1>7. new = arrived
  BY <1>4, <1>5, <1>6, SeqEqual
<1>8. QED
  BY <1>1, <1>2, <1>3, <1>4, <1>7

\* The events that wait for a reader are those it finds.
LEMMA WaitingFor ==
  ASSUME EventsInv, NEW r \in Readers
  PROVE  Feed!For(r) = {eventBuf[i] : i \in Found(r)}
<1>1. \A i \in DOMAIN eventBuf : eventBuf[i] \in 1 .. Dispatched
  BY DispatchedIsNat, OrderOf DEF EventsInv, Queue
<1>2. \A n \in 1 .. Dispatched : FeedEvents[n] = arrived[n]
  BY FeedEventsAre DEF EventsInv
<1>3. Feed!For(r) = {n \in ToSet(eventBuf) : r \in Unscoped \/ FeedEvents[n] = r}
  BY DEF Feed!For, FeedEvents
<1>4. \A i \in DOMAIN eventBuf :
        Matches(r, eventBuf[i]) <=> r \in Unscoped \/ FeedEvents[eventBuf[i]] = r
  BY <1>1, <1>2 DEF Matches
<1>5. QED
  BY <1>3, <1>4 DEF ToSet, Found

\* What is in order is the order of its elements.
LEMMA OrderedIsSorted ==
  ASSUME NEW last \in Nat, NEW buf, Ordered(buf, last)
  PROVE  buf \in Feed!Sorted(ToSet(buf))
<1> DEFINE n == Len(buf)
<1>1. n \in Nat /\ DOMAIN buf = 1 .. n /\ buf \in [1 .. n -> 1 .. last]
      /\ (\A j \in 1 .. n : buf[j] \in 1 .. last)
      /\ \A j, k \in 1 .. n : j < k <=> buf[j] < buf[k]
  BY OrderOf, LenProperties DEF Ordered
<1>2. buf \in [1 .. n -> ToSet(buf)] /\ \A m \in ToSet(buf) : \E k \in 1 .. n : buf[k] = m
  BY <1>1 DEF ToSet
<1>3. \A k, l \in 1 .. n : buf[k] = buf[l] => k = l
  <2> SUFFICES ASSUME NEW k \in 1 .. n, NEW l \in 1 .. n, k < l
               PROVE  buf[k] # buf[l]
    OBVIOUS
  <2>1. buf[k] < buf[l] /\ buf[k] \in Nat /\ buf[l] \in Nat
    BY <1>1
  <2>2. QED
    BY <2>1
<1>4. buf \in Bijection(1 .. n, ToSet(buf))
  BY <1>2, <1>3 DEF Bijection, Injection, IsInjective, Surjection
<1>5. ExistsBijection(1 .. n, ToSet(buf))
  BY <1>4 DEF ExistsBijection
<1>6. Cardinality(ToSet(buf)) = n
  BY <1>1, <1>5, FS_CountingElements
<1>7. QED
  BY <1>1, <1>2, <1>6, FeedCounts DEF Feed!Sorted

\* The oldest of them, up to one of them, are given.
LEMMA Gives ==
  ASSUME NEW r \in Readers, NEW last \in Feed!For(r),
         NEW s \in Feed!Sorted({n \in Feed!For(r) : n <= last}),
         got' = [got EXCEPT ![r] = @ \o s],
         ToSet(eventBuf') = ToSet(eventBuf) \ {n \in Feed!For(r) : n <= last},
         FeedEvents' = FeedEvents, consumed' = consumed
  PROVE  Feed!Give(r)
BY DEF Feed!Give, FeedEvents, ToSet

\* A read is given the oldest event of its session.
LEMMA PopGives ==
  ASSUME EventsInv, NEW r \in Readers, PopEvent(r)
  PROVE  Feed!Give(r) \/ UNCHANGED Feed!feedVars
<1>1. UNCHANGED <<arrived, consumed, readLoop>> /\ FeedEvents' = FeedEvents
  BY PopCases DEF FeedEvents
<1>2. ASSUME UNCHANGED <<eventBuf, got>> PROVE UNCHANGED Feed!feedVars
  BY <1>1, <1>2 DEF Feed!feedVars, ToSet
<1>3. ASSUME NEW first \in Found(r), \A j \in Found(r) : first <= j,
             got' = [got EXCEPT ![r] = Append(@, eventBuf[first])],
             eventBuf' = Take(eventBuf, first)
      PROVE  Feed!Give(r)
  <2> DEFINE x == eventBuf[first]
             oldest == {n \in Feed!For(r) : n <= x}
  <2>1. Dispatched \in Nat /\ DOMAIN eventBuf = 1 .. Len(eventBuf)
        /\ (\A i \in DOMAIN eventBuf : eventBuf[i] \in 1 .. Dispatched)
        /\ \A i, j \in DOMAIN eventBuf : i < j <=> eventBuf[i] < eventBuf[j]
    BY DispatchedIsNat, OrderOf DEF EventsInv, Queue
  <2>2. first \in DOMAIN eventBuf /\ Found(r) \subseteq DOMAIN eventBuf
        /\ x \in 1 .. Dispatched
    BY <2>1 DEF Found
  <2>3. x \in Feed!For(r)
    BY WaitingFor
  <2>4. oldest = {x}
    <3>1. \A j \in Found(r) : j = first \/ first < j
      BY <1>3, <2>1, <2>2
    <3>2. \A j \in Found(r) : eventBuf[j] = x \/ x < eventBuf[j]
      BY <2>1, <2>2, <3>1
    <3>3. \A j \in Found(r) : eventBuf[j] <= x => eventBuf[j] = x
      BY <2>1, <2>2, <3>2
    <3>4. x <= x
      BY <2>2
    <3>5. QED
      BY <2>3, <3>3, <3>4, WaitingFor
  <2>5. <<x>> \in Feed!Sorted(oldest)
    <3>1. Ordered(<<x>>, Dispatched)
      BY <2>2 DEF Ordered, Increasing
    <3>2. ToSet(<<x>>) = {x}
      BY DEF ToSet
    <3>3. QED
      BY <2>1, <2>4, <3>1, <3>2, OrderedIsSorted
  <2>6. got' = [got EXCEPT ![r] = @ \o <<x>>]
    <3>1. x \in 1 .. MaxEvents /\ got[r] \in Seq(1 .. MaxEvents)
      BY <2>2, DispatchedIsNat DEF EventsInv, EventsTyped
    <3>2. Append(got[r], x) = got[r] \o <<x>>
      BY <3>1, AppendIsConcat
    <3>3. QED
      BY <1>3, <3>2
  <2>7. ToSet(eventBuf') = ToSet(eventBuf) \ oldest
    BY <1>3, <2>1, <2>2, <2>4, TakeIsQueue DEF EventsInv
  <2> HIDE DEF x
  <2>8. QED
    BY <1>1, <2>3, <2>5, <2>6, <2>7, Gives
<1>4. QED
  BY <1>2, <1>3, PopCases

\* A drain is given all of them, if there is one.
LEMMA DrainGives ==
  ASSUME EventsInv, NEW r \in Readers, Drain(r)
  PROVE  Feed!Give(r) \/ UNCHANGED Feed!feedVars
<1> DEFINE found == Found(r)
           rest == DOMAIN eventBuf \ found
           s == Pick(eventBuf, found)
<1>1. UNCHANGED <<arrived, consumed, readLoop>> /\ FeedEvents' = FeedEvents
      /\ got' = [got EXCEPT ![r] = @ \o s]
      /\ eventBuf' = Pick(eventBuf, rest)
  BY DEF Drain, Found, FeedEvents
<1>2. Dispatched \in Nat /\ Queue(eventBuf, Dispatched)
      /\ found \in SUBSET DOMAIN eventBuf /\ rest \in SUBSET DOMAIN eventBuf
  BY DispatchedIsNat DEF EventsInv, Found
<1>3. /\ Len(eventBuf) \in Nat /\ DOMAIN eventBuf = 1 .. Len(eventBuf)
      /\ \A i \in DOMAIN eventBuf : eventBuf[i] \in 1 .. Dispatched
      /\ \A i, j \in DOMAIN eventBuf : i < j <=> eventBuf[i] < eventBuf[j]
  BY <1>2, OrderOf DEF Queue
<1>4. Queue(s, Dispatched) /\ Len(s) = Cardinality(found)
      /\ ToSet(s) = {eventBuf[i] : i \in found}
  BY <1>2, PickIsQueue
<1>5. ToSet(s) = Feed!For(r)
  BY <1>4, WaitingFor
<1>6. ToSet(eventBuf') = ToSet(eventBuf) \ Feed!For(r)
  <2>1. ToSet(eventBuf') = {eventBuf[i] : i \in rest}
    BY <1>1, <1>2, PickIsQueue
  <2>2. \A i, j \in DOMAIN eventBuf : eventBuf[i] = eventBuf[j] => i = j
    <3> SUFFICES ASSUME NEW i \in DOMAIN eventBuf, NEW j \in DOMAIN eventBuf, i < j
                 PROVE  eventBuf[i] # eventBuf[j]
      BY <1>3
    <3>1. eventBuf[i] < eventBuf[j] /\ eventBuf[i] \in Nat /\ eventBuf[j] \in Nat
      BY <1>3
    <3>2. QED
      BY <3>1
  <2>3. ToSet(eventBuf) = {eventBuf[i] : i \in DOMAIN eventBuf}
    BY DEF ToSet
  <2>4. QED
    BY <1>2, <1>4, <1>5, <2>1, <2>2, <2>3
<1>7. CASE found = {}
  <2>1. Cardinality(found) = 0
    BY <1>7, FS_EmptySet
  <2>2. s = <<>>
    BY <1>4, <2>1, EmptySeq DEF Queue, Ordered
  <2>3. got' = got
    <3>1. got[r] \o <<>> = got[r]
      BY ConcatEmptySeq DEF EventsInv, EventsTyped
    <3>2. QED
      BY <1>1, <2>2, <3>1 DEF EventsInv, EventsTyped
  <2>4. ToSet(eventBuf') = ToSet(eventBuf)
    BY <1>4, <1>5, <1>6, <1>7
  <2>5. QED
    BY <1>1, <2>3, <2>4 DEF Feed!feedVars, FeedEvents, ToSet
<1>8. CASE found # {}
  <2> DEFINE i == Nth(found, Cardinality(found))
             last == eventBuf[i]
  <2>1. found \in SUBSET Nat /\ IsFiniteSet(found)
    BY <1>2, <1>3, UpTo, FS_Subset
  <2>2. i \in found /\ \A j \in found : j <= i
    BY <1>8, <2>1, EndsOf
  <2> HIDE DEF i
  <2>3. last \in Feed!For(r)
    BY <1>4, <1>5, <2>2
  <2>4. {n \in Feed!For(r) : n <= last} = Feed!For(r)
    <3>1. \A j \in found : j = i \/ j < i
      BY <1>2, <1>3, <2>2
    <3>2. \A j \in found : eventBuf[j] <= last
      <4> SUFFICES ASSUME NEW j \in found PROVE eventBuf[j] <= last
        OBVIOUS
      <4>1. eventBuf[j] \in Nat /\ last \in Nat /\ j \in DOMAIN eventBuf
            /\ i \in DOMAIN eventBuf
        BY <1>2, <1>3, <2>2
      <4>2. j < i => eventBuf[j] < last
        BY <1>3, <4>1
      <4>3. QED
        BY <3>1, <4>1, <4>2
    <3>3. QED
      BY <3>2, <1>4, <1>5
  <2>5. s \in Feed!Sorted(Feed!For(r))
    BY <1>2, <1>4, <1>5, OrderedIsSorted DEF Queue
  <2> HIDE DEF last, s
  <2>6. QED
    BY <1>1, <1>6, <2>3, <2>4, <2>5, Gives
<1>9. QED
  BY <1>7, <1>8

\* Every step of the client is one of the feed, or the feed does not see it.
LEMMA NextGives ==
  ASSUME EventsInv, [Next]_vars
  PROVE  Feed!Next \/ UNCHANGED Feed!feedVars
<1>1. ASSUME UNCHANGED <<arrived, consumed, eventBuf, got>>,
             readLoop'.at = "dispatch" <=> readLoop.at = "dispatch"
      PROVE  UNCHANGED Feed!feedVars
  BY <1>1 DEF Feed!feedVars, ToSet, Front
<1>2. ASSUME NEW c \in Callers, CallStep(c) PROVE UNCHANGED Feed!feedVars
  BY <1>1, <1>2, CallStepIsQuiet
<1>3. ASSUME (\E id \in Ids : TakePending(id)) \/ Deliver \/ FailPending
             \/ Subscribe \/ ConnectionBreaks \/ UNCHANGED vars
      PROVE  UNCHANGED Feed!feedVars
  BY <1>1, <1>3, AnswersAreQuiet
<1>4. ASSUME NEW s \in Readers, EventArrives(s) PROVE UNCHANGED Feed!feedVars
  <2>1. readLoop.at = "read" /\ readLoop'.at = "dispatch"
        /\ arrived' = Append(arrived, s) /\ UNCHANGED <<consumed, eventBuf, got>>
    BY <1>4 DEF EventArrives, Reading
  <2>2. Front(arrived') = arrived
    BY <2>1, FrontOfAppend DEF EventsInv, EventsTyped
  <2>3. FeedEvents' = FeedEvents
    BY <2>1, <2>2 DEF FeedEvents
  <2>4. QED
    BY <2>1, <2>3 DEF Feed!feedVars, FeedEvents, ToSet
<1>5. CASE DispatchEvent
  <2>1. readLoop.at = "dispatch" /\ readLoop'.at = "read"
        /\ consumed' = consumed \cup {Len(arrived)}
        /\ UNCHANGED <<arrived, eventBuf, got>>
    BY <1>5 DEF DispatchEvent, Reading
  <2>2. /\ arrived[Len(arrived)] \in Readers
        /\ Len(FeedEvents) + 1 = Len(arrived)
        /\ FeedEvents' = Append(FeedEvents, arrived[Len(arrived)])
    BY <2>1, NextFeed DEF EventsInv
  <2>3. Feed!Offer(arrived[Len(arrived)])
    BY <2>1, <2>2 DEF Feed!Offer, FeedEvents, ToSet
  <2>4. QED
    BY <2>2, <2>3 DEF Feed!Next
<1>6. CASE BufferEvent
  <2>1. readLoop.at = "dispatch" /\ readLoop'.at = "read"
        /\ eventBuf' = Trim(Append(eventBuf, Len(arrived)))
        /\ UNCHANGED <<arrived, consumed, got>>
    BY <1>6 DEF BufferEvent, Reading
  <2>2. /\ arrived[Len(arrived)] \in Readers
        /\ Len(FeedEvents) + 1 = Len(arrived)
        /\ FeedEvents' = Append(FeedEvents, arrived[Len(arrived)])
    BY <2>1, NextFeed DEF EventsInv
  <2>3. Dispatched \in Nat /\ Len(arrived) = Dispatched + 1
    <3>1. Dispatched \in Nat /\ Len(arrived) \in Nat
      BY DispatchedIsNat DEF EventsInv
    <3>2. QED
      BY <2>1, <3>1 DEF Dispatched
  <2>4. ToSet(eventBuf') = Feed!Newest(ToSet(eventBuf) \cup {Len(arrived)})
    BY <2>1, <2>3, BufferIsQueue DEF EventsInv
  <2>5. Feed!Offer(arrived[Len(arrived)])
    BY <2>1, <2>2, <2>4 DEF Feed!Offer, FeedEvents, ToSet
  <2>6. QED
    BY <2>2, <2>5 DEF Feed!Next
<1>7. ASSUME NEW r \in Readers, EventStep(r)
      PROVE  Feed!Next \/ UNCHANGED Feed!feedVars
  <2>1. ASSUME StartRead(r) \/ ReadCancelled(r) PROVE UNCHANGED Feed!feedVars
    BY <1>1, <2>1 DEF StartRead, ReadCancelled
  <2>2. Feed!Give(r) \/ UNCHANGED Feed!feedVars
    BY <1>7, <2>1, PopGives, DrainGives DEF EventStep
  <2>3. QED
    BY <2>2 DEF Feed!Next
<1>8. QED
  BY <1>2, <1>3, <1>4, <1>5, <1>6, <1>7 DEF Next, ReadStep

\* The queue starts as a feed does.
LEMMA InitGives ==
  ASSUME Init
  PROVE  Feed!Init
BY DEF Init, Feed!Init, Reading, ToSet

-----------------------------------------------------------------------------
\* The state that no argument but the types needs.
RestTyped ==
  /\ sent \subseteq Ids
  /\ gate \in Callers \cup {None}
  /\ conn \in {"open", "broken"} /\ terminal \in BOOLEAN
  /\ readLoop \in [at : {"read", "deliver", "dispatch", "done"},
                   id : 0 .. MaxCalls, seen : BOOLEAN]
  /\ subscribed \in BOOLEAN

\* What the read loop is about is of its type.
LEMMA ReadLoopTyped ==
  /\ Reading \in [at : {"read", "deliver", "dispatch", "done"},
                  id : 0 .. MaxCalls, seen : BOOLEAN]
  /\ [Reading EXCEPT !.at = "done"] \in
       [at : {"read", "deliver", "dispatch", "done"}, id : 0 .. MaxCalls,
        seen : BOOLEAN]
  /\ \A id \in Ids : [Reading EXCEPT !.at = "deliver", !.id = id] \in
       [at : {"read", "deliver", "dispatch", "done"}, id : 0 .. MaxCalls,
        seen : BOOLEAN]
  /\ \A b \in BOOLEAN : [Reading EXCEPT !.at = "dispatch", !.seen = b] \in
       [at : {"read", "deliver", "dispatch", "done"}, id : 0 .. MaxCalls,
        seen : BOOLEAN]
<1>1. 0 \in 0 .. MaxCalls /\ \A id \in Ids : id \in 0 .. MaxCalls
  BY CdpAssumption DEF Ids
<1>2. QED
  BY <1>1 DEF Reading

\* Every step keeps these types, given those of the calls.
LEMMA NextRest ==
  ASSUME CallsInv, RestTyped, [Next]_vars
  PROVE  RestTyped'
<1>1. ASSUME NEW c \in Callers, CallStep(c) PROVE RestTyped'
  <2>1. pc[c] = "write" => call[c] \in Ids
    BY DEF CallsInv, CallsTyped
  <2>2. QED
    BY <1>1, <2>1
       DEF CallStep, AddPending, AcquireWrite, AcquireFails, Write,
           WriteCancelled, WriteFails, Receive, WaitCancelled, RemovePending,
           eventVars, RestTyped
<1>2. ASSUME NEW id \in Ids, TakePending(id) PROVE RestTyped'
  BY <1>2, ReadLoopTyped DEF TakePending, callVars, eventVars, RestTyped
<1>3. ASSUME Deliver \/ FailPending \/ DispatchEvent \/ BufferEvent
      PROVE  RestTyped'
  BY <1>3, ReadLoopTyped
     DEF Deliver, FailPending, DispatchEvent, BufferEvent, callVars, eventVars,
         RestTyped
<1>4. ASSUME NEW s \in Readers, EventArrives(s) PROVE RestTyped'
  BY <1>4, ReadLoopTyped DEF EventArrives, callVars, RestTyped
<1>5. ASSUME NEW r \in Readers, EventStep(r) PROVE RestTyped'
  BY <1>5 DEF EventStep, StartRead, PopEvent, ReadCancelled, Drain, callVars,
              RestTyped
<1>6. ASSUME Subscribe \/ ConnectionBreaks \/ UNCHANGED vars PROVE RestTyped'
  BY <1>6 DEF Subscribe, ConnectionBreaks, callVars, eventVars, vars, RestTyped
<1>7. QED
  BY <1>1, <1>2, <1>3, <1>4, <1>5, <1>6 DEF Next, ReadStep

\* They hold in every state of the client.
LEMMA RestHolds == Spec => []RestTyped
<1>1. Init => RestTyped
  BY ReadLoopTyped DEF Init, RestTyped
<1>2. CallsInv /\ RestTyped /\ [Next]_vars => RestTyped'
  BY NextRest
<1>3. QED
  BY <1>1, <1>2, CallsHold, PTL DEF Spec

\* The client is type correct, and its queue never holds more than
\* maxBufferedEvents events (bufferEvent).
THEOREM Typed == Spec => []TypeOK
<1>1. CallsInv /\ RestTyped /\ EventsInv => TypeOK
  <2> SUFFICES ASSUME CallsInv, RestTyped, EventsInv PROVE TypeOK
    OBVIOUS
  <2>1. eventBuf \in Seq(1 .. MaxEvents) /\ Len(eventBuf) <= Cap
    BY DispatchedIsNat, SeqMonotonic DEF EventsInv, Queue, Ordered
  <2>2. QED
    BY <2>1 DEF CallsInv, CallsTyped, RestTyped, EventsInv, EventsTyped, TypeOK
<1>2. QED
  BY <1>1, CallsHold, RestHolds, EventsHold, PTL

\* Whatever arrives while readers read, drain and give up, nobody is parked
\* beside an event that is its own (bufferEvent wakes all who wait).
THEOREM WakesReaders == Spec => []NoLostWakeup
<1>1. EventsInv => NoLostWakeup
  BY DEF EventsInv
<1>2. QED
  BY <1>1, EventsHold, PTL

\* For any number of readers, events and places, the queue is an EventFeed:
\* what a reader is given are the oldest events of its session, in order, and
\* only the oldest of more than Cap are lost (bufferEvent, popEventOrWait,
\* drainEvents).
THEOREM IsAFeed == Spec => ImplementsFeed
<1>1. Init => Feed!Init
  BY InitGives
<1>2. EventsInv /\ [Next]_vars => [Feed!Next]_(Feed!feedVars)
  BY NextGives
<1>3. QED
  BY <1>1, <1>2, EventsHold, PTL DEF Spec, ImplementsFeed, Feed!Spec
=============================================================================
