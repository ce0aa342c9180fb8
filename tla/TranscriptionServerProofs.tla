---------------------- MODULE TranscriptionServerProofs ----------------------
(***************************************************************************)
(* Theorems about TranscriptionServer for every value of its constants.    *)
(***************************************************************************)
EXTENDS TranscriptionServer, TLAPS

-----------------------------------------------------------------------------
\* The reducer.

\* What an event puts into its item.
Item(at, item, e, final) ==
  [at |-> at, last |-> Advance(item, e), final |-> final]

LEMMA ItemType ==
  ASSUME NEW item \in ItemStates, NEW e \in Events,
         NEW at \in {"absent", "open", "completed", "failed"},
         NEW final \in Texts \cup {None}
  PROVE  Item(at, item, e, final) \in ItemStates
<1>1. Advance(item, e) \in 0 .. MaxSequence
  BY DEF Advance, ItemStates, Events
<1>2. QED
  BY <1>1 DEF Item, ItemStates

\* An event either is ignored, or puts a state into its item and a phase into
\* the session.
LEMMA ApplyPuts ==
  ASSUME NEW s \in Sessions, NEW e \in Events
  PROVE  \/ Ignored(s.item[e.item], e) /\ Apply(s, e) = s
         \/ /\ ~Ignored(s.item[e.item], e)
            /\ \E at \in {"open", "completed", "failed"},
                  final \in Texts \cup {None},
                  phase \in {"open", "committing", "completed", "failed"} :
                 Apply(s, e) =
                   [phase |-> phase,
                    item |-> [s.item EXCEPT ![e.item] =
                                Item(at, s.item[e.item], e, final)]]
<1> DEFINE item == s.item[e.item]
           Put(at, final, phase) ==
             [phase |-> phase,
              item |-> [s.item EXCEPT ![e.item] = Item(at, item, e, final)]]
           P == IF s.phase = "open" THEN "committing" ELSE s.phase
<1>1. CASE Ignored(item, e)
  BY <1>1 DEF Apply
<1>2. CASE ~Ignored(item, e) /\ e.kind = "hypothesis"
  <2>1. Apply(s, e) = Put("open", None, P)
    BY <1>2 DEF Apply, Item
  <2>2. P \in {"open", "committing", "completed", "failed"}
    BY DEF Sessions
  <2>3. QED
    BY <1>2, <2>1, <2>2
<1>3. CASE ~Ignored(item, e) /\ e.kind = "final"
  <2>1. Apply(s, e) = Put("completed", e.text, "completed")
    BY <1>3 DEF Apply, Item
  <2>2. e.text \in Texts
    BY DEF Events
  <2>3. QED
    BY <1>3, <2>1, <2>2
<1>4. CASE ~Ignored(item, e) /\ e.kind \notin {"hypothesis", "final"}
  <2>1. Apply(s, e) = Put("failed", None, "failed")
    BY <1>4 DEF Apply, Item
  <2>2. QED
    BY <1>4, <2>1
<1>5. QED
  BY <1>1, <1>2, <1>3, <1>4

\* An event makes a session of a session.
LEMMA ApplyType ==
  ASSUME NEW s \in Sessions, NEW e \in Events
  PROVE  Apply(s, e) \in Sessions
<1>1. CASE Apply(s, e) = s
  BY <1>1
<1>2. ASSUME NEW at \in {"open", "completed", "failed"},
             NEW final \in Texts \cup {None},
             NEW phase \in {"open", "committing", "completed", "failed"},
             Apply(s, e) =
               [phase |-> phase,
                item |-> [s.item EXCEPT ![e.item] =
                            Item(at, s.item[e.item], e, final)]]
      PROVE  Apply(s, e) \in Sessions
  <2>1. s.item \in [Items -> ItemStates] /\ e.item \in Items
    BY DEF Sessions, Events
  <2>2. Item(at, s.item[e.item], e, final) \in ItemStates
    BY <2>1, ItemType
  <2>3. QED
    BY <1>2, <2>1, <2>2 DEF Sessions
<1>3. QED
  BY <1>1, <1>2, ApplyPuts

\* An item that is completed or failed stays as it is, whatever event comes.
LEMMA ApplyStands ==
  ASSUME NEW s \in Sessions, NEW e \in Events, NEW i \in Items,
         s.item[i].at \in {"completed", "failed"}
  PROVE  Apply(s, e).item[i] = s.item[i]
<1>1. CASE Apply(s, e) = s
  BY <1>1
<1>2. ASSUME ~Ignored(s.item[e.item], e),
             NEW x, NEW phase,
             Apply(s, e) = [phase |-> phase,
                            item |-> [s.item EXCEPT ![e.item] = x]]
      PROVE  Apply(s, e).item[i] = s.item[i]
  <2>1. i # e.item
    BY <1>2 DEF Ignored
  <2>2. QED
    BY <1>2, <2>1 DEF Sessions
<1>3. QED
  BY <1>1, <1>2, ApplyPuts

\* A fresh session is one.
LEMMA NewSessionType == NewSession \in Sessions
BY ReducerAssumption DEF NewSession, Sessions, ItemStates

-----------------------------------------------------------------------------
\* Steps of one handler.

UploadBecomes(u, q) == q \in UploadRecords /\ upload' = [upload EXCEPT ![u] = q]
StreamBecomes(s, q) == q \in StreamRecords /\ stream' = [stream EXCEPT ![s] = q]

\* Moving on keeps the rest of what the handler holds.
LEMMA UploadMoves ==
  ASSUME upload \in [Uploads -> UploadRecords], NEW u \in Uploads,
         NEW label \in UploadStates, NEW dir \in 0 .. MaxRoots,
         NEW tries \in 1 .. MaxTries + 2,
         \/ /\ UploadAt(u, label)
            /\ dir = upload[u].dir /\ tries = upload[u].tries
         \/ /\ upload' = [upload EXCEPT ![u].at = label, ![u].dir = dir]
            /\ tries = upload[u].tries
         \/ /\ upload' = [upload EXCEPT ![u].at = label, ![u].tries = tries]
            /\ dir = upload[u].dir
  PROVE  \E q : /\ UploadBecomes(u, q) /\ q.at = label /\ q.id = upload[u].id
                /\ q.dir = dir /\ q.tries = tries
<1> DEFINE q == [upload[u] EXCEPT !.at = label, !.dir = dir, !.tries = tries]
<1>1. /\ q \in UploadRecords /\ q.at = label /\ q.id = upload[u].id
      /\ q.dir = dir /\ q.tries = tries
  BY DEF UploadRecords
<1>2. upload' = [upload EXCEPT ![u] = q]
  <2>1. CASE UploadAt(u, label) /\ dir = upload[u].dir /\ tries = upload[u].tries
    BY <2>1 DEF UploadAt, UploadRecords
  <2>2. CASE /\ upload' = [upload EXCEPT ![u].at = label, ![u].dir = dir]
             /\ tries = upload[u].tries
    BY <2>2 DEF UploadRecords
  <2>3. CASE /\ upload' = [upload EXCEPT ![u].at = label, ![u].tries = tries]
             /\ dir = upload[u].dir
    BY <2>3 DEF UploadRecords
  <2>4. QED
    BY <2>1, <2>2, <2>3
<1> HIDE DEF q
<1>3. QED
  BY <1>1, <1>2 DEF UploadBecomes

\* As above, of a step that only sets the label.
LEMMA UploadGoes ==
  ASSUME upload \in [Uploads -> UploadRecords], NEW u \in Uploads,
         NEW label \in UploadStates, UploadAt(u, label)
  PROVE  \E q : /\ UploadBecomes(u, q) /\ q.at = label /\ q.id = upload[u].id
                /\ q.dir = upload[u].dir /\ q.tries = upload[u].tries
<1> DEFINE q == [upload[u] EXCEPT !.at = label]
<1>1. /\ q \in UploadRecords /\ q.at = label /\ q.id = upload[u].id
      /\ q.dir = upload[u].dir /\ q.tries = upload[u].tries
  BY DEF UploadRecords
<1>2. upload' = [upload EXCEPT ![u] = q]
  BY DEF UploadAt, UploadRecords
<1> HIDE DEF q
<1>3. QED
  BY <1>1, <1>2 DEF UploadBecomes

LEMMA StreamMoves ==
  ASSUME stream \in [Streams -> StreamRecords], NEW s \in Streams,
         NEW label \in StreamStates, NEW phase \in Phases,
         \/ StreamAt(s, label) /\ phase = stream[s].phase
         \/ Moves(s, label, phase)
  PROVE  \E q : /\ StreamBecomes(s, q) /\ q.at = label /\ q.phase = phase
                /\ q.path = stream[s].path /\ q.accepted = stream[s].accepted
                /\ q.bytes = stream[s].bytes
                /\ q.session = stream[s].session
<1> DEFINE q == [stream[s] EXCEPT !.at = label, !.phase = phase]
<1>1. /\ q \in StreamRecords /\ q.at = label /\ q.phase = phase
      /\ q.path = stream[s].path /\ q.accepted = stream[s].accepted
      /\ q.bytes = stream[s].bytes /\ q.session = stream[s].session
  BY DEF StreamRecords
<1>2. stream' = [stream EXCEPT ![s] = q]
  <2>1. CASE Moves(s, label, phase)
    BY <2>1 DEF Moves
  <2>2. CASE StreamAt(s, label) /\ phase = stream[s].phase
    BY <2>2 DEF StreamAt, StreamRecords
  <2>3. QED
    BY <2>1, <2>2
<1> HIDE DEF q
<1>3. QED
  BY <1>1, <1>2 DEF StreamBecomes


-----------------------------------------------------------------------------
\* The invariant of the server: who uses which id, which directories there
\* are, and what is in them.

\* The directories that the store knows of.
Kept == {root} \cup retired

UploadsHold ==
  \A u \in Uploads : ~In(u, "idle") => Id(u) \in UploadIds \cap active

UploadsDiffer ==
  \A u, v \in Uploads :
    u # v /\ ~In(u, "idle") /\ ~In(v, "idle") => Id(u) # Id(v)

StreamsHold ==
  \A s \in Streams : stream[s].at \notin {"new", "done"} => s \in active

\* Nothing is in a directory before it is made.
RootsMade ==
  /\ \A d \in Kept : d <= made
  /\ 0 \notin retired
  /\ \A u \in Uploads : upload[u].dir <= made
  /\ \A s \in Streams : stream[s].path <= made
  /\ \A d \in Roots, i \in Ids : d > made => audio[d][i] = 0

\* While the store is open, a stream that has accepted a chunk has a file.
AcceptedSomewhere ==
  \A s \in Streams :
    /\ stream[s].at = "new" => stream[s].path = 0 /\ stream[s].accepted = 0
    /\ (stream[s].path = 0 /\ root # 0
          /\ stream[s].at \notin {"cancel", "done"}) => stream[s].accepted = 0

\* There is no audio of the request, or its removal left it.
Gone(d, i) == audio[d][i] = 0 \/ <<d, i>> \in left

\* Between RemoveAudio and the end of the request nothing comes back.
Removed ==
  /\ \A u \in Uploads, d \in Kept :
       In(u, "release") /\ d # 0 => Gone(d, Id(u))
  /\ \A s \in Streams, d \in Kept :
       On(s, "cancel") /\ d # 0 => Gone(d, s)

PlaceInv ==
  /\ UploadsHold /\ UploadsDiffer /\ StreamsHold
  /\ RootsMade /\ AcceptedSomewhere /\ Removed
  /\ StreamKeepsBytes /\ NothingLeft

\* One save at a time, and whoever saves waits for it.
WritersWait ==
  /\ \A w \in writers : IF w.by = Prober THEN probe \in DOMAIN AfterSave
                        ELSE w.by \in Uploads /\ In(w.by, "observed")
  /\ \A w, v \in writers : w = v

ServerInv == TypeOK /\ PlaceInv /\ WritersWait

-----------------------------------------------------------------------------
\* Type correctness.

\* The health and who saves it.
LEMMA ProbeKeepsType ==
  ASSUME ProbeTypeOK, WritersWait, ProbeStep \/ ProbeEndsSave(FALSE)
  PROVE  ProbeTypeOK'
<1>1. CASE ProbeBegins
  BY <1>1 DEF ProbeBegins, ProbeTypeOK, ProberStates
<1>2. CASE ProbeBeginsSave
  BY <1>2 DEF ProbeBeginsSave, BeginSave, ProbeTypeOK
<1>3. ASSUME NEW ok \in BOOLEAN, ProbeEndsSave(ok)
      PROVE  ProbeTypeOK'
  <2>1. PICK w \in writers : w.by = Prober /\ EndSave(w, ok)
    BY <1>3 DEF ProbeEndsSave
  <2>2. probe \in DOMAIN AfterSave
    BY <2>1 DEF WritersWait
  <2>3. AfterSave[probe] \in ProberStates
    BY <2>2 DEF AfterSave, ProberStates
  <2>4. w.copy \in Healths
    BY <2>1 DEF ProbeTypeOK
  <2>5. QED
    BY <1>3, <2>1, <2>3, <2>4 DEF ProbeEndsSave, EndSave, ProbeTypeOK
<1>4. CASE ProbeAttempts \/ ProbeFails \/ ProbeSucceeds
  <2>1. \A reason \in {"pending", "failed"} :
          [health EXCEPT !.reason = reason] \in Healths
    BY DEF ProbeTypeOK, Healths
  <2>2. [success |-> TRUE, reason |-> "none"] \in Healths
    BY DEF Healths
  <2>3. health' \in Healths
    BY <1>4, <2>1, <2>2 DEF ProbeAttempts, ProbeFails, ProbeSucceeds,
       RecordAttempt, RecordFailure, RecordSuccess
  <2>4. probe' \in ProberStates /\ UNCHANGED <<saved, writers, behind>>
    BY <1>4 DEF ProbeAttempts, ProbeFails, ProbeSucceeds, ProberStates
  <2>5. QED
    BY <2>3, <2>4 DEF ProbeTypeOK
<1>5. QED
  BY <1>1, <1>2, <1>3, <1>4 DEF ProbeStep

\* A request handler reports what it observed.
LEMMA ReportType ==
  ASSUME ProbeTypeOK, NEW u \in Uploads,
         \/ ReporterBeginsSave(u) \/ \E ok \in BOOLEAN : ReporterEndsSave(u, ok)
         \/ ObserveFailure \/ RestoreProbe
  PROVE  ProbeTypeOK'
<1>1. u \in Reporters
  BY ServerAssumption
<1>2. CASE ReporterBeginsSave(u)
  BY <1>1, <1>2 DEF ReporterBeginsSave, BeginSave, ProbeTypeOK
<1>3. CASE \E ok \in BOOLEAN : ReporterEndsSave(u, ok)
  BY <1>3 DEF ReporterEndsSave, EndSave, ProbeTypeOK
<1>4. CASE ObserveFailure \/ RestoreProbe
  BY <1>4 DEF ObserveFailure, RestoreProbe, RecordFailure, ProbeTypeOK,
     Healths, ProberStates
<1>5. QED
  BY <1>2, <1>3, <1>4

LEMMA ProbeUntouched == ProbeTypeOK /\ UNCHANGED probeVars => ProbeTypeOK'
BY DEF ProbeTypeOK, probeVars

\* The audio in one directory.
LEMMA PutType ==
  ASSUME NEW D, NEW S, NEW f \in [D -> S], NEW i, NEW x \in S
  PROVE  [f EXCEPT ![i] = x] \in [D -> S]
OBVIOUS

\* The store's own steps keep it typed.
LEMMA StoreType ==
  ASSUME TypeOK
  PROVE  /\ NewRoot /\ CanRepair =>
              /\ root' \in 0 .. MaxRoots /\ retired' \subseteq Roots
              /\ made' \in Roots /\ disk' \in [Roots -> {"ok", "gone", "bad"}]
         /\ \A d : Made(d) => disk' \in [Roots -> {"ok", "gone", "bad"}]
         /\ \A i \in Ids : \A failing \in SUBSET Roots : Removes(i, failing) =>
              /\ audio' \in [Roots -> [Ids -> 0 .. MaxChunks]]
              /\ left' \subseteq Roots \X Ids
         /\ \A dirs : \A how \in {"gone", "bad"} : Lost(dirs, how) =>
              /\ disk' \in [Roots -> {"ok", "gone", "bad"}]
              /\ audio' \in [Roots -> [Ids -> 0 .. MaxChunks]]
              /\ temporary' \subseteq Uploads
<1>m. MaxRoots \in Nat \ {0} /\ MaxChunks \in Nat \ {0}
  BY ServerAssumption
<1>1. NewRoot /\ CanRepair =>
        /\ root' \in 0 .. MaxRoots /\ retired' \subseteq Roots
        /\ made' \in Roots /\ disk' \in [Roots -> {"ok", "gone", "bad"}]
  BY <1>m DEF NewRoot, CanRepair, TypeOK, Roots
<1>2. \A d : Made(d) => disk' \in [Roots -> {"ok", "gone", "bad"}]
  BY DEF Made, TypeOK
<1>3. \A i \in Ids : \A failing \in SUBSET Roots : Removes(i, failing) =>
        /\ audio' \in [Roots -> [Ids -> 0 .. MaxChunks]]
        /\ left' \subseteq Roots \X Ids
  <2> SUFFICES ASSUME NEW i \in Ids, NEW failing \in SUBSET Roots,
                      Removes(i, failing)
               PROVE  /\ audio' \in [Roots -> [Ids -> 0 .. MaxChunks]]
                      /\ left' \subseteq Roots \X Ids
    OBVIOUS
  <2>2. \A d \in Roots : audio[d] \in [Ids -> 0 .. MaxChunks]
    BY DEF TypeOK
  <2>1. \A d \in Roots : [audio[d] EXCEPT ![i] = 0] \in [Ids -> 0 .. MaxChunks]
    BY <1>m, <2>2, 0 \in 0 .. MaxChunks, PutType
  <2>3. audio' \in [Roots -> [Ids -> 0 .. MaxChunks]]
    BY <2>1, <2>2 DEF Removes, Emptied
  <2>4. left' = (left \ (Roots \X {i})) \cup (failing \X {i})
    BY DEF Removes, Emptied
  <2>5. left' \subseteq Roots \X Ids
    BY <2>4 DEF TypeOK
  <2>6. QED
    BY <2>3, <2>5
<1>4. \A dirs : \A how \in {"gone", "bad"} : Lost(dirs, how) =>
        /\ disk' \in [Roots -> {"ok", "gone", "bad"}]
        /\ audio' \in [Roots -> [Ids -> 0 .. MaxChunks]]
        /\ temporary' \subseteq Uploads
  BY <1>m DEF Lost, TypeOK
<1>5. QED
  BY <1>1, <1>2, <1>3, <1>4

LEMMA FaultType ==
  ASSUME TypeOK, Fault \/ NoFault
  PROVE  faults' \in 0 .. MaxFaults
BY ServerAssumption DEF Fault, NoFault, TypeOK

\* An upload's step.
LEMMA UploadType ==
  ASSUME TypeOK, PlaceInv, NEW u \in Uploads, UploadStep(u)
  PROVE  TypeOK'
<1> DEFINE U == upload[u]
<1>m. MaxTries \in Nat \ {0} /\ MaxChunks \in Nat \ {0} /\ MaxRoots \in Nat \ {0}
  BY ServerAssumption
<1>t. upload \in [Uploads -> UploadRecords] /\ U \in UploadRecords
  BY DEF TypeOK
<1>a. \A label \in UploadStates :
        UploadAt(u, label) => upload' \in [Uploads -> UploadRecords]
  BY <1>t DEF UploadAt, UploadRecords
<1>r. \A i : \A phase \in Phases : Saves(i, phase) => record' \in [Ids -> Phases]
  BY DEF Saves, TypeOK
<1>p. {"persisted", "dispatched", "failed", "completed"} \subseteq Phases
  BY DEF Phases
<1>o. /\ U.dir \in 0 .. MaxRoots /\ U.tries \in 1 .. MaxTries + 2
      /\ \A q : UploadBecomes(u, q) => upload' \in [Uploads -> UploadRecords]
  BY <1>t DEF UploadRecords, UploadBecomes
<1>f. \A ok \in BOOLEAN : SaveOutcome(u, ok) => Fault \/ NoFault
  BY DEF SaveOutcome
<1>l. {"create", "repair", "copy", "save", "check", "run", "observed", "fail",
       "answer", "remove", "release", "persist"} \subseteq UploadStates
  BY DEF UploadStates
<1> USE DEF storeRest, requestRest, store
<1>1. CASE \E i \in UploadIds : Begin(u, i)
  <2>1. PICK i \in UploadIds : Begin(u, i)
    BY <1>1
  <2>2. [at |-> "persist", id |-> i, dir |-> 0, tries |-> 1] \in UploadRecords
    BY <1>m DEF UploadRecords, UploadStates, Ids
  <2>3. upload' \in [Uploads -> UploadRecords]
    BY <2>1, <2>2, <1>t DEF Begin
  <2>4. QED
    BY <2>1, <2>3, ProbeUntouched DEF Begin, TypeOK, Ids
<1>2. CASE PickDirectory(u)
  <2>1. upload' \in [Uploads -> UploadRecords]
    <3>1. CASE UploadAt(u, "remove")
      BY <1>a, <1>l, <3>1
    <3>2. CASE upload' = [upload EXCEPT ![u].at = "create", ![u].dir = root]
      BY <1>t, <1>l, <3>2 DEF UploadRecords, TypeOK
    <3>3. QED
      BY <1>2, <3>1, <3>2 DEF PickDirectory
  <2>2. QED
    BY <1>2, <2>1, ProbeUntouched DEF PickDirectory, TypeOK
<1>3. CASE CreateTemporary(u)
  <2>1. upload' \in [Uploads -> UploadRecords]
    BY <1>3, <1>a, <1>l DEF CreateTemporary
  <2>2. disk' \in [Roots -> {"ok", "gone", "bad"}] /\ temporary' \subseteq Uploads
    BY <1>3, StoreType DEF CreateTemporary, TypeOK
  <2>3. QED
    BY <1>3, <2>1, <2>2, ProbeUntouched DEF CreateTemporary, TypeOK
<1>4. CASE RepairRoot(u)
  <2>1. upload' \in [Uploads -> UploadRecords]
    <3>1. CASE UploadAt(u, "remove")
      BY <1>a, <1>l, <3>1
    <3>2. CASE upload' = [upload EXCEPT ![u].at = "persist", ![u].tries = 2]
      BY <1>m, <1>t, <1>l, <1>o, <3>2, 2 \in 1 .. MaxTries + 2, UploadMoves
    <3>3. QED
      BY <1>4, <3>1, <3>2 DEF RepairRoot
  <2>2. /\ root' \in 0 .. MaxRoots /\ retired' \subseteq Roots
        /\ made' \in Roots /\ disk' \in [Roots -> {"ok", "gone", "bad"}]
    BY <1>4, StoreType DEF RepairRoot, TypeOK
  <2>3. QED
    BY <1>4, <2>1, <2>2, ProbeUntouched DEF RepairRoot, TypeOK
<1>5. CASE Copy(u)
  <2>1. audio' \in [Roots -> [Ids -> 0 .. MaxChunks]]
    <3> DEFINE old == audio[U.dir]
               new == [old EXCEPT ![Id(u)] = 1]
    <3>1. U.dir \in Roots => new \in [Ids -> 0 .. MaxChunks]
      <4>1. SUFFICES ASSUME U.dir \in Roots
                     PROVE  new \in [Ids -> 0 .. MaxChunks]
        OBVIOUS
      <4>2. old \in [Ids -> 0 .. MaxChunks] /\ 1 \in 0 .. MaxChunks
        BY <1>m, <4>1 DEF TypeOK
      <4> HIDE DEF old
      <4>3. QED
        BY <4>2, PutType
    <3>2. CASE audio' = [audio EXCEPT ![U.dir] = new]
      BY <3>1, <3>2 DEF TypeOK
    <3>3. QED
      BY <1>5, <3>2 DEF Copy, TypeOK
  <2>2. upload' \in [Uploads -> UploadRecords] /\ faults' \in 0 .. MaxFaults
    BY <1>5, <1>a, <1>l, FaultType DEF Copy
  <2>3. QED
    BY <1>5, <2>1, <2>2, ProbeUntouched DEF Copy, TypeOK
<1>6. CASE SavePersisted(u) \/ Fail(u) \/ Answer(u)
  <2>1. upload' \in [Uploads -> UploadRecords] /\ faults' \in 0 .. MaxFaults
    BY <1>6, <1>a, <1>f, <1>l, FaultType DEF SavePersisted, Fail, Answer
  <2>2. record' \in [Ids -> Phases]
    <3>1. \/ UNCHANGED record
          \/ \E phase \in {"persisted", "failed", "completed"} : Saves(Id(u), phase)
      BY <1>6 DEF SavePersisted, Fail, Answer
    <3>2. QED
      BY <1>p, <1>r, <3>1 DEF TypeOK
  <2>3. QED
    BY <1>6, <2>1, <2>2, ProbeUntouched DEF SavePersisted, Fail, Answer, TypeOK
<1>7. CASE Reject(u)
  BY <1>7, <1>a, <1>l, ProbeUntouched DEF Reject, TypeOK
<1>8. CASE ProviderFails(u)
  <2>1. ProbeTypeOK'
    BY <1>8, ReportType DEF ProviderFails, TypeOK
  <2>2. QED
    BY <1>8, <2>1, <1>a, <1>l DEF ProviderFails, TypeOK
<1>9. CASE ReportObserved(u)
  <2>1. ProbeTypeOK'
    BY <1>9, ReportType DEF ReportObserved, TypeOK
  <2>2. upload' \in [Uploads -> UploadRecords] /\ faults' \in 0 .. MaxFaults
    BY <1>9, <1>a, <1>l, <1>t, FaultType DEF ReportObserved
  <2>3. QED
    BY <1>9, <2>1, <2>2 DEF ReportObserved, TypeOK
<1>10. CASE Dispatch(u)
  <2>1. upload' \in [Uploads -> UploadRecords]
    BY <1>10, <1>m, <1>t, <1>l, <1>o, 1 \in 1 .. MaxTries + 2, UploadMoves
       DEF Dispatch
  <2>2. faults' \in 0 .. MaxFaults
    BY <1>10, <1>f, FaultType DEF Dispatch
  <2>3. record' \in [Ids -> Phases]
    <3>1. UNCHANGED record \/ Saves(Id(u), "dispatched")
      BY <1>10 DEF Dispatch
    <3>2. QED
      BY <1>p, <1>r, <3>1 DEF TypeOK
  <2>4. QED
    BY <1>10, <2>1, <2>2, <2>3, ProbeUntouched DEF Dispatch, TypeOK
<1>11. CASE Run(u)
  <2>1. upload' \in [Uploads -> UploadRecords]
    <3>1. CASE UploadAt(u, "answer") \/ UploadAt(u, "fail")
      BY <1>a, <1>l, <3>1
    <3>2. CASE U.tries < MaxTries /\ upload' = [upload EXCEPT ![u].tries = @ + 1]
      BY <1>m, <1>t, <3>2 DEF UploadRecords
    <3>3. QED
      BY <1>11, <3>1, <3>2 DEF Run
  <2>2. QED
    BY <1>11, <2>1, ProbeUntouched DEF Run, TypeOK
<1>12. CASE RemoveUpload(u)
  <2>1. PICK failing \in SUBSET Roots : MayFail(Id(u), failing) /\ Removes(Id(u), failing)
    BY <1>12 DEF RemoveUpload
  <2>2. Id(u) \in Ids
    BY <1>12 DEF RemoveUpload, In, Id, PlaceInv, UploadsHold, Ids
  <2>3. /\ audio' \in [Roots -> [Ids -> 0 .. MaxChunks]]
        /\ left' \subseteq Roots \X Ids
    BY <2>1, <2>2, StoreType
  <2>4. faults' \in 0 .. MaxFaults
    BY <2>1, FaultType DEF MayFail
  <2>5. QED
    BY <1>12, <2>3, <2>4, <1>a, <1>l, ProbeUntouched DEF RemoveUpload, TypeOK
<1>13. CASE Release(u)
  <2>1. [at |-> "idle", id |-> None, dir |-> 0, tries |-> 1] \in UploadRecords
    BY <1>m DEF UploadRecords, UploadStates
  <2>2. QED
    BY <1>13, <2>1, <1>t, ProbeUntouched DEF Release, TypeOK
<1>14. QED
  BY <1>1, <1>2, <1>3, <1>4, <1>5, <1>6, <1>7, <1>8, <1>9, <1>10, <1>11,
     <1>12, <1>13 DEF UploadStep

-----------------------------------------------------------------------------
\* Where a chunk goes: to the directory of the stream, which has its earlier
\* chunks, or where the store is now, to be repaired if need be.
ChunkGoes(s, d) ==
  /\ d \in Roots /\ root # 0 /\ On(s, "open")
  /\ stream[s].accepted <= audio[d][s] /\ audio[d][s] < MaxChunks
  /\ audio' = [audio EXCEPT ![d][s] = audio[d][s] + 1]
  /\ \/ /\ d <= made /\ UNCHANGED <<root, retired, made>>
        /\ Made(d) \/ UNCHANGED disk
     \/ d = made + 1 /\ CanRepair /\ NewRoot

LEMMA ChunkPlace ==
  ASSUME TypeOK, PlaceInv, NEW s \in Streams, Chunk(s)
  PROVE  ChunkGoes(s, AppendPath(s))
<1> DEFINE q == stream[s]
           d == AppendPath(s)
<1>m. MaxRoots \in Nat \ {0} /\ MaxChunks \in Nat \ {0}
  BY ServerAssumption
<1>t. /\ q \in StreamRecords /\ q.path \in 0 .. MaxRoots
      /\ q.accepted \in 0 .. MaxChunks /\ q.at = "open"
      /\ root \in Roots /\ made \in Roots /\ root <= made /\ q.path <= made
      /\ s \in Ids /\ MayAppend(s)
  BY DEF TypeOK, StreamRecords, Chunk, On, MayAppend, PlaceInv, RootsMade, Kept,
     Ids, Roots
<1>1. CASE q.path # 0
  <2>1. d = q.path /\ d \in Roots /\ d <= made
    BY <1>1, <1>t, <1>m DEF AppendPath, Roots
  <2>2. audio[d][s] > 0
    BY <1>t, <2>1 DEF MayAppend
  <2>3. audio[d][s] = 0 \/ audio[d][s] >= q.accepted
    BY <1>1, <2>1 DEF PlaceInv, StreamKeepsBytes
  <2>4. audio[d][s] \in 0 .. MaxChunks
    BY <1>t, <2>1 DEF TypeOK
  <2>5. /\ audio' = [audio EXCEPT ![d][s] = audio[d][s] + 1]
        /\ UNCHANGED <<root, retired, made, disk>>
    BY <1>t, <2>1, <1>m DEF Chunk, AddChunk, Roots
  <2>6. QED
    BY <1>t, <1>m, <2>1, <2>2, <2>3, <2>4, <2>5 DEF ChunkGoes, Chunk, On, Roots
<1>2. CASE q.path = 0
  <2>0. q.accepted = 0
    BY <1>2, <1>t, <1>m DEF PlaceInv, AcceptedSomewhere, Roots
  <2>1. CASE Usable(root)
    <3>1. d = root /\ d <= made
      BY <1>2, <1>t, <2>1 DEF AppendPath
    <3>2. audio[d][s] \in 0 .. MaxChunks
      BY <1>t, <3>1 DEF TypeOK
    <3>3. /\ audio' = [audio EXCEPT ![d][s] = audio[d][s] + 1]
          /\ UNCHANGED <<root, retired, made>> /\ (Made(d) \/ UNCHANGED disk)
      BY <1>t, <3>1, <1>m DEF Chunk, AddChunk, Roots
    <3>4. QED
      BY <1>t, <1>m, <2>0, <3>1, <3>2, <3>3 DEF ChunkGoes, Chunk, On, Roots
  <2>2. CASE ~Usable(root)
    <3>1. d = made + 1 /\ d # q.path
      BY <1>2, <1>t, <1>m, <2>2 DEF AppendPath, Roots
    <3>2. CanRepair /\ d \in Roots
      BY <1>t, <1>m, <2>2, <3>1 DEF MayAppend, CanRepair, Roots
    <3>3. audio[d][s] \in 0 .. MaxChunks
      BY <1>t, <3>2 DEF TypeOK
    <3>4. audio' = [audio EXCEPT ![d][s] = audio[d][s] + 1] /\ NewRoot
      BY <1>t, <3>1, <1>m DEF Chunk, AddChunk, Roots
    <3>5. QED
      BY <1>t, <1>m, <2>0, <3>1, <3>2, <3>3, <3>4 DEF ChunkGoes, Chunk, On, Roots
  <2>3. QED
    BY <2>1, <2>2
<1>3. QED
  BY <1>1, <1>2

\* What the stream becomes with its chunk.
LEMMA AppendBecomes ==
  ASSUME TypeOK, PlaceInv, NEW s \in Streams, Append(s)
  PROVE  \E q : /\ StreamBecomes(s, q) /\ q.at \in {"open", "appending"}
                /\ q.path = AppendPath(s)
                /\ q.accepted = stream[s].accepted + 1
                /\ q.bytes = audio[AppendPath(s)][s] + 1
                /\ q.phase = IF stream[s].phase = "received" THEN "persisted"
                             ELSE stream[s].phase
                /\ q.session = stream[s].session
<1> DEFINE d == AppendPath(s)
           P == IF stream[s].phase = "received" THEN "persisted"
                ELSE stream[s].phase
<1>m. MaxRoots \in Nat \ {0} /\ MaxChunks \in Nat \ {0}
  BY ServerAssumption
<1>1. ChunkGoes(s, d)
  BY ChunkPlace DEF Append
<1>2. PICK ok \in BOOLEAN :
        stream' = [stream EXCEPT
          ![s].at = IF ok THEN "appending" ELSE "open",
          ![s].path = d,
          ![s].bytes = audio[d][s] + 1,
          ![s].accepted = @ + 1,
          ![s].phase = IF @ = "received" THEN "persisted" ELSE @]
  BY DEF Append
<1>3. /\ audio[d][s] + 1 \in 0 .. MaxChunks
      /\ stream[s].accepted + 1 \in 0 .. MaxChunks
      /\ d \in 0 .. MaxRoots
  <2>1. stream[s].accepted \in 0 .. MaxChunks /\ audio[d][s] \in 0 .. MaxChunks
    BY <1>1 DEF TypeOK, StreamRecords, ChunkGoes, Ids
  <2>2. QED
    BY <1>1, <1>m, <2>1 DEF ChunkGoes, Roots
<1>4. P \in Phases
  BY DEF TypeOK, StreamRecords, Phases
<1>5. stream[s] \in StreamRecords
  BY DEF TypeOK
<1>c. PICK at \in {"open", "appending"} : at = IF ok THEN "appending" ELSE "open"
  OBVIOUS
<1> HIDE DEF d
<1> DEFINE q == [stream[s] EXCEPT !.at = at, !.path = d, !.bytes = audio[d][s] + 1,
                                  !.accepted = stream[s].accepted + 1, !.phase = P]
<1>8. stream' = [stream EXCEPT ![s] = q]
  <2>1. stream \in [Streams -> StreamRecords]
    BY DEF TypeOK
  <2>2. QED
    BY <1>2, <1>5, <1>c, <2>1 DEF StreamRecords
<1> HIDE DEF P
<1>6. q \in StreamRecords
  BY <1>3, <1>4, <1>5 DEF StreamRecords, StreamStates
<1>7. /\ q.at \in {"open", "appending"} /\ q.path = d
      /\ q.accepted = stream[s].accepted + 1 /\ q.bytes = audio[d][s] + 1
      /\ q.phase = P /\ q.session = stream[s].session
  BY <1>5 DEF StreamRecords
<1> HIDE DEF q
<1>9. StreamBecomes(s, q)
  BY <1>6, <1>8 DEF StreamBecomes
<1>10. QED
  BY <1>7, <1>9 DEF d, P

\* What a step of the provider's events makes of the stream.
LEMMA SendBecomes ==
  ASSUME TypeOK, NEW s \in Streams, NEW e \in Events, Send(s, e)
  PROVE  \E q : /\ StreamBecomes(s, q)
                /\ q.at \in {"open", "appending", "results", "failed"}
                /\ q.at # "open" => q.at \in {stream[s].at, "failed"}
                /\ q.at = "failed" => stream[s].at = "results"
                /\ q.path = stream[s].path /\ q.accepted = stream[s].accepted
                /\ q.bytes = stream[s].bytes /\ q.phase = stream[s].phase
                /\ q.session \in {stream[s].session, Apply(stream[s].session, e)}
<1> DEFINE session == stream[s].session
<1>1. /\ stream \in [Streams -> StreamRecords] /\ stream[s] \in StreamRecords
      /\ session \in Sessions /\ stream[s].events + 1 \in 0 .. MaxEvents
      /\ stream[s].at \in {"appending", "results"}
  BY ServerAssumption DEF TypeOK, StreamRecords, Send, On
<1>2. Apply(session, e) \in Sessions
  BY <1>1, ApplyType
<1>3. PICK ok \in BOOLEAN, clash \in BOOLEAN :
        stream' = [stream EXCEPT
          ![s].events = @ + 1,
          ![s].session = IF clash THEN @ ELSE Apply(session, e),
          ![s].at = IF ok /\ ~clash THEN @
                    ELSE IF @ = "appending" THEN "open" ELSE "failed"]
  <2> DEFINE clash == Conflicts(session.item[e.item], e)
  <2>1. clash \in BOOLEAN
    BY DEF Conflicts
  <2>2. PICK ok \in BOOLEAN :
          stream' = [stream EXCEPT
            ![s].events = @ + 1,
            ![s].session = IF clash THEN @ ELSE Apply(session, e),
            ![s].at = IF ok /\ ~clash THEN @
                      ELSE IF @ = "appending" THEN "open" ELSE "failed"]
    BY DEF Send
  <2> HIDE DEF clash
  <2>3. QED
    BY <2>1, <2>2
<1>4. PICK new \in Sessions :
        /\ new = IF clash THEN session ELSE Apply(session, e)
        /\ new \in {session, Apply(session, e)}
  BY <1>1, <1>2
<1>5. PICK at \in {"open", "appending", "results", "failed"} :
        /\ at = IF ok /\ ~clash THEN stream[s].at
                ELSE IF stream[s].at = "appending" THEN "open" ELSE "failed"
        /\ at # "open" => at \in {stream[s].at, "failed"}
        /\ at = "failed" => stream[s].at = "results"
  BY <1>1
<1> DEFINE q == [stream[s] EXCEPT !.events = stream[s].events + 1,
                                  !.session = new, !.at = at]
<1>6. /\ q \in StreamRecords /\ q.at = at /\ q.session = new
      /\ q.path = stream[s].path /\ q.accepted = stream[s].accepted
      /\ q.bytes = stream[s].bytes /\ q.phase = stream[s].phase
  BY <1>1 DEF StreamRecords, StreamStates
<1>7. stream' = [stream EXCEPT ![s] = q]
  BY <1>1, <1>3, <1>4, <1>5 DEF StreamRecords
<1> HIDE DEF q
<1>8. StreamBecomes(s, q)
  BY <1>6, <1>7 DEF StreamBecomes
<1>9. QED
  BY <1>4, <1>5, <1>6, <1>8

\* A stream's step that leaves the store and the list of requests alone.
\* (Writing the record and going on is all it does.)
StreamGoesOn(s) ==
  /\ \E q : /\ StreamBecomes(s, q)
            /\ q.at \notin {"new", "cancel", "done"}
            /\ q.path = stream[s].path /\ q.accepted = stream[s].accepted
  /\ ~On(s, "new") /\ ~On(s, "cancel") /\ ~On(s, "done") /\ ~On(s, "end")
  /\ UNCHANGED <<store, streamRest, active, away, probeVars>>

LEMMA StreamQuiet ==
  ASSUME TypeOK, NEW s \in Streams,
         \/ Initialize(s) \/ Sent(s) \/ Commit(s) \/ CommitRefused(s)
         \/ ProviderCommits(s) \/ FailCommit(s) \/ Complete(s) \/ StreamCloses(s)
         \/ \E e \in Events : Send(s, e)
  PROVE  /\ StreamGoesOn(s) /\ (Fault \/ NoFault)
         /\ UNCHANGED record \/ \E phase \in Phases : Saves(s, phase)
<1> DEFINE Goes ==
      \E q : /\ StreamBecomes(s, q)
             /\ q.at \notin {"new", "cancel", "done"}
             /\ q.path = stream[s].path /\ q.accepted = stream[s].accepted
           Rests == UNCHANGED <<store, streamRest, active, away, probeVars>>
           Live == ~On(s, "new") /\ ~On(s, "cancel") /\ ~On(s, "done") /\ ~On(s, "end")
           Writing == /\ Fault \/ NoFault
                      /\ UNCHANGED record \/ \E phase \in Phases : Saves(s, phase)
<1>t. stream \in [Streams -> StreamRecords] /\ stream[s].phase \in Phases
  BY DEF TypeOK, StreamRecords
<1>1. ASSUME NEW label \in {"open", "end", "finish", "commit", "results", "failed"},
             NEW phase \in Phases,
             \/ StreamAt(s, label) /\ phase = stream[s].phase
             \/ Moves(s, label, phase)
      PROVE  Goes
  <2>1. label \in StreamStates
    BY DEF StreamStates
  <2>2. PICK q : /\ StreamBecomes(s, q) /\ q.at = label
                 /\ q.path = stream[s].path /\ q.accepted = stream[s].accepted
    BY <1>1, <1>t, <2>1, StreamMoves
  <2>3. QED
    BY <2>2
<1>2. CASE \E e \in Events : Send(s, e)
  <2>1. PICK e \in Events : Send(s, e)
    BY <1>2
  <2>2. PICK q : /\ StreamBecomes(s, q)
                 /\ q.at \in {"open", "appending", "results", "failed"}
                 /\ q.path = stream[s].path /\ q.accepted = stream[s].accepted
    BY <2>1, SendBecomes
  <2>3. Goes
    BY <2>2
  <2> HIDE DEF Goes
  <2>4. Rests /\ Live /\ Writing
    BY <2>1 DEF Send, On, NoFault
  <2>5. QED
    BY <2>3, <2>4 DEF StreamGoesOn, Goes
<1>3. CASE Sent(s) \/ CommitRefused(s) \/ ProviderCommits(s) \/ StreamCloses(s)
  <2>1. \E label \in {"open", "end", "finish", "results", "failed"} : StreamAt(s, label)
    BY <1>3 DEF Sent, CommitRefused, ProviderCommits, StreamCloses
  <2>2. Goes
    BY <1>1, <1>t, <2>1
  <2> HIDE DEF Goes
  <2>3. Rests /\ Live /\ Writing
    BY <1>3 DEF Sent, CommitRefused, ProviderCommits, StreamCloses, On, NoFault
  <2>4. QED
    BY <2>2, <2>3 DEF StreamGoesOn, Goes
<1>4. CASE Initialize(s)
  <2>1. \/ StreamAt(s, "end")
        \/ Moves(s, "open", "received") \/ Moves(s, "end", "received")
    BY <1>4 DEF Initialize
  <2>2. "received" \in Phases
    BY DEF Phases
  <2>3. Goes
    BY <1>1, <1>t, <2>1, <2>2
  <2> HIDE DEF Goes
  <2>4. Rests /\ Live /\ Writing
    BY <1>4 DEF Initialize, On, NoFault
  <2>5. QED
    BY <2>3, <2>4 DEF StreamGoesOn, Goes
<1>5. CASE Commit(s) \/ FailCommit(s) \/ Complete(s)
  <2>0. {"committing", "failed", "completed"} \subseteq Phases
    BY DEF Phases
  <2>1. \E label \in {"commit", "end", "open"},
           phase \in {"committing", "failed", "completed"} : Moves(s, label, phase)
    BY <1>5 DEF Commit, FailCommit, Complete
  <2>2. Goes
    BY <1>1, <2>0, <2>1
  <2> HIDE DEF Goes
  <2>3. Rests /\ Live
    BY <1>5 DEF Commit, FailCommit, Complete, On
  <2>4. \E ok \in BOOLEAN, phase \in {"committing", "failed", "completed"} :
          Records(s, phase, ok)
    BY <1>5 DEF Commit, FailCommit, Complete
  <2>5. Writing
    BY <2>0, <2>4 DEF Records
  <2>6. QED
    BY <2>2, <2>3, <2>5 DEF StreamGoesOn, Goes
<1>6. QED
  BY <1>2, <1>3, <1>4, <1>5

\* A stream's step.
LEMMA StreamType ==
  ASSUME TypeOK, PlaceInv, NEW s \in Streams, StreamStep(s)
  PROVE  TypeOK'
<1>m. MaxRoots \in Nat \ {0} /\ MaxChunks \in Nat \ {0}
  BY ServerAssumption
<1>t. /\ stream \in [Streams -> StreamRecords] /\ stream[s] \in StreamRecords
      /\ s \in Ids
  BY DEF TypeOK, Ids
<1>o. \A q : StreamBecomes(s, q) => stream' \in [Streams -> StreamRecords]
  BY <1>t DEF StreamBecomes
<1> USE DEF streamRest, store
<1>1. CASE Connect(s)
  <2>1. stream' \in [Streams -> StreamRecords]
    BY <1>1, <1>t DEF Connect, StreamAt, StreamRecords, StreamStates
  <2>2. QED
    BY <1>1, <1>t, <2>1, ProbeUntouched DEF Connect, TypeOK
<1>2. CASE \/ Initialize(s) \/ Sent(s) \/ Commit(s) \/ CommitRefused(s)
           \/ ProviderCommits(s) \/ FailCommit(s) \/ Complete(s) \/ StreamCloses(s)
           \/ \E e \in Events : Send(s, e)
  <2>1. /\ StreamGoesOn(s) /\ (Fault \/ NoFault)
        /\ UNCHANGED record \/ \E phase \in Phases : Saves(s, phase)
    BY <1>2, StreamQuiet
  <2>2. stream' \in [Streams -> StreamRecords]
    BY <1>o, <2>1 DEF StreamGoesOn
  <2>3. record' \in [Ids -> Phases] /\ faults' \in 0 .. MaxFaults
    BY <2>1, FaultType DEF Saves, TypeOK
  <2>4. QED
    BY <2>1, <2>2, <2>3, ProbeUntouched DEF StreamGoesOn, TypeOK
<1>3. CASE Append(s) \/ AppendFails(s)
  <2> DEFINE d == AppendPath(s)
  <2>1. ChunkGoes(s, d)
    BY <1>3, ChunkPlace DEF Append, AppendFails
  <2>2. audio' \in [Roots -> [Ids -> 0 .. MaxChunks]]
    <3> DEFINE old == audio[d]
               n == old[s] + 1
               new == [old EXCEPT ![s] = n]
    <3>1. old \in [Ids -> 0 .. MaxChunks] /\ d \in Roots
      BY <2>1 DEF ChunkGoes, TypeOK
    <3>2. n \in 0 .. MaxChunks
      BY <1>m, <1>t, <2>1, <3>1 DEF ChunkGoes
    <3>3. audio' = [audio EXCEPT ![d] = new]
      BY <2>1 DEF ChunkGoes
    <3>4. new \in [Ids -> 0 .. MaxChunks]
      <4> HIDE DEF old, n
      <4>1. QED
        BY <3>1, <3>2, PutType
    <3> HIDE DEF new
    <3>5. QED
      BY <3>1, <3>3, <3>4 DEF TypeOK
  <2>3. /\ root' \in 0 .. MaxRoots /\ retired' \subseteq Roots
        /\ made' \in Roots /\ disk' \in [Roots -> {"ok", "gone", "bad"}]
    <3>1. CASE CanRepair /\ NewRoot
      BY <3>1, StoreType
    <3>2. CASE UNCHANGED <<root, retired, made>> /\ (Made(d) \/ UNCHANGED disk)
      <4>1. disk' \in [Roots -> {"ok", "gone", "bad"}]
        BY <3>2, StoreType DEF TypeOK
      <4>2. QED
        BY <3>2, <4>1 DEF TypeOK
    <3>3. QED
      BY <2>1, <3>1, <3>2 DEF ChunkGoes
  <2>4. stream' \in [Streams -> StreamRecords]
    <3>1. CASE Append(s)
      BY <1>o, <3>1, AppendBecomes
    <3>2. CASE AppendFails(s)
      <4>1. d \in 0 .. MaxRoots
        BY <1>m, <2>1 DEF ChunkGoes, Roots
      <4>2. stream' = [stream EXCEPT ![s].path = d]
        BY <3>2 DEF AppendFails
      <4> HIDE DEF d
      <4>3. QED
        BY <1>t, <4>1, <4>2 DEF StreamRecords
    <3>3. QED
      BY <1>3, <3>1, <3>2
  <2>5. record' \in [Ids -> Phases] /\ (Fault \/ NoFault)
    <3>1. UNCHANGED record \/ Saves(s, "persisted")
      BY <1>3 DEF Append, AppendFails, Records
    <3>2. Fault \/ NoFault
      BY <1>3 DEF Append, AppendFails, Records
    <3>3. QED
      BY <3>1, <3>2 DEF Saves, TypeOK, Phases
  <2>6. /\ UNCHANGED <<streamRest, active, away, probeVars>>
    BY <1>3 DEF Append, AppendFails
  <2>7. QED
    BY <2>2, <2>3, <2>4, <2>5, <2>6, FaultType, ProbeUntouched DEF TypeOK
<1>4. CASE RemoveStream(s)
  <2>1. PICK failing \in SUBSET Roots :
          /\ MayFail(s, failing) /\ Removes(s, failing)
          /\ stream' = [stream EXCEPT ![s].at = "cancel",
                                      ![s].path = IF failing = {} THEN 0 ELSE @]
    BY <1>4 DEF RemoveStream
  <2>2. stream' \in [Streams -> StreamRecords]
    <3> DEFINE dir == IF failing = {} THEN 0 ELSE stream[s].path
               q == [stream[s] EXCEPT !.at = "cancel", !.path = dir]
    <3>1. q \in StreamRecords
      <4>1. "cancel" \in StreamStates /\ dir \in 0 .. MaxRoots
        BY <1>m, <1>t DEF StreamStates, StreamRecords
      <4> HIDE DEF dir
      <4>2. QED
        BY <4>1, <1>t DEF StreamRecords
    <3>2. stream' = [stream EXCEPT ![s] = q]
      BY <1>t, <2>1
    <3> HIDE DEF q
    <3>3. QED
      BY <1>t, <3>1, <3>2
  <2>3. /\ audio' \in [Roots -> [Ids -> 0 .. MaxChunks]]
        /\ left' \subseteq Roots \X Ids
    BY <1>t, <2>1, StoreType
  <2>4. faults' \in 0 .. MaxFaults
    BY <2>1, FaultType DEF MayFail
  <2>5. QED
    BY <1>4, <2>2, <2>3, <2>4, ProbeUntouched DEF RemoveStream, TypeOK
<1>5. CASE Cancel(s)
  <2>1. stream' \in [Streams -> StreamRecords]
    BY <1>t, <1>5 DEF Cancel, StreamAt, StreamRecords, StreamStates
  <2>2. (UNCHANGED record \/ Saves(s, "cancelled")) /\ (Fault \/ NoFault)
    BY <1>5 DEF Cancel, Records
  <2>3. record' \in [Ids -> Phases] /\ faults' \in 0 .. MaxFaults
    BY <2>2, FaultType DEF Saves, TypeOK, Phases
  <2>4. QED
    BY <1>5, <2>1, <2>3, ProbeUntouched DEF Cancel, TypeOK
<1>6. QED
  BY <1>1, <1>2, <1>3, <1>4, <1>5 DEF StreamStep

\* A step of the environment, the maintenance of the store, or the probe.
LEMMA EnvironmentType ==
  ASSUME TypeOK, WritersWait, Environment
  PROVE  TypeOK'
<1>m. MaxRoots \in Nat \ {0} /\ MaxChunks \in Nat \ {0}
  BY ServerAssumption
<1> USE DEF store
<1>1. CASE CheckStorage
  <2>1. CASE Made(root) /\ UNCHANGED <<root, retired, made>>
    BY <1>1, <2>1, StoreType, ProbeUntouched DEF CheckStorage, TypeOK
  <2>2. CASE CanRepair /\ NewRoot
    BY <1>1, <2>2, StoreType, ProbeUntouched DEF CheckStorage, TypeOK
  <2>3. QED
    BY <1>1, <2>1, <2>2 DEF CheckStorage
<1>2. CASE RootLost
  <2>0. PICK d \in {root} \cup retired, how \in {"gone", "bad"} : Lost({d}, how)
    BY <1>2 DEF RootLost
  <2>1. PICK dirs : Lost(dirs, how)
    BY <2>0
  <2>2. QED
    BY <1>2, <2>1, StoreType, FaultType, ProbeUntouched DEF RootLost, TypeOK
<1>3. CASE Close
  <2>1. Lost({root} \cup retired, "gone")
    BY <1>3 DEF Close
  <2>2. stream' \in [Streams -> StreamRecords]
    <3>1. \A s \in Streams : stream[s] \in StreamRecords
      BY DEF TypeOK
    <3>2. \A s \in Streams : [stream[s] EXCEPT !.path = 0] \in StreamRecords
      BY <1>m, <3>1 DEF StreamRecords
    <3>3. QED
      BY <1>3, <3>2 DEF Close
  <2>3. QED
    BY <1>m, <1>3, <2>1, <2>2, StoreType, FaultType, ProbeUntouched
    DEF Close, TypeOK
<1>4. CASE Restart
  <2>1. stream' \in [Streams -> StreamRecords]
    <3>1. \A s \in Streams : stream[s] \in StreamRecords
      BY DEF TypeOK
    <3>2. \A s \in Streams :
            [stream[s] EXCEPT !.at = "done", !.path = 0] \in StreamRecords
      <4>1. "done" \in StreamStates /\ 0 \in 0 .. MaxRoots
        BY <1>m DEF StreamStates
      <4>2. QED
        BY <4>1, <3>1 DEF StreamRecords
    <3>3. QED
      BY <1>4, <3>1, <3>2 DEF Restart
  <2>2. upload' \in [Uploads -> UploadRecords]
    <3>1. \A u \in Uploads : upload[u] \in UploadRecords
      BY DEF TypeOK
    <3>2. \A u \in Uploads : [upload[u] EXCEPT !.at = "idle"] \in UploadRecords
      BY <3>1 DEF UploadRecords, UploadStates
    <3>3. QED
      BY <1>4, <3>2 DEF Restart
  <2>0. disk' \in [Roots -> {"ok", "gone", "bad"}]
    BY <1>4 DEF Restart, TypeOK
  <2>3. root' \in 0 .. MaxRoots /\ made' \in Roots
    <3>1. made \in Roots
      BY DEF TypeOK
    <3>2. made < MaxRoots /\ root' = made + 1 /\ made' = made + 1
      BY <1>4 DEF Restart
    <3>3. QED
      BY <1>m, <3>1, <3>2 DEF Roots
  <2>7. /\ retired' \subseteq Roots /\ temporary' \subseteq Uploads /\ active' \subseteq Ids
        /\ away' \subseteq Uploads \cup Streams
    BY <1>4 DEF Restart
  <2>4. ProbeTypeOK'
    BY <1>4 DEF Restart, RestoreProbe, TypeOK, ProbeTypeOK, ProberStates
  <2>5. faults' \in 0 .. MaxFaults
    BY <1>4, FaultType DEF Restart
  <2>6. QED
    BY <1>4, <2>0, <2>1, <2>2, <2>3, <2>4, <2>5, <2>7 DEF Restart, TypeOK
<1>5. CASE Disconnect
  BY <1>5, FaultType, ProbeUntouched DEF Disconnect, TypeOK
<1>6. CASE Probing
  <2>1. ProbeTypeOK' /\ faults' \in 0 .. MaxFaults
    BY <1>6, ProbeKeepsType, FaultType DEF Probing, TypeOK
  <2>2. QED
    BY <1>6, <2>1 DEF Probing, TypeOK, serverRest
<1>7. QED
  BY <1>1, <1>2, <1>3, <1>4, <1>5, <1>6 DEF Environment

LEMMA NextType ==
  ASSUME TypeOK, PlaceInv, WritersWait, [Next]_vars
  PROVE  TypeOK'
<1>1. CASE UNCHANGED vars
  BY <1>1, ProbeUntouched DEF vars, serverVars, TypeOK
<1>2. QED
  BY <1>1, UploadType, StreamType, EnvironmentType DEF Next

-----------------------------------------------------------------------------
\* Who holds which id, and where audio is.

\* A step of an upload that keeps its id, and leaves the store alone.
UploadGoesOn(u) ==
  /\ \E q : /\ UploadBecomes(u, q) /\ q.at \notin {"idle", "release"}
            /\ q.id = Id(u) /\ q.dir <= made
  /\ ~In(u, "idle")
  /\ UNCHANGED <<root, retired, made, audio, active, stream, left>>

LEMMA UploadQuiet ==
  ASSUME TypeOK, PlaceInv, NEW u \in Uploads,
         \/ PickDirectory(u) \/ CreateTemporary(u) \/ SavePersisted(u)
         \/ Reject(u) \/ ProviderFails(u) \/ ReportObserved(u) \/ Dispatch(u)
         \/ Run(u) \/ Fail(u) \/ Answer(u)
  PROVE  UploadGoesOn(u)
<1> DEFINE U == upload[u]
           Labels == {"create", "repair", "copy", "check", "run", "observed",
                      "fail", "answer", "remove"}
           Goes == \E q : /\ UploadBecomes(u, q) /\ q.at \notin {"idle", "release"}
                          /\ q.id = Id(u) /\ q.dir <= made
           Rests == UNCHANGED <<root, retired, made, audio, active, stream, left>>
<1>t. /\ upload \in [Uploads -> UploadRecords] /\ U \in UploadRecords
      /\ U.dir \in 0 .. MaxRoots /\ U.tries \in 1 .. MaxTries + 2 /\ U.dir <= made
      /\ Labels \subseteq UploadStates /\ root \in 0 .. MaxRoots /\ root <= made
  BY DEF TypeOK, UploadRecords, UploadStates, PlaceInv, RootsMade, Kept
<1>1. ASSUME NEW label \in Labels, NEW dir \in 0 .. MaxRoots,
             NEW tries \in 1 .. MaxTries + 2, dir <= made,
             \/ UploadAt(u, label) /\ dir = U.dir /\ tries = U.tries
             \/ /\ upload' = [upload EXCEPT ![u].at = label, ![u].dir = dir]
                /\ tries = U.tries
             \/ /\ upload' = [upload EXCEPT ![u].at = label, ![u].tries = tries]
                /\ dir = U.dir
      PROVE  Goes
  <2>1. label \in UploadStates
    BY <1>t
  <2>0. \/ UploadAt(u, label) /\ dir = upload[u].dir /\ tries = upload[u].tries
        \/ /\ upload' = [upload EXCEPT ![u].at = label, ![u].dir = dir]
           /\ tries = upload[u].tries
        \/ /\ upload' = [upload EXCEPT ![u].at = label, ![u].tries = tries]
           /\ dir = upload[u].dir
    BY <1>1
  <2> HIDE DEF U
  <2>2. PICK q : UploadBecomes(u, q) /\ q.at = label /\ q.id = upload[u].id
                 /\ q.dir = dir
    BY <1>t, <2>0, <2>1, UploadMoves
  <2>3. QED
    BY <1>1, <2>2 DEF Id
<1> HIDE DEF Goes
<1>2. ASSUME NEW label \in Labels, UploadAt(u, label)
      PROVE  Goes
  BY <1>t, <1>1, <1>2
<1> USE DEF storeRest, requestRest, store
<1>3. CASE PickDirectory(u)
  <2>1. Goes
    <3>1. CASE UploadAt(u, "remove")
      BY <1>2, <3>1
    <3>2. CASE upload' = [upload EXCEPT ![u].at = "create", ![u].dir = root]
      BY <1>1, <1>t, <3>2
    <3>3. QED
      BY <1>3, <3>1, <3>2 DEF PickDirectory
  <2>2. QED
    BY <1>3, <2>1 DEF PickDirectory, In, UploadGoesOn, Goes
<1>4. CASE CreateTemporary(u)
  <2>1. \E label \in Labels : UploadAt(u, label)
    BY <1>4 DEF CreateTemporary
  <2>2. QED
    BY <1>2, <1>4, <2>1 DEF CreateTemporary, In, UploadGoesOn, Goes
<1>5. CASE SavePersisted(u) \/ Fail(u) \/ Answer(u) \/ Reject(u) \/ ProviderFails(u)
  <2>1. \E label \in Labels : UploadAt(u, label)
    BY <1>5 DEF SavePersisted, Fail, Answer, Reject, ProviderFails
  <2>2. Goes
    BY <1>2, <2>1
  <2>3. ~In(u, "idle") /\ Rests
    BY <1>5 DEF SavePersisted, Fail, Answer, Reject, ProviderFails, In
  <2>4. QED
    BY <2>2, <2>3 DEF UploadGoesOn, Goes
<1>6. CASE ReportObserved(u)
  <2>1. CASE UNCHANGED upload
    <3>1. UploadBecomes(u, U) /\ U.at \notin {"idle", "release"}
      BY <1>6, <1>t, <2>1 DEF UploadBecomes, ReportObserved, In
    <3>2. QED
      BY <1>6, <1>t, <3>1 DEF UploadGoesOn, ReportObserved, In, Id
  <2>2. CASE UploadAt(u, "fail")
    BY <1>2, <1>6, <2>2 DEF ReportObserved, In, UploadGoesOn, Goes
  <2>3. QED
    BY <1>6, <2>1, <2>2 DEF ReportObserved
<1>7. CASE Dispatch(u)
  <2>1. PICK tries \in 1 .. MaxTries + 2 :
          upload' = [upload EXCEPT ![u].at = "run", ![u].tries = tries]
    <3>1. PICK tries \in 1 .. MaxTries + 2 : tries = 1
      BY ServerAssumption
    <3>2. QED
      BY <1>7, <3>1 DEF Dispatch
  <2>2. Goes
    BY <1>1, <1>t, <2>1
  <2>3. QED
    BY <1>7, <2>2 DEF Dispatch, In, UploadGoesOn, Goes
<1>8. CASE Run(u)
  <2>1. CASE UploadAt(u, "answer") \/ UploadAt(u, "fail")
    BY <1>2, <2>1, <1>8 DEF Run, In, UploadGoesOn, Goes
  <2>2. CASE U.tries < MaxTries /\ upload' = [upload EXCEPT ![u].tries = @ + 1]
    <3>1. PICK tries \in 1 .. MaxTries + 2 : tries = U.tries + 1
      BY <1>t, <2>2, ServerAssumption
    <3> DEFINE q == [U EXCEPT !.tries = tries]
    <3>2. /\ q \in UploadRecords /\ q.at = "run" /\ q.id = U.id /\ q.dir = U.dir
          /\ upload' = [upload EXCEPT ![u] = q]
      BY <1>8, <1>t, <2>2, <3>1 DEF UploadRecords, Run, In
    <3> HIDE DEF q
    <3>3. Goes
      BY <1>t, <3>2 DEF Goes, UploadBecomes, Id
    <3>4. QED
      BY <1>8, <3>3 DEF UploadGoesOn, Goes, Run, In
  <2>3. QED
    BY <1>8, <2>1, <2>2 DEF Run
<1>9. QED
  BY <1>3, <1>4, <1>5, <1>6, <1>7, <1>8

LEMMA UploadQuietPlace ==
  ASSUME TypeOK, PlaceInv, NEW u \in Uploads, UploadGoesOn(u)
  PROVE  PlaceInv'
<1>1. PICK q : /\ UploadBecomes(u, q) /\ q.at \notin {"idle", "release"}
               /\ q.id = Id(u) /\ q.dir <= made
  BY DEF UploadGoesOn
<1>2. /\ \A v \in Uploads : upload'[v] = IF v = u THEN q ELSE upload[v]
      /\ upload[u].at # "idle"
      /\ UNCHANGED <<root, retired, made, audio, active, stream, left>>
  BY <1>1 DEF UploadBecomes, UploadGoesOn, TypeOK, In
<1>3. UploadsHold' /\ UploadsDiffer'
  BY <1>1, <1>2 DEF PlaceInv, UploadsHold, UploadsDiffer, In, Id
<1>4. RootsMade'
  BY <1>1, <1>2 DEF PlaceInv, RootsMade, Kept
<1>5. Removed'
  BY <1>1, <1>2 DEF PlaceInv, Removed, Gone, In, On, Id, Kept
<1>6. StreamsHold' /\ AcceptedSomewhere' /\ StreamKeepsBytes' /\ NothingLeft'
  BY <1>2 DEF PlaceInv, StreamsHold, AcceptedSomewhere, StreamKeepsBytes,
     NothingLeft, Kept
<1>7. QED
  BY <1>3, <1>4, <1>5, <1>6 DEF PlaceInv

\* The store gets a directory, which is empty.
LEMMA NewRootPlace ==
  ASSUME TypeOK, PlaceInv, CanRepair, NewRoot, audio' = audio, active' = active,
         stream' = stream, left' = left,
         \A u \in Uploads :
           \/ upload'[u] = upload[u]
           \/ /\ In(u, "repair") /\ upload'[u].at \notin {"idle", "release"}
              /\ upload'[u].id = Id(u) /\ upload'[u].dir = upload[u].dir
  PROVE  PlaceInv'
<1>1. /\ root' = made + 1 /\ made' = made + 1 /\ retired' = retired \cup {root}
      /\ root # 0 /\ root <= made /\ made < MaxRoots
  BY DEF NewRoot, CanRepair, PlaceInv, RootsMade, Kept
<1>r. made \in Nat /\ root \in Nat /\ made + 1 \in Roots
  <2>1. made \in 1 .. MaxRoots /\ root \in 0 .. MaxRoots
    BY DEF TypeOK, Roots
  <2>2. QED
    BY <1>1, <2>1, ServerAssumption DEF Roots
<1>2. UploadsHold' /\ UploadsDiffer'
  BY DEF PlaceInv, UploadsHold, UploadsDiffer, In, Id
<1>3. RootsMade'
  <2>1. \A d \in Kept' : d \in Kept \/ d = made + 1
    BY <1>1, <1>r DEF Kept
  <2>2. \A d \in Kept' : d \in Int /\ d <= made'
    BY <1>1, <1>r, <2>1 DEF PlaceInv, RootsMade, Kept, TypeOK, Roots
  <2>3. 0 \notin retired'
    BY <1>1, <1>r DEF PlaceInv, RootsMade
  <2>4. \A u \in Uploads : upload'[u].dir <= made'
    <3>1. \A u \in Uploads : upload'[u].dir = upload[u].dir
      OBVIOUS
    <3>2. \A u \in Uploads : upload[u].dir \in Int /\ upload[u].dir <= made
      BY DEF TypeOK, UploadRecords, PlaceInv, RootsMade
    <3>3. QED
      BY <1>1, <1>r, <3>1, <3>2
  <2>5. \A s \in Streams : stream'[s].path <= made'
    BY <1>1, <1>r DEF PlaceInv, RootsMade, TypeOK, StreamRecords
  <2>6. \A d \in Roots, i \in Ids : d > made' => audio'[d][i] = 0
    BY <1>1, <1>r DEF PlaceInv, RootsMade, Roots
  <2>7. QED
    BY <2>2, <2>3, <2>4, <2>5, <2>6 DEF RootsMade
<1>4. Removed' /\ NothingLeft'
  <2>1. \A d \in Kept', i \in Ids : d \in Kept \/ audio[d][i] = 0
    BY <1>1, <1>r DEF Kept, PlaceInv, RootsMade, Roots
  <2>2. \A u \in Uploads : In(u, "release")' => In(u, "release") /\ Id(u)' = Id(u)
    BY DEF In, Id
  <2>3. \A u \in Uploads : In(u, "release") => Id(u) \in Ids
    BY DEF PlaceInv, UploadsHold, In, Ids
  <2>4. Removed'
    BY <2>1, <2>2, <2>3 DEF PlaceInv, Removed, Gone, On, Ids
  <2>5. NothingLeft'
    BY <2>1 DEF PlaceInv, NothingLeft, Kept
  <2>6. QED
    BY <2>4, <2>5
<1>5. StreamsHold' /\ AcceptedSomewhere' /\ StreamKeepsBytes'
  BY <1>1, <1>r DEF PlaceInv, StreamsHold, AcceptedSomewhere, StreamKeepsBytes
<1>6. QED
  BY <1>2, <1>3, <1>4, <1>5 DEF PlaceInv

\* What the store's operations do to the audio of each request.
LEMMA RemovesAudio ==
  ASSUME TypeOK, NEW i \in Ids, NEW failing \in SUBSET Roots, Removes(i, failing)
  PROVE  \A d \in Roots, j \in Ids :
           /\ audio'[d][j] =
                IF d \in Kept \ failing /\ j = i THEN 0 ELSE audio[d][j]
           /\ <<d, j>> \in left' <=> IF j = i THEN d \in failing ELSE <<d, j>> \in left
<1>1. \A d \in Roots : audio[d] \in [Ids -> 0 .. MaxChunks]
  BY DEF TypeOK
<1>2. \A d \in Roots : audio'[d] = IF d \in Kept \ failing
                                   THEN [audio[d] EXCEPT ![i] = 0] ELSE audio[d]
  BY DEF Removes, Emptied, Kept
<1>0. left' = (left \ (Roots \X {i})) \cup (failing \X {i})
  BY DEF Removes, Emptied
<1>3. TAKE d \in Roots, j \in Ids
<1>7. <<d, j>> \in left' <=> IF j = i THEN d \in failing ELSE <<d, j>> \in left
  BY <1>0
<1>4. CASE d \in Kept \ failing
  <2>1. audio'[d] = [audio[d] EXCEPT ![i] = 0]
    BY <1>2, <1>4
  <2>2. audio[d] \in [Ids -> 0 .. MaxChunks]
    BY <1>1
  <2>3. QED
    BY <1>4, <1>7, <2>1, <2>2
<1>5. CASE d \notin Kept \ failing
  BY <1>2, <1>5, <1>7
<1>6. QED
  BY <1>4, <1>5

Puts(b, i, n) == audio' = [audio EXCEPT ![b][i] = n]

LEMMA PutsAudio ==
  ASSUME TypeOK, NEW b \in Roots, NEW i \in Ids, NEW n, Puts(b, i, n)
  PROVE  \A d \in Roots, j \in Ids :
           audio'[d][j] = IF d = b /\ j = i THEN n ELSE audio[d][j]
<1>1. \A d \in Roots : audio[d] \in [Ids -> 0 .. MaxChunks]
  BY DEF TypeOK
<1>2. \A d \in Roots :
        audio'[d] = IF d = b THEN [audio[d] EXCEPT ![i] = n] ELSE audio[d]
  BY DEF TypeOK, Puts
<1>3. TAKE d \in Roots, j \in Ids
<1>4. CASE d = b
  <2>1. audio'[d] = [audio[d] EXCEPT ![i] = n]
    BY <1>2, <1>4
  <2>2. audio[d] \in [Ids -> 0 .. MaxChunks]
    BY <1>1
  <2>3. QED
    BY <1>4, <2>1, <2>2
<1>5. CASE d # b
  BY <1>2, <1>5
<1>6. QED
  BY <1>4, <1>5

LEMMA IdsDiffer == UploadIds \cap Streams = {} /\ Uploads \cap Streams = {}
BY ServerAssumption

LEMMA KeptAreRoots ==
  ASSUME TypeOK
  PROVE  \A d \in Kept : d # 0 => d \in Roots
BY ServerAssumption DEF TypeOK, Kept, Roots

\* A step that adds nothing to the audio of a stream keeps its bytes.
LEMMA BytesStay ==
  ASSUME TypeOK, PlaceInv,
         \A s \in Streams : /\ stream'[s].path \in {0, stream[s].path}
                           /\ stream'[s].accepted = stream[s].accepted,
         \A d \in Roots, s \in Streams : audio'[d][s] \in {0, audio[d][s]}
  PROVE  StreamKeepsBytes'
<1> SUFFICES ASSUME NEW s \in Streams, stream'[s].path # 0
             PROVE  LET d == stream'[s].path IN
                    audio'[d][s] = 0 \/ audio'[d][s] >= stream'[s].accepted
  BY DEF StreamKeepsBytes
<1>1. stream[s].path \in Roots /\ stream'[s].path = stream[s].path
  BY ServerAssumption DEF TypeOK, StreamRecords, Roots
<1>2. \/ audio[stream[s].path][s] = 0
      \/ audio[stream[s].path][s] >= stream[s].accepted
  BY <1>1 DEF PlaceInv, StreamKeepsBytes
<1>3. audio'[stream[s].path][s] \in {0, audio[stream[s].path][s]}
  BY <1>1
<1>4. QED
  BY <1>1, <1>2, <1>3

\* The steps of an upload that are not quiet.
LEMMA BeginPlace ==
  ASSUME TypeOK, PlaceInv, NEW u \in Uploads, NEW i \in UploadIds, Begin(u, i)
  PROVE  PlaceInv'
<1> DEFINE q == [at |-> "persist", id |-> i, dir |-> 0, tries |-> 1]
<1>1. /\ \A v \in Uploads : upload'[v] = IF v = u THEN q ELSE upload[v]
      /\ i \notin active /\ active' = active \cup {i} /\ made >= 0
      /\ UNCHANGED <<root, retired, made, audio, stream, left>>
  BY ServerAssumption DEF Begin, storeRest, requestRest, store, TypeOK, Roots
<1>2. UploadsHold' /\ UploadsDiffer'
  BY <1>1 DEF PlaceInv, UploadsHold, UploadsDiffer, In, Id
<1>3. RootsMade'
  BY <1>1 DEF PlaceInv, RootsMade, Kept
<1>4. Removed'
  BY <1>1 DEF PlaceInv, Removed, Gone, In, On, Id, Kept
<1>5. StreamsHold' /\ AcceptedSomewhere' /\ StreamKeepsBytes' /\ NothingLeft'
  BY <1>1 DEF PlaceInv, StreamsHold, AcceptedSomewhere, StreamKeepsBytes,
     NothingLeft, Kept
<1>6. QED
  BY <1>2, <1>3, <1>4, <1>5 DEF PlaceInv

LEMMA CopyPlace ==
  ASSUME TypeOK, PlaceInv, NEW u \in Uploads, Copy(u)
  PROVE  PlaceInv'
<1> DEFINE U == upload[u]
<1>t. /\ U \in UploadRecords /\ upload \in [Uploads -> UploadRecords]
      /\ U.dir \in 0 .. MaxRoots /\ U.dir <= made /\ In(u, "copy")
      /\ Id(u) \in UploadIds /\ Id(u) \in active /\ Id(u) \in Ids
      /\ {"save", "remove"} \subseteq UploadStates
  BY DEF TypeOK, UploadRecords, UploadStates, PlaceInv, RootsMade, UploadsHold,
     Copy, In, Ids
<1>1. UNCHANGED <<root, retired, made, active, stream, left>>
  BY DEF Copy, requestRest
<1>2. \E label \in {"save", "remove"} : UploadAt(u, label)
  BY DEF Copy
<1>3. PICK q : /\ UploadBecomes(u, q) /\ q.at \notin {"idle", "release"}
               /\ q.id = Id(u) /\ q.dir = U.dir
  BY <1>2, <1>t, UploadGoes DEF Id
<1>4. \A v \in Uploads : upload'[v] = IF v = u THEN q ELSE upload[v]
  BY <1>3, <1>t DEF UploadBecomes
<1>5. CASE audio' = audio
  <2>1. UploadGoesOn(u)
    BY <1>1, <1>3, <1>5, <1>t DEF UploadGoesOn, In
  <2>2. QED
    BY <2>1, UploadQuietPlace
<1>6. CASE U.dir \in Roots /\ audio' = [audio EXCEPT ![U.dir][Id(u)] = 1]
  <2>1. \A d \in Roots, j \in Ids :
          audio'[d][j] = IF d = U.dir /\ j = Id(u) THEN 1 ELSE audio[d][j]
    <3>1. Puts(U.dir, Id(u), 1)
      BY <1>6 DEF Puts
    <3>2. QED
      BY <1>6, <1>t, <3>1, PutsAudio
  <2>2. UploadsHold' /\ UploadsDiffer'
    BY <1>1, <1>3, <1>4, <1>t DEF PlaceInv, UploadsHold, UploadsDiffer, In, Id
  <2>3. RootsMade'
    <3>1. \A d \in Roots, i \in Ids : d > made' => audio'[d][i] = 0
      <4>1. \A d \in Roots, i \in Ids : d > made => audio[d][i] = 0 /\ d # U.dir
        BY <1>t, ServerAssumption DEF PlaceInv, RootsMade, TypeOK, Roots
      <4>2. QED
        BY <1>1, <2>1, <4>1
    <3>2. QED
      BY <1>1, <1>3, <1>4, <1>t, <3>1 DEF PlaceInv, RootsMade, Kept
  <2>4. Removed'
    <3>1. ASSUME NEW v \in Uploads, In(v, "release")'
          PROVE  v # u /\ In(v, "release") /\ Id(v)' = Id(v) /\ Id(v) # Id(u)
                 /\ Id(v) \in Ids
      BY <1>3, <1>4, <1>t, <3>1 DEF PlaceInv, UploadsDiffer, UploadsHold, In, Id, Ids
    <3>2. \A v \in Uploads, d \in Kept' :
            In(v, "release")' /\ d # 0 => Gone(d, Id(v))'
      BY <1>1, <2>1, <3>1, KeptAreRoots DEF PlaceInv, Removed, Gone, Kept
    <3>3. \A s \in Streams, d \in Kept' : On(s, "cancel")' /\ d # 0 => Gone(d, s)'
      BY <1>1, <1>t, <2>1, IdsDiffer, KeptAreRoots
      DEF PlaceInv, Removed, Gone, Kept, On, Ids
    <3>4. QED
      BY <3>2, <3>3 DEF Removed
  <2>5. NothingLeft'
    BY <1>1, <1>t, <2>1, KeptAreRoots DEF PlaceInv, NothingLeft, Kept
  <2>6. StreamKeepsBytes'
    <3>1. \A d \in Roots, s \in Streams : audio'[d][s] = audio[d][s]
      BY <1>t, <2>1, IdsDiffer DEF Ids
    <3>2. QED
      BY <1>1, <3>1, BytesStay
  <2>7. StreamsHold' /\ AcceptedSomewhere'
    BY <1>1 DEF PlaceInv, StreamsHold, AcceptedSomewhere
  <2>8. QED
    BY <2>2, <2>3, <2>4, <2>5, <2>6, <2>7 DEF PlaceInv
<1>7. QED
  <2>1. U.dir \in Roots \/ U.dir = 0
    BY <1>t DEF Roots
  <2>2. 0 \notin Roots
    BY DEF Roots
  <2>3. CASE audio' = [audio EXCEPT ![U.dir][Id(u)] = 1] /\ U.dir = 0
    <3>1. audio' = audio
      BY <2>2, <2>3 DEF TypeOK
    <3>2. QED
      BY <1>5, <3>1
  <2>4. QED
    BY <1>5, <1>6, <2>1, <2>3 DEF Copy

LEMMA RemoveUploadPlace ==
  ASSUME TypeOK, PlaceInv, NEW u \in Uploads, RemoveUpload(u)
  PROVE  PlaceInv'
<1> DEFINE U == upload[u]
<1>t. /\ upload \in [Uploads -> UploadRecords]
      /\ U.dir <= made /\ In(u, "remove")
      /\ Id(u) \in UploadIds /\ Id(u) \in active /\ Id(u) \in Ids
      /\ "release" \in UploadStates
  BY DEF TypeOK, UploadStates, PlaceInv, RootsMade, UploadsHold, RemoveUpload,
     In, Ids
<1>0. PICK failing \in SUBSET Roots : Removes(Id(u), failing)
  BY DEF RemoveUpload
<1>1. UNCHANGED <<root, retired, made, active, stream>>
  BY DEF RemoveUpload
<1>2. PICK q : /\ UploadBecomes(u, q) /\ q.at = "release"
               /\ q.id = Id(u) /\ q.dir = U.dir
  BY <1>t, UploadGoes DEF Id, RemoveUpload
<1>3. \A v \in Uploads : upload'[v] = IF v = u THEN q ELSE upload[v]
  BY <1>2, <1>t DEF UploadBecomes
<1>4. \A d \in Roots, j \in Ids :
        /\ audio'[d][j] = IF d \in Kept \ failing /\ j = Id(u) THEN 0 ELSE audio[d][j]
        /\ <<d, j>> \in left' <=> IF j = Id(u) THEN d \in failing ELSE <<d, j>> \in left
  BY <1>t, <1>0, RemovesAudio
<1>5. UploadsHold' /\ UploadsDiffer'
  BY <1>1, <1>2, <1>3, <1>t DEF PlaceInv, UploadsHold, UploadsDiffer, In, Id
<1>6. RootsMade'
  <2>1. \A d \in Roots, i \in Ids : d > made' => audio'[d][i] = 0
    BY <1>1, <1>4 DEF PlaceInv, RootsMade
  <2>2. QED
    BY <1>1, <1>2, <1>3, <1>t, <2>1 DEF PlaceInv, RootsMade, Kept
<1>7. Removed'
  <2>1. \A v \in Uploads : In(v, "release")' =>
          Id(v)' = Id(v) /\ Id(v) \in Ids /\ (v = u \/ In(v, "release"))
    BY <1>2, <1>3, <1>t DEF PlaceInv, UploadsHold, In, Id, Ids
  <2>2. \A v \in Uploads, d \in Kept' :
          In(v, "release")' /\ d # 0 => Gone(d, Id(v))'
    <3> SUFFICES ASSUME NEW v \in Uploads, NEW d \in Kept', In(v, "release")', d # 0
                 PROVE  Gone(d, Id(v))'
      OBVIOUS
    <3>1. /\ d \in Roots /\ d \in Kept
          /\ Id(v)' = Id(v) /\ Id(v) \in Ids /\ (v = u \/ In(v, "release"))
      BY <1>1, <2>1, KeptAreRoots DEF Kept
    <3>2. v = u \/ Gone(d, Id(v))
      BY <3>1 DEF PlaceInv, Removed
    <3>3. QED
      BY <1>4, <3>1, <3>2 DEF Gone
  <2>3. \A s \in Streams, d \in Kept' : On(s, "cancel")' /\ d # 0 => Gone(d, s)'
    BY <1>1, <1>4, <1>t, IdsDiffer, KeptAreRoots
    DEF PlaceInv, Removed, Gone, Kept, On, Ids
  <2>4. QED
    BY <2>2, <2>3 DEF Removed
<1>8. NothingLeft'
  BY <1>1, <1>4, KeptAreRoots DEF PlaceInv, NothingLeft, Kept
<1>9. StreamKeepsBytes'
  <2>1. \A d \in Roots, s \in Streams : audio'[d][s] = audio[d][s]
    BY <1>t, <1>4, IdsDiffer DEF Ids
  <2>2. QED
    BY <1>1, <2>1, BytesStay
<1>10. StreamsHold' /\ AcceptedSomewhere'
  BY <1>1 DEF PlaceInv, StreamsHold, AcceptedSomewhere
<1>11. QED
  BY <1>5, <1>6, <1>7, <1>8, <1>9, <1>10 DEF PlaceInv

LEMMA ReleasePlace ==
  ASSUME TypeOK, PlaceInv, NEW u \in Uploads, Release(u)
  PROVE  PlaceInv'
<1> DEFINE q == [at |-> "idle", id |-> None, dir |-> 0, tries |-> 1]
<1>1. /\ \A v \in Uploads : upload'[v] = IF v = u THEN q ELSE upload[v]
      /\ active' = active \ {Id(u)} /\ made >= 0
      /\ UNCHANGED <<root, retired, made, audio, stream, left>>
  BY ServerAssumption DEF Release, storeRest, requestRest, store, TypeOK, Roots
<1>2. Id(u) \in UploadIds /\ In(u, "release")
  BY DEF PlaceInv, UploadsHold, Release, In
<1>3. UploadsHold' /\ UploadsDiffer'
  BY <1>1, <1>2 DEF PlaceInv, UploadsHold, UploadsDiffer, In, Id
<1>4. RootsMade'
  BY <1>1 DEF PlaceInv, RootsMade, Kept
<1>5. Removed'
  BY <1>1 DEF PlaceInv, Removed, Gone, In, On, Id, Kept
<1>6. NothingLeft'
  BY <1>1, <1>2 DEF PlaceInv, NothingLeft, Removed, Gone, Kept
<1>7. StreamsHold'
  BY <1>1, <1>2, IdsDiffer DEF PlaceInv, StreamsHold
<1>8. AcceptedSomewhere' /\ StreamKeepsBytes'
  BY <1>1 DEF PlaceInv, AcceptedSomewhere, StreamKeepsBytes
<1>9. QED
  BY <1>3, <1>4, <1>5, <1>6, <1>7, <1>8 DEF PlaceInv

\* The steps of a stream.
LEMMA StreamQuietPlace ==
  ASSUME TypeOK, PlaceInv, NEW s \in Streams, StreamGoesOn(s)
  PROVE  PlaceInv'
<1>1. PICK q : /\ StreamBecomes(s, q) /\ q.at \notin {"new", "cancel", "done"}
               /\ q.path = stream[s].path /\ q.accepted = stream[s].accepted
  BY DEF StreamGoesOn
<1>2. /\ \A t \in Streams : stream'[t] = IF t = s THEN q ELSE stream[t]
      /\ stream[s].at \notin {"new", "cancel", "done"}
      /\ UNCHANGED <<root, retired, made, audio, active, upload, left>>
  BY <1>1 DEF StreamBecomes, StreamGoesOn, TypeOK, On, store, streamRest
<1>3. UploadsHold' /\ UploadsDiffer' /\ NothingLeft'
  BY <1>2 DEF PlaceInv, UploadsHold, UploadsDiffer, NothingLeft, Kept, In, Id
<1>4. StreamsHold' /\ AcceptedSomewhere' /\ StreamKeepsBytes'
  BY <1>1, <1>2 DEF PlaceInv, StreamsHold, AcceptedSomewhere, StreamKeepsBytes
<1>5. RootsMade'
  BY <1>1, <1>2 DEF PlaceInv, RootsMade, Kept
<1>6. Removed'
  BY <1>1, <1>2 DEF PlaceInv, Removed, Gone, On, In, Id, Kept
<1>7. QED
  BY <1>3, <1>4, <1>5, <1>6 DEF PlaceInv

LEMMA ConnectPlace ==
  ASSUME TypeOK, PlaceInv, NEW s \in Streams, Connect(s)
  PROVE  PlaceInv'
<1>1. PICK q : /\ StreamBecomes(s, q) /\ q.at = "open"
               /\ q.path = stream[s].path /\ q.accepted = stream[s].accepted
  <2>1. "open" \in StreamStates /\ stream[s].phase \in Phases
    BY DEF StreamStates, TypeOK, StreamRecords
  <2>2. QED
    BY <2>1, StreamMoves DEF TypeOK, Connect
<1>2. /\ \A t \in Streams : stream'[t] = IF t = s THEN q ELSE stream[t]
      /\ stream[s].at = "new" /\ active' = active \cup {s}
      /\ UNCHANGED <<root, retired, made, audio, upload, left>>
  BY <1>1 DEF StreamBecomes, Connect, TypeOK, On, store, streamRest
<1>3. UploadsHold' /\ UploadsDiffer' /\ NothingLeft'
  BY <1>2 DEF PlaceInv, UploadsHold, UploadsDiffer, NothingLeft, Kept, In, Id
<1>4. StreamsHold' /\ AcceptedSomewhere' /\ StreamKeepsBytes'
  BY <1>1, <1>2 DEF PlaceInv, StreamsHold, AcceptedSomewhere, StreamKeepsBytes
<1>5. RootsMade'
  BY <1>1, <1>2 DEF PlaceInv, RootsMade, Kept
<1>6. Removed'
  BY <1>1, <1>2 DEF PlaceInv, Removed, Gone, On, In, Id, Kept
<1>7. QED
  BY <1>3, <1>4, <1>5, <1>6 DEF PlaceInv

\* A chunk: the stream keeps the directory it went to, whether the write
\* succeeds or not.
LEMMA ChunkPlaced ==
  ASSUME TypeOK, PlaceInv, NEW s \in Streams, Append(s) \/ AppendFails(s)
  PROVE  PlaceInv'
<1> DEFINE d == AppendPath(s)
           n == audio[d][s] + 1
<1>1. ChunkGoes(s, d)
  BY ChunkPlace DEF Append, AppendFails
<1>m. /\ made \in Nat /\ root \in Nat /\ root <= made /\ root # 0 /\ s \in Ids
      /\ s \in active /\ d \in Roots /\ d \in Nat /\ stream[s].accepted \in Nat
      /\ audio[d][s] \in Nat /\ stream[s].accepted <= audio[d][s]
  <2>1. s \in Ids /\ s \in active /\ d \in Roots
    BY <1>1 DEF ChunkGoes, Ids, PlaceInv, StreamsHold, On
  <2>2. made \in 1 .. MaxRoots /\ root \in 0 .. MaxRoots /\ d \in 1 .. MaxRoots
    BY <2>1 DEF TypeOK, Roots
  <2>3. audio[d][s] \in 0 .. MaxChunks /\ stream[s].accepted \in 0 .. MaxChunks
    BY <2>1 DEF TypeOK, StreamRecords
  <2>4. root <= made /\ root # 0 /\ stream[s].accepted <= audio[d][s]
    BY <1>1 DEF ChunkGoes, PlaceInv, RootsMade, Kept
  <2> HIDE DEF d
  <2>5. QED
    BY <2>1, <2>2, <2>3, <2>4, ServerAssumption
<1>2. PICK q : /\ StreamBecomes(s, q) /\ q.at \in {"open", "appending"}
               /\ q.path = d /\ q.accepted \in Nat /\ q.accepted <= n
  <2>1. CASE Append(s)
    BY <2>1, <1>m, AppendBecomes
  <2>2. CASE AppendFails(s)
    <3> DEFINE q == [stream[s] EXCEPT !.path = d]
    <3>1. stream[s] \in StreamRecords /\ d \in 0 .. MaxRoots
      BY <1>m, ServerAssumption DEF TypeOK, Roots
    <3>2. /\ q \in StreamRecords /\ q.at = stream[s].at /\ q.path = d
          /\ q.accepted = stream[s].accepted
      <4> HIDE DEF d
      <4>1. QED
        BY <3>1 DEF StreamRecords
    <3>3. stream' = [stream EXCEPT ![s] = q]
      BY <2>2 DEF AppendFails, TypeOK
    <3>4. stream[s].at = "open"
      BY <1>1 DEF ChunkGoes, On
    <3> HIDE DEF q
    <3>5. StreamBecomes(s, q)
      BY <3>2, <3>3 DEF StreamBecomes
    <3>6. q.accepted \in Nat /\ q.accepted <= n
      <4> HIDE DEF d
      <4>1. QED
        BY <1>m, <3>2
    <3>7. QED
      BY <3>2, <3>4, <3>5, <3>6
  <2>3. QED
    BY <2>1, <2>2
<1>3. /\ \A t \in Streams : stream'[t] = IF t = s THEN q ELSE stream[t]
      /\ stream[s].at = "open"
      /\ UNCHANGED <<active, upload, left>>
  BY <1>1, <1>2 DEF StreamBecomes, ChunkGoes, Append, AppendFails, TypeOK, On, streamRest
<1>4. \A b \in Roots, j \in Ids :
        audio'[b][j] = IF b = d /\ j = s THEN n ELSE audio[b][j]
  <2>1. Puts(d, s, n)
    BY <1>1 DEF ChunkGoes, Puts
  <2>2. QED
    BY <1>m, <2>1, PutsAudio
<1>5. \/ d <= made /\ UNCHANGED <<root, retired, made>>
      \/ /\ d = made + 1 /\ root' = made + 1 /\ made' = made + 1
         /\ retired' = retired \cup {root}
  BY <1>1 DEF ChunkGoes, NewRoot
<1>6. /\ made <= made' /\ made' \in Nat /\ d <= made' /\ root' # 0
      /\ \A b \in Kept' : b \in Kept \/ (b = made + 1 /\ b \in Roots /\ b <= made')
  BY <1>m, <1>5 DEF Kept
<1>e. \A b \in Kept', j \in Ids :
        b # 0 => b \in Roots /\ (b \in Kept \/ audio[b][j] = 0)
  BY <1>m, <1>6, KeptAreRoots DEF PlaceInv, RootsMade, Roots
<1> HIDE DEF d, n
<1>7. UploadsHold' /\ UploadsDiffer'
  BY <1>3 DEF PlaceInv, UploadsHold, UploadsDiffer, In, Id
<1>8. StreamsHold' /\ AcceptedSomewhere'
  <2>1. d # 0
    BY <1>m DEF Roots
  <2>2. QED
    BY <1>2, <1>3, <1>m, <2>1 DEF PlaceInv, StreamsHold, AcceptedSomewhere
<1>9. StreamKeepsBytes'
  <2>1. \A t \in Streams : t # s /\ stream[t].path # 0 =>
          /\ stream[t].path \in Roots /\ t \in Ids
          /\ audio'[stream[t].path][t] = audio[stream[t].path][t]
    <3>1. \A t \in Streams : stream[t].path # 0 => stream[t].path \in Roots /\ t \in Ids
      BY ServerAssumption DEF TypeOK, StreamRecords, Roots, Ids
    <3>2. QED
      BY <1>4, <3>1
  <2>2. \A t \in Streams : t # s =>
          LET b == stream'[t].path IN
          b # 0 => audio'[b][t] = 0 \/ audio'[b][t] >= stream'[t].accepted
    BY <1>3, <2>1 DEF PlaceInv, StreamKeepsBytes
  <2>3. audio'[d][s] = n /\ n \in Nat
    BY <1>4, <1>m DEF n
  <2>4. QED
    BY <1>2, <1>3, <2>2, <2>3 DEF StreamKeepsBytes
<1>10. RootsMade'
  <2>1. \A b \in Kept' : b <= made'
    <3>1. \A b \in Kept : b \in Int /\ b <= made
      BY DEF PlaceInv, RootsMade, Kept, TypeOK, Roots
    <3>2. QED
      BY <1>m, <1>6, <3>1
  <2>2. 0 \notin retired'
    BY <1>m, <1>5 DEF PlaceInv, RootsMade
  <2>3. \A u \in Uploads : upload'[u].dir <= made'
    BY <1>m, <1>3, <1>6 DEF PlaceInv, RootsMade, TypeOK, UploadRecords
  <2>4. \A t \in Streams : stream'[t].path <= made'
    BY <1>m, <1>2, <1>3, <1>6 DEF PlaceInv, RootsMade, TypeOK, StreamRecords
  <2>5. \A b \in Roots, i \in Ids : b > made' => audio'[b][i] = 0
    BY <1>m, <1>4, <1>6 DEF PlaceInv, RootsMade, Roots
  <2>6. QED
    BY <2>1, <2>2, <2>3, <2>4, <2>5 DEF RootsMade
<1>11. Removed'
  <2>1. \A u \in Uploads : In(u, "release") => Id(u) \in UploadIds /\ Id(u) \in Ids
    BY DEF PlaceInv, UploadsHold, In, Ids
  <2>2. \A u \in Uploads, b \in Kept' :
          In(u, "release")' /\ b # 0 => Gone(b, Id(u))'
    BY <1>3, <1>4, <1>e, <2>1, IdsDiffer DEF PlaceInv, Removed, Gone, In, Id
  <2>3. \A t \in Streams, b \in Kept' : On(t, "cancel")' /\ b # 0 => Gone(b, t)'
    BY <1>2, <1>3, <1>4, <1>e DEF PlaceInv, Removed, Gone, On, Ids
  <2>4. QED
    BY <2>2, <2>3 DEF Removed
<1>12. NothingLeft'
  <2>1. SUFFICES ASSUME NEW b \in Kept', NEW j \in Ids, b # 0, audio'[b][j] > 0
                 PROVE  j \in active' \/ <<b, j>> \in left'
    BY DEF NothingLeft, Kept
  <2>2. CASE j = s
    BY <1>m, <1>3, <2>2
  <2>3. CASE j # s
    <3>1. audio'[b][j] = audio[b][j]
      BY <1>4, <1>e, <2>1, <2>3
    <3>2. b \in Kept
      BY <1>e, <2>1, <3>1
    <3>3. QED
      BY <1>3, <2>1, <3>1, <3>2 DEF PlaceInv, NothingLeft, Kept
  <2>4. QED
    BY <2>2, <2>3
<1>13. QED
  BY <1>7, <1>8, <1>9, <1>10, <1>11, <1>12 DEF PlaceInv

LEMMA RemoveStreamPlace ==
  ASSUME TypeOK, PlaceInv, NEW s \in Streams, RemoveStream(s)
  PROVE  PlaceInv'
<1>0. PICK failing \in SUBSET Roots :
        /\ Removes(s, failing)
        /\ stream' = [stream EXCEPT ![s].at = "cancel",
                                    ![s].path = IF failing = {} THEN 0 ELSE @]
  BY DEF RemoveStream
<1> DEFINE dir == IF failing = {} THEN 0 ELSE stream[s].path
           q == [stream[s] EXCEPT !.at = "cancel", !.path = dir]
<1>1. q.at = "cancel" /\ q.path \in {0, stream[s].path} /\ q.accepted = stream[s].accepted
  BY DEF TypeOK, StreamRecords
<1>2. \A t \in Streams : stream'[t] = IF t = s THEN q ELSE stream[t]
  BY <1>0 DEF TypeOK
<1> HIDE DEF q
<1>3. /\ UNCHANGED <<root, retired, made, active, upload>>
      /\ stream[s].at = "end" /\ s \in Ids /\ made >= 0
  BY ServerAssumption DEF RemoveStream, On, Ids, TypeOK, Roots
<1>4. \A d \in Roots, j \in Ids :
        /\ audio'[d][j] = IF d \in Kept \ failing /\ j = s THEN 0 ELSE audio[d][j]
        /\ <<d, j>> \in left' <=> IF j = s THEN d \in failing ELSE <<d, j>> \in left
  BY <1>0, <1>3, RemovesAudio
<1>5. UploadsHold' /\ UploadsDiffer'
  BY <1>3 DEF PlaceInv, UploadsHold, UploadsDiffer, In, Id
<1>6. StreamsHold' /\ AcceptedSomewhere'
  BY <1>1, <1>2, <1>3 DEF PlaceInv, StreamsHold, AcceptedSomewhere
<1>7. RootsMade'
  <2>1. \A d \in Roots, i \in Ids : d > made' => audio'[d][i] = 0
    BY <1>3, <1>4 DEF PlaceInv, RootsMade
  <2>2. QED
    BY <1>1, <1>2, <1>3, <2>1 DEF PlaceInv, RootsMade, Kept
<1>8. Removed'
  <2>1. \A u \in Uploads : In(u, "release") => Id(u) \in Ids /\ Id(u) # s
    BY IdsDiffer DEF PlaceInv, UploadsHold, In, Ids
  <2>2. \A u \in Uploads, d \in Kept' :
          In(u, "release")' /\ d # 0 => Gone(d, Id(u))'
    BY <1>3, <1>4, <2>1, KeptAreRoots DEF PlaceInv, Removed, Gone, Kept, In, Id
  <2>3. \A t \in Streams, d \in Kept' : On(t, "cancel")' /\ d # 0 => Gone(d, t)'
    <3> SUFFICES ASSUME NEW t \in Streams, NEW d \in Kept', On(t, "cancel")', d # 0
                 PROVE  Gone(d, t)'
      OBVIOUS
    <3>1. /\ d \in Roots /\ d \in Kept /\ t \in Ids
          /\ t = s \/ (stream[t].at = "cancel" /\ Gone(d, t))
      BY <1>2, <1>3, KeptAreRoots DEF PlaceInv, Removed, Kept, On, Ids
    <3>2. QED
      BY <1>4, <3>1 DEF Gone
  <2>4. QED
    BY <2>2, <2>3 DEF Removed
<1>9. NothingLeft'
  BY <1>3, <1>4, KeptAreRoots DEF PlaceInv, NothingLeft, Kept
<1>10. StreamKeepsBytes'
  <2>1. \A d \in Roots, t \in Streams : audio'[d][t] \in {0, audio[d][t]}
    BY <1>4 DEF Ids
  <2>2. \A t \in Streams : /\ stream'[t].path \in {0, stream[t].path}
                          /\ stream'[t].accepted = stream[t].accepted
    BY <1>1, <1>2
  <2>3. QED
    BY <2>1, <2>2, BytesStay
<1>11. QED
  BY <1>5, <1>6, <1>7, <1>8, <1>9, <1>10 DEF PlaceInv

LEMMA CancelPlace ==
  ASSUME TypeOK, PlaceInv, NEW s \in Streams, Cancel(s)
  PROVE  PlaceInv'
<1>1. PICK q : /\ StreamBecomes(s, q) /\ q.at = "done"
               /\ q.path = stream[s].path /\ q.accepted = stream[s].accepted
  <2>1. "done" \in StreamStates /\ stream[s].phase \in Phases
    BY DEF StreamStates, TypeOK, StreamRecords
  <2>2. QED
    BY <2>1, StreamMoves DEF TypeOK, Cancel
<1>2. /\ \A t \in Streams : stream'[t] = IF t = s THEN q ELSE stream[t]
      /\ stream[s].at = "cancel" /\ active' = active \ {s}
      /\ UNCHANGED <<root, retired, made, audio, upload, left>>
  BY <1>1 DEF StreamBecomes, Cancel, TypeOK, On, store, streamRest
<1>3. UploadsHold' /\ UploadsDiffer'
  BY <1>2, IdsDiffer DEF PlaceInv, UploadsHold, UploadsDiffer, In, Id
<1>4. StreamsHold' /\ AcceptedSomewhere' /\ StreamKeepsBytes'
  BY <1>1, <1>2 DEF PlaceInv, StreamsHold, AcceptedSomewhere, StreamKeepsBytes
<1>5. RootsMade'
  BY <1>1, <1>2 DEF PlaceInv, RootsMade, Kept
<1>6. Removed'
  BY <1>1, <1>2 DEF PlaceInv, Removed, Gone, On, In, Id, Kept
<1>7. NothingLeft'
  BY <1>2 DEF PlaceInv, NothingLeft, Removed, Gone, On, Kept
<1>8. QED
  BY <1>3, <1>4, <1>5, <1>6, <1>7 DEF PlaceInv

\* The steps of the environment.
LEMMA LostAudio ==
  ASSUME NEW dirs, NEW how, Lost(dirs, how)
  PROVE  \A d \in Roots, i \in Ids :
           audio'[d][i] = IF d \in dirs THEN 0 ELSE audio[d][i]
BY DEF Lost

LEMMA UntouchedPlace ==
  ASSUME PlaceInv,
         UNCHANGED <<root, retired, made, audio, active, upload, stream, left>>
  PROVE  PlaceInv'
BY DEF PlaceInv, UploadsHold, UploadsDiffer, StreamsHold, RootsMade,
   AcceptedSomewhere, Removed, Gone, StreamKeepsBytes, NothingLeft, Kept, In, On, Id

LEMMA RootLostPlace ==
  ASSUME TypeOK, PlaceInv, RootLost
  PROVE  PlaceInv'
<1>1. PICK dirs, how : Lost(dirs, how)
  BY DEF RootLost
<1>2. \A d \in Roots, i \in Ids :
        audio'[d][i] = IF d \in dirs THEN 0 ELSE audio[d][i]
  BY <1>1, LostAudio
<1>3. UNCHANGED <<root, retired, made, active, upload, stream, left>>
  BY DEF RootLost
<1>4. UploadsHold' /\ UploadsDiffer' /\ StreamsHold' /\ AcceptedSomewhere'
  BY <1>3 DEF PlaceInv, UploadsHold, UploadsDiffer, StreamsHold,
     AcceptedSomewhere, In, Id
<1>5. RootsMade'
  BY <1>2, <1>3 DEF PlaceInv, RootsMade, Kept
<1>6. Removed'
  <2>1. \A u \in Uploads : In(u, "release") => Id(u) \in Ids
    BY DEF PlaceInv, UploadsHold, In, Ids
  <2>2. \A u \in Uploads, d \in Kept' :
          In(u, "release")' /\ d # 0 => Gone(d, Id(u))'
    BY <1>2, <1>3, <2>1, KeptAreRoots DEF PlaceInv, Removed, Gone, Kept, In, Id
  <2>3. \A t \in Streams, d \in Kept' : On(t, "cancel")' /\ d # 0 => Gone(d, t)'
    BY <1>2, <1>3, KeptAreRoots DEF PlaceInv, Removed, Gone, Kept, On, Ids
  <2>4. QED
    BY <2>2, <2>3 DEF Removed
<1>7. NothingLeft'
  BY <1>2, <1>3, KeptAreRoots DEF PlaceInv, NothingLeft, Kept
<1>8. StreamKeepsBytes'
  <2>1. \A d \in Roots, t \in Streams : audio'[d][t] \in {0, audio[d][t]}
    BY <1>2 DEF Ids
  <2>2. QED
    BY <1>3, <2>1, BytesStay
<1>9. QED
  BY <1>4, <1>5, <1>6, <1>7, <1>8 DEF PlaceInv

LEMMA ClosePlace ==
  ASSUME TypeOK, PlaceInv, Close
  PROVE  PlaceInv'
<1>1. \A d \in Roots, i \in Ids :
        audio'[d][i] = IF d \in Kept THEN 0 ELSE audio[d][i]
  BY LostAudio DEF Close, Kept
<1>2. /\ root' = 0 /\ retired' = {} /\ made' = made /\ made >= 0
      /\ UNCHANGED <<active, upload>> /\ Kept' = {0}
  BY ServerAssumption DEF Close, Kept, TypeOK, Roots
<1>3. \A s \in Streams : /\ stream'[s].at = stream[s].at
                         /\ stream'[s].accepted = stream[s].accepted
                         /\ stream'[s].path = 0
  BY DEF Close, TypeOK, StreamRecords
<1>4. UploadsHold' /\ UploadsDiffer'
  BY <1>2 DEF PlaceInv, UploadsHold, UploadsDiffer, In, Id
<1>5. StreamsHold' /\ AcceptedSomewhere' /\ StreamKeepsBytes'
  BY <1>2, <1>3 DEF PlaceInv, StreamsHold, AcceptedSomewhere, StreamKeepsBytes
<1>6. RootsMade'
  BY <1>1, <1>2, <1>3 DEF PlaceInv, RootsMade
<1>7. Removed' /\ NothingLeft'
  BY <1>2 DEF Removed, NothingLeft, Kept
<1>8. QED
  BY <1>4, <1>5, <1>6, <1>7 DEF PlaceInv

LEMMA RestartPlace ==
  ASSUME TypeOK, PlaceInv, Restart
  PROVE  PlaceInv'
<1>1. /\ root' = made + 1 /\ made' = made + 1 /\ retired' = {} /\ active' = {}
      /\ made < MaxRoots /\ Kept' = {made + 1} /\ UNCHANGED audio
  BY DEF Restart, Kept
<1>m. made \in Nat /\ made + 1 \in Roots
  <2>1. made \in 1 .. MaxRoots
    BY DEF TypeOK, Roots
  <2>2. QED
    BY <1>1, <2>1, ServerAssumption DEF Roots
<1>2. \A u \in Uploads : upload'[u].at = "idle" /\ upload'[u].dir = upload[u].dir
  BY DEF Restart, TypeOK, UploadRecords
<1>3. \A s \in Streams :
        /\ stream'[s].accepted = stream[s].accepted
        /\ \/ stream'[s].at = "done" /\ stream'[s].path = 0
           \/ stream[s].at = "new" /\ stream'[s] = stream[s]
  BY DEF Restart, TypeOK, StreamRecords
<1>4. UploadsHold' /\ UploadsDiffer'
  BY <1>2 DEF UploadsHold, UploadsDiffer, In
<1>5. StreamsHold' /\ AcceptedSomewhere' /\ StreamKeepsBytes'
  BY <1>3 DEF PlaceInv, StreamsHold, AcceptedSomewhere, StreamKeepsBytes
<1>6. RootsMade'
  <2>1. \A u \in Uploads : upload'[u].dir <= made'
    BY <1>1, <1>m, <1>2 DEF PlaceInv, RootsMade, TypeOK, UploadRecords
  <2>2. \A s \in Streams : stream'[s].path <= made'
    BY <1>1, <1>m, <1>3 DEF PlaceInv, AcceptedSomewhere
  <2>3. \A d \in Roots, i \in Ids : d > made' => audio'[d][i] = 0
    BY <1>1, <1>m DEF PlaceInv, RootsMade, Roots
  <2>4. QED
    BY <1>1, <1>m, <2>1, <2>2, <2>3 DEF RootsMade
<1>7. Removed' /\ NothingLeft'
  <2>1. \A i \in Ids : audio'[made + 1][i] = 0
    BY <1>1, <1>m DEF PlaceInv, RootsMade
  <2>2. Removed'
    BY <1>2, <1>3 DEF Removed, In, On
  <2>3. NothingLeft'
    BY <1>1, <2>1 DEF NothingLeft
  <2>4. QED
    BY <2>2, <2>3
<1>8. QED
  BY <1>4, <1>5, <1>6, <1>7 DEF PlaceInv

LEMMA NextPlace ==
  ASSUME TypeOK, PlaceInv, [Next]_vars
  PROVE  PlaceInv'
<1>1. ASSUME NEW u \in Uploads, UploadStep(u)
      PROVE  PlaceInv'
  <2>1. CASE \E i \in UploadIds : Begin(u, i)
    BY <2>1, BeginPlace
  <2>2. CASE RepairRoot(u)
    <3> DEFINE U == upload[u]
    <3>t. /\ upload \in [Uploads -> UploadRecords] /\ U.dir <= made
          /\ U.dir \in 0 .. MaxRoots /\ In(u, "repair")
          /\ {"persist", "remove"} \subseteq UploadStates
      BY <2>2 DEF TypeOK, UploadStates, UploadRecords, PlaceInv, RootsMade, RepairRoot
    <3>1. CASE CanRepair
      <4>1. PICK tries \in 1 .. MaxTries + 2 : tries = 2
        BY ServerAssumption
      <4>2. PICK q : /\ UploadBecomes(u, q) /\ q.at = "persist" /\ q.id = U.id
                     /\ q.dir = U.dir
        BY <2>2, <3>t, <3>1, <4>1, UploadMoves DEF RepairRoot
      <4>3. QED
        BY <2>2, <3>t, <3>1, <4>2, NewRootPlace
        DEF RepairRoot, UploadBecomes, Id, requestRest
    <3>2. CASE ~CanRepair
      <4>1. PICK q : /\ UploadBecomes(u, q) /\ q.at = "remove" /\ q.id = U.id
                     /\ q.dir = U.dir
        BY <2>2, <3>t, <3>2, UploadGoes DEF RepairRoot
      <4>2. UploadGoesOn(u)
        BY <2>2, <3>t, <3>2, <4>1 DEF RepairRoot, UploadGoesOn, In, Id, requestRest
      <4>3. QED
        BY <4>2, UploadQuietPlace
    <3>3. QED
      BY <3>1, <3>2
  <2>3. CASE Copy(u) \/ RemoveUpload(u) \/ Release(u)
    BY <2>3, CopyPlace, RemoveUploadPlace, ReleasePlace
  <2>4. CASE \/ PickDirectory(u) \/ CreateTemporary(u) \/ SavePersisted(u)
             \/ Reject(u) \/ ProviderFails(u) \/ ReportObserved(u) \/ Dispatch(u)
             \/ Run(u) \/ Fail(u) \/ Answer(u)
    BY <2>4, UploadQuiet, UploadQuietPlace
  <2>5. QED
    BY <1>1, <2>1, <2>2, <2>3, <2>4 DEF UploadStep
<1>2. ASSUME NEW s \in Streams, StreamStep(s)
      PROVE  PlaceInv'
  <2>1. CASE Append(s) \/ AppendFails(s)
    BY <2>1, ChunkPlaced
  <2>2. CASE Connect(s) \/ RemoveStream(s) \/ Cancel(s)
    BY <2>2, ConnectPlace, RemoveStreamPlace, CancelPlace
  <2>3. CASE \/ Initialize(s) \/ Sent(s) \/ Commit(s) \/ CommitRefused(s)
             \/ ProviderCommits(s) \/ FailCommit(s) \/ Complete(s) \/ StreamCloses(s)
             \/ \E e \in Events : Send(s, e)
    BY <2>3, StreamQuiet, StreamQuietPlace
  <2>4. QED
    BY <1>2, <2>1, <2>2, <2>3 DEF StreamStep
<1>3. CASE Environment
  <2>1. CASE CheckStorage
    <3>1. CASE CanRepair /\ NewRoot
      BY <2>1, <3>1, NewRootPlace DEF CheckStorage
    <3>2. CASE UNCHANGED <<root, retired, made>>
      BY <2>1, <3>2, UntouchedPlace DEF CheckStorage
    <3>3. QED
      BY <2>1, <3>1, <3>2 DEF CheckStorage
  <2>2. CASE RootLost \/ Close \/ Restart
    BY <2>2, RootLostPlace, ClosePlace, RestartPlace
  <2>3. CASE Disconnect \/ Probing
    BY <2>3, UntouchedPlace DEF Disconnect, Probing, serverRest, store
  <2>4. QED
    BY <1>3, <2>1, <2>2, <2>3 DEF Environment
<1>4. CASE UNCHANGED vars
  BY <1>4, UntouchedPlace DEF vars, serverVars
<1>5. QED
  BY <1>1, <1>2, <1>3, <1>4 DEF Next

-----------------------------------------------------------------------------
\* Who saves the health.

\* The steps of an upload that do not report anything.
Reports(u) == ProviderFails(u) \/ ReportObserved(u)

LEMMA UploadReportsNothing ==
  ASSUME TypeOK, NEW u \in Uploads, UploadStep(u), ~Reports(u)
  PROVE  /\ UNCHANGED probeVars
         /\ \A v \in Uploads : In(v, "observed")' <=> In(v, "observed")
<1>t. upload \in [Uploads -> UploadRecords] /\ upload[u] \in UploadRecords
  BY DEF TypeOK
<1>l. \A label : UploadAt(u, label) /\ label # "observed" /\ ~In(u, "observed") =>
        \A v \in Uploads : In(v, "observed")' <=> In(v, "observed")
  BY <1>t DEF UploadAt, In, UploadRecords
<1>q. \A q : upload' = [upload EXCEPT ![u] = q] /\ q.at # "observed"
               /\ ~In(u, "observed") =>
        \A v \in Uploads : In(v, "observed")' <=> In(v, "observed")
  BY <1>t DEF In
<1>1. CASE \E i \in UploadIds : Begin(u, i)
  <2>1. PICK i \in UploadIds : Begin(u, i)
    BY <1>1
  <2> DEFINE q == [at |-> "persist", id |-> i, dir |-> 0, tries |-> 1]
  <2>2. q.at # "observed" /\ upload' = [upload EXCEPT ![u] = q]
    BY <2>1 DEF Begin
  <2> HIDE DEF q
  <2>3. QED
    BY <1>q, <2>1, <2>2 DEF Begin, In
<1>2. CASE Release(u)
  <2> DEFINE q == [at |-> "idle", id |-> None, dir |-> 0, tries |-> 1]
  <2>2. q.at # "observed" /\ upload' = [upload EXCEPT ![u] = q]
    BY <1>2 DEF Release
  <2> HIDE DEF q
  <2>3. QED
    BY <1>q, <1>2, <2>2 DEF Release, In
<1>3. CASE \/ CreateTemporary(u) \/ Copy(u) \/ SavePersisted(u) \/ Reject(u)
           \/ Fail(u) \/ Answer(u) \/ RemoveUpload(u)
  <2>1. \E label \in {"copy", "repair", "remove", "save", "check", "fail",
                      "release"} : UploadAt(u, label)
    BY <1>3 DEF CreateTemporary, Copy, SavePersisted, Reject, Fail, Answer,
       RemoveUpload
  <2>2. ~In(u, "observed") /\ UNCHANGED probeVars
    BY <1>3 DEF CreateTemporary, Copy, SavePersisted, Reject, Fail, Answer,
       RemoveUpload, In
  <2>3. QED
    BY <1>l, <2>1, <2>2
<1>4. CASE PickDirectory(u)
  <2>1. \/ UploadAt(u, "remove")
        \/ upload' = [upload EXCEPT ![u].at = "create", ![u].dir = root]
    BY <1>4 DEF PickDirectory
  <2>2. ~In(u, "observed") /\ UNCHANGED probeVars
    BY <1>4 DEF PickDirectory, In
  <2>3. QED
    BY <1>t, <1>l, <2>1, <2>2 DEF In, UploadRecords
<1>5. CASE RepairRoot(u)
  <2>1. \/ UploadAt(u, "remove")
        \/ upload' = [upload EXCEPT ![u].at = "persist", ![u].tries = 2]
    BY <1>5 DEF RepairRoot
  <2>2. ~In(u, "observed") /\ UNCHANGED probeVars
    BY <1>5 DEF RepairRoot, In
  <2>3. QED
    BY <1>t, <1>l, <2>1, <2>2 DEF In, UploadRecords
<1>6. CASE Dispatch(u)
  <2>1. upload' = [upload EXCEPT ![u].at = "run", ![u].tries = 1]
    BY <1>6 DEF Dispatch
  <2>2. ~In(u, "observed") /\ UNCHANGED probeVars
    BY <1>6 DEF Dispatch, In
  <2>3. QED
    BY <1>t, <2>1, <2>2 DEF In, UploadRecords
<1>7. CASE Run(u)
  <2>1. \/ UploadAt(u, "answer") \/ UploadAt(u, "fail")
        \/ upload' = [upload EXCEPT ![u].tries = @ + 1]
    BY <1>7 DEF Run
  <2>2. ~In(u, "observed") /\ UNCHANGED probeVars
    BY <1>7 DEF Run, In
  <2>3. QED
    BY <1>t, <1>l, <2>1, <2>2 DEF In, UploadRecords
<1>8. QED
  BY <1>1, <1>2, <1>3, <1>4, <1>5, <1>6, <1>7 DEF UploadStep, Reports

\* Every other step that leaves the health alone.
LEMMA OthersReportNothing ==
  ASSUME TypeOK,
         \/ \E s \in Streams : StreamStep(s)
         \/ CheckStorage \/ RootLost \/ Close \/ Disconnect
         \/ UNCHANGED vars
  PROVE  UNCHANGED <<upload, probeVars>>
<1>1. ASSUME NEW s \in Streams, StreamStep(s)
      PROVE  UNCHANGED <<upload, probeVars>>
  BY <1>1 DEF StreamStep, Connect, Initialize, Append, AppendFails, Send, Sent,
     Commit, CommitRefused, ProviderCommits, FailCommit, Complete, StreamCloses,
     RemoveStream, Cancel, streamRest
<1>2. QED
  BY <1>1 DEF CheckStorage, RootLost, Close, Disconnect, vars, serverVars

LEMMA ProberIsNoUpload == Prober \notin Uploads
BY ServerAssumption, ProbeAssumption

LEMMA NextWriters ==
  ASSUME TypeOK, WritersWait, [Next]_vars
  PROVE  WritersWait'
<1>1. ASSUME UNCHANGED probeVars,
             \A v \in Uploads : In(v, "observed")' <=> In(v, "observed")
      PROVE  WritersWait'
  BY <1>1 DEF WritersWait, probeVars
<1>2. ASSUME NEW u \in Uploads, UploadStep(u)
      PROVE  WritersWait'
  <2>1. CASE ~Reports(u)
    BY <1>1, <1>2, <2>1, UploadReportsNothing
  <2>2. CASE ProviderFails(u)
    <3>1. UNCHANGED <<writers, probe>> /\ UploadAt(u, "observed")
      BY <2>2 DEF ProviderFails, ObserveFailure
    <3>2. \A v \in Uploads : In(v, "observed") => In(v, "observed")'
      BY <3>1 DEF UploadAt, In, TypeOK, UploadRecords
    <3>3. QED
      BY <3>1, <3>2 DEF WritersWait
  <2>3. CASE ReportObserved(u)
    <3>1. CASE ReporterBeginsSave(u) /\ UNCHANGED upload
      <4>1. writers' = {[by |-> u, copy |-> health]} /\ In(u, "observed")'
        BY <2>3, <3>1 DEF ReporterBeginsSave, BeginSave, ReportObserved, In
      <4>2. QED
        BY <4>1, ProberIsNoUpload DEF WritersWait
    <3>2. CASE \E ok \in BOOLEAN : ReporterEndsSave(u, ok)
      <4>1. writers' = {}
        BY <3>2 DEF ReporterEndsSave, EndSave, WritersWait
      <4>2. QED
        BY <4>1 DEF WritersWait
    <3>3. QED
      BY <2>3, <3>1, <3>2 DEF ReportObserved
  <2>4. QED
    BY <2>1, <2>2, <2>3 DEF Reports
<1>3. CASE Probing
  <2>0. (ProbeStep \/ ProbeEndsSave(FALSE)) /\ UNCHANGED upload
    BY <1>3 DEF Probing, serverRest
  <2>1. CASE \E ok \in BOOLEAN : ProbeEndsSave(ok)
    <3>1. writers' = {}
      BY <2>1 DEF ProbeEndsSave, EndSave, WritersWait
    <3>2. QED
      BY <3>1 DEF WritersWait
  <2>2. CASE ProbeBeginsSave
    <3>1. writers' = {[by |-> Prober, copy |-> health]} /\ probe' \in DOMAIN AfterSave
      BY <2>2 DEF ProbeBeginsSave, BeginSave
    <3>2. QED
      BY <3>1 DEF WritersWait
  <2>3. CASE ProbeBegins \/ ProbeAttempts \/ ProbeFails \/ ProbeSucceeds
    <3>1. UNCHANGED writers /\ probe \notin DOMAIN AfterSave
      BY <2>3 DEF ProbeBegins, ProbeAttempts, ProbeFails, ProbeSucceeds, AfterSave
    <3>2. QED
      BY <2>0, <3>1 DEF WritersWait, In
  <2>4. QED
    BY <2>0, <2>1, <2>2, <2>3 DEF ProbeStep
<1>4. CASE Restart
  BY <1>4 DEF Restart, RestoreProbe, WritersWait
<1>5. CASE \/ \E s \in Streams : StreamStep(s)
           \/ CheckStorage \/ RootLost \/ Close \/ Disconnect
           \/ UNCHANGED vars
  <2>1. UNCHANGED <<upload, probeVars>>
    BY <1>5, OthersReportNothing
  <2>2. QED
    BY <1>1, <2>1 DEF In
<1>6. QED
  BY <1>2, <1>3, <1>4, <1>5 DEF Next, Environment

-----------------------------------------------------------------------------
\* Initially.
LEMMA InitInv == Init => ServerInv
<1> SUFFICES ASSUME Init
             PROVE  ServerInv
  OBVIOUS
<1>m. /\ MaxRoots \in Nat \ {0} /\ MaxTries \in Nat \ {0} /\ MaxChunks \in Nat \ {0}
      /\ MaxEvents \in Nat /\ MaxFaults \in Nat
  BY ServerAssumption
<1>1. TypeOK
  <2>1. ProbeTypeOK
    BY DEF Init, ProbeInit, ProbeTypeOK, Unknown, Healths, ProberStates
  <2>2. root \in 0 .. MaxRoots /\ retired \subseteq Roots /\ made \in Roots
    BY <1>m DEF Init, Roots
  <2>3. disk \in [Roots -> {"ok", "gone", "bad"}]
    BY DEF Init
  <2>4. audio \in [Roots -> [Ids -> 0 .. MaxChunks]]
    BY <1>m DEF Init
  <2>5. record \in [Ids -> Phases] /\ temporary \subseteq Uploads /\ active \subseteq Ids
    BY DEF Init, Phases
  <2>6. upload \in [Uploads -> UploadRecords]
    BY <1>m DEF Init, UploadRecords, UploadStates
  <2>7. stream \in [Streams -> StreamRecords]
    BY <1>m, NewSessionType DEF Init, StreamRecords, StreamStates, Phases
  <2>8. away \subseteq Uploads \cup Streams /\ faults \in 0 .. MaxFaults /\ mix \in Mixes
        /\ left \subseteq Roots \X Ids
    BY <1>m DEF Init
  <2>9. QED
    BY <2>1, <2>2, <2>3, <2>4, <2>5, <2>6, <2>7, <2>8 DEF TypeOK
<1>2. /\ \A u \in Uploads : upload[u].at = "idle" /\ upload[u].dir = 0
      /\ \A s \in Streams : /\ stream[s].at = "new" /\ stream[s].path = 0
                            /\ stream[s].accepted = 0
      /\ \A d \in Roots, i \in Ids : audio[d][i] = 0
      /\ Kept = {1} /\ retired = {} /\ made = 1 /\ 1 \in Roots
  BY <1>m DEF Init, Kept, Roots
<1>3. PlaceInv
  <2>1. UploadsHold /\ UploadsDiffer /\ StreamsHold /\ AcceptedSomewhere
    BY <1>2 DEF UploadsHold, UploadsDiffer, StreamsHold, AcceptedSomewhere, In
  <2>2. RootsMade
    BY <1>2 DEF RootsMade
  <2>3. Removed /\ StreamKeepsBytes /\ NothingLeft
    BY <1>2 DEF Removed, Gone, StreamKeepsBytes, NothingLeft, Kept, In, On
  <2>4. QED
    BY <2>1, <2>2, <2>3 DEF PlaceInv
<1>4. WritersWait
  BY DEF Init, ProbeInit, WritersWait
<1>5. QED
  BY <1>1, <1>3, <1>4 DEF ServerInv

\* The invariant holds in every reachable state.
LEMMA ServerInvariant == Spec => []ServerInv
<1>1. ServerInv /\ [Next]_vars => ServerInv'
  BY NextType, NextPlace, NextWriters DEF ServerInv
<1>2. QED
  BY InitInv, <1>1, PTL DEF Spec

\* Type correctness of the store, the handlers and the health, for any number
\* of uploads, streams and directories.
THEOREM TypeCorrect == Spec => []TypeOK
<1>1. ServerInv => TypeOK
  BY DEF ServerInv
<1>2. QED
  BY ServerInvariant, <1>1, PTL

\* The file of a stream has every chunk that was accepted, or is gone: a chunk
\* goes to the directory the stream has, and only if the earlier ones are there
\* (AppendAudio).
THEOREM ChunksKept == Spec => []StreamKeepsBytes
<1>1. ServerInv => StreamKeepsBytes
  BY DEF ServerInv, PlaceInv
<1>2. QED
  BY ServerInvariant, <1>1, PTL

\* No audio of a request that has ended is in a directory of the store, but what
\* its removal failed to take (RemoveAudio, before the id is given up).
THEOREM AudioRemoved == Spec => []NothingLeft
<1>1. ServerInv => NothingLeft
  BY DEF ServerInv, PlaceInv
<1>2. QED
  BY ServerInvariant, <1>1, PTL

-----------------------------------------------------------------------------
\* The health in the file.

\* Whoever else is about to save: who only waits for its own save.
SomeoneElseSaves(who) ==
  \/ who # Prober /\ probe \in {"attempting", "result"}
  \/ \E u \in Uploads \ {who} : In(u, "observed")

\* A copy that is being written is the health, or someone writes again.
CopiesCurrent ==
  \A w \in writers : w.copy = health \/ SomeoneElseSaves(w.by)

HealthInv == ServerInv /\ CopiesCurrent /\ SavedCurrent

LEMMA NextHealth ==
  ASSUME HealthInv, [Next]_vars
  PROVE  CopiesCurrent' /\ SavedCurrent'
<1>t. TypeOK /\ WritersWait /\ CopiesCurrent /\ SavedCurrent
  BY DEF HealthInv, ServerInv
<1>1. ASSUME UNCHANGED probeVars,
             \A v \in Uploads : In(v, "observed")' <=> In(v, "observed")
      PROVE  CopiesCurrent' /\ SavedCurrent'
  BY <1>1, <1>t DEF CopiesCurrent, SavedCurrent, SomeoneElseSaves, probeVars
<1>2. ASSUME NEW u \in Uploads, UploadStep(u)
      PROVE  CopiesCurrent' /\ SavedCurrent'
  <2>1. CASE ~Reports(u)
    BY <1>1, <1>2, <1>t, <2>1, UploadReportsNothing
  <2>2. CASE ProviderFails(u)
    <3>1. /\ UNCHANGED <<writers, probe, saved, behind>> /\ UploadAt(u, "observed")
          /\ ~In(u, "observed")
      BY <2>2 DEF ProviderFails, ObserveFailure, In
    <3>2. In(u, "observed")'
      BY <1>t, <3>1 DEF UploadAt, In, TypeOK, UploadRecords
    <3>3. \A w \in writers : w.by # u
      BY <1>t, <3>1, ProberIsNoUpload DEF WritersWait
    <3>4. CopiesCurrent'
      BY <3>1, <3>2, <3>3 DEF CopiesCurrent, SomeoneElseSaves
    <3>5. SavedCurrent'
      BY <3>2 DEF SavedCurrent
    <3>6. QED
      BY <3>4, <3>5
  <2>3. CASE ReportObserved(u)
    <3>0. In(u, "observed")
      BY <2>3 DEF ReportObserved
    <3>1. CASE ReporterBeginsSave(u) /\ UNCHANGED upload
      <4>1. /\ writers' = {[by |-> u, copy |-> health]}
            /\ UNCHANGED <<health, saved, probe, behind>>
        BY <3>1 DEF ReporterBeginsSave, BeginSave
      <4>2. CopiesCurrent'
        BY <4>1 DEF CopiesCurrent
      <4>3. SavedCurrent'
        BY <4>1 DEF SavedCurrent
      <4>4. QED
        BY <4>2, <4>3
    <3>2. ASSUME NEW ok \in BOOLEAN, ReporterEndsSave(u, ok), UploadAt(u, "fail")
          PROVE  CopiesCurrent' /\ SavedCurrent'
      <4>1. PICK w \in writers : w.by = u /\ EndSave(w, ok)
        BY <3>2 DEF ReporterEndsSave
      <4>2. /\ writers' = {} /\ UNCHANGED <<health, probe>>
            /\ behind' \/ saved' = w.copy
        BY <1>t, <3>2, <4>1 DEF ReporterEndsSave, EndSave, WritersWait
      <4>3. \A v \in Uploads : v # u => (In(v, "observed")' <=> In(v, "observed"))
        BY <1>t, <3>2 DEF UploadAt, In, TypeOK
      <4>4. CopiesCurrent'
        BY <4>2 DEF CopiesCurrent
      <4>5. w.copy = health \/ SomeoneElseSaves(u)
        BY <1>t, <4>1 DEF CopiesCurrent
      <4>6. SavedCurrent'
        BY <4>2, <4>3, <4>5 DEF SavedCurrent, SomeoneElseSaves
      <4>7. QED
        BY <4>4, <4>6
    <3>3. QED
      BY <2>3, <3>1, <3>2 DEF ReportObserved
  <2>4. QED
    BY <2>1, <2>2, <2>3 DEF Reports
<1>3. CASE Probing
  <2>0. (ProbeStep \/ ProbeEndsSave(FALSE)) /\ UNCHANGED upload
    BY <1>3 DEF Probing, serverRest
  <2>1. ASSUME NEW ok \in BOOLEAN, ProbeEndsSave(ok)
        PROVE  CopiesCurrent' /\ SavedCurrent'
    <3>1. PICK w \in writers : w.by = Prober /\ EndSave(w, ok)
      BY <2>1 DEF ProbeEndsSave
    <3>2. /\ writers' = {} /\ UNCHANGED health /\ probe' = AfterSave[probe]
          /\ behind' \/ saved' = w.copy
      BY <1>t, <2>1, <3>1 DEF ProbeEndsSave, EndSave, WritersWait
    <3>3. CopiesCurrent'
      BY <3>2 DEF CopiesCurrent
    <3>4. w.copy = health \/ \E u \in Uploads : In(u, "observed")
      BY <1>t, <3>1 DEF CopiesCurrent, SomeoneElseSaves
    <3>5. SavedCurrent'
      BY <2>0, <3>2, <3>4 DEF SavedCurrent, In
    <3>6. QED
      BY <3>3, <3>5
  <2>2. CASE ProbeBeginsSave
    <3>1. /\ writers' = {[by |-> Prober, copy |-> health]}
          /\ UNCHANGED <<health, saved, probe, behind>>
      BY <2>2 DEF ProbeBeginsSave, BeginSave
    <3>2. CopiesCurrent'
      BY <3>1 DEF CopiesCurrent
    <3>3. SavedCurrent'
      BY <3>1 DEF SavedCurrent
    <3>4. QED
      BY <3>2, <3>3
  <2>3. CASE ProbeBegins
    <3>1. /\ UNCHANGED <<health, saved, writers, behind>>
          /\ probe = "idle" /\ probe' = "begun"
      BY <2>3 DEF ProbeBegins
    <3>2. \A v \in Uploads : In(v, "observed")' <=> In(v, "observed")
      BY <2>0 DEF In
    <3>3. QED
      BY <1>t, <3>1, <3>2 DEF CopiesCurrent, SavedCurrent, SomeoneElseSaves
  <2>4. CASE ProbeAttempts \/ ProbeFails \/ ProbeSucceeds
    <3>1. /\ UNCHANGED <<saved, writers, behind>> /\ probe' \in {"attempting", "result"}
          /\ probe \notin DOMAIN AfterSave
      BY <2>4 DEF ProbeAttempts, ProbeFails, ProbeSucceeds, AfterSave
    <3>2. \A w \in writers : w.by # Prober
      BY <1>t, <3>1 DEF WritersWait
    <3>3. QED
      BY <3>1, <3>2 DEF CopiesCurrent, SavedCurrent, SomeoneElseSaves
  <2>5. QED
    BY <2>0, <2>1, <2>2, <2>3, <2>4 DEF ProbeStep
<1>4. CASE Restart
  BY <1>4 DEF Restart, RestoreProbe, CopiesCurrent, SavedCurrent
<1>5. CASE \/ \E s \in Streams : StreamStep(s)
           \/ CheckStorage \/ RootLost \/ Close \/ Disconnect
           \/ UNCHANGED vars
  <2>1. UNCHANGED <<upload, probeVars>>
    BY <1>5, <1>t, OthersReportNothing
  <2>2. QED
    BY <1>1, <2>1 DEF In
<1>6. QED
  BY <1>2, <1>3, <1>4, <1>5 DEF Next, Environment

\* When nobody is about to save, the file has the health in memory, unless the
\* last write failed: each copy is taken and written before the next one is
\* (persistState).
THEOREM FileCurrent == Spec => []SavedCurrent
<1>1. Init => HealthInv
  BY InitInv DEF Init, ProbeInit, HealthInv, CopiesCurrent, SavedCurrent
<1>2. HealthInv /\ [Next]_vars => HealthInv'
  BY NextHealth, NextType, NextPlace, NextWriters DEF HealthInv, ServerInv
<1>3. HealthInv => SavedCurrent
  BY DEF HealthInv
<1>4. QED
  BY <1>1, <1>2, <1>3, PTL DEF Spec

-----------------------------------------------------------------------------
\* What the provider's events do to a session.

\* A step leaves a session alone, or applies an event to it.
LEMMA SessionSteps ==
  ASSUME TypeOK, PlaceInv, [Next]_vars, NEW s \in Streams
  PROVE  \/ stream'[s].session = stream[s].session
         \/ \E e \in Events : stream'[s].session = Apply(stream[s].session, e)
<1>t. stream \in [Streams -> StreamRecords]
  BY DEF TypeOK
<1>1. ASSUME NEW t \in Streams, NEW q, StreamBecomes(t, q),
             \/ q.session = stream[t].session
             \/ \E e \in Events : q.session = Apply(stream[t].session, e)
      PROVE  \/ stream'[s].session = stream[s].session
             \/ \E e \in Events : stream'[s].session = Apply(stream[s].session, e)
  <2>1. stream'[s] = IF s = t THEN q ELSE stream[s]
    BY <1>t, <1>1 DEF StreamBecomes
  <2>2. QED
    BY <1>1, <2>1
<1>2. ASSUME NEW t \in Streams, NEW label \in StreamStates, NEW phase \in Phases,
             \/ StreamAt(t, label) /\ phase = stream[t].phase
             \/ Moves(t, label, phase)
      PROVE  stream'[s].session = stream[s].session
  <2>1. PICK q : StreamBecomes(t, q) /\ q.session = stream[t].session
    BY <1>2, <1>t, StreamMoves
  <2>2. stream'[s] = IF s = t THEN q ELSE stream[s]
    BY <1>t, <2>1 DEF StreamBecomes
  <2>3. QED
    BY <2>1, <2>2
<1>3. ASSUME NEW t \in Streams, StreamStep(t)
      PROVE  \/ stream'[s].session = stream[s].session
             \/ \E e \in Events : stream'[s].session = Apply(stream[s].session, e)
  <2>1. CASE \E e \in Events : Send(t, e)
    <3>1. PICK e \in Events : Send(t, e)
      BY <2>1
    <3>2. PICK q : /\ StreamBecomes(t, q)
                   /\ q.session \in {stream[t].session, Apply(stream[t].session, e)}
      BY <3>1, SendBecomes
    <3>3. QED
      BY <1>1, <3>2
  <2>2. CASE Append(t)
    <3>1. PICK q : StreamBecomes(t, q) /\ q.session = stream[t].session
      BY <2>2, AppendBecomes
    <3>2. QED
      BY <1>1, <3>1
  <2>3. CASE AppendFails(t)
    BY <1>t, <2>3 DEF AppendFails, StreamRecords
  <2>4. CASE RemoveStream(t)
    BY <1>t, <2>4 DEF RemoveStream, StreamRecords
  <2>5. CASE \/ Connect(t) \/ Sent(t) \/ CommitRefused(t) \/ ProviderCommits(t)
             \/ StreamCloses(t) \/ Cancel(t)
    <3>1. \E label \in {"open", "finish", "end", "results", "failed", "done"} :
            StreamAt(t, label)
      BY <2>5 DEF Connect, Sent, CommitRefused, ProviderCommits, StreamCloses, Cancel
    <3>2. {"open", "finish", "end", "results", "failed", "done"} \subseteq StreamStates
      BY DEF StreamStates
    <3>3. stream[t].phase \in Phases
      BY <1>t DEF StreamRecords
    <3>4. QED
      BY <1>2, <3>1, <3>2, <3>3
  <2>6. CASE Initialize(t) \/ Commit(t) \/ FailCommit(t) \/ Complete(t)
    <3>1. CASE StreamAt(t, "end")
      <4>1. stream[t].phase \in Phases /\ "end" \in StreamStates
        BY <1>t DEF StreamRecords, StreamStates
      <4>2. QED
        BY <1>2, <3>1, <4>1
    <3>2. CASE \E label \in {"open", "end", "commit"},
                 phase \in {"received", "committing", "failed", "completed"} :
                 Moves(t, label, phase)
      <4>1. /\ {"open", "end", "commit"} \subseteq StreamStates
            /\ {"received", "committing", "failed", "completed"} \subseteq Phases
        BY DEF StreamStates, Phases
      <4>2. QED
        BY <1>2, <3>2, <4>1
    <3>3. QED
      BY <2>6, <3>1, <3>2 DEF Initialize, Commit, FailCommit, Complete
  <2>7. QED
    BY <1>3, <2>1, <2>2, <2>3, <2>4, <2>5, <2>6 DEF StreamStep
<1>4. ASSUME NEW u \in Uploads, UploadStep(u)
      PROVE  UNCHANGED stream
  BY <1>4 DEF UploadStep, Begin, PickDirectory, CreateTemporary, RepairRoot, Copy,
     SavePersisted, Reject, ProviderFails, ReportObserved, Dispatch, Run, Fail,
     Answer, RemoveUpload, Release, requestRest
<1>5. CASE Environment
  <2>1. CASE CheckStorage \/ RootLost \/ Disconnect \/ Probing
    BY <2>1 DEF CheckStorage, RootLost, Disconnect, Probing, serverRest
  <2>2. CASE Close
    BY <1>t, <2>2 DEF Close, StreamRecords
  <2>3. CASE Restart
    BY <1>t, <2>3 DEF Restart, StreamRecords
  <2>4. QED
    BY <1>5, <2>1, <2>2, <2>3 DEF Environment
<1>6. CASE UNCHANGED vars
  BY <1>6 DEF vars, serverVars
<1>7. QED
  BY <1>3, <1>4, <1>5, <1>6 DEF Next

\* A completed item keeps its transcript and stays completed, a failed one stays
\* failed, whatever the provider sends (Apply ignores what is late).
THEOREM TranscriptsStand == Spec => ItemsStand
<1> DEFINE Stand ==
      \A s \in Streams, i \in Items :
        LET old == stream[s].session.item[i]
            new == stream'[s].session.item[i]
        IN old.at \in {"completed", "failed"} =>
             new.at = old.at /\ new.final = old.final
<1>1. ServerInv /\ [Next]_vars => [Stand]_vars
  <2> SUFFICES ASSUME ServerInv, [Next]_vars, NEW s \in Streams, NEW i \in Items,
                      stream[s].session.item[i].at \in {"completed", "failed"}
               PROVE  stream'[s].session.item[i] = stream[s].session.item[i]
    OBVIOUS
  <2>1. stream[s].session \in Sessions
    BY DEF ServerInv, TypeOK, StreamRecords
  <2>2. CASE \E e \in Events : stream'[s].session = Apply(stream[s].session, e)
    BY <2>1, <2>2, ApplyStands
  <2>3. QED
    BY <2>2, SessionSteps DEF ServerInv
<1>2. QED
  BY ServerInvariant, <1>1, PTL DEF Spec, ItemsStand

-----------------------------------------------------------------------------
\* When nothing has gone wrong.

CalmStore ==
  root # 0 /\ away \cap Uploads = {} /\ \A d \in Roots : disk[d] # "bad"

\* The audio is where the upload's directory is, and its record says how it ended
\* before anything is given up.
CalmUpload(u) ==
  /\ In(u, "copy") => u \in temporary
  /\ upload[u].at \in {"create", "copy", "save", "check", "run"} =>
       upload[u].dir \in Roots
  /\ upload[u].at \in {"save", "check", "run"} => audio[upload[u].dir][Id(u)] = 1
  /\ upload[u].at \in {"remove", "release"} => record[Id(u)] \in Terminal
  /\ upload[u].at \in {"persist", "create"} => upload[u].tries = 1
  /\ ~In(u, "repair")

\* Nothing is recorded of a stream without audio, and the record follows the
\* phase in memory.
CalmStream(s) ==
  /\ stream[s].bytes = 0 => record[s] = "none"
  /\ stream[s].phase \in {"completed", "failed"} => record[s] \in Terminal
  /\ stream[s].at \in {"commit", "results", "failed", "finish"} => stream[s].bytes > 0

Settled == \A i \in Ids : i \notin active => record[i] \in Terminal \cup {"none"}

Calm ==
  faults = 0 =>
    /\ CalmStore /\ Settled
    /\ \A u \in Uploads : CalmUpload(u)
    /\ \A s \in Streams : CalmStream(s)

CalmInv == ServerInv /\ Calm

\* What another handler leaves alone of an upload.
LEMMA CalmFrame ==
  ASSUME NEW v \in Uploads, CalmUpload(v), upload'[v] = upload[v],
         v \in temporary => v \in temporary',
         \A d \in Roots : audio'[d][Id(v)] = audio[d][Id(v)],
         record'[Id(v)] = record[Id(v)]
  PROVE  CalmUpload(v)'
BY DEF CalmUpload, In, Id

LEMMA IdleIsCalm ==
  ASSUME NEW v \in Uploads, upload'[v].at = "idle"
  PROVE  CalmUpload(v)'
BY DEF CalmUpload, In

\* A save that does not go wrong, of a client that is there.
LEMMA CalmSave ==
  ASSUME TypeOK, CalmStore, NEW u \in Uploads, NEW ok \in BOOLEAN,
         SaveOutcome(u, ok), faults = 0, faults' = 0
  PROVE  ok
BY DEF SaveOutcome, Fault, CalmStore

\* Steps of an upload, in a calm state.
CalmStep == TypeOK /\ PlaceInv /\ Calm /\ faults = 0 /\ faults' = 0

\* What is written is written for the upload's own id.
OwnRecord(u) ==
  \A i \in Ids : i # Id(u) => record'[i] = record[i]
OwnAudio(u) ==
  \A d \in Roots, i \in Ids : i # Id(u) => audio'[d][i] = audio[d][i]

LEMMA CalmUploadOthers ==
  ASSUME CalmStep, NEW u \in Uploads, ~In(u, "idle"),
         UNCHANGED <<root, away, stream>>, active' = active \/ active' = active \ {Id(u)},
         \A d \in Roots : disk'[d] # "bad",
         temporary \ {u} \subseteq temporary',
         \A v \in Uploads : v # u => upload'[v] = upload[v],
         OwnRecord(u), OwnAudio(u), CalmUpload(u)',
         Id(u) \in active' \/ record'[Id(u)] \in Terminal
  PROVE  Calm'
<1>1. /\ CalmStore /\ Settled /\ \A v \in Uploads : CalmUpload(v)
      /\ \A s \in Streams : CalmStream(s)
  BY DEF CalmStep, Calm
<1>2. Id(u) \in UploadIds /\ Id(u) \in Ids /\ Id(u) \notin Streams
  BY IdsDiffer DEF CalmStep, PlaceInv, UploadsHold, Ids
<1>3. CalmStore'
  BY <1>1 DEF CalmStore
<1>4. ASSUME NEW v \in Uploads
      PROVE  CalmUpload(v)'
  <2>1. CASE v = u
    BY <2>1
  <2>2. CASE v # u /\ In(v, "idle")
    BY <2>2, IdleIsCalm DEF In
  <2>3. CASE v # u /\ ~In(v, "idle")
    <3>1. Id(v) # Id(u) /\ Id(v) \in Ids
      BY <2>3 DEF CalmStep, PlaceInv, UploadsHold, UploadsDiffer, Ids
    <3>2. /\ \A d \in Roots : audio'[d][Id(v)] = audio[d][Id(v)]
          /\ record'[Id(v)] = record[Id(v)]
      BY <3>1 DEF OwnRecord, OwnAudio
    <3>3. QED
      BY <1>1, <2>3, <3>2, CalmFrame
  <2>4. QED
    BY <2>1, <2>2, <2>3
<1>5. ASSUME NEW s \in Streams
      PROVE  CalmStream(s)'
  <2>1. record'[s] = record[s]
    BY <1>2 DEF OwnRecord, Ids
  <2>2. CalmStream(s)
    BY <1>1
  <2>3. QED
    BY <2>1, <2>2 DEF CalmStream
<1>6. Settled'
  BY <1>1 DEF Settled, OwnRecord
<1>7. QED
  BY <1>3, <1>4, <1>5, <1>6 DEF Calm

LEMMA CalmBegin ==
  ASSUME CalmStep, NEW u \in Uploads, NEW i \in UploadIds, Begin(u, i)
  PROVE  Calm'
<1> DEFINE q == [at |-> "persist", id |-> i, dir |-> 0, tries |-> 1]
<1>1. /\ CalmStore /\ Settled /\ \A v \in Uploads : CalmUpload(v)
      /\ \A s \in Streams : CalmStream(s)
  BY DEF CalmStep, Calm
<1>2. /\ \A v \in Uploads : upload'[v] = IF v = u THEN q ELSE upload[v]
      /\ active' = active \cup {i}
      /\ UNCHANGED <<root, disk, audio, temporary, record, stream, away>>
  BY DEF Begin, storeRest, requestRest, store, CalmStep, TypeOK
<1>3. q.at = "persist" /\ q.tries = 1
  OBVIOUS
<1> HIDE DEF q
<1>4. CalmStore' /\ Settled'
  BY <1>1, <1>2 DEF CalmStore, Settled
<1>5. \A s \in Streams : CalmStream(s)'
  BY <1>1, <1>2 DEF CalmStream
<1>6. ASSUME NEW v \in Uploads
      PROVE  CalmUpload(v)'
  <2>1. CASE v = u
    BY <1>2, <1>3, <2>1 DEF CalmUpload, In, Id
  <2>2. CASE v # u
    BY <1>1, <1>2, <2>2, CalmFrame
  <2>3. QED
    BY <2>1, <2>2
<1>7. QED
  BY <1>4, <1>5, <1>6 DEF Calm

LEMMA CalmRelease ==
  ASSUME CalmStep, NEW u \in Uploads, Release(u)
  PROVE  Calm'
<1>1. /\ CalmStore /\ Settled /\ CalmUpload(u)
  BY DEF CalmStep, Calm
<1>2. /\ UNCHANGED <<root, disk, audio, temporary, record, stream>>
      /\ active' = active \ {Id(u)} /\ away' = away \ {u} /\ In(u, "release")
      /\ upload' = [upload EXCEPT ![u] =
           [at |-> "idle", id |-> None, dir |-> 0, tries |-> 1]]
  BY DEF Release, storeRest, requestRest, store
<1>3. UNCHANGED away
  BY <1>1, <1>2 DEF CalmStore
<1>4. CalmUpload(u)' /\ \A v \in Uploads : v # u => upload'[v] = upload[v]
  BY <1>2, IdleIsCalm DEF CalmStep, TypeOK
<1>5. record'[Id(u)] \in Terminal
  BY <1>1, <1>2 DEF CalmUpload, In
<1>6. \A d \in Roots : disk'[d] # "bad"
  BY <1>1, <1>2 DEF CalmStore
<1>7. OwnRecord(u) /\ OwnAudio(u) /\ ~In(u, "idle")
  BY <1>2 DEF OwnRecord, OwnAudio, In
<1>8. QED
  BY <1>2, <1>3, <1>4, <1>5, <1>6, <1>7, CalmUploadOthers

LEMMA CalmCreates ==
  ASSUME CalmStep, NEW u \in Uploads,
         PickDirectory(u) \/ CreateTemporary(u) \/ RepairRoot(u) \/ Copy(u)
  PROVE  Calm'
<1> DEFINE U == upload[u]
<1>1. /\ CalmStore /\ CalmUpload(u) /\ U \in UploadRecords
      /\ upload \in [Uploads -> UploadRecords]
      /\ U.dir \in 0 .. MaxRoots /\ U.tries \in 1 .. MaxTries + 2
      /\ root \in 0 .. MaxRoots /\ root \in Roots /\ u \notin away
      /\ {"create", "copy", "save"} \subseteq UploadStates
  BY DEF CalmStep, Calm, CalmStore, TypeOK, UploadRecords, UploadStates, Roots
<1>2. /\ ~In(u, "idle") /\ ~RepairRoot(u)
      /\ UNCHANGED <<root, away, stream, active, record>>
  BY <1>1 DEF PickDirectory, CreateTemporary, RepairRoot, Copy, In, CalmUpload,
     storeRest, requestRest, store
<1>3. Id(u) \in active /\ Id(u) \in Ids
  BY <1>2 DEF CalmStep, PlaceInv, UploadsHold, Ids
<1>4. CASE PickDirectory(u)
  <2>1. upload' = [upload EXCEPT ![u].at = "create", ![u].dir = root]
    BY <1>1, <1>4 DEF PickDirectory, CalmStore
  <2>2. U.tries = 1
    BY <1>1, <1>4 DEF PickDirectory, CalmUpload, In
  <2>3. /\ upload'[u].at = "create" /\ upload'[u].id = U.id
        /\ upload'[u].dir = root /\ upload'[u].tries = U.tries
        /\ \A v \in Uploads : v # u => upload'[v] = upload[v]
    BY <1>1, <2>1 DEF UploadRecords
  <2>4. CalmUpload(u)'
    BY <1>1, <2>2, <2>3 DEF CalmUpload, In
  <2>5. /\ OwnRecord(u) /\ OwnAudio(u) /\ UNCHANGED temporary
        /\ \A d \in Roots : disk'[d] # "bad"
    BY <1>1, <1>2, <1>4 DEF PickDirectory, storeRest, store, OwnRecord, OwnAudio,
       CalmStore
  <2>6. QED
    BY <1>2, <1>3, <2>3, <2>4, <2>5, CalmUploadOthers
<1>5. CASE CreateTemporary(u)
  <2>1. U.dir \in Roots /\ Usable(U.dir)
    BY <1>1, <1>5 DEF CreateTemporary, CalmUpload, CalmStore, In, Usable
  <2>2. /\ Made(U.dir) /\ temporary' = temporary \cup {u} /\ UploadAt(u, "copy")
        /\ UNCHANGED audio
    BY <1>5, <2>1 DEF CreateTemporary
  <2>3. PICK q : /\ UploadBecomes(u, q) /\ q.at = "copy" /\ q.id = U.id
                 /\ q.dir = U.dir /\ q.tries = U.tries
    BY <1>1, <2>2, UploadGoes
  <2>4. /\ CalmUpload(u)'
        /\ \A v \in Uploads : v # u => upload'[v] = upload[v]
    BY <1>1, <2>1, <2>2, <2>3 DEF CalmUpload, In, Id, UploadBecomes
  <2>5. /\ OwnRecord(u) /\ OwnAudio(u)
        /\ \A d \in Roots : disk'[d] # "bad"
    BY <1>1, <1>2, <2>2 DEF Made, OwnRecord, OwnAudio, CalmStore, CalmStep, TypeOK
  <2>6. QED
    BY <1>2, <1>3, <2>2, <2>4, <2>5, CalmUploadOthers
<1>6. CASE Copy(u)
  <2>1. u \in temporary /\ U.dir \in Roots
    BY <1>1, <1>6 DEF Copy, CalmUpload, In
  <2>2. /\ Puts(U.dir, Id(u), 1) /\ UploadAt(u, "save")
        /\ temporary' = temporary \ {u} /\ UNCHANGED disk
    BY <1>6, <2>1 DEF Copy, Fault, CalmStep, Puts
  <2>3. PICK q : /\ UploadBecomes(u, q) /\ q.at = "save" /\ q.id = U.id
                 /\ q.dir = U.dir /\ q.tries = U.tries
    BY <1>1, <2>2, UploadGoes
  <2>4. \A d \in Roots, j \in Ids :
          audio'[d][j] = IF d = U.dir /\ j = Id(u) THEN 1 ELSE audio[d][j]
    BY <1>3, <2>1, <2>2, PutsAudio DEF CalmStep
  <2>5. upload'[u] = q /\ \A v \in Uploads : v # u => upload'[v] = upload[v]
    BY <1>1, <2>3 DEF UploadBecomes
  <2>6. CalmUpload(u)'
    BY <1>3, <2>1, <2>3, <2>4, <2>5 DEF CalmUpload, In, Id
  <2>7. /\ OwnRecord(u) /\ OwnAudio(u)
        /\ \A d \in Roots : disk'[d] # "bad"
    BY <1>1, <1>2, <2>2, <2>4 DEF OwnRecord, OwnAudio, CalmStore
  <2>8. QED
    BY <1>2, <1>3, <2>2, <2>5, <2>6, <2>7, CalmUploadOthers
<1>7. QED
  BY <1>2, <1>4, <1>5, <1>6

LEMMA CalmRuns ==
  ASSUME CalmStep, NEW u \in Uploads,
         \/ SavePersisted(u) \/ Reject(u) \/ ProviderFails(u) \/ ReportObserved(u)
         \/ Dispatch(u) \/ Run(u) \/ Fail(u) \/ Answer(u) \/ RemoveUpload(u)
  PROVE  Calm'
<1> DEFINE U == upload[u]
           Labels == {"check", "run", "observed", "fail", "answer", "remove",
                      "release"}
<1>1. /\ CalmStore /\ CalmUpload(u) /\ U \in UploadRecords
      /\ upload \in [Uploads -> UploadRecords]
      /\ U.dir \in 0 .. MaxRoots /\ U.tries \in 1 .. MaxTries + 2
      /\ Labels \subseteq UploadStates
      /\ record \in [Ids -> Phases] /\ TypeOK /\ faults = 0 /\ faults' = 0
  BY DEF CalmStep, Calm, TypeOK, UploadRecords, UploadStates
<1>2. /\ ~In(u, "idle")
      /\ UNCHANGED <<root, away, stream, active, disk, temporary>>
  <2>1. CASE SavePersisted(u) \/ Reject(u) \/ ProviderFails(u) \/ ReportObserved(u)
    BY <2>1 DEF SavePersisted, Reject, ProviderFails, ReportObserved, In,
       storeRest, requestRest, store
  <2>2. CASE Dispatch(u) \/ Run(u) \/ Fail(u) \/ Answer(u) \/ RemoveUpload(u)
    BY <2>2 DEF Dispatch, Run, Fail, Answer, RemoveUpload, In, storeRest,
       requestRest, store
  <2>3. QED
    BY <2>1, <2>2
<1>3. Id(u) \in active /\ Id(u) \in Ids
  BY <1>2 DEF CalmStep, PlaceInv, UploadsHold, Ids
<1>d. \A d \in Roots : disk'[d] # "bad"
  BY <1>1, <1>2 DEF CalmStore
<1>s. \A i \in Ids, phase \in Phases : Saves(i, phase) =>
        record'[i] = phase /\ \A j \in Ids : j # i => record'[j] = record[j]
  BY <1>1 DEF Saves
<1>p. {"persisted", "failed", "completed", "dispatched"} \subseteq Phases
  BY DEF Phases
<1>g. ASSUME NEW label \in Labels, UploadAt(u, label)
      PROVE  /\ upload'[u].at = label /\ upload'[u].id = U.id
             /\ upload'[u].dir = U.dir
             /\ \A v \in Uploads : v # u => upload'[v] = upload[v]
  BY <1>1, <1>g, UploadGoes DEF UploadBecomes
<1>4. CASE SavePersisted(u)
  <2>1. PICK ok \in BOOLEAN :
          /\ SaveOutcome(u, ok)
          /\ IF ok THEN Saves(Id(u), "persisted") /\ UploadAt(u, "check")
             ELSE UNCHANGED record /\ UploadAt(u, "remove")
    BY <1>4 DEF SavePersisted
  <2>2. Saves(Id(u), "persisted") /\ UploadAt(u, "check")
    BY <1>1, <2>1, CalmSave
  <2>3. UNCHANGED audio /\ In(u, "save")
    BY <1>4 DEF SavePersisted, storeRest, store
  <2>4. CalmUpload(u)'
    BY <1>1, <1>g, <2>2, <2>3 DEF CalmUpload, In, Id
  <2>5. OwnRecord(u) /\ OwnAudio(u)
    BY <1>3, <1>p, <1>s, <2>2, <2>3 DEF OwnRecord, OwnAudio
  <2>6. QED
    BY <1>2, <1>3, <1>d, <1>g, <2>2, <2>4, <2>5, CalmUploadOthers
<1>5. CASE Fail(u) \/ Answer(u)
  <2>1. PICK ok \in BOOLEAN, phase \in {"failed", "completed"} :
          /\ SaveOutcome(u, ok)
          /\ IF ok THEN Saves(Id(u), phase) ELSE UNCHANGED record
    BY <1>5 DEF Fail, Answer
  <2>2. Saves(Id(u), phase) /\ phase \in Terminal
    BY <1>1, <2>1, CalmSave DEF Terminal
  <2>3. UNCHANGED audio /\ UploadAt(u, "remove")
    BY <1>5 DEF Fail, Answer, storeRest, store
  <2>4. CalmUpload(u)'
    BY <1>1, <1>3, <1>g, <1>p, <1>s, <2>2, <2>3 DEF CalmUpload, In, Id
  <2>5. OwnRecord(u) /\ OwnAudio(u)
    BY <1>3, <1>p, <1>s, <2>2, <2>3 DEF OwnRecord, OwnAudio
  <2>6. QED
    BY <1>2, <1>3, <1>d, <1>g, <2>3, <2>4, <2>5, CalmUploadOthers
<1>6. CASE Dispatch(u)
  <2>1. PICK ok \in BOOLEAN :
          /\ SaveOutcome(u, ok)
          /\ IF ok THEN Saves(Id(u), "dispatched") ELSE UNCHANGED record
    BY <1>6 DEF Dispatch
  <2>2. Saves(Id(u), "dispatched")
    BY <1>1, <2>1, CalmSave
  <2>3. /\ UNCHANGED audio /\ In(u, "check")
        /\ upload' = [upload EXCEPT ![u].at = "run", ![u].tries = 1]
    BY <1>6 DEF Dispatch, storeRest, store
  <2>4. /\ upload'[u].at = "run" /\ upload'[u].id = U.id /\ upload'[u].dir = U.dir
        /\ \A v \in Uploads : v # u => upload'[v] = upload[v]
    BY <1>1, <2>3 DEF UploadRecords
  <2>5. CalmUpload(u)'
    BY <1>1, <2>3, <2>4 DEF CalmUpload, In, Id
  <2>6. OwnRecord(u) /\ OwnAudio(u)
    BY <1>3, <1>p, <1>s, <2>2, <2>3 DEF OwnRecord, OwnAudio
  <2>7. QED
    BY <1>2, <1>3, <1>d, <2>4, <2>5, <2>6, CalmUploadOthers
<1>7. CASE Reject(u) \/ ProviderFails(u) \/ ReportObserved(u) \/ Run(u)
  <2>1. UNCHANGED <<audio, record>>
    BY <1>7 DEF Reject, ProviderFails, ReportObserved, Run, storeRest, store
  <2>2. /\ upload'[u].dir = U.dir /\ upload'[u].id = U.id
        /\ \/ upload'[u].at \in {"fail", "observed", "answer"}
           \/ In(u, "run") /\ upload'[u].at = "run"
        /\ \A v \in Uploads : v # u => upload'[v] = upload[v]
    <3>1. CASE \E label \in {"fail", "observed", "answer"} : UploadAt(u, label)
      BY <1>g, <3>1
    <3>2. CASE In(u, "observed") /\ UNCHANGED upload
      BY <3>2 DEF In
    <3>3. CASE In(u, "run") /\ upload' = [upload EXCEPT ![u].tries = @ + 1]
      BY <1>1, <3>3 DEF In, UploadRecords
    <3>4. QED
      BY <1>7, <3>1, <3>2, <3>3 DEF Reject, ProviderFails, ReportObserved, Run
  <2>3. CalmUpload(u)'
    BY <1>1, <2>1, <2>2 DEF CalmUpload, In, Id
  <2>4. OwnRecord(u) /\ OwnAudio(u)
    BY <2>1 DEF OwnRecord, OwnAudio
  <2>5. QED
    BY <1>2, <1>3, <1>d, <2>2, <2>3, <2>4, CalmUploadOthers
<1>8. CASE RemoveUpload(u)
  <2>0. PICK failing \in SUBSET Roots : Removes(Id(u), failing)
    BY <1>8 DEF RemoveUpload
  <2>1. UploadAt(u, "release") /\ In(u, "remove") /\ UNCHANGED record
    BY <1>8 DEF RemoveUpload
  <2>2. OwnRecord(u) /\ OwnAudio(u)
    BY <1>1, <1>3, <2>0, <2>1, RemovesAudio DEF OwnRecord, OwnAudio
  <2>3. CalmUpload(u)'
    BY <1>1, <1>g, <2>1 DEF CalmUpload, In, Id
  <2>4. QED
    BY <1>2, <1>3, <1>d, <1>g, <2>1, <2>2, <2>3, CalmUploadOthers
<1>9. QED
  BY <1>4, <1>5, <1>6, <1>7, <1>8

-----------------------------------------------------------------------------
\* A step of a stream, in a calm state.
LEMMA CalmStreamOthers ==
  ASSUME CalmStep, NEW s \in Streams,
         UNCHANGED <<root, away, upload, temporary>>,
         active' \in {active, active \cup {s}, active \ {s}},
         \A d \in Roots : disk'[d] # "bad",
         \A t \in Streams : t # s => stream'[t] = stream[t],
         \A i \in Ids : i # s => record'[i] = record[i],
         \A d \in Roots, i \in Ids : i # s => audio'[d][i] = audio[d][i],
         CalmStream(s)',
         s \in active' \/ record'[s] \in Terminal \cup {"none"}
  PROVE  Calm'
<1>1. /\ CalmStore /\ Settled /\ \A v \in Uploads : CalmUpload(v)
      /\ \A t \in Streams : CalmStream(t)
  BY DEF CalmStep, Calm
<1>2. CalmStore'
  BY <1>1 DEF CalmStore
<1>3. ASSUME NEW t \in Streams
      PROVE  CalmStream(t)'
  <2>1. CASE t # s
    <3>1. record'[t] = record[t]
      BY <2>1 DEF Ids
    <3>2. QED
      BY <1>1, <2>1, <3>1 DEF CalmStream
  <2>2. QED
    BY <2>1
<1>4. ASSUME NEW v \in Uploads
      PROVE  CalmUpload(v)'
  <2>1. CASE In(v, "idle")
    BY <2>1, IdleIsCalm DEF In
  <2>2. CASE ~In(v, "idle")
    <3>1. Id(v) # s /\ Id(v) \in Ids
      BY <2>2, IdsDiffer DEF CalmStep, PlaceInv, UploadsHold, Ids
    <3>2. QED
      BY <1>1, <3>1, CalmFrame
  <2>3. QED
    BY <2>1, <2>2
<1>5. Settled'
  BY <1>1 DEF Settled
<1>6. QED
  BY <1>2, <1>3, <1>4, <1>5 DEF Calm

LEMMA CalmStreamQuiet ==
  ASSUME CalmStep, NEW s \in Streams,
         \/ Initialize(s) \/ Sent(s) \/ Commit(s) \/ CommitRefused(s)
         \/ ProviderCommits(s) \/ FailCommit(s) \/ Complete(s) \/ StreamCloses(s)
         \/ \E e \in Events : Send(s, e)
  PROVE  Calm'
<1>1. /\ CalmStore /\ CalmStream(s) /\ TypeOK /\ PlaceInv /\ faults = 0 /\ faults' = 0
      /\ stream \in [Streams -> StreamRecords] /\ record \in [Ids -> Phases]
      /\ stream[s].phase \in Phases /\ s \in Ids /\ stream[s].bytes \in 0 .. MaxChunks
  BY DEF CalmStep, Calm, TypeOK, StreamRecords, Ids
<1>2. /\ StreamGoesOn(s)
      /\ UNCHANGED record \/ \E phase \in Phases : Saves(s, phase)
  BY <1>1, StreamQuiet
<1>3. /\ UNCHANGED <<root, away, upload, temporary, active, disk, audio>>
      /\ stream[s].at \notin {"new", "cancel", "done"}
      /\ \A t \in Streams : t # s => stream'[t] = stream[t]
      /\ \A i \in Ids : i # s => record'[i] = record[i]
  BY <1>1, <1>2 DEF StreamGoesOn, store, streamRest, On, StreamBecomes, Saves
<1>4. s \in active
  BY <1>1, <1>3 DEF PlaceInv, StreamsHold
<1>g. ASSUME NEW label \in StreamStates, NEW phase \in Phases,
             \/ StreamAt(s, label) /\ phase = stream[s].phase
             \/ Moves(s, label, phase)
      PROVE  /\ stream'[s].at = label /\ stream'[s].phase = phase
             /\ stream'[s].bytes = stream[s].bytes
  BY <1>1, <1>g, StreamMoves DEF StreamBecomes
<1>l. /\ {"open", "end", "finish", "results", "failed", "commit"} \subseteq StreamStates
      /\ {"received", "committing", "failed", "completed"} \subseteq Phases
  BY DEF StreamStates, Phases
<1>5. CalmStream(s)'
  <2>1. CASE \E e \in Events : Send(s, e)
    <3>1. PICK e \in Events : Send(s, e)
      BY <2>1
    <3>2. PICK q : /\ StreamBecomes(s, q)
                   /\ q.at \in {"open", "appending", "results", "failed"}
                   /\ q.at # "open" => q.at \in {stream[s].at, "failed"}
                   /\ q.at = "failed" => stream[s].at = "results"
                   /\ q.bytes = stream[s].bytes /\ q.phase = stream[s].phase
      BY <1>1, <3>1, SendBecomes
    <3>3. stream'[s] = q /\ UNCHANGED record
      BY <1>1, <3>1, <3>2 DEF StreamBecomes, Send
    <3>4. QED
      BY <1>1, <3>2, <3>3 DEF CalmStream
  <2>2. CASE CommitRefused(s) \/ StreamCloses(s)
    BY <1>1, <1>g, <1>l, <2>2 DEF CommitRefused, StreamCloses, CalmStream
  <2>3. CASE Sent(s) \/ ProviderCommits(s)
    <3>1. PICK label \in {"open", "finish", "results", "failed"} :
            StreamAt(s, label) /\ (label # "open" => stream[s].at \in {"results", "commit"})
      BY <2>3 DEF Sent, ProviderCommits, On
    <3>2. UNCHANGED record
      BY <2>3 DEF Sent, ProviderCommits
    <3>3. QED
      BY <1>1, <1>g, <1>l, <3>1, <3>2 DEF CalmStream
  <2>4. CASE Initialize(s)
    <3>1. \/ StreamAt(s, "end")
          \/ \E label \in {"open", "end"} : Moves(s, label, "received")
      BY <2>4 DEF Initialize
    <3>2. UNCHANGED record
      BY <2>4 DEF Initialize
    <3>3. QED
      BY <1>1, <1>g, <1>l, <3>1, <3>2 DEF CalmStream
  <2>5. CASE Commit(s)
    <3>1. PICK label \in {"commit", "end"} : Moves(s, label, "committing")
      BY <2>5 DEF Commit
    <3>2. stream[s].bytes > 0
      BY <2>5 DEF Commit
    <3>3. QED
      BY <1>1, <1>g, <1>l, <3>1, <3>2 DEF CalmStream
  <2>6. CASE FailCommit(s) \/ Complete(s)
    <3>1. PICK label \in {"open", "end"}, phase \in {"failed", "completed"},
               ok \in BOOLEAN :
            Moves(s, label, phase) /\ Records(s, phase, ok)
      BY <2>6 DEF FailCommit, Complete
    <3>2. Saves(s, phase)
      BY <1>1, <3>1 DEF Records, Fault
    <3>3. record'[s] \in Terminal
      BY <1>1, <3>2 DEF Saves, Terminal
    <3>4. stream[s].bytes > 0
      BY <1>1, <2>6 DEF FailCommit, Complete, CalmStream, On
    <3>5. QED
      BY <1>1, <1>g, <1>l, <3>1, <3>3, <3>4 DEF CalmStream
  <2>7. QED
    BY <2>1, <2>2, <2>3, <2>4, <2>5, <2>6
<1>6. \A d \in Roots : disk'[d] # "bad"
  BY <1>1, <1>3 DEF CalmStore
<1>7. QED
  BY <1>3, <1>4, <1>5, <1>6, CalmStreamOthers

LEMMA CalmStreamStep ==
  ASSUME CalmStep, NEW s \in Streams, StreamStep(s)
  PROVE  Calm'
<1>1. /\ CalmStore /\ CalmStream(s) /\ Settled /\ TypeOK /\ PlaceInv
      /\ faults = 0 /\ faults' = 0
      /\ stream \in [Streams -> StreamRecords] /\ record \in [Ids -> Phases]
      /\ stream[s].phase \in Phases /\ s \in Ids /\ stream[s].bytes \in 0 .. MaxChunks
  BY DEF CalmStep, Calm, TypeOK, StreamRecords, Ids
<1>2. CASE \/ Initialize(s) \/ Sent(s) \/ Commit(s) \/ CommitRefused(s)
           \/ ProviderCommits(s) \/ FailCommit(s) \/ Complete(s) \/ StreamCloses(s)
           \/ \E e \in Events : Send(s, e)
  BY <1>2, CalmStreamQuiet
<1>3. CASE Connect(s)
  <2>1. /\ UNCHANGED <<root, away, upload, temporary, record, disk, audio>>
        /\ active' = active \cup {s} /\ StreamAt(s, "open")
    BY <1>3 DEF Connect, store, streamRest
  <2>2. /\ stream'[s].at = "open" /\ stream'[s].phase = stream[s].phase
        /\ stream'[s].bytes = stream[s].bytes
        /\ \A t \in Streams : t # s => stream'[t] = stream[t]
    BY <1>1, <2>1 DEF StreamAt, StreamRecords
  <2>3. CalmStream(s)' /\ \A d \in Roots : disk'[d] # "bad"
    BY <1>1, <2>1, <2>2 DEF CalmStream, CalmStore
  <2>4. QED
    BY <2>1, <2>2, <2>3, CalmStreamOthers
<1>4. CASE Append(s)
  <2> DEFINE d == AppendPath(s)
  <2>1. ChunkGoes(s, d)
    BY <1>1, <1>4, ChunkPlace DEF Append
  <2>2. PICK q : /\ StreamBecomes(s, q) /\ q.at \in {"open", "appending"}
                 /\ q.bytes = audio[d][s] + 1
                 /\ q.phase = IF stream[s].phase = "received" THEN "persisted"
                              ELSE stream[s].phase
    BY <1>1, <1>4, AppendBecomes
  <2>3. q.bytes > 0 /\ d \in Roots
    BY <1>1, <2>1, <2>2 DEF ChunkGoes, TypeOK
  <2>4. \/ Saves(s, "persisted") /\ stream[s].phase = "received"
        \/ UNCHANGED record
    BY <1>4 DEF Append, Records
  <2>5. stream'[s] = q /\ \A t \in Streams : t # s => stream'[t] = stream[t]
    BY <1>1, <2>2 DEF StreamBecomes
  <2>6. CalmStream(s)'
    <3>1. q.phase \in {"completed", "failed"} =>
            UNCHANGED record /\ stream[s].phase = q.phase
      BY <2>2, <2>4
    <3>2. QED
      BY <1>1, <2>2, <2>3, <2>5, <3>1 DEF CalmStream
  <2>7. \A i \in Ids : i # s => record'[i] = record[i]
    BY <1>1, <2>4 DEF Saves
  <2>8. Usable(d) /\ UNCHANGED root /\ (Made(d) \/ UNCHANGED disk)
    <3>1. Usable(root)
      BY <1>1 DEF CalmStore, Usable, TypeOK, Roots
    <3>2. d <= made
      <4>1. made \in Nat /\ root <= made /\ stream[s].path <= made
        BY <1>1 DEF TypeOK, Roots, PlaceInv, RootsMade, Kept
      <4>2. QED
        BY <3>1, <4>1 DEF AppendPath
    <3>3. d # made + 1
      BY <1>1, <2>3, <3>2 DEF Roots, TypeOK
    <3>4. QED
      BY <1>1, <2>1, <2>3, <3>3 DEF ChunkGoes, CalmStore, Usable
  <2>9. \A b \in Roots : disk'[b] # "bad"
    BY <1>1, <2>8 DEF Made, CalmStore, TypeOK
  <2>10. \A b \in Roots, i \in Ids : i # s => audio'[b][i] = audio[b][i]
    <3>1. Puts(d, s, audio[d][s] + 1)
      BY <2>1 DEF ChunkGoes, Puts
    <3>2. \A b \in Roots, j \in Ids :
            audio'[b][j] = IF b = d /\ j = s THEN audio[d][s] + 1 ELSE audio[b][j]
      BY <1>1, <2>3, <3>1, PutsAudio
    <3>3. QED
      BY <3>2
  <2>11. s \in active
    BY <1>1, <2>1 DEF ChunkGoes, On, PlaceInv, StreamsHold
  <2>12. UNCHANGED <<away, upload, temporary, active>>
    BY <1>4 DEF Append, streamRest
  <2>13. QED
    BY <2>5, <2>6, <2>7, <2>8, <2>9, <2>10, <2>11, <2>12, CalmStreamOthers
<1>5. CASE AppendFails(s)
  BY <1>1, <1>5 DEF AppendFails, Fault
<1>6. CASE RemoveStream(s)
  <2>0. PICK failing \in SUBSET Roots :
          /\ Removes(s, failing)
          /\ stream' = [stream EXCEPT ![s].at = "cancel",
                                      ![s].path = IF failing = {} THEN 0 ELSE @]
    BY <1>6 DEF RemoveStream
  <2>1. /\ UNCHANGED <<root, away, upload, temporary, record, disk, active>>
        /\ stream[s].at = "end"
    BY <1>6 DEF RemoveStream, On
  <2>2. /\ stream'[s].at = "cancel" /\ stream'[s].phase = stream[s].phase
        /\ stream'[s].bytes = stream[s].bytes
        /\ \A t \in Streams : t # s => stream'[t] = stream[t]
    BY <1>1, <2>0 DEF StreamRecords
  <2>3. CalmStream(s)' /\ \A d \in Roots : disk'[d] # "bad"
    BY <1>1, <2>1, <2>2 DEF CalmStream, CalmStore
  <2>4. \A b \in Roots, i \in Ids : i # s => audio'[b][i] = audio[b][i]
    BY <1>1, <2>0, RemovesAudio
  <2>5. s \in active
    BY <1>1, <2>1 DEF PlaceInv, StreamsHold
  <2>6. QED
    BY <2>1, <2>2, <2>3, <2>4, <2>5, CalmStreamOthers
<1>7. CASE Cancel(s)
  <2>1. /\ UNCHANGED <<root, away, upload, temporary, disk, audio>>
        /\ active' = active \ {s} /\ StreamAt(s, "done")
    BY <1>7 DEF Cancel, store, streamRest
  <2>2. /\ stream'[s].at = "done" /\ stream'[s].phase = stream[s].phase
        /\ stream'[s].bytes = stream[s].bytes
        /\ \A t \in Streams : t # s => stream'[t] = stream[t]
    BY <1>1, <2>1 DEF StreamAt, StreamRecords
  <2>3. \/ stream[s].bytes > 0 /\ Saves(s, "cancelled")
        \/ /\ stream[s].bytes = 0 \/ stream[s].phase \in {"completed", "failed"}
           /\ UNCHANGED record
    BY <1>1, <1>7 DEF Cancel, Records, Fault
  <2>4. record'[s] \in Terminal \cup {"none"}
    BY <1>1, <2>3 DEF Saves, Terminal, CalmStream
  <2>5. CalmStream(s)'
    <3>1. CASE stream[s].bytes > 0 /\ Saves(s, "cancelled")
      <4>1. record'[s] \in Terminal
        BY <1>1, <3>1 DEF Saves, Terminal
      <4>2. QED
        BY <1>1, <2>2, <3>1, <4>1 DEF CalmStream
    <3>2. CASE UNCHANGED record
      BY <1>1, <2>2, <3>2 DEF CalmStream
    <3>3. QED
      BY <2>3, <3>1, <3>2
  <2>6. \A i \in Ids : i # s => record'[i] = record[i]
    BY <1>1, <2>3 DEF Saves
  <2>7. \A d \in Roots : disk'[d] # "bad"
    BY <1>1, <2>1 DEF CalmStore
  <2>8. QED
    BY <2>1, <2>2, <2>4, <2>5, <2>6, <2>7, CalmStreamOthers
<1>8. QED
  BY <1>2, <1>3, <1>4, <1>5, <1>6, <1>7 DEF StreamStep

\* What goes wrong is counted, and nothing undoes it.
LEMMA FaultsOnlyCount ==
  ASSUME TypeOK, [Next]_vars
  PROVE  Fault \/ UNCHANGED faults
<1>1. ASSUME NEW u \in Uploads, UploadStep(u)
      PROVE  Fault \/ UNCHANGED faults
  <2>1. CASE SavePersisted(u) \/ Dispatch(u) \/ Fail(u) \/ Answer(u)
    <3>1. \E ok \in BOOLEAN : SaveOutcome(u, ok)
      BY <2>1 DEF SavePersisted, Dispatch, Fail, Answer
    <3>2. QED
      BY <3>1 DEF SaveOutcome, NoFault
  <2>2. CASE Copy(u) \/ RemoveUpload(u) \/ ReportObserved(u)
    BY <2>2 DEF Copy, RemoveUpload, MayFail, ReportObserved, NoFault
  <2>3. QED
    BY <1>1, <2>1, <2>2 DEF UploadStep, Begin, PickDirectory, CreateTemporary,
       RepairRoot, Reject, ProviderFails, Run, Release
<1>2. ASSUME NEW s \in Streams, StreamStep(s)
      PROVE  Fault \/ UNCHANGED faults
  <2>1. CASE Append(s) \/ AppendFails(s) \/ Cancel(s)
    BY <2>1 DEF Append, AppendFails, Cancel, Records, NoFault
  <2>2. CASE \/ Initialize(s) \/ Sent(s) \/ Commit(s) \/ CommitRefused(s)
             \/ ProviderCommits(s) \/ FailCommit(s) \/ Complete(s)
             \/ StreamCloses(s) \/ \E e \in Events : Send(s, e)
    BY <2>2, StreamQuiet DEF NoFault
  <2>3. CASE Connect(s) \/ RemoveStream(s)
    BY <2>3 DEF Connect, RemoveStream, MayFail, NoFault
  <2>4. QED
    BY <1>2, <2>1, <2>2, <2>3 DEF StreamStep
<1>3. CASE Environment
  BY <1>3 DEF Environment, CheckStorage, RootLost, Close, Restart, Disconnect,
     Probing, NoFault
<1>4. QED
  BY <1>1, <1>2, <1>3 DEF Next, vars, serverVars

\* Nothing else happens in a calm state.
LEMMA CalmNext ==
  ASSUME CalmInv, [Next]_vars
  PROVE  Calm'
<1>1. SUFFICES ASSUME faults' = 0
               PROVE  Calm'
  BY DEF Calm
<1>t. TypeOK' /\ TypeOK /\ PlaceInv /\ Calm
  BY NextType DEF CalmInv, ServerInv
<1>2. CASE faults = 0
  <2>0. CalmStep
    BY <1>1, <1>2, <1>t DEF CalmStep
  <2>1. /\ CalmStore /\ Settled /\ (\A v \in Uploads : CalmUpload(v))
        /\ \A s \in Streams : CalmStream(s)
    BY <1>2, <1>t DEF Calm
  <2>2. ASSUME UNCHANGED <<root, audio, temporary, record, active, upload, stream>>,
               (away \cap Uploads)' = {}, \A d \in Roots : disk'[d] # "bad"
        PROVE  Calm'
    <3>1. CalmStore' /\ Settled'
      BY <2>1, <2>2 DEF CalmStore, Settled
    <3>2. \A v \in Uploads : CalmUpload(v)'
      BY <2>1, <2>2 DEF CalmUpload, In, Id
    <3>3. \A s \in Streams : CalmStream(s)'
      BY <2>1, <2>2 DEF CalmStream
    <3>4. QED
      BY <3>1, <3>2, <3>3 DEF Calm
  <2>3. CASE CheckStorage
    <3>1. Usable(root)
      BY <1>t, <2>1 DEF CalmStore, Usable, TypeOK, Roots
    <3>2. Made(root) /\ UNCHANGED root
      BY <2>3, <3>1 DEF CheckStorage
    <3>3. \A d \in Roots : disk'[d] # "bad"
      BY <1>t, <2>1, <3>2 DEF Made, CalmStore, TypeOK
    <3>4. QED
      BY <2>1, <2>2, <2>3, <3>2, <3>3 DEF CheckStorage, CalmStore
  <2>4. CASE RootLost \/ Close \/ Restart
    BY <1>1, <1>2, <2>4 DEF RootLost, Close, Restart, Fault
  <2>5. CASE Disconnect
    <3>1. PICK s \in Streams : away' = away \cup {s}
      BY <1>1, <1>2, <2>5 DEF Disconnect, Fault
    <3>2. (away \cap Uploads)' = {}
      BY <2>1, <3>1, IdsDiffer DEF CalmStore
    <3>3. QED
      BY <2>1, <2>2, <2>5, <3>2 DEF Disconnect, store, CalmStore
  <2>6. CASE Probing \/ UNCHANGED vars
    BY <2>1, <2>2, <2>6 DEF Probing, serverRest, store, vars, serverVars, CalmStore
  <2>7. ASSUME NEW u \in Uploads, UploadStep(u)
        PROVE  Calm'
    BY <2>0, <2>7, CalmBegin, CalmRelease, CalmCreates, CalmRuns DEF UploadStep
  <2>8. ASSUME NEW s \in Streams, StreamStep(s)
        PROVE  Calm'
    BY <2>0, <2>8, CalmStreamStep
  <2>9. QED
    BY <2>3, <2>4, <2>5, <2>6, <2>7, <2>8 DEF Next, Environment
<1>3. CASE faults # 0
  <2>1. faults \in Nat
    BY <1>t, ServerAssumption DEF TypeOK
  <2>2. Fault \/ UNCHANGED faults
    BY <1>t, FaultsOnlyCount
  <2>3. QED
    BY <1>1, <1>3, <2>1, <2>2 DEF Fault
<1>4. QED
  BY <1>2, <1>3

LEMMA CalmInvariant == Spec => []CalmInv
<1>1. ASSUME Init
      PROVE  Calm
  <2>1. /\ root = 1 /\ away = {} /\ \A d \in Roots : disk[d] # "bad"
        /\ \A i \in Ids : record[i] = "none"
        /\ \A u \in Uploads : upload[u].at = "idle"
        /\ \A s \in Streams : /\ stream[s].at = "new" /\ stream[s].phase = "none"
    BY <1>1 DEF Init
  <2>2. CalmStore /\ Settled
    BY <2>1 DEF CalmStore, Settled
  <2>3. \A u \in Uploads : CalmUpload(u)
    BY <2>1 DEF CalmUpload, In
  <2>4. \A s \in Streams : CalmStream(s)
    BY <2>1 DEF CalmStream, Ids
  <2>5. QED
    BY <2>2, <2>3, <2>4 DEF Calm
<1>2. Init => CalmInv
  BY <1>1, InitInv DEF CalmInv
<1>3. CalmInv /\ [Next]_vars => CalmInv'
  BY CalmNext, NextType, NextPlace, NextWriters DEF CalmInv, ServerInv
<1>4. QED
  BY <1>2, <1>3, PTL DEF Spec

\* While a provider reads the audio of an upload it is there, unless something
\* went wrong: no other request has the id, so none removes it (handleFile).
THEOREM AudioRead == Spec => []AudioWhileRunning
<1>1. CalmInv => AudioWhileRunning
  BY DEF CalmInv, Calm, CalmUpload, AudioWhileRunning, In
<1>2. QED
  BY CalmInvariant, <1>1, PTL

\* When nothing goes wrong, the record of a request that has ended says how it
\* ended (failRecord, SaveResult, the cancellation of a stream).
THEOREM RecordsSettle == Spec => []RecordSettles
<1>1. CalmInv => RecordSettles
  BY DEF CalmInv, Calm, Settled, RecordSettles
<1>2. QED
  BY CalmInvariant, <1>1, PTL
=============================================================================
