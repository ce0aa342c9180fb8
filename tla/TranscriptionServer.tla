------------------------- MODULE TranscriptionServer -------------------------
(***************************************************************************)
(* The request handlers of the transcription API (transcriptionapi/        *)
(* server.go) over the store of one service: uploads that run a provider   *)
(* on a file, and realtime streams, with their audio in a temporary        *)
(* directory that may be lost and replaced (store.go) and a record of each *)
(* request.  Audio is not retained.                                        *)
(***************************************************************************)
EXTENDS SessionReducer, ProbeHealth, FiniteSets

CONSTANTS
  Uploads,      \* file requests that may be served at one time
  UploadIds,    \* request ids their clients choose
  Streams,      \* realtime connections; each is its own request id
  MaxRoots,     \* bound of the audio directories made
  MaxChunks,    \* bound of the chunks of a stream
  MaxEvents,    \* bound of the provider's events in a stream
  MaxTries,     \* attempts of a provider, resilience.MaxAttempts
  MaxFaults,    \* bound of what goes wrong in one behaviour
  Mixes         \* who takes part: sets of Participants

Participants == Uploads \cup Streams \cup {"health", "probe", "events"}

ASSUME ServerAssumption ==
  /\ UploadIds \cap Streams = {} /\ Uploads \cap Streams = {}
  /\ None \notin UploadIds \cup Streams
  /\ Reporters = Uploads
  /\ MaxRoots \in Nat \ {0} /\ MaxTries \in Nat \ {0}
  /\ MaxChunks \in Nat \ {0} /\ MaxEvents \in Nat /\ MaxFaults \in Nat
  /\ Mixes \subseteq SUBSET Participants

VARIABLES
  root,         \* Store.audioRoot, 0 once the store is closed
  retired,      \* Store.retiredAudioRoots
  made,         \* directories made so far
  disk,         \* what is at the path of each directory
  audio,        \* chunks in the audio file of each request, per directory
  temporary,    \* uploads whose temporary file is there
  record,       \* phase in the record.json of each request
  active,       \* Server.activeRequests
  upload, stream,
  away,         \* handlers whose client is gone
  faults, mix,
  left          \* history: what a failing removal left, by directory and request

serverVars ==
  <<root, retired, made, disk, audio, temporary, record, active,
    upload, stream, away, faults, mix, left>>
vars == <<serverVars, probeVars>>

Ids == UploadIds \cup Streams
Roots == 1 .. MaxRoots

Phases == {"none", "received", "persisted", "dispatched", "committing",
           "completed", "failed", "cancelled"}
Terminal == {"completed", "failed", "cancelled"}

UploadStates ==
  {"idle", "persist", "create", "repair", "copy", "save", "check", "run",
   "observed", "fail", "answer", "remove", "release"}

\* dir is the directory the upload uses; tries counts those of the store, later
\* those of the provider.
UploadRecords ==
  [at : UploadStates, id : Ids \cup {None}, dir : 0 .. MaxRoots, tries : 1 .. MaxTries + 2]

StreamStates ==
  {"new", "open", "appending", "commit", "results", "failed", "finish", "end",
   "cancel", "done"}

\* path is the directory in Store.realtimePaths, or 0; accepted counts the
\* appends that succeeded; bytes is audioBytes, phase that of the record in
\* memory ("none" until the session is initialized).
StreamRecords ==
  [at : StreamStates, path : 0 .. MaxRoots, bytes : 0 .. MaxChunks,
   accepted : 0 .. MaxChunks, phase : Phases, session : Sessions,
   events : 0 .. MaxEvents]

Init ==
  /\ ProbeInit
  /\ root = 1 /\ retired = {} /\ made = 1
  /\ disk = [d \in Roots |-> IF d = 1 THEN "ok" ELSE "gone"]
  /\ audio = [d \in Roots |-> [i \in Ids |-> 0]]
  /\ temporary = {}
  /\ record = [i \in Ids |-> "none"]
  /\ active = {}
  /\ upload = [u \in Uploads |-> [at |-> "idle", id |-> None, dir |-> 0, tries |-> 1]]
  /\ stream = [s \in Streams |->
       [at |-> "new", path |-> 0, bytes |-> 0, accepted |-> 0, phase |-> "none",
        session |-> NewSession, events |-> 0]]
  /\ away = {} /\ faults = 0 /\ left = {}
  /\ mix \in Mixes

Fault == faults < MaxFaults /\ faults' = faults + 1
NoFault == faults' = faults
store == <<root, retired, made, disk, audio>>

-----------------------------------------------------------------------------
(***************************************************************************)
(* The store's directories.                                                *)
(***************************************************************************)
\* os.MkdirAll in a directory makes it again if it is gone.
Usable(d) == disk[d] # "bad"
Made(d) == disk' = [disk EXCEPT ![d] = "ok"]

\* repairEphemeralAudioRoot: the old directory may still be in use, it is kept
\* until the store closes.
CanRepair == root # 0 /\ made < MaxRoots
NewRoot ==
  /\ root' = made + 1 /\ made' = made + 1
  /\ retired' = retired \cup {root}
  /\ disk' = [disk EXCEPT ![made + 1] = "ok"]

\* What is in a directory goes with it.
Lost(dirs, how) ==
  /\ disk' = [d \in Roots |-> IF d \in dirs THEN how ELSE disk[d]]
  /\ audio' = [d \in Roots |-> [i \in Ids |-> IF d \in dirs THEN 0 ELSE audio[d][i]]]
  /\ temporary' = {u \in temporary : upload[u].dir \notin dirs}

\* RemoveAudio: the directories it goes through, and what the failing ones keep.
Emptied(dirs, i, failing) ==
  /\ audio' = [d \in Roots |->
       IF d \in dirs \ failing THEN [audio[d] EXCEPT ![i] = 0] ELSE audio[d]]
  /\ left' = (left \ (Roots \X {i})) \cup (failing \X {i})

\* Variant: only the current directory is looked at.
RemovesCurrent(i, failing) == Emptied({root}, i, failing)

\* What is not a directory has nothing in it.
Removes(i, failing) == Emptied({root} \cup retired, i, failing)

\* Its errors are ignored.
MayFail(i, failing) ==
  /\ failing \subseteq {d \in Roots \cap ({root} \cup retired) : audio[d][i] > 0}
  /\ IF failing = {} THEN NoFault ELSE Fault

\* CheckWritable, for /healthz.
CheckStorage ==
  /\ "health" \in mix /\ root # 0
  /\ IF Usable(root)
     THEN Made(root) /\ UNCHANGED <<root, retired, made>>
     ELSE CanRepair /\ NewRoot
  /\ UNCHANGED <<audio, temporary, record, active, upload, stream, away, faults,
                 mix, left, probeVars>>

\* The directory is deleted, or becomes unusable.
RootLost ==
  /\ Fault
  /\ \E d \in {root} \cup retired, how \in {"gone", "bad"} :
       d # 0 /\ disk[d] = "ok" /\ Lost({d}, how)
  /\ UNCHANGED <<root, retired, made, record, active, upload, stream, away, mix,
                 left, probeVars>>

\* Close, when the service shuts down; handlers may still be at work.
Close ==
  /\ root # 0 /\ Fault
  /\ Lost({root} \cup retired, "gone")
  /\ root' = 0 /\ retired' = {}
  /\ stream' = [s \in Streams |-> [stream[s] EXCEPT !.path = 0]]
  /\ UNCHANGED <<made, record, active, upload, away, mix, left, probeVars>>

\* The service dies, and starts again with a directory of its own.
Restart ==
  /\ made < MaxRoots /\ Fault
  /\ root' = made + 1 /\ made' = made + 1 /\ retired' = {}
  /\ disk' = [disk EXCEPT ![made + 1] = "ok"]
  /\ temporary' = {} /\ active' = {} /\ away' = {}
  /\ upload' = [u \in Uploads |-> [upload[u] EXCEPT !.at = "idle"]]
  /\ stream' = [s \in Streams |->
       IF stream[s].at = "new" THEN stream[s]
       ELSE [stream[s] EXCEPT !.at = "done", !.path = 0]]
  /\ RestoreProbe
  /\ UNCHANGED <<audio, record, mix, left>>

Disconnect ==
  /\ \/ /\ Fault
        /\ \E u \in Uploads \ away : upload[u].at # "idle" /\ away' = away \cup {u}
     \/ /\ NoFault
        /\ \E s \in Streams \ away :
             stream[s].at \notin {"new", "done"} /\ away' = away \cup {s}
  /\ UNCHANGED <<store, temporary, record, active, upload, stream, mix, left, probeVars>>

serverRest ==
  <<store, temporary, record, active, upload, stream, away, mix, left>>

Probing ==
  /\ "probe" \in mix
  /\ \/ ProbeStep /\ NoFault
     \/ ProbeEndsSave(FALSE) /\ Fault
  /\ UNCHANGED serverRest

-----------------------------------------------------------------------------
(***************************************************************************)
(* An upload: handleFile and PersistAudio.                                 *)
(***************************************************************************)
UploadAt(u, label) == upload' = [upload EXCEPT ![u].at = label]
In(u, label) == upload[u].at = label
Id(u) == upload[u].id
Saves(i, phase) == record' = [record EXCEPT ![i] = phase]

\* SaveRecord and SaveResult check the request's context, which ends with the
\* client's connection; writing may fail.  The outcome is ok.
SaveOutcome(u, ok) ==
  IF u \in away THEN ok = FALSE /\ NoFault
  ELSE IF ok THEN NoFault ELSE Fault

storeRest == <<store, temporary>>
requestRest == <<stream, mix, left>>

\* Variant: an id that is in use is not refused.
BeginAnyway(u, i) ==
  /\ In(u, "idle") /\ u \in mix
  /\ active' = active \cup {i}
  /\ upload' = [upload EXCEPT ![u] = [at |-> "persist", id |-> i, dir |-> 0, tries |-> 1]]
  /\ UNCHANGED <<storeRest, requestRest, record, away, faults, probeVars>>

Begin(u, i) ==
  /\ In(u, "idle") /\ u \in mix
  /\ i \notin active /\ active' = active \cup {i}
  /\ upload' = [upload EXCEPT ![u] = [at |-> "persist", id |-> i, dir |-> 0, tries |-> 1]]
  /\ UNCHANGED <<storeRest, requestRest, record, away, faults, probeVars>>

\* PersistAudio checks the context once, and asks for the directory each time.
PickDirectory(u) ==
  /\ In(u, "persist")
  /\ IF root = 0 \/ (upload[u].tries = 1 /\ u \in away)
     THEN UploadAt(u, "remove")
     ELSE upload' = [upload EXCEPT ![u].at = "create", ![u].dir = root]
  /\ UNCHANGED <<storeRest, requestRest, record, active, away, faults, probeVars>>

CreateTemporary(u) ==
  /\ In(u, "create")
  /\ IF Usable(upload[u].dir)
     THEN Made(upload[u].dir) /\ temporary' = temporary \cup {u} /\ UploadAt(u, "copy")
     ELSE /\ UploadAt(u, IF upload[u].tries = 1 THEN "repair" ELSE "remove")
          /\ UNCHANGED <<disk, temporary>>
  /\ UNCHANGED <<root, retired, made, audio, requestRest, record, active, away,
                 faults, probeVars>>

RepairRoot(u) ==
  /\ In(u, "repair")
  /\ IF CanRepair
     THEN NewRoot /\ upload' = [upload EXCEPT ![u].at = "persist", ![u].tries = 2]
     ELSE UploadAt(u, "remove") /\ UNCHANGED <<root, retired, made, disk>>
  /\ UNCHANGED <<audio, temporary, requestRest, record, active, away, faults, probeVars>>

\* The file is copied and renamed; that fails if it is gone or the disk is full.
Copy(u) ==
  /\ In(u, "copy")
  /\ \/ /\ u \in temporary /\ NoFault
        /\ audio' = [audio EXCEPT ![upload[u].dir][Id(u)] = 1]
        /\ UploadAt(u, "save")
     \/ /\ IF u \in temporary THEN Fault ELSE NoFault
        /\ UploadAt(u, "remove") /\ UNCHANGED audio
  /\ temporary' = temporary \ {u}
  /\ UNCHANGED <<root, retired, made, disk, requestRest, record, active, away, probeVars>>

SavePersisted(u) ==
  /\ In(u, "save")
  /\ \E ok \in BOOLEAN :
       /\ SaveOutcome(u, ok)
       /\ IF ok THEN Saves(Id(u), "persisted") /\ UploadAt(u, "check")
          ELSE UNCHANGED record /\ UploadAt(u, "remove")
  /\ UNCHANGED <<storeRest, requestRest, active, away, probeVars>>

\* No provider, or silence.
Reject(u) ==
  /\ In(u, "check")
  /\ UploadAt(u, "fail")
  /\ UNCHANGED <<storeRest, requestRest, record, active, away, faults, probeVars>>

\* Authentication fails, or the provider does with an error of its own.
ProviderFails(u) ==
  /\ In(u, "check") \/ In(u, "run")
  /\ ObserveFailure
  /\ UploadAt(u, "observed")
  /\ UNCHANGED <<storeRest, requestRest, record, active, away, faults>>

ReportObserved(u) ==
  /\ In(u, "observed")
  /\ \/ ReporterBeginsSave(u) /\ UNCHANGED upload /\ NoFault
     \/ \E ok \in BOOLEAN :
          /\ ReporterEndsSave(u, ok) /\ UploadAt(u, "fail")
          /\ IF ok THEN NoFault ELSE Fault
  /\ UNCHANGED <<storeRest, requestRest, record, active, away>>

\* An error of this save is ignored.
Dispatch(u) ==
  /\ In(u, "check")
  /\ \E ok \in BOOLEAN :
       SaveOutcome(u, ok) /\ IF ok THEN Saves(Id(u), "dispatched") ELSE UNCHANGED record
  /\ upload' = [upload EXCEPT ![u].at = "run", ![u].tries = 1]
  /\ UNCHANGED <<storeRest, requestRest, active, away, probeVars>>

\* runFileProvider: errors that may be retried are, with the request's context.
Run(u) ==
  /\ In(u, "run")
  /\ \/ UploadAt(u, "answer")
     \/ UploadAt(u, "fail")
     \/ /\ upload[u].tries < MaxTries /\ u \notin away
        /\ upload' = [upload EXCEPT ![u].tries = @ + 1]
  /\ UNCHANGED <<storeRest, requestRest, record, active, away, faults, probeVars>>

\* failRecord.
Fail(u) ==
  /\ In(u, "fail")
  /\ \E ok \in BOOLEAN :
       SaveOutcome(u, ok) /\ IF ok THEN Saves(Id(u), "failed") ELSE UNCHANGED record
  /\ UploadAt(u, "remove")
  /\ UNCHANGED <<storeRest, requestRest, active, away, probeVars>>

Answer(u) ==
  /\ In(u, "answer")
  /\ \E ok \in BOOLEAN :
       SaveOutcome(u, ok) /\ IF ok THEN Saves(Id(u), "completed") ELSE UNCHANGED record
  /\ UploadAt(u, "remove")
  /\ UNCHANGED <<storeRest, requestRest, active, away, probeVars>>

RemoveUpload(u) ==
  /\ In(u, "remove")
  /\ \E failing \in SUBSET Roots : MayFail(Id(u), failing) /\ Removes(Id(u), failing)
  /\ UploadAt(u, "release")
  /\ UNCHANGED <<root, retired, made, disk, temporary, stream, mix, record, active,
                 away, probeVars>>

Release(u) ==
  /\ In(u, "release")
  /\ active' = active \ {Id(u)}
  /\ upload' = [upload EXCEPT ![u] = [at |-> "idle", id |-> None, dir |-> 0, tries |-> 1]]
  /\ away' = away \ {u}
  /\ UNCHANGED <<storeRest, requestRest, record, faults, probeVars>>

UploadStep(u) ==
  \/ \E i \in UploadIds : Begin(u, i)
  \/ PickDirectory(u) \/ CreateTemporary(u) \/ RepairRoot(u) \/ Copy(u)
  \/ SavePersisted(u) \/ Reject(u) \/ ProviderFails(u) \/ ReportObserved(u)
  \/ Dispatch(u) \/ Run(u) \/ Fail(u) \/ Answer(u)
  \/ RemoveUpload(u) \/ Release(u)

-----------------------------------------------------------------------------
(***************************************************************************)
(* A stream: handleRealtime.  The request's context outlives the client of *)
(* a WebSocket; reads and writes fail when the client is gone.             *)
(***************************************************************************)
On(s, label) == stream[s].at = label
StreamAt(s, label) == stream' = [stream EXCEPT ![s].at = label]
Moves(s, label, phase) ==
  stream' = [stream EXCEPT ![s].at = label, ![s].phase = phase]
Writes(s, ok) == ok \/ s \in away

\* SaveRecord writes, or fails.
Records(s, phase, ok) ==
  IF ok THEN Saves(s, phase) /\ NoFault ELSE UNCHANGED record /\ Fault

streamRest == <<upload, mix, temporary, left>>

Connect(s) ==
  /\ On(s, "new") /\ s \in mix
  /\ active' = active \cup {s}
  /\ StreamAt(s, "open")
  /\ UNCHANGED <<store, streamRest, record, away, faults, probeVars>>

\* initialize: a session may be updated at any time, and gets a new record.
Initialize(s) ==
  /\ On(s, "open")
  /\ \/ StreamAt(s, "end")
     \/ \E ok \in BOOLEAN :
          Writes(s, ok) /\ Moves(s, IF ok THEN "open" ELSE "end", "received")
  /\ UNCHANGED <<store, streamRest, record, active, away, faults, probeVars>>

\* AppendAudio holds realtimeMu throughout.  A stream that has a file keeps it;
\* a new one goes where the store is now, after a repair if that is needed.
\* Variant: the file of a stream is made again where the store is now.
AppendPathMoving(s) ==
  IF Usable(root) THEN root ELSE made + 1

AppendPath(s) ==
  IF stream[s].path # 0 THEN stream[s].path
  ELSE IF Usable(root) THEN root ELSE made + 1

MayAppend(s) ==
  /\ root # 0
  /\ IF AppendPath(s) = stream[s].path THEN audio[AppendPath(s)][s] > 0
     ELSE Usable(root) \/ CanRepair

AddChunk(s) ==
  LET d == AppendPath(s) IN
  /\ audio' = [audio EXCEPT ![d][s] = @ + 1]
  /\ IF d > made THEN NewRoot
     ELSE /\ UNCHANGED <<root, retired, made>>
          /\ IF d = stream[s].path THEN UNCHANGED disk ELSE Made(d)

\* Variant: the size of the file is not looked at.
ChunkOfAnySize(s) ==
  On(s, "open") /\ stream[s].phase # "none" /\ MayAppend(s) /\ AddChunk(s)

\* Bytes are written, up to the limit; what a failing write leaves in the file is
\* not taken back.
Chunk(s) ==
  /\ On(s, "open") /\ stream[s].phase # "none"
  /\ MayAppend(s) /\ audio[AppendPath(s)][s] < MaxChunks
  /\ AddChunk(s)

\* The first chunk is recorded; an error leaves the connection open.
Append(s) ==
  /\ Chunk(s)
  /\ \E ok \in BOOLEAN :
       /\ IF stream[s].phase = "received" THEN Records(s, "persisted", ok)
          ELSE ok /\ NoFault /\ UNCHANGED record
       /\ stream' = [stream EXCEPT
            ![s].at = IF ok THEN "appending" ELSE "open",
            ![s].path = AppendPath(s),
            ![s].bytes = audio[AppendPath(s)][s] + 1,
            ![s].accepted = @ + 1,
            ![s].phase = IF @ = "received" THEN "persisted" ELSE @]
  /\ UNCHANGED <<streamRest, active, away, probeVars>>

AppendFails(s) ==
  /\ Chunk(s) /\ Fault
  /\ stream' = [stream EXCEPT ![s].path = AppendPath(s)]
  /\ UNCHANGED <<streamRest, record, active, away, probeVars>>

\* sendEvents, one event.  A conflicting final ends it, and so does a write.
Send(s, e) ==
  /\ On(s, "appending") \/ On(s, "results")
  /\ "events" \in mix /\ stream[s].events < MaxEvents
  /\ \E ok \in BOOLEAN :
       LET session == stream[s].session
           clash == Conflicts(session.item[e.item], e)
       IN /\ Writes(s, ok)
          /\ stream' = [stream EXCEPT
               ![s].events = @ + 1,
               ![s].session = IF clash THEN @ ELSE Apply(session, e),
               ![s].at = IF ok /\ ~clash THEN @
                         ELSE IF @ = "appending" THEN "open" ELSE "failed"]
  /\ UNCHANGED <<store, streamRest, record, active, away, faults, probeVars>>

\* No more events; while appending, the provider may have failed instead.
Sent(s) ==
  /\ \/ On(s, "appending") /\ StreamAt(s, "open")
     \/ On(s, "results") /\ StreamAt(s, "finish")
  /\ UNCHANGED <<store, streamRest, record, active, away, faults, probeVars>>

\* An error of this save is ignored, one of the write after it is not.
Commit(s) ==
  /\ On(s, "open") /\ stream[s].phase # "none" /\ stream[s].bytes > 0
  /\ \E recorded, ok \in BOOLEAN :
       /\ Records(s, "committing", recorded) /\ Writes(s, ok)
       /\ Moves(s, IF ok THEN "commit" ELSE "end", "committing")
  /\ UNCHANGED <<store, streamRest, active, away, probeVars>>

\* Without a session or audio the connection ends.
CommitRefused(s) ==
  /\ On(s, "open") /\ (stream[s].phase = "none" \/ stream[s].bytes = 0)
  /\ StreamAt(s, "end")
  /\ UNCHANGED <<store, streamRest, record, active, away, faults, probeVars>>

\* The provider gives its last events, or an error.
ProviderCommits(s) ==
  /\ On(s, "commit")
  /\ \E label \in {"results", "failed"} : StreamAt(s, label)
  /\ UNCHANGED <<store, streamRest, record, active, away, faults, probeVars>>

\* Saved whatever the request's context.
FailCommit(s) ==
  /\ \/ On(s, "failed")
     \/ /\ On(s, "finish")
        /\ stream[s].session.phase = "failed" \/ ~AllCompleted(stream[s].session)
  /\ \E ok \in BOOLEAN : Records(s, "failed", ok)
  /\ Moves(s, "end", "failed")
  /\ UNCHANGED <<store, streamRest, active, away, probeVars>>

Complete(s) ==
  /\ On(s, "finish")
  /\ stream[s].session.phase # "failed" /\ AllCompleted(stream[s].session)
  /\ \E ok \in BOOLEAN :
       Records(s, "completed", ok) /\ Moves(s, IF ok THEN "open" ELSE "end", "completed")
  /\ UNCHANGED <<store, streamRest, active, away, probeVars>>

\* The connection cannot be read: the client closed it, or is gone.
StreamCloses(s) ==
  /\ On(s, "open")
  /\ StreamAt(s, "end")
  /\ UNCHANGED <<store, streamRest, record, active, away, faults, probeVars>>

RemoveStream(s) ==
  /\ On(s, "end")
  /\ \E failing \in SUBSET Roots :
       /\ MayFail(s, failing) /\ Removes(s, failing)
       /\ stream' = [stream EXCEPT ![s].at = "cancel",
                                   ![s].path = IF failing = {} THEN 0 ELSE @]
  /\ UNCHANGED <<root, retired, made, disk, upload, mix, temporary, record, active,
                 away, probeVars>>

\* Variant: only a stream that was not committed is cancelled.
CancelUncommitted(s) ==
  /\ On(s, "cancel")
  /\ IF stream[s].bytes > 0 /\ stream[s].phase \in {"received", "persisted"}
     THEN \E ok \in BOOLEAN : Records(s, "cancelled", ok)
     ELSE UNCHANGED record /\ NoFault
  /\ active' = active \ {s}
  /\ StreamAt(s, "done")
  /\ UNCHANGED <<store, streamRest, away, probeVars>>

\* What was neither completed nor failed is cancelled; the id is free again.
Cancel(s) ==
  /\ On(s, "cancel")
  /\ IF stream[s].bytes > 0 /\ stream[s].phase \notin {"completed", "failed"}
     THEN \E ok \in BOOLEAN : Records(s, "cancelled", ok)
     ELSE UNCHANGED record /\ NoFault
  /\ active' = active \ {s}
  /\ StreamAt(s, "done")
  /\ UNCHANGED <<store, streamRest, away, probeVars>>

StreamStep(s) ==
  \/ Connect(s) \/ Initialize(s) \/ Append(s) \/ AppendFails(s)
  \/ \E e \in Events : Send(s, e)
  \/ Sent(s) \/ Commit(s) \/ CommitRefused(s) \/ ProviderCommits(s)
  \/ FailCommit(s) \/ Complete(s) \/ StreamCloses(s)
  \/ RemoveStream(s) \/ Cancel(s)

-----------------------------------------------------------------------------
Environment ==
  CheckStorage \/ RootLost \/ Close \/ Restart \/ Disconnect \/ Probing

Next ==
  \/ \E u \in Uploads : UploadStep(u)
  \/ \E s \in Streams : StreamStep(s)
  \/ Environment

Spec == Init /\ [][Next]_vars

-----------------------------------------------------------------------------
\* Type correctness of the store, the handlers and the health.
TypeOK ==
  /\ ProbeTypeOK
  /\ root \in 0 .. MaxRoots /\ retired \subseteq Roots /\ made \in Roots
  /\ disk \in [Roots -> {"ok", "gone", "bad"}]
  /\ audio \in [Roots -> [Ids -> 0 .. MaxChunks]]
  /\ temporary \subseteq Uploads
  /\ record \in [Ids -> Phases]
  /\ active \subseteq Ids
  /\ upload \in [Uploads -> UploadRecords]
  /\ stream \in [Streams -> StreamRecords]
  /\ away \subseteq Uploads \cup Streams
  /\ faults \in 0 .. MaxFaults /\ mix \in Mixes /\ left \subseteq Roots \X Ids

\* The file of a stream holds every chunk the stream has accepted, or it is gone
\* and no further chunk is (docs/TRANSCRIPTION_API.md: a stream keeps its file
\* across a replacement of the directory, and fails if earlier chunks disappear).
StreamKeepsBytes ==
  \A s \in Streams :
    LET d == stream[s].path IN
    d # 0 => audio[d][s] = 0 \/ audio[d][s] >= stream[s].accepted

\* No directory the store knows of holds audio of a request that has ended, but
\* what its own removal failed to take (RemoveAudio goes through the retired ones,
\* too, and tries each).
NothingLeft ==
  \A d \in {root} \cup retired, i \in Ids :
    d # 0 /\ audio[d][i] > 0 => i \in active \/ <<d, i>> \in left

\* While a provider reads the audio of an upload, it is there, unless its
\* directory was lost (no other request's RemoveAudio takes it: the id is taken).
AudioWhileRunning ==
  \A u \in Uploads :
    In(u, "run") /\ faults = 0 => audio[upload[u].dir][Id(u)] = 1

\* When nothing goes wrong, the record of a request that has ended says how
\* (failRecord, the cancellation at the end of a stream).  A stream's client may
\* leave at any time.
RecordSettles ==
  \A i \in Ids :
    faults = 0 /\ i \notin active => record[i] \in Terminal \cup {"none"}

\* Whatever the provider sends: a completed item keeps its transcript and stays
\* completed, a failed one stays failed (Apply ignores what is late).
ItemsStand ==
  [][\A s \in Streams, i \in Items :
       LET old == stream[s].session.item[i]
           new == stream'[s].session.item[i]
       IN old.at \in {"completed", "failed"} => new.at = old.at /\ new.final = old.final]_vars

\* When nobody is about to save, the file has the health in memory, unless the last
\* write failed: an older copy never replaces a newer one (persistState takes its
\* copy under stateMu).
SavedCurrent ==
  /\ writers = {} /\ ~behind /\ probe \notin {"attempting", "result"}
  /\ \A u \in Uploads : ~In(u, "observed")
  => saved = health
=============================================================================
