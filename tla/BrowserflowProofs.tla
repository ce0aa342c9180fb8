------------------------- MODULE BrowserflowProofs -------------------------
(***************************************************************************)
(* Theorems about Browserflow for every value of its constants.            *)
(***************************************************************************)
EXTENDS Browserflow, TLAPS

-----------------------------------------------------------------------------
\* Records.

\* A fresh record is a record.
LEMMA NewRecordType ==
  ASSUME NEW name \in ActionNames \cup {None}
  PROVE  NewRecord(name) \in Record
BY DEF NewRecord, Record, Phases, Dispatches, CleanupStates

\* The updates that the steps make to a record keep it a record.
LEMMA UpdateType ==
  ASSUME NEW r \in Record
  PROVE  /\ \A phase \in Phases : [r EXCEPT !.phase = phase] \in Record
         /\ \A cleanup \in CleanupStates :
              [r EXCEPT !.cleanup = cleanup] \in Record
         /\ \A phase \in Phases, cleanup \in CleanupStates :
              /\ [r EXCEPT !.phase = phase, !.cleanup = cleanup] \in Record
              /\ [r EXCEPT !.phase = phase, !.cleanup = cleanup,
                           !.unreconciled = FALSE] \in Record
         /\ \A phase \in Phases, b \in BOOLEAN :
              [r EXCEPT !.phase = phase, !.unreconciled = b] \in Record
         /\ \A phase \in Phases :
              [r EXCEPT !.session = TRUE, !.phase = phase] \in Record
         /\ [r EXCEPT !.target = TRUE] \in Record
         /\ [r EXCEPT !.target = TRUE, !.unreconciled = FALSE] \in Record
         /\ r.cleanup \in CleanupStates
<1>1. \A phase \in Phases : [r EXCEPT !.phase = phase] \in Record
  BY DEF Record
<1>2. \A cleanup \in CleanupStates : [r EXCEPT !.cleanup = cleanup] \in Record
  BY DEF Record
<1>3. \A phase \in Phases, cleanup \in CleanupStates :
        [r EXCEPT !.phase = phase, !.cleanup = cleanup] \in Record
  BY DEF Record
<1>4. \A phase \in Phases, cleanup \in CleanupStates :
        [r EXCEPT !.phase = phase, !.cleanup = cleanup, !.unreconciled = FALSE]
          \in Record
  BY DEF Record
<1>5. \A phase \in Phases, b \in BOOLEAN :
        [r EXCEPT !.phase = phase, !.unreconciled = b] \in Record
  BY DEF Record
<1>6. \A phase \in Phases : [r EXCEPT !.session = TRUE, !.phase = phase] \in Record
  BY DEF Record
<1>7. /\ [r EXCEPT !.target = TRUE] \in Record
      /\ [r EXCEPT !.target = TRUE, !.unreconciled = FALSE] \in Record
      /\ r.cleanup \in CleanupStates
  BY DEF Record
<1>8. QED
  BY <1>1, <1>2, <1>3, <1>4, <1>5, <1>6, <1>7

\* A record that is acknowledged, or confirmed, is a record.
LEMMA AcknowledgedType ==
  ASSUME NEW r \in Record
  PROVE  /\ [r EXCEPT !.conv = TRUE, !.phase = "acknowledged",
                      !.dispatch = IF @ = "unknown" THEN "performed" ELSE @]
              \in Record
         /\ \A proof \in Proofs :
              [r EXCEPT !.dispatch = "performed", !.post = proof,
                        !.phase = "action_performed"] \in Record
<1>1. r.dispatch \in Dispatches \cup {None}
  BY DEF Record
<1>2. \A d \in Dispatches \cup {None} :
        [r EXCEPT !.conv = TRUE, !.phase = "acknowledged", !.dispatch = d]
          \in Record
  BY DEF Record, Phases
<1>3. "performed" \in Dispatches
  BY DEF Dispatches
<1>4. \A d \in Dispatches, proof \in Proofs :
        [r EXCEPT !.dispatch = d, !.post = proof, !.phase = "action_performed"]
          \in Record
  BY DEF Record, Phases
<1>5. (IF r.dispatch = "unknown" THEN "performed" ELSE r.dispatch)
        \in Dispatches \cup {None}
  BY <1>1, <1>3
<1>6. QED
  BY <1>2, <1>3, <1>4, <1>5

\* Giving up keeps the slot and what it has counted.
LEMMA FailedKeeps ==
  ASSUME NEW r \in Record, NEW b \in BOOLEAN
  PROVE  /\ Failed(r, b).done = r.done /\ Failed(r, b).raw = r.raw
         /\ Failed(r, b).attempts = r.attempts
         /\ Failed(r, b).phase = "failed"
BY DEF Failed, Record

\* So does finding no target.
LEMMA NotFoundKeeps ==
  ASSUME NEW r \in Record, NEW b \in BOOLEAN, NEW acquiring \in BOOLEAN
  PROVE  /\ NotFound(r, b, acquiring).done = r.done
         /\ NotFound(r, b, acquiring).raw = r.raw
BY DEF NotFound, Failed, Record

\* The record of an unsuccessful marker search is a record.
LEMMA NotFoundType ==
  ASSUME NEW r \in Record, NEW b \in BOOLEAN, NEW acquiring \in BOOLEAN
  PROVE  NotFound(r, b, acquiring) \in Record
<1>1. Failed(r, b) \in Record
  BY UpdateType DEF Failed, Phases
<1>2. Failed(r, b).cleanup \in CleanupStates
  BY <1>1 DEF Record
<1>3. QED
  BY <1>1, <1>2, UpdateType DEF NotFound, CleanupStates

\* Classifying a dispatch gives a record.
LEMMA ObservedType ==
  ASSUME NEW r \in Record, NEW outcome \in Dispatches
  PROVE  Observed(r, outcome) \in Record
BY DEF Record, Observed, Phases

\* Archiving a slot appends a completed action and resets the rest.
LEMMA NextSlotType ==
  ASSUME NEW r \in Record, NEW name \in ActionNames
  PROVE  /\ NextSlot(r, name) \in Record
         /\ NextSlot(r, name).done = Append(r.done, Archive(r))
         /\ NextSlot(r, name).raw = 0
         /\ Len(NextSlot(r, name).done) = Len(r.done) + 1
<1> DEFINE done == Append(r.done, Archive(r))
           q == [r EXCEPT !.done = done, !.phase = "attached", !.name = name]
<1>1. Archive(r) \in CompletedAction
  BY DEF Record, Archive, CompletedAction
<1>2. done \in Seq(CompletedAction) /\ Len(done) = Len(r.done) + 1
  BY <1>1 DEF Record
<1>3. NextSlot(r, name) =
        [q EXCEPT !.dispatch = None, !.attempts = 0, !.raw = 0,
                  !.pend = FALSE, !.post = None]
  BY DEF NextSlot, Record
<1>4. q \in Record /\ q.done = done
  <2> HIDE DEF done
  <2>1. QED
    BY <1>2 DEF Record, Phases
<1> HIDE DEF q
<1>5. NextSlot(r, name) \in Record
  <2>1. [q EXCEPT !.dispatch = None] \in Record
    BY <1>4 DEF Record
  <2>2. \A t \in Record : [t EXCEPT !.attempts = 0, !.raw = 0] \in Record
    BY DEF Record
  <2>3. \A t \in Record : [t EXCEPT !.pend = FALSE, !.post = None] \in Record
    BY DEF Record
  <2>4. QED
    BY <1>3, <2>1, <2>2, <2>3
<1>6. NextSlot(r, name).done = q.done /\ NextSlot(r, name).raw = 0
  BY <1>3, <1>4 DEF Record
<1>7. QED
  BY <1>2, <1>4, <1>5, <1>6

-----------------------------------------------------------------------------
\* Type correctness.

\* Both kinds of process are processes.
LEMMA OwnerIsProc == Owner \in Procs /\ Recoverers \subseteq Procs
BY DEF Procs

\* Saving, remembering and going somewhere keep the state typed.
LEMMA MoveType ==
  ASSUME TypeOK
  PROVE  /\ \A r \in Record, ok \in BOOLEAN :
              Save(r, ok) => file' \in Record \cup {None}
         /\ \A p \in Procs, r \in Record :
              Remember(p, r) => rec' \in [Procs -> Record]
         /\ \A p \in Procs, label \in Labels :
              Goto(p, label) => pc' \in [Procs -> Labels]
BY DEF Save, Remember, Goto, TypeOK

\* A lease operation that only saves its next record keeps the state typed.
LEMMA LeaseSaveType ==
  ASSUME TypeOK, NEW next \in Record, LeaseSave(next)
  PROVE  TypeOK'
<1>1. PICK ok \in BOOLEAN :
        Save(next, ok) /\ Remember(Owner, IF ok THEN next ELSE rec[Owner])
  BY DEF LeaseSave
<1>2. file' \in Record \cup {None}
  BY <1>1 DEF Save, TypeOK
<1>3. rec' \in [Procs -> Record]
  BY <1>1, OwnerIsProc DEF Remember, TypeOK
<1>4. QED
  BY <1>2, <1>3 DEF TypeOK, LeaseSave, browser

\* The first state is typed.
LEMMA InitType == Init => TypeOK
<1>1. NewRecord(None) \in Record
  BY NewRecordType
<1>2. Init => rec \in [Procs -> Record]
  BY <1>1 DEF Init
<1>3. Init => pc \in [Procs -> Labels]
  BY DEF Init, Labels
<1>4. Init => sends \in [Slots -> Nat]
  BY DEF Init
<1>5. Init => /\ file \in Record \cup {None} /\ inputLock \in BOOLEAN
              /\ persistent \in BOOLEAN /\ target \in TargetStates
  BY DEF Init, TargetStates
<1>6. QED
  BY <1>2, <1>3, <1>4, <1>5 DEF TypeOK

\* The cleanup steps the Owner and the recoverers share.
LEMMA CleanupType ==
  ASSUME TypeOK, NEW p \in Procs
  PROVE  MarkerSearch(p) \/ SaveNotFound(p) \/ SettlePending(p)
           \/ SettleClose(p) \/ SettleResult(p) \/ RecoverAmbiguous(p) => TypeOK'
<1> DEFINE R == rec[p]
<1>r. R \in Record
  BY DEF TypeOK
<1>s. \A r \in Record, ok \in BOOLEAN :
        Save(r, ok) => file' \in Record \cup {None}
  BY MoveType
<1>m. \A r \in Record : Remember(p, r) => rec' \in [Procs -> Record]
  BY MoveType
<1>g. \A label \in Labels : Goto(p, label) => pc' \in [Procs -> Labels]
  BY MoveType
<1>h. \A label \in Labels : Goto(Owner, label) => pc' \in [Procs -> Labels]
  BY MoveType, OwnerIsProc
<1>p. {"idle", "not_found", "settle", "closing", "result", "failed"}
        \subseteq Labels
  BY DEF Labels, CleanupLabels, OwnerDone
<1> USE DEF FailAcquire, browser
<1>1. ASSUME MarkerSearch(p) PROVE TypeOK'
  <2>1. [R EXCEPT !.target = TRUE, !.unreconciled = FALSE] \in Record
    BY <1>r, UpdateType
  <2>2. \A b, acquiring \in BOOLEAN : NotFound(R, b, acquiring) \in Record
    BY <1>r, NotFoundType
  <2>3. QED
    BY <1>1, <2>1, <2>2, <1>m, <1>g, <1>p DEF MarkerSearch, TypeOK
<1>0. ASSUME SaveNotFound(p) PROVE TypeOK'
  BY <1>0, <1>r, <1>s, <1>g, <1>h, <1>p DEF SaveNotFound, TypeOK
<1>2. ASSUME SettlePending(p) PROVE TypeOK'
  <2>1. [R EXCEPT !.phase = "cleanup_pending", !.cleanup = "pending"] \in Record
    BY <1>r, UpdateType DEF Phases, CleanupStates
  <2>2. QED
    BY <1>2, <2>1, <1>s, <1>m, <1>g, <1>h, <1>p DEF SettlePending, TypeOK
<1>3. ASSUME SettleClose(p) PROVE TypeOK'
  <2>1. \A gone \in BOOLEAN : AfterClose(R, gone) \in Record
    BY <1>r, UpdateType DEF AfterClose, Phases, CleanupStates
  <2>2. QED
    BY <1>3, <2>1, <1>m, <1>g, <1>h, <1>p
       DEF SettleClose, CloseTarget, TypeOK, TargetStates
<1>4. ASSUME SettleResult(p) PROVE TypeOK'
  BY <1>4, <1>r, <1>s, <1>g, <1>h, <1>p DEF SettleResult, TypeOK
<1>5. ASSUME RecoverAmbiguous(p) PROVE TypeOK'
  <2>1. [R EXCEPT !.phase = "action_unknown", !.pend = TRUE,
                  !.dispatch = "unknown", !.raw = 1] \in Record
    BY <1>r DEF Record, Phases, Dispatches
  <2>2. QED
    BY <1>5, <2>1, <1>s, <1>m, <1>g, <1>h, <1>p DEF RecoverAmbiguous, TypeOK
<1>6. QED
  BY <1>0, <1>1, <1>2, <1>3, <1>4, <1>5

\* Acquire's own steps, one case per action.
LEMMA AcquireType ==
  ASSUME TypeOK, AcquireStep
  PROVE  TypeOK'
<1> DEFINE R == rec[Owner]
<1>r. R \in Record
  BY OwnerIsProc DEF TypeOK
<1>u. \A phase \in Phases, cleanup \in CleanupStates, b \in BOOLEAN :
        /\ [R EXCEPT !.phase = phase] \in Record
        /\ [R EXCEPT !.phase = phase, !.cleanup = cleanup] \in Record
        /\ [R EXCEPT !.phase = phase, !.unreconciled = b] \in Record
        /\ [R EXCEPT !.target = TRUE] \in Record
        /\ [R EXCEPT !.session = TRUE, !.phase = phase] \in Record
  BY <1>r, UpdateType
<1>s. \A r \in Record, ok \in BOOLEAN :
        Save(r, ok) => file' \in Record \cup {None}
  BY MoveType
<1>m. \A r \in Record : Remember(Owner, r) => rec' \in [Procs -> Record]
  BY MoveType, OwnerIsProc
<1>g. \A label \in Labels : Goto(Owner, label) => pc' \in [Procs -> Labels]
  BY MoveType, OwnerIsProc
<1>p. /\ {"planned", "budget_checked", "target_create_pending",
           "target_owned", "attached", "cleanup_pending", "failed"}
           \subseteq Phases
      /\ AcquireLabels \cup OwnerDone \cup CleanupLabels \cup {"lease"}
           \subseteq Labels
      /\ {"pending", "failed"} \subseteq CleanupStates
  BY DEF Phases, Labels, LeaseLabels, CleanupStates
<1> USE DEF AcquireLabels, OwnerDone, CleanupLabels, browser, FailAcquire
<1>1. CASE Create
  BY <1>1, <1>s, <1>m, <1>g, <1>p, NewRecordType DEF Create, TypeOK
<1>2. CASE CheckBudget
  BY <1>2, <1>s, <1>m, <1>g, <1>p, <1>u DEF CheckBudget, Failed, TypeOK
<1>3. CASE AcquireInputLock
  BY <1>3, <1>s, <1>m, <1>g, <1>p, <1>u, BrowserflowAssumption
     DEF AcquireInputLock, Failed, TypeOK
<1>4. CASE SaveCreateIntent
  BY <1>4, <1>s, <1>m, <1>g, <1>p, <1>u DEF SaveCreateIntent, TypeOK
<1>5. CASE SendCreate
  BY <1>5, <1>g, <1>p DEF SendCreate, TypeOK, TargetStates
<1>6. CASE CreateReturns
  BY <1>6, <1>m, <1>g, <1>p, <1>u DEF CreateReturns, TypeOK
<1>7. CASE MarkTargetPersistent
  BY <1>7, <1>g, <1>p DEF MarkTargetPersistent, TypeOK
<1>8. CASE SaveOwned
  BY <1>8, <1>s, <1>m, <1>g, <1>p, <1>u DEF SaveOwned, TypeOK
<1>9. CASE Attach
  BY <1>9, <1>m, <1>g, <1>p, <1>u DEF Attach, TypeOK
<1>10. CASE SaveAttachFailed
  BY <1>10, <1>s, <1>r, <1>g, <1>p DEF SaveAttachFailed, TypeOK
<1>11. CASE SaveAttached
  BY <1>11, <1>s, <1>r, <1>g, <1>p DEF SaveAttached, TypeOK
<1>12. CASE Navigate
  BY <1>12, <1>g, <1>p DEF Navigate, TypeOK, TargetStates
<1>13. CASE CloseUnjournaled
  BY <1>13, <1>g, <1>p DEF CloseUnjournaled, CloseTarget, TypeOK, TargetStates
<1>14. CASE \/ MarkerSearch(Owner) \/ SaveNotFound(Owner)
             \/ SettlePending(Owner) \/ SettleClose(Owner)
             \/ SettleResult(Owner)
  BY <1>14, CleanupType, OwnerIsProc
<1>15. QED
  BY <1>1, <1>2, <1>3, <1>4, <1>5, <1>6, <1>7, <1>8, <1>9, <1>10, <1>11,
     <1>12, <1>13, <1>14 DEF AcquireStep

\* The lease's operations, one case per action.
LEMMA LeaseType ==
  ASSUME TypeOK, LeaseStep \/ DispatchStep \/ CloseStep
  PROVE  TypeOK'
<1> DEFINE R == rec[Owner]
<1>r. R \in Record
  BY OwnerIsProc DEF TypeOK
<1>s. \A r \in Record, ok \in BOOLEAN :
        Save(r, ok) => file' \in Record \cup {None}
  BY MoveType
<1>m. \A r \in Record : Remember(Owner, r) => rec' \in [Procs -> Record]
  BY MoveType, OwnerIsProc
<1>g. \A label \in Labels : Goto(Owner, label) => pc' \in [Procs -> Labels]
  BY MoveType, OwnerIsProc
<1>p. LeaseLabels \cup {"closed"} \subseteq Labels
  BY DEF Labels, OwnerDone
<1> USE DEF LeaseLabels, browser
<1>1. CASE \E f \in Fingerprints : BindInputFingerprint(f)
  <2>1. \A f \in Fingerprints : [R EXCEPT !.fp = f] \in Record
    BY <1>r DEF Record
  <2>2. QED
    BY <1>1, <2>1, LeaseSaveType DEF BindInputFingerprint
<1>2. CASE MarkPrepared
  <2>1. [R EXCEPT !.phase = "prepared"] \in Record
    BY <1>r, UpdateType DEF Phases
  <2>2. QED
    BY <1>2, <2>1, LeaseSaveType DEF MarkPrepared
<1>3. CASE BeginDispatch
  <2>1. [R EXCEPT !.phase = "action_pending", !.attempts = @ + 1,
                  !.pend = TRUE] \in Record
    <3>1. \A n \in Nat : [R EXCEPT !.phase = "action_pending",
                                  !.attempts = n, !.pend = TRUE] \in Record
      BY <1>r DEF Record, Phases
    <3>2. R.attempts + 1 \in Nat
      BY <1>r DEF Record
    <3>3. QED
      BY <3>1, <3>2
  <2>2. QED
    BY <1>3, <2>1, <1>s, <1>m, <1>g, <1>p DEF BeginDispatch, TypeOK
<1>4. CASE Acknowledge
  <2>1. [R EXCEPT !.conv = TRUE, !.phase = "acknowledged",
           !.dispatch = IF @ = "unknown" THEN "performed" ELSE @] \in Record
    BY <1>r, AcknowledgedType
  <2>2. QED
    BY <1>4, <2>1, LeaseSaveType DEF Acknowledge
<1>5. CASE \E proof \in Proofs : ConfirmPostcondition(proof)
  <2>1. \A proof \in Proofs :
          [R EXCEPT !.dispatch = "performed", !.post = proof,
                    !.phase = "action_performed"] \in Record
    BY <1>r, AcknowledgedType
  <2>2. QED
    BY <1>5, <2>1, LeaseSaveType DEF ConfirmPostcondition
<1>6. CASE \E name \in ActionNames : BeginNextAction(name)
  BY <1>6, <1>r, NextSlotType, LeaseSaveType DEF BeginNextAction
<1>7. CASE \E phase \in CompletionPhases : MarkCompletion(phase)
  <2>1. \A phase \in CompletionPhases : [R EXCEPT !.phase = phase] \in Record
    BY <1>r, UpdateType DEF CompletionPhases, Phases
  <2>2. QED
    BY <1>7, <2>1, LeaseSaveType DEF MarkCompletion
<1>8. CASE ReleaseInput
  BY <1>8 DEF ReleaseInput, TypeOK
<1>9. CASE SendRawInput
  <2>1. sends' \in [Slots -> Nat]
    <3>1. CASE Slot(R) \in Slots
      BY <1>9, <3>1 DEF SendRawInput, TypeOK
    <3>2. CASE Slot(R) \notin Slots
      BY <1>9, <3>2 DEF SendRawInput, TypeOK
    <3>3. QED
      BY <3>1, <3>2
  <2>2. QED
    BY <1>9, <2>1, <1>g, <1>p DEF SendRawInput, TypeOK
<1>10. CASE DispatchReturns
  <2>1. \A outcome \in Outcomes(pc[Owner]) : Observed(R, outcome) \in Record
    BY <1>r, ObservedType DEF Outcomes, Dispatches
  <2>2. QED
    BY <1>10, <2>1, <1>s, <1>m, <1>g, <1>p DEF DispatchReturns, TypeOK
<1>11. CASE Close
  <2>1. [R EXCEPT !.phase = "cleanup_pending", !.cleanup = "pending"] \in Record
    BY <1>r, UpdateType DEF Phases, CleanupStates
  <2>2. QED
    BY <1>11, <2>1, <1>s, <1>m, <1>g, <1>p DEF Close, TypeOK
<1>12. CASE LeaseCloseTarget
  <2>1. \A gone \in BOOLEAN : AfterClose(R, gone) \in Record
    BY <1>r, UpdateType DEF AfterClose, Phases, CleanupStates
  <2>2. QED
    BY <1>12, <2>1, <1>m, <1>g, <1>p
       DEF LeaseCloseTarget, CloseTarget, TypeOK, TargetStates
<1>13. CASE LeaseCloseResult
  BY <1>13, <1>r, <1>s, <1>g, <1>p DEF LeaseCloseResult, TypeOK
<1>14. QED
  BY <1>1, <1>2, <1>3, <1>4, <1>5, <1>6, <1>7, <1>8, <1>9, <1>10, <1>11,
     <1>12, <1>13 DEF LeaseStep, DispatchStep, CloseStep

\* Every step keeps the state typed.
LEMMA NextType ==
  ASSUME TypeOK, [Next]_vars
  PROVE  TypeOK'
<1>1. CASE AcquireStep
  BY <1>1, AcquireType
<1>2. CASE LeaseStep \/ DispatchStep \/ CloseStep
  BY <1>2, LeaseType
<1>3. ASSUME NEW p \in Recoverers, RecoverLoad(p)
      PROVE  TypeOK'
  <2>1. file \in Record
    BY <1>3 DEF RecoverLoad, TypeOK
  <2>2. {"search", "ambiguous", "settle"} \subseteq Labels
    BY DEF Labels, AcquireLabels, CleanupLabels
  <2>3. rec' \in [Procs -> Record] /\ pc' \in [Procs -> Labels]
    BY <1>3, <2>1, <2>2, MoveType, OwnerIsProc DEF RecoverLoad
  <2>4. QED
    BY <1>3, <2>3 DEF RecoverLoad, TypeOK, browser
<1>4. ASSUME NEW p \in Recoverers, RecoverStep(p)
      PROVE  TypeOK'
  BY <1>4, CleanupType, OwnerIsProc DEF RecoverStep
<1>5. CASE Crash
  <2>1. NewRecord(None) \in Record /\ {"idle", "exited"} \subseteq Labels
    BY NewRecordType DEF Labels, OwnerDone
  <2>2. QED
    BY <1>5, <2>1, MoveType, OwnerIsProc
       DEF Crash, Exit, RecovererCrash, TypeOK, browser
<1>6. CASE BrowserStep
  BY <1>6 DEF BrowserStep, CreateLands, TargetLost, TypeOK, TargetStates
<1>7. CASE UNCHANGED vars
  BY <1>7 DEF vars, TypeOK
<1>8. QED
  BY <1>1, <1>2, <1>3, <1>4, <1>5, <1>6, <1>7 DEF Next

\* Every reachable state of a run is type-correct: the record a process holds
\* and the one on disk are records whatever fails or crashes.
THEOREM TypeCorrect == Spec => []TypeOK
<1>1. Init => TypeOK
  BY InitType
<1>2. TypeOK /\ [Next]_vars => TypeOK'
  BY NextType
<1>3. QED
  BY <1>1, <1>2, PTL DEF Spec

-----------------------------------------------------------------------------
\* At most one raw input.  The Owner's own memory is what prevents a second
\* one: a slot that has sent input is behind it, or counts the input, or is
\* being dispatched right now.  The journal plays no part in it.

OwnerRemembersInput ==
  pc[Owner] # "exited" =>
    \A s \in Slots : sends[s] > 0 =>
      \/ s < Slot(rec[Owner])
      \/ s = Slot(rec[Owner]) /\ (pc[Owner] = "sent" \/ rec[Owner].raw = 1)

OwnerStartsClean ==
  pc[Owner] = "idle" => rec[Owner].raw = 0 /\ rec[Owner].done = <<>>

DispatchIsUncounted ==
  pc[Owner] \in {"dispatch", "sent"} => rec[Owner].raw = 0

InputInv ==
  /\ TypeOK /\ AtMostOneRawInput
  /\ OwnerRemembersInput /\ OwnerStartsClean /\ DispatchIsUncounted

\* Steps of the Owner that neither send, nor begin a dispatch, nor open a slot.
OwnerKeepsSlot ==
  /\ pc[Owner] \notin {"idle", "exited", "sent"}
  /\ pc'[Owner] \notin {"idle", "dispatch", "sent"}
  /\ rec'[Owner].done = rec[Owner].done
  /\ rec[Owner].raw = 1 => rec'[Owner].raw = 1
  /\ sends' = sends

OwnerUntouched ==
  pc'[Owner] = pc[Owner] /\ rec'[Owner] = rec[Owner] /\ sends' = sends

\* Steps that keep the Owner's slot keep the invariant.
LEMMA KeepsSlotInv ==
  ASSUME InputInv, TypeOK', OwnerKeepsSlot
  PROVE  InputInv'
BY DEF InputInv, OwnerKeepsSlot, AtMostOneRawInput, OwnerRemembersInput,
       OwnerStartsClean, DispatchIsUncounted, Slot

\* So do steps that leave the Owner alone.
LEMMA UntouchedInv ==
  ASSUME InputInv, TypeOK', OwnerUntouched
  PROVE  InputInv'
BY DEF InputInv, OwnerUntouched, AtMostOneRawInput, OwnerRemembersInput,
       OwnerStartsClean, DispatchIsUncounted, Slot

\* The cleanup steps keep the slot and its input count.
LEMMA CleanupKeepsSlot ==
  ASSUME TypeOK, MarkerSearch(Owner) \/ SaveNotFound(Owner)
                   \/ SettlePending(Owner) \/ SettleClose(Owner)
                   \/ SettleResult(Owner)
  PROVE  OwnerKeepsSlot
<1>r. rec[Owner] \in Record /\ Owner \in Procs
  BY OwnerIsProc DEF TypeOK
<1> USE DEF OwnerKeepsSlot, Goto, Remember, TypeOK, FailAcquire
<1>1. CASE MarkerSearch(Owner)
  <2>1. CASE Remember(Owner, [rec[Owner] EXCEPT !.target = TRUE,
                                                !.unreconciled = FALSE])
             /\ Goto(Owner, "settle")
    BY <1>1, <2>1, <1>r DEF MarkerSearch, Record
  <2>2. ASSUME NEW q, q.done = rec[Owner].done, q.raw = rec[Owner].raw,
               Remember(Owner, q), Goto(Owner, "not_found")
        PROVE  OwnerKeepsSlot
    BY <1>1, <2>2, <1>r DEF MarkerSearch
  <2>3. \A b, acquiring \in BOOLEAN :
          LET q == NotFound(rec[Owner], b, acquiring)
          IN q.done = rec[Owner].done /\ q.raw = rec[Owner].raw
    BY <1>r, NotFoundKeeps
  <2>4. QED
    BY <1>1, <2>1, <2>2, <2>3 DEF MarkerSearch
<1>0. CASE SaveNotFound(Owner)
  BY <1>0, <1>r DEF SaveNotFound
<1>2. CASE SettlePending(Owner)
  BY <1>2, <1>r DEF SettlePending, Record
<1>3. CASE SettleClose(Owner)
  BY <1>3, <1>r DEF SettleClose, AfterClose, Record
<1>4. CASE SettleResult(Owner)
  BY <1>4, <1>r DEF SettleResult
<1>5. QED
  BY <1>0, <1>1, <1>2, <1>3, <1>4

\* So does every step of Acquire after the first.
LEMMA AcquireKeepsSlot ==
  ASSUME TypeOK, AcquireStep, ~Create
  PROVE  OwnerKeepsSlot
<1>r. rec[Owner] \in Record /\ Owner \in Procs
  BY OwnerIsProc DEF TypeOK
<1> USE DEF OwnerKeepsSlot, Goto, Remember, TypeOK, FailAcquire
<1>1. CASE CheckBudget
  <2>1. PICK r : /\ Remember(Owner, r) /\ r.done = rec[Owner].done
                 /\ r.raw = rec[Owner].raw
    <3>1. LET r == [rec[Owner] EXCEPT !.phase = "budget_checked"]
          IN r.done = rec[Owner].done /\ r.raw = rec[Owner].raw
      BY <1>r DEF Record
    <3>2. QED
      BY <1>1, <1>r, <3>1, FailedKeeps DEF CheckBudget
  <2>2. QED
    BY <1>1, <2>1, <1>r DEF CheckBudget
<1>2. CASE AcquireInputLock
  BY <1>2, <1>r, FailedKeeps DEF AcquireInputLock
<1>3. CASE SaveCreateIntent
  BY <1>3, <1>r DEF SaveCreateIntent, Record
<1>4. CASE SendCreate
  BY <1>4, <1>r DEF SendCreate
<1>5. CASE CreateReturns
  BY <1>5, <1>r DEF CreateReturns, Record
<1>6. CASE MarkTargetPersistent
  BY <1>6, <1>r DEF MarkTargetPersistent
<1>7. CASE SaveOwned
  BY <1>7, <1>r DEF SaveOwned, Record
<1>8. CASE Attach
  BY <1>8, <1>r DEF Attach, Record
<1>9. CASE SaveAttachFailed
  BY <1>9, <1>r DEF SaveAttachFailed
<1>10. CASE SaveAttached
  BY <1>10, <1>r DEF SaveAttached
<1>11. CASE Navigate
  BY <1>11, <1>r DEF Navigate
<1>12. CASE CloseUnjournaled
  BY <1>12, <1>r DEF CloseUnjournaled
<1>13. QED
  BY <1>1, <1>2, <1>3, <1>4, <1>5, <1>6, <1>7, <1>8, <1>9, <1>10, <1>11,
     <1>12, CleanupKeepsSlot DEF AcquireStep

\* A lease operation that only saves changes memory to its next record or not.
LEMMA LeaseSaveKeepsSlot ==
  ASSUME TypeOK, AtLease, NEW next \in Record, LeaseSave(next),
         next.done = rec[Owner].done, rec[Owner].raw = 1 => next.raw = 1
  PROVE  OwnerKeepsSlot
BY OwnerIsProc DEF LeaseSave, Remember, AtLease, TypeOK, OwnerKeepsSlot

\* The lease's operations: only a successful BeginNextAction opens a slot, and
\* every input sent until then lies behind it.
LEMMA LeaseInv ==
  ASSUME InputInv, TypeOK', LeaseStep
  PROVE  InputInv'
<1> DEFINE R == rec[Owner]
<1>t. TypeOK
  BY DEF InputInv
<1>r. R \in Record /\ Owner \in Procs
  BY <1>t, OwnerIsProc DEF TypeOK
<1>k. ASSUME NEW next \in Record, LeaseSave(next), AtLease,
             next.done = R.done, R.raw = 1 => next.raw = 1
      PROVE  InputInv'
  BY <1>k, <1>t, LeaseSaveKeepsSlot, KeepsSlotInv
<1>1. CASE \E f \in Fingerprints : BindInputFingerprint(f)
  <2>1. \A f : LET q == [R EXCEPT !.fp = f]
               IN q.done = R.done /\ q.raw = R.raw
    BY <1>r DEF Record
  <2>2. \A f \in Fingerprints : [R EXCEPT !.fp = f] \in Record
    BY <1>r DEF Record
  <2>3. QED
    BY <1>1, <1>k, <2>1, <2>2 DEF BindInputFingerprint
<1>2. CASE MarkPrepared \/ \E phase \in CompletionPhases : MarkCompletion(phase)
  <2>1. \A phase : LET q == [R EXCEPT !.phase = phase]
                   IN q.done = R.done /\ q.raw = R.raw
    BY <1>r DEF Record
  <2>2. \A phase \in CompletionPhases \cup {"prepared"} :
          [R EXCEPT !.phase = phase] \in Record
    BY <1>r, UpdateType DEF CompletionPhases, Phases
  <2>3. QED
    BY <1>2, <1>k, <2>1, <2>2 DEF MarkPrepared, MarkCompletion
<1>3. CASE Acknowledge
  <2> DEFINE q == [R EXCEPT !.conv = TRUE, !.phase = "acknowledged",
                     !.dispatch = IF @ = "unknown" THEN "performed" ELSE @]
  <2>1. q \in Record
    BY <1>r, AcknowledgedType
  <2>2. q.done = R.done /\ q.raw = R.raw
    BY <1>r DEF Record
  <2>3. QED
    BY <1>3, <1>k, <2>1, <2>2 DEF Acknowledge
<1>4. CASE \E proof \in Proofs : ConfirmPostcondition(proof)
  <2>1. \A proof \in Proofs :
          LET q == [R EXCEPT !.dispatch = "performed", !.post = proof,
                             !.phase = "action_performed"]
          IN q \in Record /\ q.done = R.done /\ q.raw = R.raw
    BY <1>r, AcknowledgedType DEF Record
  <2>2. QED
    BY <1>4, <1>k, <2>1 DEF ConfirmPostcondition
<1>5. CASE ReleaseInput
  <2>1. OwnerKeepsSlot
    BY <1>5, <1>r DEF ReleaseInput, AtLease, OwnerKeepsSlot
  <2>2. QED
    BY <2>1, KeepsSlotInv
<1>6. CASE BeginDispatch
  <2> DEFINE q == [R EXCEPT !.phase = "action_pending", !.attempts = @ + 1,
                            !.pend = TRUE]
  <2>1. q.done = R.done /\ q.raw = R.raw /\ R.raw = 0
    BY <1>6, <1>r DEF Record, BeginDispatch
  <2> HIDE DEF q
  <2>2. /\ AtLease /\ sends' = sends
        /\ \/ Remember(Owner, q) /\ Goto(Owner, "dispatch")
           \/ UNCHANGED <<rec, pc>>
    BY <1>6 DEF BeginDispatch, q
  <2>3. /\ rec'[Owner].done = R.done /\ rec'[Owner].raw = R.raw
        /\ pc'[Owner] \in {"dispatch", "lease"}
    BY <2>1, <2>2, <1>t, <1>r DEF Remember, Goto, TypeOK, AtLease
  <2>4. QED
    BY <2>1, <2>2, <2>3 DEF InputInv, AtMostOneRawInput, OwnerRemembersInput,
       OwnerStartsClean, DispatchIsUncounted, Slot, AtLease
<1>7. ASSUME NEW name \in ActionNames, BeginNextAction(name)
      PROVE  InputInv'
  <2> DEFINE q == NextSlot(R, name)
  <2>1. /\ q \in Record /\ Len(q.done) = Len(R.done) + 1 /\ q.raw = 0
        /\ R.done \in Seq(CompletedAction)
    BY <1>r, NextSlotType DEF Record
  <2> HIDE DEF q
  <2>2. AtLease /\ LeaseSave(q)
    BY <1>7 DEF BeginNextAction, q
  <2>3. /\ sends' = sends /\ pc'[Owner] = "lease" /\ pc[Owner] = "lease"
        /\ rec'[Owner] \in {q, R}
    BY <2>2, <1>t, <1>r DEF LeaseSave, AtLease, Remember, TypeOK
  <2>4. CASE rec'[Owner] = R
    BY <2>3, <2>4, UntouchedInv DEF OwnerUntouched
  <2>5. CASE rec'[Owner] = q
    <3>1. \A s \in Slots : sends[s] > 0 => s <= Slot(R)
      BY <2>1, <2>3 DEF InputInv, OwnerRemembersInput, Slot, Slots
    <3>2. \A s \in Slots : sends'[s] > 0 => s < Slot(rec'[Owner])
      BY <3>1, <2>1, <2>3, <2>5, RecordAssumption DEF Slot, Slots
    <3>3. QED
      BY <2>3, <3>2 DEF InputInv, AtMostOneRawInput, OwnerRemembersInput,
         OwnerStartsClean, DispatchIsUncounted
  <2>6. QED
    BY <2>3, <2>4, <2>5
<1>8. QED
  BY <1>1, <1>2, <1>3, <1>4, <1>5, <1>6, <1>7 DEF LeaseStep

\* Sending counts in a slot that has sent nothing; the answer makes memory
\* count it before the lease is usable again.
LEMMA DispatchInv ==
  ASSUME InputInv, TypeOK', DispatchStep
  PROVE  InputInv'
<1> DEFINE R == rec[Owner]
<1>t. TypeOK
  BY DEF InputInv
<1>r. R \in Record /\ Owner \in Procs
  BY <1>t, OwnerIsProc DEF TypeOK
<1>1. CASE SendRawInput
  <2>1. /\ pc[Owner] = "dispatch" /\ pc'[Owner] = "sent" /\ rec' = rec
        /\ sends' = [sends EXCEPT ![Slot(R)] = @ + 1]
    BY <1>1, <1>t, <1>r DEF SendRawInput, Goto, TypeOK
  <2>2. sends \in [Slots -> Nat] /\ R.raw = 0
    BY <1>t, <2>1 DEF TypeOK, InputInv, DispatchIsUncounted
  <2>3. \A s \in Slots : sends[s] > 0 => s < Slot(R)
    BY <2>1, <2>2 DEF InputInv, OwnerRemembersInput
  <2>4. \A s \in Slots : IF s = Slot(R) THEN sends[s] = 0 /\ sends'[s] = 1
                         ELSE sends'[s] = sends[s]
    <3>1. R.done \in Seq(CompletedAction)
      BY <1>r DEF Record
    <3>2. Slot(R) \in Nat /\ ~(Slot(R) < Slot(R))
      BY <3>1 DEF Slot
    <3>3. QED
      BY <2>1, <2>2, <2>3, <3>2
  <2>5. AtMostOneRawInput'
    BY <2>4, <2>2 DEF InputInv, AtMostOneRawInput
  <2>6. OwnerRemembersInput'
    BY <2>1, <2>2, <2>3, <2>4 DEF OwnerRemembersInput
  <2>7. QED
    BY <2>1, <2>2, <2>5, <2>6
       DEF InputInv, OwnerStartsClean, DispatchIsUncounted
<1>2. CASE DispatchReturns
  <2>1. PICK outcome \in Outcomes(pc[Owner]) :
          Remember(Owner, Observed(R, outcome))
    BY <1>2 DEF DispatchReturns
  <2>2. /\ pc[Owner] \in {"dispatch", "sent"} /\ pc'[Owner] = "lease"
        /\ rec'[Owner] = Observed(R, outcome) /\ sends' = sends
    BY <1>2, <2>1, <1>t, <1>r DEF DispatchReturns, Goto, Remember, TypeOK
  <2>3. /\ Observed(R, outcome).done = R.done
        /\ outcome # "not_performed" => Observed(R, outcome).raw = 1
        /\ pc[Owner] = "sent" => outcome # "not_performed"
    BY <1>r DEF Observed, Record, Outcomes
  <2>4. R.raw = 0
    BY <2>2 DEF InputInv, DispatchIsUncounted
  <2>5. OwnerRemembersInput'
    BY <2>2, <2>3, <2>4 DEF InputInv, OwnerRemembersInput, Slot
  <2>6. QED
    BY <2>2, <2>5 DEF InputInv, AtMostOneRawInput, OwnerStartsClean,
       DispatchIsUncounted
<1>3. QED
  BY <1>1, <1>2 DEF DispatchStep

\* Closing the lease keeps the slot and its input count.
LEMMA CloseKeepsSlot ==
  ASSUME TypeOK, CloseStep
  PROVE  OwnerKeepsSlot
<1>r. rec[Owner] \in Record /\ Owner \in Procs
  BY OwnerIsProc DEF TypeOK
<1> USE DEF OwnerKeepsSlot, Goto, Remember, TypeOK
<1>1. CASE Close
  BY <1>1, <1>r DEF Close, AtLease, Record
<1>2. CASE LeaseCloseTarget
  BY <1>2, <1>r DEF LeaseCloseTarget, AfterClose, Record
<1>3. CASE LeaseCloseResult
  BY <1>3, <1>r DEF LeaseCloseResult
<1>4. QED
  BY <1>1, <1>2, <1>3 DEF CloseStep

\* Nothing a recoverer or the browser does touches the Owner or its inputs.
LEMMA OthersLeaveOwner ==
  ASSUME TypeOK,
         \/ \E p \in Recoverers : RecoverLoad(p) \/ RecoverStep(p)
                                    \/ RecovererCrash(p)
         \/ BrowserStep
  PROVE  OwnerUntouched
<1> USE BrowserflowAssumption, OwnerIsProc
        DEF OwnerUntouched, Goto, Remember, TypeOK
<1>1. ASSUME NEW p \in Recoverers, RecoverLoad(p) \/ RecovererCrash(p)
      PROVE  OwnerUntouched
  BY <1>1 DEF RecoverLoad, RecovererCrash
<1>2. ASSUME NEW p \in Recoverers, RecoverStep(p)
      PROVE  OwnerUntouched
  <2>1. CASE RecoverAmbiguous(p)
    BY <1>2, <2>1 DEF RecoverAmbiguous
  <2>2. CASE MarkerSearch(p)
    BY <1>2, <2>2 DEF MarkerSearch
  <2>3. CASE SaveNotFound(p) \/ SettlePending(p) \/ SettleClose(p)
               \/ SettleResult(p)
    BY <1>2, <2>3 DEF SaveNotFound, SettlePending, SettleClose, SettleResult
  <2>4. QED
    BY <1>2, <2>1, <2>2, <2>3 DEF RecoverStep
<1>3. CASE BrowserStep
  BY <1>3 DEF BrowserStep, CreateLands, TargetLost
<1>4. QED
  BY <1>1, <1>2, <1>3

\* Creating the journal starts the Owner on a record without any input.
LEMMA CreateInv ==
  ASSUME InputInv, TypeOK', Create
  PROVE  InputInv'
<1>t. TypeOK /\ Owner \in Procs
  BY OwnerIsProc DEF InputInv
<1>1. \A s \in Slots : sends[s] = 0
  BY <1>t DEF InputInv, OwnerRemembersInput, OwnerStartsClean, Slot, Slots,
     Create, TypeOK
<1>2. PICK name : Remember(Owner, NewRecord(name))
  BY DEF Create
<1>3. rec'[Owner] = NewRecord(name)
  BY <1>2, <1>t DEF Remember, TypeOK
<1>4. rec'[Owner].raw = 0 /\ sends' = sends
  BY <1>3 DEF NewRecord, Create
<1>5. pc'[Owner] \in {"budget", "failed"}
  BY <1>t DEF Create, Goto, TypeOK
<1>6. QED
  BY <1>1, <1>4, <1>5 DEF InputInv, AtMostOneRawInput, OwnerRemembersInput,
     OwnerStartsClean, DispatchIsUncounted

\* A process that has died remembers nothing, and sends nothing any more.
LEMMA ExitInv ==
  ASSUME InputInv, TypeOK', Exit
  PROVE  InputInv'
<1>1. pc'[Owner] = "exited" /\ sends' = sends
  BY OwnerIsProc DEF Exit, Goto, InputInv, TypeOK
<1>2. QED
  BY <1>1 DEF InputInv, AtMostOneRawInput, OwnerRemembersInput,
     OwnerStartsClean, DispatchIsUncounted

\* The invariant is inductive: one case per group of actions.
LEMMA InputInvNext ==
  ASSUME InputInv, [Next]_vars
  PROVE  InputInv'
<1>t. TypeOK /\ TypeOK'
  BY NextType DEF InputInv
<1>1. CASE Create
  BY <1>1, <1>t, CreateInv
<1>2. CASE AcquireStep /\ ~Create
  BY <1>2, <1>t, AcquireKeepsSlot, KeepsSlotInv
<1>3. CASE LeaseStep
  BY <1>3, <1>t, LeaseInv
<1>4. CASE DispatchStep
  BY <1>4, <1>t, DispatchInv
<1>5. CASE CloseStep
  BY <1>5, <1>t, CloseKeepsSlot, KeepsSlotInv
<1>6. CASE \/ \E p \in Recoverers : RecoverLoad(p) \/ RecoverStep(p)
                                     \/ RecovererCrash(p)
           \/ BrowserStep
  BY <1>6, <1>t, OthersLeaveOwner, UntouchedInv
<1>7. CASE Exit
  BY <1>7, <1>t, ExitInv
<1>8. CASE UNCHANGED vars
  BY <1>8, <1>t, UntouchedInv DEF vars, OwnerUntouched
<1>9. QED
  BY <1>1, <1>2, <1>3, <1>4, <1>5, <1>6, <1>7, <1>8 DEF Next, Crash

\* A run starts without input.
LEMMA InputInvInit ==
  ASSUME Init
  PROVE  InputInv
<1>1. TypeOK
  BY InitType
<1>2. rec[Owner] = NewRecord(None) /\ pc[Owner] = "idle"
  BY OwnerIsProc DEF Init
<1>3. \A s \in Slots : sends[s] = 0
  BY DEF Init
<1>4. QED
  BY <1>1, <1>2, <1>3 DEF InputInv, AtMostOneRawInput, OwnerRemembersInput,
     OwnerStartsClean, DispatchIsUncounted, NewRecord

\* No action slot ever sends raw input twice: for any number of recoverers,
\* of dispatch attempts and of action slots, with saves failing and processes
\* dying anywhere (engine.go Dispatch).
THEOREM AtMostOnce == Spec => []AtMostOneRawInput
<1>1. Init => InputInv
  BY InputInvInit
<1>2. InputInv /\ [Next]_vars => InputInv'
  BY InputInvNext
<1>3. InputInv => AtMostOneRawInput
  BY DEF InputInv
<1>4. QED
  BY <1>1, <1>2, <1>3, PTL DEF Spec
-----------------------------------------------------------------------------
\* Closed means gone.  Whoever works on the target knows that it was made; a
\* target that was made stays made, and one that is gone stays gone, because
\* the Owner asks for it once, before anybody knows of it.

Made == target \in {"marker", "navigated", "gone"}

TargetLabels ==
  {"ambiguous", "mark", "own", "attach", "attach_failed", "save_attached",
   "navigate", "close_only", "settle", "closing", "result"} \cup LeaseLabels

EarlyLabels == {"idle", "budget", "lock", "intent", "create"}

HoldersKnowTarget == \A p \in Procs : pc[p] \in TargetLabels => rec[p].target

KnownTargetMade ==
  /\ file # None /\ file.target => Made
  /\ \A p \in Procs : rec[p].target => Made

ClosedCopyGone ==
  \A p \in Procs : rec[p].phase = "closed" => target = "gone"

NotAskedYet == pc[Owner] \in EarlyLabels => target = "none"

GoneInv ==
  /\ TypeOK /\ ClosedMeansGone
  /\ HoldersKnowTarget /\ KnownTargetMade /\ ClosedCopyGone /\ NotAskedYet

\* What a step must not do to the target, the disk and one process.
TargetStays == (Made => Made') /\ (target = "gone" => target' = "gone")

HonestFile ==
  \/ file' = file
  \/ /\ file'.target => Made'
     /\ file'.phase = "closed" => target' = "gone"

Honest(p, q, label) ==
  /\ Remember(p, q) /\ Goto(p, label)
  /\ label \in TargetLabels => q.target
  /\ q.target => Made'
  /\ q.phase = "closed" => target' = "gone"
  /\ p = Owner /\ label \in EarlyLabels => target' = "none"

\* A step of one process that does none of it keeps the invariant.
LEMMA HonestStep ==
  ASSUME GoneInv, TypeOK', TargetStays, HonestFile,
         NEW p \in Procs, NEW q \in Record, NEW label \in Labels,
         Honest(p, q, label),
         p # Owner => (pc[Owner] \in EarlyLabels => target' = "none")
  PROVE  GoneInv'
<1>1. \A o \in Procs : /\ rec'[o] = IF o = p THEN q ELSE rec[o]
                       /\ pc'[o] = IF o = p THEN label ELSE pc[o]
  BY DEF Honest, Remember, Goto, GoneInv, TypeOK
<1>2. ClosedMeansGone'
  BY DEF ClosedMeansGone, HonestFile, GoneInv, TargetStays
<1>3. HoldersKnowTarget'
  BY <1>1 DEF HoldersKnowTarget, Honest, GoneInv
<1>4. KnownTargetMade'
  BY <1>1 DEF KnownTargetMade, Honest, HonestFile, GoneInv, TargetStays
<1>5. ClosedCopyGone'
  BY <1>1 DEF ClosedCopyGone, Honest, GoneInv, TargetStays
<1>6. NotAskedYet'
  BY <1>1, OwnerIsProc DEF NotAskedYet, Honest, GoneInv
<1>7. QED
  BY <1>2, <1>3, <1>4, <1>5, <1>6 DEF GoneInv

\* What the records of the cleanup steps say of the target.
LEMMA NotFoundTells ==
  ASSUME NEW r \in Record, NEW b \in BOOLEAN, NEW acquiring \in BOOLEAN
  PROVE  /\ NotFound(r, b, acquiring).phase = "failed"
         /\ NotFound(r, b, acquiring).target = r.target
         /\ NotFound(r, b, acquiring).unreconciled = b
<1> DEFINE f == Failed(r, b)
<1>1. /\ f \in Record /\ f.phase = "failed" /\ f.target = r.target
      /\ f.unreconciled = b
  BY DEF Failed, Record, Phases
<1>2. \A c : /\ [f EXCEPT !.cleanup = c].phase = f.phase
            /\ [f EXCEPT !.cleanup = c].target = f.target
            /\ [f EXCEPT !.cleanup = c].unreconciled = f.unreconciled
  <2> HIDE DEF f
  <2>1. QED
    BY <1>1 DEF Record
<1>3. QED
  BY <1>1, <1>2 DEF NotFound

LEMMA CleanupPendingTells ==
  ASSUME NEW r \in Record
  PROVE  LET q == [r EXCEPT !.phase = "cleanup_pending", !.cleanup = "pending"]
         IN q \in Record /\ q.phase = "cleanup_pending" /\ q.target = r.target
<1>1. "cleanup_pending" \in Phases /\ "pending" \in CleanupStates
  BY DEF Phases, CleanupStates
<1>2. QED
  BY <1>1 DEF Record

LEMMA AfterCloseTells ==
  ASSUME NEW r \in Record, NEW gone \in BOOLEAN
  PROVE  /\ AfterClose(r, gone) \in Record
         /\ AfterClose(r, gone).target = r.target
         /\ AfterClose(r, gone).phase = IF gone THEN "closed"
                                        ELSE "cleanup_pending"
<1>1. AfterClose(r, gone) \in Record
  BY UpdateType DEF AfterClose, Phases, CleanupStates
<1>2. QED
  BY <1>1 DEF AfterClose, Record

\* The cleanup steps the Owner and the recoverers share.
LEMMA CleanupGone ==
  ASSUME GoneInv, TypeOK', NEW p \in Procs,
         \/ MarkerSearch(p) \/ SaveNotFound(p) \/ SettlePending(p)
         \/ SettleClose(p) \/ SettleResult(p) \/ RecoverAmbiguous(p)
  PROVE  GoneInv'
<1> DEFINE R == rec[p]
<1>r. R \in Record /\ pc[p] \in Labels
  BY DEF GoneInv, TypeOK
<1>k. /\ pc[p] \in TargetLabels => R.target
      /\ R.target => Made
      /\ R.phase = "closed" => target = "gone"
      /\ pc[Owner] \in EarlyLabels => target = "none"
  BY DEF GoneInv, HoldersKnowTarget, KnownTargetMade, ClosedCopyGone,
     NotAskedYet
<1>l. {"not_found", "settle", "closing", "result", "failed", "idle"}
        \subseteq Labels
  BY DEF Labels, CleanupLabels, OwnerDone
<1>s. ASSUME NEW r \in Record, NEW ok \in BOOLEAN, Save(r, ok),
             r.target => Made', r.phase = "closed" => target' = "gone"
      PROVE  HonestFile
  BY <1>s DEF Save, HonestFile
<1>e. ASSUME rec' = rec PROVE Remember(p, R)
  BY <1>e DEF Remember, GoneInv, TypeOK
<1>1. CASE MarkerSearch(p)
  <2>1. TargetStays /\ HonestFile /\ target' = target
    BY <1>1 DEF MarkerSearch, TargetStays, HonestFile, browser, Made
  <2>2. CASE /\ target = "marker" /\ Goto(p, "settle")
             /\ Remember(p, [R EXCEPT !.target = TRUE, !.unreconciled = FALSE])
    <3> DEFINE q == [R EXCEPT !.target = TRUE, !.unreconciled = FALSE]
    <3>1. q \in Record /\ q.target /\ q.phase = R.phase
      BY <1>r DEF Record
    <3>2. Honest(p, q, "settle")
      BY <2>1, <2>2, <3>1, <1>k DEF Honest, Made, EarlyLabels
    <3>3. QED
      BY <2>1, <3>1, <3>2, <1>k, <1>l, HonestStep
  <2>3. ASSUME NEW b \in BOOLEAN, Remember(p, NotFound(R, b, p = Owner)),
               Goto(p, "not_found")
        PROVE  GoneInv'
    <3> DEFINE q == NotFound(R, b, p = Owner)
    <3>1. q \in Record /\ q.phase = "failed" /\ q.target = R.target
      BY <1>r, NotFoundType, NotFoundTells
    <3>2. Honest(p, q, "not_found")
      BY <2>1, <2>3, <3>1, <1>k
         DEF Honest, Made, EarlyLabels, TargetLabels, LeaseLabels
    <3>3. QED
      BY <2>1, <3>1, <3>2, <1>k, <1>l, HonestStep
  <2>4. QED
    BY <1>1, <2>2, <2>3 DEF MarkerSearch
<1>2. CASE SaveNotFound(p) \/ SettleResult(p)
  <2>1. TargetStays /\ target' = target /\ rec' = rec
    BY <1>2 DEF SaveNotFound, SettleResult, TargetStays, browser, Made
  <2>2. HonestFile
    BY <1>2, <1>r, <1>s, <1>k, <2>1 DEF SaveNotFound, SettleResult, Made
  <2>3. PICK label \in {"failed", "idle"} :
          Goto(p, label) /\ (p = Owner => label = "failed")
    BY <1>2 DEF SaveNotFound, SettleResult, FailAcquire
  <2>4. Honest(p, R, label)
    BY <2>1, <2>3, <1>e, <1>k
       DEF Honest, Made, EarlyLabels, TargetLabels, LeaseLabels
  <2>5. QED
    BY <2>1, <2>2, <2>4, <1>r, <1>k, <1>l, HonestStep
<1>3. CASE SettlePending(p)
  <2> DEFINE q == [R EXCEPT !.phase = "cleanup_pending", !.cleanup = "pending"]
  <2>1. q \in Record /\ q.phase = "cleanup_pending" /\ q.target = R.target
    BY <1>r, CleanupPendingTells
  <2>2. TargetStays /\ target' = target /\ R.target
    BY <1>3, <1>k DEF SettlePending, TargetStays, browser, Made, TargetLabels
  <2>3. HonestFile
    BY <1>3, <1>s, <1>k, <2>1, <2>2 DEF SettlePending, Made
  <2>4. Honest(p, q, "closing")
    BY <1>3, <2>1, <2>2, <1>k DEF SettlePending, Honest, Made, EarlyLabels
  <2>5. QED
    BY <2>1, <2>2, <2>3, <2>4, <1>k, <1>l, HonestStep
<1>4. CASE SettleClose(p)
  <2>1. PICK gone \in BOOLEAN :
          CloseTarget(gone) /\ Remember(p, AfterClose(R, gone))
    BY <1>4 DEF SettleClose
  <2> DEFINE q == AfterClose(R, gone)
  <2>2. q \in Record /\ (q.phase = "closed" => gone) /\ q.target = R.target
    BY <1>r, AfterCloseTells
  <2>3. R.target /\ Made
    BY <1>4, <1>k DEF SettleClose, TargetLabels
  <2>4. TargetStays /\ HonestFile /\ Made'
    BY <1>4, <2>1, <2>3
       DEF SettleClose, CloseTarget, TargetStays, HonestFile, Made
  <2>5. pc[Owner] \notin EarlyLabels
    BY <2>3, <1>k DEF Made
  <2>6. Honest(p, q, "result")
    BY <1>4, <2>1, <2>2, <2>3, <2>4
       DEF SettleClose, Honest, CloseTarget, EarlyLabels
  <2>7. QED
    BY <2>2, <2>4, <2>5, <2>6, <1>l, HonestStep
<1>5. CASE RecoverAmbiguous(p)
  <2> DEFINE q == [R EXCEPT !.phase = "action_unknown", !.pend = TRUE,
                            !.dispatch = "unknown", !.raw = 1]
  <2>1. q \in Record /\ q.phase = "action_unknown" /\ q.target = R.target
    BY <1>r DEF Phases, Dispatches, Record
  <2>2. TargetStays /\ target' = target /\ R.target
    BY <1>5, <1>k DEF RecoverAmbiguous, TargetStays, browser, Made, TargetLabels
  <2>3. HonestFile
    BY <1>5, <1>s, <1>k, <2>1, <2>2 DEF RecoverAmbiguous, Made
  <2>4. Honest(p, q, "settle")
    BY <1>5, <2>1, <2>2, <1>k DEF RecoverAmbiguous, Honest, Made, EarlyLabels
  <2>5. QED
    BY <2>1, <2>2, <2>3, <2>4, <1>k, <1>l, HonestStep
<1>6. QED
  BY <1>1, <1>2, <1>3, <1>4, <1>5

\* Acquire's own steps.
LEMMA AcquireGone ==
  ASSUME GoneInv, TypeOK', AcquireStep
  PROVE  GoneInv'
<1> DEFINE R == rec[Owner]
<1>r. R \in Record /\ pc[Owner] \in Labels /\ Owner \in Procs
  BY OwnerIsProc DEF GoneInv, TypeOK
<1>k. /\ pc[Owner] \in TargetLabels => R.target
      /\ R.target => Made
      /\ R.phase = "closed" => target = "gone"
      /\ pc[Owner] \in EarlyLabels => target = "none"
  BY <1>r DEF GoneInv, HoldersKnowTarget, KnownTargetMade, ClosedCopyGone,
     NotAskedYet
<1>l. AcquireLabels \cup OwnerDone \cup CleanupLabels \cup {"lease"}
        \subseteq Labels
  BY DEF Labels, LeaseLabels
<1>s. ASSUME NEW r \in Record, NEW ok \in BOOLEAN, Save(r, ok),
             r.target => Made', r.phase = "closed" => target' = "gone"
      PROVE  HonestFile
  BY <1>s DEF Save, HonestFile
<1>u. \A phase \in Phases, b \in BOOLEAN :
        LET q == [R EXCEPT !.phase = phase, !.unreconciled = b]
            s == [R EXCEPT !.phase = phase]
        IN /\ q \in Record /\ q.phase = phase /\ q.target = R.target
           /\ s \in Record /\ s.phase = phase /\ s.target = R.target
  BY <1>r DEF Record
<1>v. /\ {"budget_checked", "target_create_pending", "failed"} \subseteq Phases
      /\ \A phase \in Phases : phase # "closed" =>
            phase \in Phases \ {"closed"}
  BY DEF Phases
<1>e. ASSUME rec' = rec PROVE Remember(Owner, R)
  BY <1>e DEF Remember, GoneInv, TypeOK
<1>h. ASSUME NEW q \in Record, NEW label \in Labels, target' = target,
             HonestFile, Remember(Owner, q), Goto(Owner, label),
             label \in TargetLabels => q.target,
             q.target => Made, q.phase = "closed" => target = "gone",
             label \in EarlyLabels => target = "none"
      PROVE  GoneInv'
  <2>1. Honest(Owner, q, label) /\ TargetStays
    BY <1>h DEF Honest, TargetStays, Made
  <2>2. QED
    BY <1>h, <1>r, <2>1, HonestStep
<1> USE DEF AcquireLabels, OwnerDone, CleanupLabels, browser, FailAcquire
<1>1. CASE Create
  <2>1. PICK name \in ActionNames \cup {None}, ok \in BOOLEAN :
          /\ file' = NewRecord(name) \/ file' = file
          /\ Remember(Owner, NewRecord(name))
          /\ Goto(Owner, IF ok THEN "budget" ELSE "failed")
    BY <1>1 DEF Create
  <2> DEFINE q == NewRecord(name)
  <2>2. q \in Record /\ ~q.target /\ q.phase = "planned"
    BY NewRecordType DEF NewRecord
  <2>3. HonestFile /\ target' = target /\ pc[Owner] \in EarlyLabels
    BY <1>1, <2>1, <2>2 DEF HonestFile, Create, EarlyLabels
  <2>4. QED
    BY <1>h, <1>k, <1>l, <2>1, <2>2, <2>3 DEF TargetLabels, LeaseLabels
<1>2. CASE CheckBudget
  <2>1. PICK admitted, ok \in BOOLEAN, q \in Record :
          /\ q.phase # "closed" /\ q.target = R.target
          /\ Save(q, ok) /\ Remember(Owner, q)
          /\ Goto(Owner, IF admitted /\ ok THEN "lock" ELSE "failed")
    BY <1>2, <1>u, <1>v DEF CheckBudget, Failed
  <2>2. target' = target /\ pc[Owner] \in EarlyLabels
    BY <1>2 DEF CheckBudget, EarlyLabels
  <2>3. HonestFile
    BY <1>s, <1>k, <2>1, <2>2 DEF Made
  <2>4. QED
    BY <1>h, <1>k, <1>l, <2>1, <2>2, <2>3 DEF TargetLabels, LeaseLabels
<1>3. CASE AcquireInputLock
  <2>1. target' = target /\ pc[Owner] \in EarlyLabels
    BY <1>3 DEF AcquireInputLock, EarlyLabels
  <2>2. CASE Goto(Owner, "intent") /\ file' = file /\ rec' = rec
    BY <1>h, <1>k, <1>l, <1>r, <1>e, <2>1, <2>2
       DEF TargetLabels, LeaseLabels, HonestFile
  <2>3. CASE /\ Goto(Owner, "failed") /\ Remember(Owner, Failed(R, FALSE))
             /\ \E ok \in BOOLEAN : Save(Failed(R, FALSE), ok)
    <3> DEFINE q == Failed(R, FALSE)
    <3>1. q \in Record /\ q.target = R.target /\ q.phase = "failed"
      BY <1>u, <1>v DEF Failed
    <3>2. HonestFile
      BY <1>s, <1>k, <2>1, <2>3, <3>1 DEF Made
    <3>3. QED
      BY <1>h, <1>k, <1>l, <2>1, <2>3, <3>1, <3>2 DEF TargetLabels, LeaseLabels
  <2>4. QED
    BY <1>3, <2>2, <2>3 DEF AcquireInputLock
<1>4. CASE SaveCreateIntent
  <2> DEFINE q == [R EXCEPT !.phase = "target_create_pending"]
  <2>1. /\ q \in Record /\ q.phase = "target_create_pending"
        /\ q.target = R.target
    BY <1>u, <1>v
  <2>2. target' = target /\ pc[Owner] \in EarlyLabels
    BY <1>4 DEF SaveCreateIntent, EarlyLabels
  <2>3. HonestFile
    BY <1>4, <1>s, <1>k, <2>1, <2>2 DEF SaveCreateIntent, Made
  <2>4. PICK label \in {"create", "failed"} : Goto(Owner, label)
    BY <1>4 DEF SaveCreateIntent
  <2>5. Remember(Owner, q)
    BY <1>4 DEF SaveCreateIntent
  <2>6. QED
    BY <1>h, <1>k, <1>l, <2>1, <2>2, <2>3, <2>4, <2>5
       DEF TargetLabels, LeaseLabels
<1>5. CASE SendCreate
  <2>1. /\ target = "none" /\ ~R.target /\ R.phase # "closed"
        /\ target' = "creating" /\ file' = file
        /\ Goto(Owner, "creating") /\ Remember(Owner, R)
    BY <1>5, <1>k, <1>e DEF SendCreate, EarlyLabels, Made
  <2>2. TargetStays /\ HonestFile /\ Honest(Owner, R, "creating")
    BY <2>1 DEF TargetStays, HonestFile, Honest, Made, TargetLabels,
       LeaseLabels, EarlyLabels
  <2>3. QED
    BY <1>r, <1>l, <2>2, HonestStep
<1>6. CASE CreateReturns
  <2>1. target' = target /\ file' = file /\ HonestFile
    BY <1>6 DEF CreateReturns, HonestFile
  <2>2. CASE /\ target \in {"marker", "gone"} /\ Goto(Owner, "mark")
             /\ Remember(Owner, [R EXCEPT !.target = TRUE])
    <3> DEFINE q == [R EXCEPT !.target = TRUE]
    <3>1. q \in Record /\ q.target /\ q.phase = R.phase
      BY <1>r DEF Record
    <3>2. QED
      BY <1>h, <1>k, <1>l, <2>1, <2>2, <3>1 DEF Made, EarlyLabels
  <2>3. CASE Goto(Owner, "search") /\ rec' = rec
    BY <1>h, <1>k, <1>l, <1>r, <1>e, <2>1, <2>3
       DEF TargetLabels, LeaseLabels, EarlyLabels
  <2>4. QED
    BY <1>6, <2>2, <2>3 DEF CreateReturns
<1>7. CASE MarkTargetPersistent
  <2>1. /\ target' = target /\ file' = file /\ rec' = rec /\ R.target
    BY <1>7, <1>k DEF MarkTargetPersistent, TargetLabels
  <2>2. PICK label \in {"own", "settle"} : Goto(Owner, label)
    BY <1>7 DEF MarkTargetPersistent
  <2>3. QED
    BY <1>h, <1>k, <1>l, <1>r, <1>e, <2>1, <2>2 DEF HonestFile, EarlyLabels
<1>8. CASE SaveOwned
  <2> DEFINE q == [R EXCEPT !.phase = "target_owned", !.cleanup = "pending"]
  <2>1. q \in Record /\ q.phase = "target_owned" /\ q.target = R.target
    <3>1. "target_owned" \in Phases /\ "pending" \in CleanupStates
      BY DEF Phases, CleanupStates
    <3>2. QED
      BY <1>r, <3>1 DEF Record
  <2>2. target' = target /\ R.target
    BY <1>8, <1>k DEF SaveOwned, TargetLabels
  <2>3. PICK ok \in BOOLEAN :
          /\ Save(q, ok) /\ Remember(Owner, q)
          /\ Goto(Owner, IF ok THEN "attach" ELSE "close_only")
    BY <1>8 DEF SaveOwned
  <2>4. HonestFile
    BY <1>s, <1>k, <2>1, <2>2, <2>3 DEF Made
  <2>5. QED
    BY <1>h, <1>k, <1>l, <2>1, <2>2, <2>3, <2>4 DEF EarlyLabels
<1>9. CASE Attach
  <2> DEFINE a == [R EXCEPT !.session = TRUE, !.phase = "attached"]
             c == [R EXCEPT !.phase = "cleanup_pending", !.cleanup = "pending"]
  <2>1. a \in Record /\ a.phase = "attached" /\ a.target = R.target
    BY <1>r DEF Record, Phases
  <2>2. c \in Record /\ c.phase = "cleanup_pending" /\ c.target = R.target
    BY <1>r, CleanupPendingTells
  <2>3. target' = target /\ R.target /\ HonestFile
    BY <1>9, <1>k DEF Attach, TargetLabels, HonestFile
  <2>4. PICK q \in {a, c}, label \in {"save_attached", "attach_failed"} :
          Remember(Owner, q) /\ Goto(Owner, label)
    BY <1>9 DEF Attach
  <2>5. QED
    BY <1>h, <1>k, <1>l, <2>1, <2>2, <2>3, <2>4 DEF EarlyLabels
<1>10. CASE SaveAttachFailed \/ SaveAttached
  <2>1. target' = target /\ R.target /\ rec' = rec
    BY <1>10, <1>k DEF SaveAttachFailed, SaveAttached, TargetLabels
  <2>2. PICK ok \in BOOLEAN, label \in {"closing", "close_only", "navigate"} :
          Save(R, ok) /\ Goto(Owner, label)
    BY <1>10 DEF SaveAttachFailed, SaveAttached
  <2>3. HonestFile
    BY <1>s, <1>r, <1>k, <2>1, <2>2 DEF Made
  <2>4. QED
    BY <1>h, <1>k, <1>l, <1>r, <1>e, <2>1, <2>2, <2>3 DEF EarlyLabels
<1>11. CASE Navigate \/ CloseUnjournaled
  <2>1. /\ file' = file /\ Remember(Owner, R) /\ R.target
        /\ pc[Owner] \notin EarlyLabels
    BY <1>11, <1>k, <1>e
       DEF Navigate, CloseUnjournaled, TargetLabels, EarlyLabels
  <2>2. /\ target' \in {target, "gone"} \/ (Live /\ target' = "navigated")
        /\ Made
    BY <1>11, <1>k, <2>1 DEF Navigate, CloseUnjournaled, CloseTarget
  <2>3. PICK label \in {"lease", "settle", "failed"} : Goto(Owner, label)
    BY <1>11 DEF Navigate, CloseUnjournaled
  <2>4. TargetStays /\ HonestFile /\ Honest(Owner, R, label)
    BY <1>k, <2>1, <2>2, <2>3
       DEF TargetStays, HonestFile, Honest, Made, Live, EarlyLabels
  <2>5. QED
    BY <1>r, <1>l, <2>1, <2>4, HonestStep
<1>12. CASE \/ MarkerSearch(Owner) \/ SaveNotFound(Owner)
            \/ SettlePending(Owner) \/ SettleClose(Owner)
            \/ SettleResult(Owner)
  BY <1>12, <1>r, CleanupGone
<1>13. QED
  BY <1>1, <1>2, <1>3, <1>4, <1>5, <1>6, <1>7, <1>8, <1>9, <1>10, <1>11,
     <1>12 DEF AcquireStep

\* The record of the next slot keeps the target and starts attached.
LEMMA NextSlotTells ==
  ASSUME NEW r \in Record, NEW name \in ActionNames
  PROVE  /\ NextSlot(r, name).target = r.target
         /\ NextSlot(r, name).phase = "attached"
BY DEF NextSlot, Record

\* What a lease operation that only saves proposes to the journal: the same
\* slot with the same input count, or the next slot; never a pending dispatch
\* or a closed target.
LeaseProposal(q) ==
  LET r == rec[Owner]
  IN /\ q \in Record /\ q.target = r.target
     /\ q.phase \notin {"action_pending", "closed"}
     /\ \/ q.done = r.done /\ q.raw = r.raw
        \/ q.done = Append(r.done, Archive(r)) /\ q.raw = 0

LEMMA LeaseProposes ==
  ASSUME TypeOK, LeaseStep, ~BeginDispatch, ~ReleaseInput
  PROVE  \E q : AtLease /\ LeaseSave(q) /\ LeaseProposal(q)
<1> DEFINE R == rec[Owner]
<1>r. R \in Record
  BY OwnerIsProc DEF TypeOK
<1> SUFFICES ASSUME AtLease
             PROVE  \E q : LeaseSave(q) /\ LeaseProposal(q)
  BY DEF LeaseStep, BindInputFingerprint, MarkPrepared, Acknowledge,
     ConfirmPostcondition, BeginNextAction, MarkCompletion
<1>1. ASSUME NEW f \in Fingerprints, BindInputFingerprint(f)
      PROVE  \E q : LeaseSave(q) /\ LeaseProposal(q)
  <2>1. LeaseProposal([R EXCEPT !.fp = f])
    BY <1>1, <1>r DEF LeaseProposal, Record, BindInputFingerprint
  <2>2. QED
    BY <1>1, <2>1 DEF BindInputFingerprint
<1>2. ASSUME NEW phase \in CompletionPhases \cup {"prepared"},
             LeaseSave([R EXCEPT !.phase = phase])
      PROVE  \E q : LeaseSave(q) /\ LeaseProposal(q)
  <2>1. phase \in Phases \ {"action_pending", "closed"}
    BY <1>2 DEF CompletionPhases, Phases
  <2>2. LeaseProposal([R EXCEPT !.phase = phase])
    BY <1>r, <2>1 DEF LeaseProposal, Record
  <2>3. QED
    BY <1>2, <2>2
<1>3. CASE Acknowledge
  <2> DEFINE q == [R EXCEPT !.conv = TRUE, !.phase = "acknowledged",
                     !.dispatch = IF @ = "unknown" THEN "performed" ELSE @]
  <2>1. q \in Record
    BY <1>r, AcknowledgedType
  <2>2. /\ q.target = R.target /\ q.phase = "acknowledged"
        /\ q.done = R.done /\ q.raw = R.raw
    BY <1>r DEF Record
  <2>3. LeaseSave(q)
    BY <1>3 DEF Acknowledge
  <2>4. QED
    BY <2>1, <2>2, <2>3 DEF LeaseProposal
<1>4. ASSUME NEW proof \in Proofs, ConfirmPostcondition(proof)
      PROVE  \E q : LeaseSave(q) /\ LeaseProposal(q)
  <2> DEFINE q == [R EXCEPT !.dispatch = "performed", !.post = proof,
                            !.phase = "action_performed"]
  <2>1. q \in Record
    BY <1>r, AcknowledgedType
  <2>2. /\ q.target = R.target /\ q.phase = "action_performed"
        /\ q.done = R.done /\ q.raw = R.raw
    BY <1>r DEF Record
  <2>3. LeaseSave(q)
    BY <1>4 DEF ConfirmPostcondition
  <2>4. QED
    BY <2>1, <2>2, <2>3 DEF LeaseProposal
<1>5. ASSUME NEW name \in ActionNames, BeginNextAction(name)
      PROVE  \E q : LeaseSave(q) /\ LeaseProposal(q)
  <2>1. LeaseProposal(NextSlot(R, name))
    BY <1>r, NextSlotType, NextSlotTells DEF LeaseProposal
  <2>2. QED
    BY <1>5, <2>1 DEF BeginNextAction
<1>6. QED
  BY <1>1, <1>2, <1>3, <1>4, <1>5 DEF LeaseStep, MarkPrepared, MarkCompletion

\* The durable intent and the answer of a dispatch.
LEMMA IntentTells ==
  ASSUME NEW r \in Record
  PROVE  LET q == [r EXCEPT !.phase = "action_pending", !.attempts = @ + 1,
                            !.pend = TRUE]
         IN /\ q \in Record /\ q.phase = "action_pending"
            /\ q.target = r.target /\ q.done = r.done /\ q.raw = r.raw
<1>1. "action_pending" \in Phases /\ r.attempts + 1 \in Nat
  BY DEF Phases, Record
<1>2. QED
  BY <1>1 DEF Record

LEMMA ObservedTells ==
  ASSUME NEW r \in Record, NEW outcome \in Dispatches
  PROVE  LET q == Observed(r, outcome)
         IN /\ q \in Record /\ q.target = r.target /\ q.done = r.done
            /\ q.phase \notin {"action_pending", "closed"}
            /\ q.raw = IF outcome = "not_performed" THEN r.raw ELSE 1
<1>1. Observed(r, outcome) \in Record
  BY ObservedType
<1>2. QED
  BY <1>1 DEF Observed, Record

\* The lease's operations.
LEMMA LeaseGone ==
  ASSUME GoneInv, TypeOK', LeaseStep \/ DispatchStep \/ CloseStep
  PROVE  GoneInv'
<1> DEFINE R == rec[Owner]
<1>r. R \in Record /\ pc[Owner] \in Labels /\ Owner \in Procs
  BY OwnerIsProc DEF GoneInv, TypeOK
<1>k. /\ R.target /\ Made /\ pc[Owner] \in LeaseLabels
      /\ pc[Owner] \notin EarlyLabels
      /\ R.phase = "closed" => target = "gone"
  <2>1. pc[Owner] \in LeaseLabels
    BY DEF LeaseStep, DispatchStep, CloseStep, BindInputFingerprint,
       MarkPrepared, BeginDispatch, Acknowledge, ConfirmPostcondition,
       BeginNextAction, MarkCompletion, ReleaseInput, SendRawInput,
       DispatchReturns, Close, LeaseCloseTarget, LeaseCloseResult, AtLease,
       LeaseLabels
  <2>2. QED
    BY <2>1, <1>r DEF GoneInv, HoldersKnowTarget, KnownTargetMade,
       ClosedCopyGone, TargetLabels, LeaseLabels, EarlyLabels
<1>l. LeaseLabels \cup {"closed"} \subseteq Labels
  BY DEF Labels, OwnerDone
<1>h. ASSUME NEW q \in Record, NEW label \in LeaseLabels \cup {"closed"},
             Remember(Owner, q), Goto(Owner, label), TargetStays, Made',
             HonestFile, q.target, q.phase = "closed" => target' = "gone"
      PROVE  GoneInv'
  <2>1. Honest(Owner, q, label)
    BY <1>h DEF Honest, EarlyLabels, LeaseLabels
  <2>2. QED
    BY <1>h, <1>l, <1>r, <2>1, HonestStep
<1>s. ASSUME target' = target, NEW q \in Record, NEW ok \in BOOLEAN,
             Save(q, ok), q.phase = "closed" => target = "gone"
      PROVE  HonestFile
  BY <1>s, <1>k DEF Save, HonestFile, Made
<1>t. ASSUME target' = target PROVE TargetStays /\ Made'
  BY <1>t, <1>k DEF TargetStays, Made
<1>e. ASSUME rec' = rec PROVE Remember(Owner, R)
  BY <1>e DEF Remember, GoneInv, TypeOK
<1>p. ASSUME pc' = pc PROVE Goto(Owner, pc[Owner])
  BY <1>p DEF Goto, GoneInv, TypeOK
<1>q. ASSUME NEW q \in Record, q.target, q.phase # "closed", LeaseSave(q)
      PROVE  GoneInv'
  <2>1. PICK ok \in BOOLEAN :
          Save(q, ok) /\ Remember(Owner, IF ok THEN q ELSE R)
    BY <1>q DEF LeaseSave
  <2>2. target' = target /\ pc' = pc
    BY <1>q DEF LeaseSave, browser
  <2>3. QED
    BY <1>q, <2>1, <2>2, <1>h, <1>k, <1>p, <1>r, <1>s, <1>t
<1> USE DEF browser
<1>1. CASE LeaseStep /\ ~BeginDispatch /\ ~ReleaseInput
  <2>1. PICK q : LeaseSave(q) /\ LeaseProposal(q)
    BY <1>1, LeaseProposes DEF GoneInv
  <2>2. QED
    BY <2>1, <1>q, <1>k DEF LeaseProposal
<1>2. CASE BeginDispatch
  <2> DEFINE q == [R EXCEPT !.phase = "action_pending", !.attempts = @ + 1,
                            !.pend = TRUE]
  <2>1. q \in Record /\ q.target /\ q.phase # "closed"
    BY <1>r, <1>k, IntentTells
  <2> HIDE DEF q
  <2>2. target' = target /\ \E ok \in BOOLEAN : Save(q, ok)
    BY <1>2 DEF BeginDispatch, q
  <2>3. \/ Remember(Owner, q) /\ Goto(Owner, "dispatch")
        \/ Remember(Owner, R) /\ Goto(Owner, pc[Owner])
    BY <1>2, <1>e, <1>p DEF BeginDispatch, q
  <2>4. QED
    BY <2>1, <2>2, <2>3, <1>h, <1>k, <1>r, <1>s, <1>t DEF LeaseLabels
<1>3. CASE ReleaseInput \/ SendRawInput
  <2>1. /\ target' = target /\ file' = file /\ rec' = rec
        /\ pc' = pc \/ Goto(Owner, "sent")
    BY <1>3 DEF ReleaseInput, SendRawInput
  <2>2. QED
    BY <2>1, <1>e, <1>h, <1>k, <1>p, <1>r, <1>t DEF HonestFile, LeaseLabels
<1>4. CASE DispatchReturns
  <2>1. PICK outcome \in Dispatches, ok \in BOOLEAN :
          Save(Observed(R, outcome), ok) /\ Remember(Owner, Observed(R, outcome))
    BY <1>4 DEF DispatchReturns, Outcomes, Dispatches
  <2>2. target' = target /\ Goto(Owner, "lease")
    BY <1>4 DEF DispatchReturns
  <2>3. /\ Observed(R, outcome) \in Record
        /\ Observed(R, outcome).target = R.target
        /\ Observed(R, outcome).phase # "closed"
    BY <1>r, ObservedTells
  <2>4. QED
    BY <2>1, <2>2, <2>3, <1>h, <1>k, <1>s, <1>t DEF LeaseLabels
<1>5. CASE Close
  <2> DEFINE q == [R EXCEPT !.phase = "cleanup_pending", !.cleanup = "pending"]
  <2>1. q \in Record /\ q.phase # "closed" /\ q.target
    BY <1>r, <1>k, CleanupPendingTells
  <2>2. /\ target' = target /\ Goto(Owner, "lease_close")
        /\ Remember(Owner, q) /\ \E ok \in BOOLEAN : Save(q, ok)
    BY <1>5 DEF Close
  <2>3. QED
    BY <2>1, <2>2, <1>h, <1>s, <1>t DEF LeaseLabels
<1>6. CASE LeaseCloseTarget
  <2>1. PICK gone \in BOOLEAN :
          CloseTarget(gone) /\ Remember(Owner, AfterClose(R, gone))
    BY <1>6 DEF LeaseCloseTarget
  <2> DEFINE q == AfterClose(R, gone)
  <2>2. q \in Record /\ (q.phase = "closed" => gone) /\ q.target
    BY <1>r, <1>k, AfterCloseTells
  <2>3. TargetStays /\ HonestFile /\ Made' /\ (gone => target' = "gone")
    BY <1>6, <2>1, <1>k
       DEF LeaseCloseTarget, CloseTarget, TargetStays, HonestFile, Made
  <2>4. Goto(Owner, "lease_result")
    BY <1>6 DEF LeaseCloseTarget
  <2>5. QED
    BY <2>1, <2>2, <2>3, <2>4, <1>h DEF LeaseLabels
<1>7. CASE LeaseCloseResult
  <2>1. PICK ok \in BOOLEAN, label \in {"closed", "lease"} :
          Save(R, ok) /\ Goto(Owner, label)
    BY <1>7 DEF LeaseCloseResult
  <2>2. target' = target /\ rec' = rec
    BY <1>7 DEF LeaseCloseResult
  <2>3. QED
    BY <2>1, <2>2, <1>e, <1>h, <1>k, <1>r, <1>s, <1>t DEF LeaseLabels
<1>8. QED
  BY <1>1, <1>2, <1>3, <1>4, <1>5, <1>6, <1>7
     DEF LeaseStep, DispatchStep, CloseStep

\* Recovery, crashes and the browser.
LEMMA OthersGone ==
  ASSUME GoneInv, TypeOK',
         \/ \E p \in Recoverers : RecoverLoad(p) \/ RecoverStep(p)
         \/ Crash \/ BrowserStep
  PROVE  GoneInv'
<1>t. TypeOK
  BY DEF GoneInv
<1>n. NewRecord(None) \in Record /\ ~NewRecord(None).target
        /\ NewRecord(None).phase = "planned"
  BY NewRecordType DEF NewRecord
<1>1. ASSUME NEW p \in Recoverers, RecoverLoad(p)
      PROVE  GoneInv'
  <2>1. /\ file \in Record /\ file # None /\ file' = file /\ target' = target
        /\ file.phase # "closed" /\ p \in Procs /\ p # Owner
        /\ Remember(p, file)
    BY <1>1, <1>t, OwnerIsProc, BrowserflowAssumption
       DEF RecoverLoad, TypeOK, browser
  <2>2. PICK label \in {"search", "ambiguous", "settle"} :
          Goto(p, label) /\ (label # "search" => file.target)
    <3>1. CASE ~file.target
      BY <1>1, <3>1 DEF RecoverLoad, NeedsMarkerSearch
    <3>2. CASE file.target
      BY <1>1, <3>2 DEF RecoverLoad
    <3>3. QED
      BY <3>1, <3>2
  <2>3. label \in Labels
    BY <2>2 DEF Labels, AcquireLabels, CleanupLabels
  <2>4. TargetStays /\ HonestFile /\ Honest(p, file, label)
    BY <2>1, <2>2 DEF TargetStays, HonestFile, Honest, Made, GoneInv,
       KnownTargetMade, TargetLabels, LeaseLabels
  <2>5. QED
    BY <2>1, <2>3, <2>4, HonestStep DEF GoneInv, NotAskedYet
<1>2. ASSUME NEW p \in Recoverers, RecoverStep(p)
      PROVE  GoneInv'
  BY <1>2, CleanupGone, OwnerIsProc DEF RecoverStep
<1>3. CASE Crash
  <2>1. PICK p \in Procs, label \in {"exited", "idle"} :
          /\ p = Owner => label = "exited"
          /\ Remember(p, NewRecord(None)) /\ Goto(p, label)
    BY <1>3, OwnerIsProc, BrowserflowAssumption
       DEF Crash, Exit, RecovererCrash
  <2>2. target' = target /\ file' = file
    BY <1>3 DEF Crash, Exit, RecovererCrash, browser
  <2>3. label \in Labels
    BY <2>1 DEF Labels, OwnerDone
  <2>4. TargetStays /\ HonestFile /\ Honest(p, NewRecord(None), label)
    BY <2>1, <2>2, <1>n DEF TargetStays, HonestFile, Honest, Made,
       TargetLabels, LeaseLabels, EarlyLabels
  <2>5. QED
    BY <1>n, <2>2, <2>3, <2>4, HonestStep DEF GoneInv, NotAskedYet
<1>4. CASE BrowserStep
  <2>1. /\ file' = file /\ pc' = pc /\ rec' = rec /\ TargetStays
        /\ target = "none" => target' = "none"
    BY <1>4 DEF BrowserStep, CreateLands, TargetLost, TargetStays, Made, Live
  <2>2. QED
    BY <2>1 DEF GoneInv, ClosedMeansGone, HoldersKnowTarget, KnownTargetMade,
       ClosedCopyGone, NotAskedYet, TargetStays, EarlyLabels, BrowserStep,
       CreateLands, TargetLost
<1>5. QED
  BY <1>1, <1>2, <1>3, <1>4

LEMMA GoneInvNext ==
  ASSUME GoneInv, [Next]_vars
  PROVE  GoneInv'
<1>t. TypeOK'
  BY NextType DEF GoneInv
<1>1. CASE UNCHANGED vars
  BY <1>1, <1>t DEF vars, GoneInv, ClosedMeansGone, HoldersKnowTarget,
     KnownTargetMade, ClosedCopyGone, NotAskedYet, Made
<1>2. QED
  BY <1>1, <1>t, AcquireGone, LeaseGone, OthersGone DEF Next

LEMMA GoneInvInit ==
  ASSUME Init
  PROVE  GoneInv
<1>1. TypeOK
  BY InitType
<1>2. /\ file = None /\ target = "none"
      /\ \A p \in Procs : pc[p] = "idle" /\ rec[p] = NewRecord(None)
  BY DEF Init
<1>3. ~NewRecord(None).target /\ NewRecord(None).phase = "planned"
  BY DEF NewRecord
<1>4. QED
  BY <1>1, <1>2, <1>3 DEF GoneInv, ClosedMeansGone, HoldersKnowTarget,
     KnownTargetMade, ClosedCopyGone, NotAskedYet, TargetLabels, LeaseLabels

\* A journal that says closed is right, whoever wrote it, whatever else is
\* still running, and even if Recover runs under a live lease: a process calls
\* the target closed only after it saw it gone, and a run asks for a target
\* once (engine.go closeExactTarget, settleExactCleanup).
THEOREM ClosedRight == Spec => []ClosedMeansGone
<1>1. Init => GoneInv
  BY GoneInvInit
<1>2. GoneInv /\ [Next]_vars => GoneInv'
  BY GoneInvNext
<1>3. GoneInv => ClosedMeansGone
  BY DEF GoneInv
<1>4. QED
  BY <1>1, <1>2, <1>3, PTL DEF Spec
-----------------------------------------------------------------------------
\* The journal shows every input.  As long as Recover waits for the run to be
\* over, only one process at a time writes the journal: the Owner until it has
\* failed or died, and then recoverers, which only read what it left behind.

Alone ==
  pc[Owner] \notin {"failed", "exited"} =>
    \A p \in Recoverers : pc[p] = "idle"

Pending ==
  pc[Owner] \in {"dispatch", "sent"} =>
    file = rec[Owner] /\ file.phase = "action_pending"

\* The slot a record is in has sent raw input.
Sent(r) == Slot(r) \in Slots /\ sends[Slot(r)] > 0

RecoverersShowInput ==
  \A p \in Recoverers :
    pc[p] # "idle" /\ Sent(rec[p]) =>
      IF pc[p] = "ambiguous" THEN rec[p].phase = "action_pending"
      ELSE rec[p].raw = 1

JournalInv ==
  /\ InputInv /\ JournalShowsInput
  /\ Alone /\ Pending /\ RecoverersShowInput

\* A record that shows the input of its own slot.
ShowsOwnSlot(r) == Sent(r) => r.raw = 1 \/ r.phase = "action_pending"

\* The journal's rules lose no input: the slots before the current one are
\* kept, the current one is archived with its count, and a new version must
\* show its own slot.
LEMMA TransitionShows ==
  ASSUME file # None, JournalShowsInput, NEW r \in Record, file \in Record,
         ValidTransition(file, r), ShowsOwnSlot(r), file' = r, sends' = sends
  PROVE  JournalShowsInput'
<1>1. /\ Len(file.done) \in Nat /\ Len(r.done) \in Nat
      /\ \A i \in 1 .. Len(file.done) : r.done[i] = file.done[i]
  BY DEF Record, ValidTransition
<1>2. ASSUME NEW s \in Slots, sends[s] > 0
      PROVE  IF s <= Len(r.done) THEN r.done[s].raw = 1
             ELSE s = Slot(r) /\ (r.phase = "action_pending" \/ r.raw = 1)
  <2>1. /\ s \in Nat /\ s >= 1
        /\ IF s <= Len(file.done) THEN file.done[s].raw = 1
           ELSE /\ s = Len(file.done) + 1
                /\ file.phase = "action_pending" \/ file.raw = 1
    BY <1>2, RecordAssumption DEF JournalShowsInput, Slots, Slot
  <2>2. CASE ActionAdvance(file, r)
    <3>1. /\ Len(r.done) = Len(file.done) + 1
          /\ r.done[Len(r.done)].raw = file.raw
          /\ file.phase # "action_pending"
      BY <2>2 DEF ActionAdvance, Archive, CompletionPhases
    <3>2. QED
      BY <1>1, <2>1, <3>1
  <2>3. CASE SameSlotTransition(file, r)
    <3>1. Len(r.done) = Len(file.done)
      BY <2>3 DEF SameSlotTransition
    <3>2. CASE s <= Len(file.done)
      BY <1>1, <2>1, <3>1, <3>2
    <3>3. CASE ~(s <= Len(file.done))
      BY <1>2, <2>1, <3>1, <3>3 DEF ShowsOwnSlot, Sent, Slot
    <3>4. QED
      BY <3>2, <3>3
  <2>4. QED
    BY <2>2, <2>3 DEF ValidTransition
<1>3. QED
  BY <1>2, BrowserflowAssumption DEF JournalShowsInput, Slots

\* Outside the lease's own operations the Owner saves exactly what it then
\* remembers, and while it does, nobody recovers.
OwnerSaves ==
  /\ pc[Owner] \notin {"idle", "failed", "exited"}
  /\ pc'[Owner] \notin {"idle", "dispatch", "sent", "exited"}
  /\ \A p \in Recoverers : pc'[p] = pc[p]
  /\ \/ file' = file
     \/ /\ file # None /\ ValidTransition(file, rec'[Owner])
        /\ file' = rec'[Owner]

LEMMA OwnerSavesMemory ==
  ASSUME TypeOK, (AcquireStep /\ ~Create) \/ DispatchReturns \/ CloseStep
  PROVE  OwnerSaves
<1> DEFINE R == rec[Owner]
<1>o. Owner \in Procs /\ \A p \in Recoverers : p # Owner
  BY OwnerIsProc, BrowserflowAssumption
<1>s. ASSUME NEW r, \E ok \in BOOLEAN : Save(r, ok), Remember(Owner, r)
      PROVE  \/ file' = file
             \/ /\ file # None /\ ValidTransition(file, rec'[Owner])
                /\ file' = rec'[Owner]
  BY <1>s, <1>o DEF Save, Remember, TypeOK
<1>u. ASSUME \E ok \in BOOLEAN : Save(R, ok), rec' = rec
      PROVE  \/ file' = file
             \/ /\ file # None /\ ValidTransition(file, rec'[Owner])
                /\ file' = rec'[Owner]
  BY <1>u DEF Save
<1>g. ASSUME NEW label, Goto(Owner, label)
      PROVE  pc'[Owner] = label /\ \A p \in Recoverers : pc'[p] = pc[p]
  BY <1>g, <1>o DEF Goto, TypeOK
<1> USE DEF OwnerSaves, FailAcquire
<1>1. CASE CheckBudget
  <2> DEFINE r(admitted) ==
               IF admitted THEN [R EXCEPT !.phase = "budget_checked"]
               ELSE Failed(R, FALSE)
  <2>1. PICK admitted, ok \in BOOLEAN :
          /\ Save(r(admitted), ok) /\ Remember(Owner, r(admitted))
          /\ Goto(Owner, IF admitted /\ ok THEN "lock" ELSE "failed")
    BY <1>1 DEF CheckBudget
  <2>2. pc[Owner] = "budget"
    BY <1>1 DEF CheckBudget
  <2> HIDE DEF r
  <2>3. QED
    BY <1>s, <1>g, <2>1, <2>2
<1>2. CASE AcquireInputLock
  <2>1. \/ file' = file /\ Goto(Owner, "intent")
        \/ \E r : /\ \E ok \in BOOLEAN : Save(r, ok)
                  /\ Remember(Owner, r) /\ Goto(Owner, "failed")
    BY <1>2 DEF AcquireInputLock
  <2>2. pc[Owner] = "lock"
    BY <1>2 DEF AcquireInputLock
  <2>3. QED
    BY <1>s, <1>g, <2>1, <2>2
<1>3. CASE SaveCreateIntent
  <2> DEFINE r == [R EXCEPT !.phase = "target_create_pending"]
  <2> HIDE DEF r
  <2>1. /\ \E ok \in BOOLEAN : Save(r, ok)
        /\ Remember(Owner, r)
        /\ Goto(Owner, "create") \/ Goto(Owner, "failed")
    BY <1>3 DEF SaveCreateIntent, r
  <2>2. pc[Owner] = "intent"
    BY <1>3 DEF SaveCreateIntent
  <2>3. QED
    BY <1>s, <1>g, <2>1, <2>2
<1>4. CASE SendCreate \/ CreateReturns \/ MarkTargetPersistent \/ Attach
           \/ Navigate \/ CloseUnjournaled
  BY <1>4, <1>g DEF SendCreate, CreateReturns, MarkTargetPersistent, Attach,
     Navigate, CloseUnjournaled
<1>5. CASE SaveOwned
  BY <1>5, <1>s, <1>g DEF SaveOwned
<1>6. CASE SaveAttachFailed \/ SaveAttached
  BY <1>6, <1>u, <1>g DEF SaveAttachFailed, SaveAttached
<1>7. CASE MarkerSearch(Owner) \/ SettleClose(Owner)
  BY <1>7, <1>g DEF MarkerSearch, SettleClose
<1>8. CASE SaveNotFound(Owner) \/ SettleResult(Owner)
  BY <1>8, <1>u, <1>g DEF SaveNotFound, SettleResult
<1>9. CASE SettlePending(Owner)
  BY <1>9, <1>s, <1>g DEF SettlePending
<1>10. CASE DispatchReturns
  BY <1>10, <1>s, <1>g DEF DispatchReturns
<1>11. CASE Close
  BY <1>11, <1>s, <1>g DEF Close, AtLease
<1>12. CASE LeaseCloseTarget
  BY <1>12, <1>g DEF LeaseCloseTarget
<1>13. CASE LeaseCloseResult
  BY <1>13, <1>u, <1>g DEF LeaseCloseResult
<1>14. QED
  BY <1>1, <1>2, <1>3, <1>4, <1>5, <1>6, <1>7, <1>8, <1>9, <1>10, <1>11,
     <1>12, <1>13 DEF AcquireStep, CloseStep

\* A step of the Owner after which its memory is not dispatching.
LEMMA OwnerSavesJournal ==
  ASSUME JournalInv, InputInv', OwnerSaves, sends' = sends
  PROVE  JournalInv'
<1> DEFINE Q == rec'[Owner]
<1>t. TypeOK /\ TypeOK'
  BY DEF JournalInv, InputInv
<1>1. \A p \in Recoverers : pc[p] = "idle" /\ pc'[p] = "idle"
  BY DEF JournalInv, Alone, OwnerSaves
<1>2. Q \in Record /\ ShowsOwnSlot(Q)
  <2>1. Q \in Record
    BY <1>t, OwnerIsProc DEF TypeOK
  <2>2. Slot(Q) \in Slots /\ sends[Slot(Q)] > 0 => Q.raw = 1
    <3>1. Slot(Q) \in Nat
      BY <2>1 DEF Record, Slot
    <3>2. QED
      BY <3>1 DEF InputInv, OwnerRemembersInput, OwnerSaves
  <2>3. QED
    BY <2>1, <2>2 DEF ShowsOwnSlot, Sent
<1>3. JournalShowsInput'
  <2>1. CASE file' = file
    BY <2>1 DEF JournalInv, JournalShowsInput, Slot
  <2>2. CASE file # None /\ ValidTransition(file, Q) /\ file' = Q
    BY <2>2, <1>2, <1>t, TransitionShows DEF JournalInv, TypeOK
  <2>3. QED
    BY <2>1, <2>2 DEF OwnerSaves
<1>4. Alone' /\ RecoverersShowInput'
  BY <1>1 DEF Alone, RecoverersShowInput
<1>5. Pending'
  BY DEF Pending, OwnerSaves
<1>6. QED
  BY <1>3, <1>4, <1>5 DEF JournalInv

\* The lease's operations that save what they propose.
LEMMA LeaseJournal ==
  ASSUME JournalInv, InputInv', LeaseStep
  PROVE  JournalInv'
<1> DEFINE R == rec[Owner]
<1>t. TypeOK /\ TypeOK' /\ R \in Record /\ Owner \in Procs
  BY OwnerIsProc DEF JournalInv, InputInv, TypeOK
<1>o. Slot(R) \in Nat /\ \A p \in Recoverers : p # Owner
  BY <1>t, BrowserflowAssumption DEF Slot, Record
<1>l. AtLease /\ sends' = sends
  BY DEF LeaseStep, BindInputFingerprint, MarkPrepared, BeginDispatch,
     Acknowledge, ConfirmPostcondition, BeginNextAction, MarkCompletion,
     ReleaseInput, LeaseSave
<1>i. \A s \in Slots : sends[s] > 0 =>
        s < Slot(R) \/ (s = Slot(R) /\ R.raw = 1)
  BY <1>l DEF JournalInv, InputInv, OwnerRemembersInput, AtLease
<1>a. \A p \in Recoverers : pc[p] = "idle"
  BY <1>l DEF JournalInv, Alone, AtLease
<1>f. ASSUME NEW q \in Record, \E ok \in BOOLEAN : Save(q, ok),
             ShowsOwnSlot(q)
      PROVE  JournalShowsInput'
  <2>1. CASE file' = file
    BY <2>1, <1>l DEF JournalInv, JournalShowsInput, Slot
  <2>2. CASE file # None /\ ValidTransition(file, q) /\ file' = q
    BY <2>2, <1>f, <1>l, <1>t, TransitionShows DEF JournalInv, TypeOK
  <2>3. QED
    BY <1>f, <2>1, <2>2 DEF Save
<1>1. CASE ~BeginDispatch /\ ~ReleaseInput
  <2>1. PICK q : LeaseSave(q) /\ LeaseProposal(q)
    BY <1>1, <1>t, LeaseProposes
  <2>2. q \in Record /\ ShowsOwnSlot(q)
    <3>1. CASE q.done = R.done /\ q.raw = R.raw
      BY <1>i, <1>o, <2>1, <3>1 DEF LeaseProposal, ShowsOwnSlot, Sent, Slot
    <3>2. CASE q.done = Append(R.done, Archive(R))
      <4>1. Len(q.done) = Len(R.done) + 1
        BY <1>t, <3>2 DEF Record
      <4>2. Slot(q) = Slot(R) + 1
        BY <4>1 DEF Slot
      <4>3. ~Sent(q)
        BY <1>i, <1>o, <4>2 DEF Sent
      <4>4. QED
        BY <2>1, <4>3 DEF LeaseProposal, ShowsOwnSlot
    <3>3. QED
      BY <2>1, <3>1, <3>2 DEF LeaseProposal
  <2>3. JournalShowsInput' /\ pc' = pc
    BY <1>f, <2>1, <2>2 DEF LeaseSave
  <2>4. QED
    BY <1>a, <1>l, <2>3 DEF JournalInv, Alone, Pending, RecoverersShowInput,
       AtLease
<1>2. CASE BeginDispatch
  <2> DEFINE q == [R EXCEPT !.phase = "action_pending", !.attempts = @ + 1,
                            !.pend = TRUE]
  <2>1. q \in Record /\ q.phase = "action_pending"
    BY <1>t, IntentTells
  <2> HIDE DEF q
  <2>2. \/ Save(q, TRUE) /\ Remember(Owner, q) /\ Goto(Owner, "dispatch")
        \/ Save(q, FALSE) /\ UNCHANGED <<rec, pc>>
    BY <1>2 DEF BeginDispatch, q
  <2>3. JournalShowsInput'
    BY <1>f, <2>1, <2>2 DEF ShowsOwnSlot
  <2>4. /\ \A p \in Recoverers : pc'[p] = "idle"
        /\ pc'[Owner] \in {"lease", "dispatch"}
        /\ pc'[Owner] = "dispatch" => file' = q /\ rec'[Owner] = q
    <3>1. CASE Save(q, TRUE) /\ Remember(Owner, q) /\ Goto(Owner, "dispatch")
      <4>1. file' = q
        BY <3>1 DEF Save
      <4>2. rec'[Owner] = q
        BY <3>1, <1>t DEF Remember, TypeOK
      <4>3. pc'[Owner] = "dispatch" /\ \A p \in Recoverers : pc'[p] = pc[p]
        BY <3>1, <1>o, <1>t DEF Goto, TypeOK
      <4>4. QED
        BY <1>a, <4>1, <4>2, <4>3
    <3>2. CASE UNCHANGED <<rec, pc>>
      BY <1>a, <1>l, <3>2 DEF AtLease
    <3>3. QED
      BY <2>2, <3>1, <3>2
  <2>5. QED
    BY <2>1, <2>3, <2>4 DEF JournalInv, Alone, Pending, RecoverersShowInput
<1>3. CASE ReleaseInput
  <2>1. UNCHANGED <<file, pc, rec, sends>>
    BY <1>3 DEF ReleaseInput
  <2>2. QED
    BY <2>1 DEF JournalInv, JournalShowsInput, Alone, Pending,
       RecoverersShowInput, Slot, Sent
<1>4. QED
  BY <1>1, <1>2, <1>3

\* Sending raw input: the journal already holds the intent.
LEMMA SendJournal ==
  ASSUME JournalInv, InputInv', SendRawInput
  PROVE  JournalInv'
<1> DEFINE R == rec[Owner]
<1>t. TypeOK /\ R \in Record /\ Owner \in Procs
  BY OwnerIsProc DEF JournalInv, InputInv, TypeOK
<1>1. /\ pc[Owner] = "dispatch" /\ file = R /\ file.phase = "action_pending"
      /\ file' = file /\ rec' = rec
      /\ sends' = [sends EXCEPT ![Slot(R)] = @ + 1]
  BY DEF SendRawInput, JournalInv, Pending
<1>2. /\ pc'[Owner] = "sent"
      /\ \A p \in Recoverers : pc'[p] = "idle"
  BY <1>1, <1>t, BrowserflowAssumption
     DEF SendRawInput, Goto, JournalInv, Alone, TypeOK
<1>3. JournalShowsInput'
  <2>1. ASSUME NEW s \in Slots, sends'[s] > 0
        PROVE  IF s <= Len(file.done) THEN file.done[s].raw = 1
               ELSE s = Slot(file)
    <3>1. CASE s = Slot(R)
      BY <1>1, <1>t, <3>1 DEF Slot, Record
    <3>2. CASE s # Slot(R)
      <4>1. sends[s] > 0
        BY <1>1, <1>t, <2>1, <3>2 DEF TypeOK
      <4>2. QED
        BY <4>1 DEF JournalInv, JournalShowsInput
    <3>3. QED
      BY <3>1, <3>2
  <2>2. file # None
    BY <1>1, <1>t, BrowserflowAssumption
  <2>3. QED
    BY <1>1, <2>1, <2>2 DEF JournalShowsInput, Slot
<1>4. QED
  BY <1>1, <1>2, <1>3 DEF JournalInv, Alone, Pending, RecoverersShowInput

\* What a recoverer saves is what it then remembers, and it keeps the slot.
RecovererSaves(p) ==
  /\ pc[p] # "idle"
  /\ \A o \in Procs \ {p} : pc'[o] = pc[o] /\ rec'[o] = rec[o]
  /\ Slot(rec'[p]) = Slot(rec[p])
  /\ IF pc[p] = "ambiguous" THEN rec'[p].raw = 1
     ELSE rec'[p].raw = rec[p].raw
  /\ pc'[p] # "ambiguous"
  /\ \/ file' = file
     \/ file # None /\ ValidTransition(file, rec'[p]) /\ file' = rec'[p]

LEMMA RecovererSavesMemory ==
  ASSUME TypeOK, NEW p \in Recoverers, RecoverStep(p)
  PROVE  RecovererSaves(p) /\ sends' = sends
<1> DEFINE R == rec[p]
<1>r. R \in Record /\ p \in Procs /\ p # Owner
  BY OwnerIsProc, BrowserflowAssumption DEF TypeOK
<1>s. ASSUME NEW r, \E ok \in BOOLEAN : Save(r, ok), rec'[p] = r
      PROVE  \/ file' = file
             \/ file # None /\ ValidTransition(file, rec'[p]) /\ file' = rec'[p]
  BY <1>s DEF Save
<1>g. ASSUME NEW label, Goto(p, label)
      PROVE  pc'[p] = label /\ \A o \in Procs \ {p} : pc'[o] = pc[o]
  BY <1>g, <1>r DEF Goto, TypeOK
<1>m. ASSUME NEW r, Remember(p, r)
      PROVE  rec'[p] = r /\ \A o \in Procs \ {p} : rec'[o] = rec[o]
  BY <1>m, <1>r DEF Remember, TypeOK
<1>1. CASE RecoverAmbiguous(p)
  <2> DEFINE q == [R EXCEPT !.phase = "action_unknown", !.pend = TRUE,
                            !.dispatch = "unknown", !.raw = 1]
  <2>1. Slot(q) = Slot(R) /\ q.raw = 1
    BY <1>r DEF Record, Slot
  <2> HIDE DEF q
  <2>2. /\ Remember(p, q) /\ Goto(p, "settle") /\ pc[p] = "ambiguous"
        /\ sends' = sends /\ \E ok \in BOOLEAN : Save(q, ok)
    BY <1>1 DEF RecoverAmbiguous, q
  <2>3. QED
    BY <1>g, <1>m, <1>s, <2>1, <2>2 DEF RecovererSaves
<1>2. CASE MarkerSearch(p)
  <2>1. ASSUME NEW q, NEW label \in {"settle", "not_found"}, Remember(p, q),
               Goto(p, label), q.done = R.done, q.raw = R.raw
        PROVE  RecovererSaves(p) /\ sends' = sends
    BY <1>2, <1>g, <1>m, <2>1 DEF MarkerSearch, RecovererSaves, Slot
  <2>2. CASE /\ Goto(p, "settle")
             /\ Remember(p, [R EXCEPT !.target = TRUE, !.unreconciled = FALSE])
    <3> DEFINE q == [R EXCEPT !.target = TRUE, !.unreconciled = FALSE]
    <3>1. q.done = R.done /\ q.raw = R.raw
      BY <1>r DEF Record
    <3>2. Remember(p, q)
      BY <2>2
    <3> HIDE DEF q
    <3>3. QED
      BY <2>1, <2>2, <3>1, <3>2
  <2>3. ASSUME NEW b \in BOOLEAN, Goto(p, "not_found"),
               Remember(p, NotFound(R, b, p = Owner))
        PROVE  RecovererSaves(p) /\ sends' = sends
    <3>1. /\ NotFound(R, b, p = Owner).done = R.done
          /\ NotFound(R, b, p = Owner).raw = R.raw
      BY <1>r, NotFoundKeeps
    <3>2. QED
      BY <2>1, <2>3, <3>1
  <2>4. QED
    BY <1>2, <2>2, <2>3 DEF MarkerSearch
<1>3. CASE SaveNotFound(p) \/ SettleResult(p)
  <2>1. /\ Goto(p, "idle") /\ rec' = rec /\ sends' = sends
        /\ pc[p] \in {"not_found", "result"}
        /\ \E ok \in BOOLEAN : Save(R, ok)
    BY <1>3, <1>r DEF SaveNotFound, SettleResult
  <2>2. QED
    BY <1>g, <1>s, <2>1 DEF RecovererSaves
<1>4. CASE SettlePending(p)
  <2> DEFINE q == [R EXCEPT !.phase = "cleanup_pending", !.cleanup = "pending"]
  <2>1. Slot(q) = Slot(R) /\ q.raw = R.raw
    BY <1>r DEF Record, Slot
  <2> HIDE DEF q
  <2>2. /\ Remember(p, q) /\ Goto(p, "closing") /\ pc[p] = "settle"
        /\ sends' = sends /\ \E ok \in BOOLEAN : Save(q, ok)
    BY <1>4 DEF SettlePending, q
  <2>3. QED
    BY <1>g, <1>m, <1>s, <2>1, <2>2 DEF RecovererSaves
<1>5. CASE SettleClose(p)
  <2>1. PICK gone \in BOOLEAN : Remember(p, AfterClose(R, gone))
    BY <1>5 DEF SettleClose
  <2>2. Slot(AfterClose(R, gone)) = Slot(R) /\ AfterClose(R, gone).raw = R.raw
    BY <1>r DEF AfterClose, Record, Slot
  <2>3. /\ Goto(p, "result") /\ pc[p] = "closing" /\ file' = file
        /\ sends' = sends
    BY <1>5 DEF SettleClose
  <2>4. QED
    BY <1>g, <1>m, <2>1, <2>2, <2>3 DEF RecovererSaves
<1>6. QED
  BY <1>1, <1>2, <1>3, <1>4, <1>5 DEF RecoverStep

\* Recovery keeps showing the inputs its run has left behind.
LEMMA RecoverJournal ==
  ASSUME JournalInv, InputInv', ~RecoverWhileOwned,
         NEW p \in Recoverers, RecoverLoad(p) \/ RecoverStep(p)
  PROVE  JournalInv'
<1>t. TypeOK /\ TypeOK' /\ p \in Procs /\ p # Owner /\ Owner \in Procs
  BY OwnerIsProc, BrowserflowAssumption DEF JournalInv, InputInv
<1>1. CASE RecoverLoad(p)
  <2>1. /\ file # None /\ file' = file /\ sends' = sends
        /\ file \in Record /\ Remember(p, file)
        /\ pc[Owner] \in {"failed", "exited"}
        /\ ~file.target => NeedsMarkerSearch(file)
    BY <1>1, <1>t DEF RecoverLoad, TypeOK
  <2>2. PICK label : /\ Goto(p, label)
                     /\ IF label = "ambiguous" THEN file.phase = "action_pending"
                        ELSE file.phase # "action_pending"
    <3>1. CASE ~file.target
      <4>1. Goto(p, "search") /\ file.phase # "action_pending"
        BY <1>1, <2>1, <3>1 DEF RecoverLoad, NeedsMarkerSearch
      <4>2. QED
        BY <4>1
    <3>2. CASE file.target
      BY <1>1, <3>2 DEF RecoverLoad
    <3>3. QED
      BY <3>1, <3>2
  <2>3. /\ \A o \in Procs : /\ rec'[o] = IF o = p THEN file ELSE rec[o]
                            /\ pc'[o] = IF o = p THEN label ELSE pc[o]
    BY <1>t, <2>1, <2>2 DEF Remember, Goto, TypeOK
  <2>4. pc'[Owner] = pc[Owner] /\ rec'[Owner] = rec[Owner]
    BY <1>t, <2>3
  <2>5. JournalShowsInput' /\ Alone' /\ Pending'
    BY <2>1, <2>4 DEF JournalInv, JournalShowsInput, Alone, Pending, Slot
  <2>6. Sent(file) => file.raw = 1 \/ file.phase = "action_pending"
    BY <2>1 DEF Sent, JournalInv, JournalShowsInput, Slot, Record
  <2>7. RecoverersShowInput'
    <3>1. ASSUME NEW o \in Recoverers, pc'[o] # "idle", Sent(rec[o])'
          PROVE  IF pc'[o] = "ambiguous" THEN rec'[o].phase = "action_pending"
                 ELSE rec'[o].raw = 1
      <4>1. Sent(rec'[o])
        BY <2>1, <3>1 DEF Sent, Slot
      <4>2. o \in Procs
        BY OwnerIsProc
      <4>3. QED
        BY <2>2, <2>3, <2>6, <3>1, <4>1, <4>2 DEF JournalInv, RecoverersShowInput
    <3>2. QED
      BY <3>1 DEF RecoverersShowInput, Sent
  <2>8. QED
    BY <2>5, <2>7 DEF JournalInv
<1>2. CASE RecoverStep(p)
  <2> DEFINE Q == rec'[p]
  <2>1. RecovererSaves(p) /\ sends' = sends /\ Q \in Record
    BY <1>2, <1>t, RecovererSavesMemory DEF TypeOK
  <2>2. pc[Owner] \in {"failed", "exited"} /\ pc'[Owner] = pc[Owner]
    BY <1>t, <2>1 DEF RecovererSaves, JournalInv, Alone
  <2>3. Sent(Q) => Q.raw = 1
    BY <2>1 DEF RecovererSaves, JournalInv, RecoverersShowInput, Sent
  <2>4. JournalShowsInput'
    <3>1. CASE file' = file
      BY <2>1, <3>1 DEF JournalInv, JournalShowsInput, Slot
    <3>2. CASE file # None /\ ValidTransition(file, Q) /\ file' = Q
      BY <1>t, <2>1, <2>3, <3>2, TransitionShows
         DEF JournalInv, TypeOK, ShowsOwnSlot
    <3>3. QED
      BY <2>1, <3>1, <3>2 DEF RecovererSaves
  <2>5. RecoverersShowInput'
    <3>1. ASSUME NEW o \in Recoverers, pc'[o] # "idle", Sent(rec[o])'
          PROVE  IF pc'[o] = "ambiguous" THEN rec'[o].phase = "action_pending"
                 ELSE rec'[o].raw = 1
      <4>1. Sent(rec'[o]) /\ o \in Procs
        BY <2>1, <3>1, OwnerIsProc DEF Sent, Slot
      <4>2. CASE o = p
        BY <2>1, <2>3, <4>1, <4>2 DEF RecovererSaves
      <4>3. CASE o # p
        <5>1. pc'[o] = pc[o] /\ rec'[o] = rec[o]
          BY <2>1, <4>1, <4>3 DEF RecovererSaves
        <5>2. QED
          BY <3>1, <4>1, <5>1 DEF JournalInv, RecoverersShowInput
      <4>4. QED
        BY <4>2, <4>3
    <3>2. QED
      BY <3>1 DEF RecoverersShowInput
  <2>6. Alone' /\ Pending'
    BY <2>2 DEF Alone, Pending
  <2>7. QED
    BY <2>4, <2>5, <2>6 DEF JournalInv
<1>3. QED
  BY <1>1, <1>2

\* Every step keeps the journal telling.
LEMMA JournalInvNext ==
  ASSUME JournalInv, [Next]_vars, ~RecoverWhileOwned
  PROVE  JournalInv'
<1>t. TypeOK /\ TypeOK' /\ InputInv'
  BY InputInvNext DEF JournalInv, InputInv
<1>o. Owner \in Procs /\ \A p \in Recoverers : p # Owner /\ p \in Procs
  BY OwnerIsProc, BrowserflowAssumption
<1>1. CASE Create
  <2>1. /\ pc[Owner] = "idle" /\ sends' = sends
        /\ \A p \in Recoverers : pc[p] = "idle" /\ pc'[p] = pc[p]
        /\ pc'[Owner] \in {"budget", "failed"}
    BY <1>1, <1>o, <1>t DEF Create, Goto, JournalInv, Alone, TypeOK
  <2>2. \A s \in Slots : ~(sends[s] > 0)
    BY <2>1 DEF JournalInv, InputInv, OwnerRemembersInput, OwnerStartsClean,
       Slot, Slots
  <2>3. QED
    BY <1>t, <2>1, <2>2 DEF JournalInv, JournalShowsInput, Alone, Pending,
       RecoverersShowInput
<1>2. CASE (AcquireStep /\ ~Create) \/ DispatchReturns \/ CloseStep
  <2>1. sends' = sends
    <3>1. CASE AcquireStep /\ ~Create
      BY <1>t, <3>1, AcquireKeepsSlot DEF OwnerKeepsSlot
    <3>2. CASE DispatchReturns
      BY <3>2 DEF DispatchReturns
    <3>3. CASE CloseStep
      BY <1>t, <3>3, CloseKeepsSlot DEF OwnerKeepsSlot
    <3>4. QED
      BY <1>2, <3>1, <3>2, <3>3
  <2>2. QED
    BY <1>2, <1>t, <2>1, OwnerSavesMemory, OwnerSavesJournal
<1>3. CASE LeaseStep
  BY <1>3, <1>t, LeaseJournal
<1>4. CASE SendRawInput
  BY <1>4, <1>t, SendJournal
<1>5. CASE \E p \in Recoverers : RecoverLoad(p) \/ RecoverStep(p)
  BY <1>5, <1>t, RecoverJournal
<1>6. CASE Exit
  <2>1. /\ pc'[Owner] = "exited" /\ file' = file /\ sends' = sends
        /\ \A p \in Recoverers : pc'[p] = pc[p] /\ rec'[p] = rec[p]
    BY <1>6, <1>o, <1>t DEF Exit, Goto, Remember, TypeOK
  <2>2. QED
    BY <1>t, <2>1 DEF JournalInv, JournalShowsInput, Alone, Pending,
       RecoverersShowInput, Slot, Sent
<1>7. ASSUME NEW p \in Recoverers, RecovererCrash(p)
      PROVE  JournalInv'
  <2>1. /\ pc'[p] = "idle" /\ file' = file /\ sends' = sends
        /\ \A o \in Procs \ {p} : pc'[o] = pc[o] /\ rec'[o] = rec[o]
    BY <1>7, <1>o, <1>t DEF RecovererCrash, Goto, Remember, TypeOK
  <2>2. pc'[Owner] = pc[Owner] /\ rec'[Owner] = rec[Owner]
    BY <1>o, <2>1
  <2>3. \A o \in Recoverers :
          \/ pc'[o] = "idle"
          \/ pc'[o] = pc[o] /\ rec'[o] = rec[o]
    BY <1>o, <2>1
  <2>4. QED
    BY <1>t, <2>1, <2>2, <2>3 DEF JournalInv, JournalShowsInput, Alone,
       Pending, RecoverersShowInput, Slot, Sent
<1>8. CASE BrowserStep \/ UNCHANGED vars
  <2>1. UNCHANGED <<file, pc, rec, sends>>
    BY <1>8 DEF BrowserStep, CreateLands, TargetLost, vars
  <2>2. QED
    BY <1>t, <2>1 DEF JournalInv, JournalShowsInput, Alone, Pending,
       RecoverersShowInput, Slot, Sent
<1>9. QED
  BY <1>1, <1>2, <1>3, <1>4, <1>5, <1>6, <1>7, <1>8
     DEF Next, DispatchStep, Crash

LEMMA JournalInvInit ==
  ASSUME Init
  PROVE  JournalInv
<1>1. InputInv /\ \A p \in Procs : pc[p] = "idle"
  BY InputInvInit DEF Init
<1>2. \A s \in Slots : sends[s] = 0
  BY DEF Init
<1>3. QED
  BY <1>1, <1>2, OwnerIsProc DEF JournalInv, JournalShowsInput, Alone,
     Pending, RecoverersShowInput

\* The journal alone tells a restarted process where raw input may have been
\* sent, for any number of recoverers, slots and attempts, whatever saves fail
\* and whoever dies, if Recover waits for the run to be over (engine.go
\* Dispatch, BeginNextAction, Recover; record.go validateTransition).
THEOREM JournalShows ==
  ASSUME ~RecoverWhileOwned
  PROVE  Spec => []JournalShowsInput
<1>1. Init => JournalInv
  BY JournalInvInit
<1>2. JournalInv /\ [Next]_vars => JournalInv'
  BY JournalInvNext
<1>3. JournalInv => JournalShowsInput
  BY DEF JournalInv
<1>4. QED
  BY <1>1, <1>2, <1>3, PTL DEF Spec

\* Raw input is sent only while the journal says action_pending.
LEMMA InputUnderIntent ==
  ASSUME JournalInv, [Next]_vars, sends' # sends
  PROVE  file.phase = "action_pending"
<1>t. TypeOK
  BY DEF JournalInv, InputInv
<1>1. CASE SendRawInput
  BY <1>1 DEF SendRawInput, JournalInv, Pending
<1>2. CASE AcquireStep
  <2>1. CASE Create
    BY <2>1 DEF Create
  <2>2. CASE ~Create
    BY <1>t, <1>2, <2>2, AcquireKeepsSlot DEF OwnerKeepsSlot
  <2>3. QED
    BY <2>1, <2>2
<1>3. CASE LeaseStep
  BY <1>3 DEF LeaseStep, BindInputFingerprint, MarkPrepared, BeginDispatch,
     Acknowledge, ConfirmPostcondition, BeginNextAction, MarkCompletion,
     ReleaseInput, LeaseSave
<1>4. CASE DispatchReturns
  BY <1>4 DEF DispatchReturns
<1>5. CASE CloseStep
  BY <1>t, <1>5, CloseKeepsSlot DEF OwnerKeepsSlot
<1>6. CASE \/ \E p \in Recoverers : RecoverLoad(p) \/ RecoverStep(p)
                                     \/ RecovererCrash(p)
           \/ BrowserStep
  BY <1>t, <1>6, OthersLeaveOwner DEF OwnerUntouched
<1>7. CASE Exit \/ UNCHANGED vars
  BY <1>7 DEF Exit, vars
<1>8. QED
  BY <1>1, <1>2, <1>3, <1>4, <1>5, <1>6, <1>7 DEF Next, DispatchStep, Crash

\* Once the journal says that cleanup has begun, no raw input follows: every
\* input crosses the boundary under a durable intent that nobody has
\* overwritten (engine.go Dispatch, Close, Recover).
THEOREM CleanupEndsInput ==
  ASSUME ~RecoverWhileOwned
  PROVE  Spec => NoInputAfterCleanup
<1>1. Init => JournalInv
  BY JournalInvInit
<1>2. JournalInv /\ [Next]_vars => JournalInv'
  BY JournalInvNext
<1>3. JournalInv /\ [Next]_vars =>
        [(file # None /\ file.phase \in {"cleanup_pending", "closed"})
           => sends' = sends]_vars
  BY InputUnderIntent
<1>4. QED
  BY <1>1, <1>2, <1>3, PTL DEF Spec, NoInputAfterCleanup
-----------------------------------------------------------------------------
\* No stranded target.  The journal leads to a target that the daemon keeps:
\* it holds the intent before the creation request is sent, nobody but the
\* Owner asks for persistence, and then only a record with the target, or one
\* that sends the next recoverer back to the marker search, replaces it.

UnkeptLabels == EarlyLabels \cup {"creating", "search", "not_found", "mark"}

\* The journal leads Recover to the target.
Leads == file # None /\ (file.target \/ NeedsMarkerSearch(file))

IntentJournaled ==
  pc[Owner] \in {"create", "creating", "mark"} =>
    file # None /\ (file.target \/ file.phase = "target_create_pending")

NotKeptYet == pc[Owner] \in UnkeptLabels => ~persistent

OwnedJournaled ==
  pc[Owner] \in {"attach", "save_attached", "navigate"} =>
    file # None /\ file.target

NavigatedJournaled == target = "navigated" => file # None /\ file.target

KeptMade == persistent => Made

Led == Live /\ persistent => Leads

SearchersKeepLead ==
  \A p \in Recoverers :
    pc[p] = "not_found" /\ Live /\ persistent =>
      \/ file # None /\ file.target
      \/ rec[p].phase = "failed" /\ rec[p].unreconciled

StrandInv ==
  /\ JournalInv /\ GoneInv
  /\ IntentJournaled /\ NotKeptYet /\ OwnedJournaled /\ NavigatedJournaled
  /\ KeptMade /\ Led /\ SearchersKeepLead

\* Recoverers run only after the Owner.
LEMMA RecoverersFollow ==
  ASSUME JournalInv, ~RecoverWhileOwned, NEW p \in Recoverers,
         RecoverLoad(p) \/ RecoverStep(p) \/ RecovererCrash(p)
  PROVE  /\ pc[Owner] \in {"failed", "exited"} /\ pc'[Owner] = pc[Owner]
         /\ rec'[Owner] = rec[Owner]
<1>1. pc'[Owner] = pc[Owner] /\ rec'[Owner] = rec[Owner]
  BY OthersLeaveOwner DEF OwnerUntouched, JournalInv, InputInv
<1>2. CASE RecoverLoad(p)
  BY <1>1, <1>2 DEF RecoverLoad
<1>3. CASE RecoverStep(p) \/ RecovererCrash(p)
  <2>1. pc[p] # "idle"
    BY <1>3 DEF RecoverStep, RecovererCrash, RecoverAmbiguous, MarkerSearch,
       SaveNotFound, SettlePending, SettleClose, SettleResult
  <2>2. QED
    BY <1>1, <2>1 DEF JournalInv, Alone
<1>4. QED
  BY <1>2, <1>3

\* Who changes what the browser and the daemon know of the target.
LEMMA BrowserMoves ==
  ASSUME [Next]_vars
  PROVE  /\ persistent' = persistent \/ MarkTargetPersistent
         /\ \/ target' = target \/ target' = "gone"
            \/ SendCreate \/ CreateLands
            \/ Navigate /\ Live /\ target' = "navigated"
<1> DEFINE Goal == /\ persistent' = persistent \/ MarkTargetPersistent
                   /\ \/ target' = target \/ target' = "gone"
                      \/ SendCreate \/ CreateLands
                      \/ Navigate /\ Live /\ target' = "navigated"
<1>s. ASSUME NEW p,
             \/ MarkerSearch(p) \/ SaveNotFound(p) \/ SettlePending(p)
             \/ SettleClose(p) \/ SettleResult(p) \/ RecoverAmbiguous(p)
             \/ RecoverLoad(p) \/ RecovererCrash(p)
      PROVE  Goal
  BY <1>s DEF MarkerSearch, SaveNotFound, SettlePending, SettleClose,
     SettleResult, RecoverAmbiguous, RecoverLoad, RecovererCrash, CloseTarget,
     browser
<1>1. CASE AcquireStep
  BY <1>1, <1>s DEF AcquireStep, Create, CheckBudget, AcquireInputLock,
     SaveCreateIntent, SendCreate, CreateReturns, MarkTargetPersistent,
     SaveOwned, Attach, SaveAttachFailed, SaveAttached, Navigate,
     CloseUnjournaled, CloseTarget, browser
<1>2. CASE LeaseStep \/ DispatchStep \/ CloseStep
  BY <1>2 DEF LeaseStep, DispatchStep, CloseStep, BindInputFingerprint,
     MarkPrepared, BeginDispatch, Acknowledge, ConfirmPostcondition,
     BeginNextAction, MarkCompletion, ReleaseInput, LeaseSave, SendRawInput,
     DispatchReturns, Close, LeaseCloseTarget, LeaseCloseResult, CloseTarget,
     browser
<1>3. CASE \E p \in Recoverers : RecoverLoad(p) \/ RecoverStep(p)
  BY <1>3, <1>s DEF RecoverStep
<1>4. CASE Crash \/ BrowserStep
  BY <1>4 DEF Crash, Exit, RecovererCrash, BrowserStep, CreateLands, TargetLost,
     browser
<1>5. CASE UNCHANGED vars
  BY <1>5 DEF vars
<1>6. QED
  BY <1>1, <1>2, <1>3, <1>4, <1>5 DEF Next

\* What a step may leave in the journal: a record with the target, unless the
\* Owner has not yet asked for persistence or a search has found nothing.
FileMove ==
  \/ file' = file
  \/ file = None /\ pc[Owner] \in UnkeptLabels
  \/ /\ file # None /\ file' # None /\ ValidTransition(file, file')
     /\ \/ file'.target
        \/ pc[Owner] \in UnkeptLabels
        \/ \E p \in Recoverers : pc[p] = "not_found" /\ file' = rec[p]

LEMMA FileMoves ==
  ASSUME GoneInv, GoneInv', [Next]_vars
  PROVE  FileMove
<1>t. TypeOK /\ TypeOK' /\ Owner \in Procs
  BY OwnerIsProc DEF GoneInv
<1>h. /\ pc[Owner] \in TargetLabels => rec[Owner].target
      /\ pc'[Owner] \in TargetLabels => rec'[Owner].target
  BY <1>t DEF GoneInv, HoldersKnowTarget
<1>n. \A r \in Record : r # None
  BY BrowserflowAssumption
<1>s. ASSUME NEW r \in Record, r.target, \E ok \in BOOLEAN : Save(r, ok)
      PROVE  FileMove
  BY <1>n, <1>s DEF Save, FileMove
<1>1. CASE AcquireStep \/ DispatchReturns \/ CloseStep
  <2>1. CASE Create
    BY <2>1 DEF Create, FileMove, UnkeptLabels, EarlyLabels
  <2>2. CASE /\ ~Create
             /\ \/ pc[Owner] \in UnkeptLabels
                \/ rec'[Owner].target
                \/ file' = file
    BY <1>1, <1>n, <1>t, <2>2, OwnerSavesMemory DEF OwnerSaves, FileMove, TypeOK
  <2>3. CASE \/ CheckBudget \/ AcquireInputLock \/ SaveCreateIntent
             \/ SendCreate \/ CreateReturns \/ MarkerSearch(Owner)
             \/ SaveNotFound(Owner) \/ MarkTargetPersistent
    BY <2>2, <2>1, <2>3 DEF CheckBudget, AcquireInputLock, SaveCreateIntent,
       SendCreate, CreateReturns, MarkerSearch, SaveNotFound,
       MarkTargetPersistent, UnkeptLabels, EarlyLabels
  <2>4. CASE \/ Attach \/ Navigate \/ CloseUnjournaled
             \/ SettleClose(Owner) \/ LeaseCloseTarget
    BY <2>4 DEF Attach, Navigate, CloseUnjournaled, SettleClose,
       LeaseCloseTarget, FileMove
  <2>5. CASE \/ SaveOwned \/ SaveAttachFailed \/ SaveAttached
             \/ SettlePending(Owner) \/ DispatchReturns \/ Close
    <3>1. pc'[Owner] \in TargetLabels \cup {"failed"} /\ pc[Owner] # "idle"
      BY <1>t, <2>5 DEF SaveOwned, SaveAttachFailed, SaveAttached,
         SettlePending, DispatchReturns, Close, Goto, TypeOK, TargetLabels,
         LeaseLabels, AtLease
    <3>2. pc'[Owner] # "failed"
      BY <1>t, <2>5 DEF SaveOwned, SaveAttachFailed, SaveAttached,
         SettlePending, DispatchReturns, Close, Goto, TypeOK
    <3>3. QED
      BY <1>h, <2>1, <2>2, <3>1, <3>2
  <2>6. CASE SettleResult(Owner) \/ LeaseCloseResult
    <3>1. rec'[Owner].target
      BY <1>h, <2>6 DEF SettleResult, LeaseCloseResult, TargetLabels,
         LeaseLabels
    <3>2. QED
      BY <2>1, <2>2, <3>1
  <2>7. QED
    BY <1>1, <2>1, <2>3, <2>4, <2>5, <2>6 DEF AcquireStep, CloseStep
<1>2. CASE LeaseStep
  <2>1. rec[Owner].target
    BY <1>2, <1>h DEF LeaseStep, BindInputFingerprint, MarkPrepared,
       BeginDispatch, Acknowledge, ConfirmPostcondition, BeginNextAction,
       MarkCompletion, ReleaseInput, AtLease, TargetLabels, LeaseLabels
  <2>2. CASE BeginDispatch
    <3> DEFINE q == [rec[Owner] EXCEPT !.phase = "action_pending",
                       !.attempts = @ + 1, !.pend = TRUE]
    <3>1. q \in Record /\ q.target
      BY <1>t, <2>1, IntentTells DEF TypeOK
    <3> HIDE DEF q
    <3>2. \E ok \in BOOLEAN : Save(q, ok)
      BY <2>2 DEF BeginDispatch, q
    <3>3. QED
      BY <1>s, <3>1, <3>2
  <2>3. CASE ReleaseInput
    BY <2>3 DEF ReleaseInput, FileMove
  <2>4. CASE ~BeginDispatch /\ ~ReleaseInput
    <3>1. PICK q : LeaseSave(q) /\ LeaseProposal(q)
      BY <1>2, <1>t, <2>4, LeaseProposes
    <3>2. QED
      BY <1>s, <2>1, <3>1 DEF LeaseSave, LeaseProposal
  <2>5. QED
    BY <2>2, <2>3, <2>4
<1>3. ASSUME NEW p \in Recoverers, RecoverStep(p)
      PROVE  FileMove
  <2>1. RecovererSaves(p) /\ p \in Procs
    BY <1>3, <1>t, RecovererSavesMemory, OwnerIsProc
  <2>2. CASE MarkerSearch(p) \/ SettleClose(p)
    BY <2>2 DEF MarkerSearch, SettleClose, FileMove
  <2>3. CASE SaveNotFound(p)
    BY <1>n, <1>t, <2>1, <2>3 DEF SaveNotFound, FileMove, Save, TypeOK
  <2>4. CASE RecoverAmbiguous(p) \/ SettlePending(p) \/ SettleResult(p)
    <3>1. rec'[p].target
      <4>1. CASE SettleResult(p)
        BY <2>1, <4>1 DEF SettleResult, GoneInv, HoldersKnowTarget, TargetLabels
      <4>2. CASE RecoverAmbiguous(p) \/ SettlePending(p)
        <5>1. pc'[p] \in {"settle", "closing"}
          BY <1>t, <2>1, <4>2 DEF RecoverAmbiguous, SettlePending, Goto, TypeOK
        <5>2. QED
          BY <2>1, <5>1 DEF GoneInv, HoldersKnowTarget, TargetLabels
      <4>3. QED
        BY <2>4, <4>1, <4>2
    <3>2. QED
      BY <1>n, <1>t, <2>1, <3>1 DEF RecovererSaves, FileMove, TypeOK
  <2>5. QED
    BY <1>3, <2>2, <2>3, <2>4 DEF RecoverStep
<1>4. CASE \/ SendRawInput \/ Crash \/ BrowserStep \/ UNCHANGED vars
           \/ \E p \in Recoverers : RecoverLoad(p)
  BY <1>4 DEF SendRawInput, Crash, Exit, RecovererCrash, BrowserStep,
     CreateLands, TargetLost, RecoverLoad, vars, FileMove
<1>5. QED
  BY <1>1, <1>2, <1>3, <1>4 DEF Next, DispatchStep

\* Owner steps and the labels the invariant speaks of.
OwnerMoves ==
  /\ pc'[Owner] \in UnkeptLabels => pc[Owner] \in UnkeptLabels
  /\ pc'[Owner] \in {"create", "creating", "mark"} =>
       \/ pc[Owner] \in {"create", "creating"} /\ file' = file
       \/ pc[Owner] = "intent" /\ file' # None
            /\ file'.phase = "target_create_pending"
       \/ UNCHANGED <<pc, file>>
       \/ pc[Owner] \in {"failed", "exited"}
  /\ pc'[Owner] \in {"attach", "save_attached", "navigate"} =>
       \/ pc[Owner] \in {"attach", "save_attached", "navigate"}
       \/ pc[Owner] = "own" /\ file' # None /\ file'.target

LEMMA OwnerPath ==
  ASSUME StrandInv, GoneInv', [Next]_vars, ~RecoverWhileOwned
  PROVE  OwnerMoves
<1> DEFINE R == rec[Owner]
<1>t. /\ TypeOK /\ TypeOK' /\ Owner \in Procs /\ R \in Record
      /\ JournalInv /\ GoneInv
  BY OwnerIsProc DEF StrandInv, GoneInv, TypeOK
<1>g. ASSUME NEW label, Goto(Owner, label)
      PROVE  pc'[Owner] = label
  BY <1>g, <1>t DEF Goto, TypeOK
<1>u. ASSUME pc'[Owner] \notin
               UnkeptLabels \cup {"attach", "save_attached", "navigate"}
      PROVE  OwnerMoves
  BY <1>u DEF OwnerMoves, UnkeptLabels, EarlyLabels
<1> USE DEF FailAcquire
<1>1. CASE \/ Create \/ CheckBudget \/ AcquireInputLock
           \/ MarkerSearch(Owner) \/ SaveNotFound(Owner)
           \/ MarkTargetPersistent
  <2>1. pc[Owner] \in UnkeptLabels
    BY <1>1 DEF Create, CheckBudget, AcquireInputLock, MarkerSearch,
       SaveNotFound, MarkTargetPersistent, UnkeptLabels, EarlyLabels
  <2>2. pc'[Owner] \in {"budget", "lock", "intent", "failed", "settle",
                        "not_found", "own"}
    BY <1>1, <1>g DEF Create, CheckBudget, AcquireInputLock, MarkerSearch,
       SaveNotFound, MarkTargetPersistent
  <2>3. QED
    BY <2>1, <2>2 DEF OwnerMoves
<1>2. CASE SaveCreateIntent
  <2> DEFINE q == [R EXCEPT !.phase = "target_create_pending"]
  <2>1. q.phase = "target_create_pending" /\ q \in Record
    BY <1>t DEF Record, Phases
  <2> HIDE DEF q
  <2>2. /\ pc[Owner] = "intent"
        /\ \/ Save(q, TRUE) /\ Goto(Owner, "create")
           \/ Goto(Owner, "failed")
    BY <1>2 DEF SaveCreateIntent, q
  <2>3. CASE Save(q, TRUE) /\ Goto(Owner, "create")
    <3>1. file' = q /\ q # None
      BY <2>1, <2>3, BrowserflowAssumption DEF Save
    <3>2. QED
      BY <1>g, <2>1, <2>2, <2>3, <3>1 DEF OwnerMoves, UnkeptLabels, EarlyLabels
  <2>4. CASE Goto(Owner, "failed")
    BY <1>g, <1>u, <2>4 DEF UnkeptLabels, EarlyLabels
  <2>5. QED
    BY <2>2, <2>3, <2>4
<1>3. CASE SendCreate \/ CreateReturns
  <2>1. /\ pc[Owner] \in {"create", "creating"} /\ file' = file
        /\ pc'[Owner] \in {"creating", "mark", "search"}
    BY <1>3, <1>g DEF SendCreate, CreateReturns
  <2>2. QED
    BY <2>1 DEF OwnerMoves, UnkeptLabels, EarlyLabels
<1>4. CASE SaveOwned
  <2> DEFINE q == [R EXCEPT !.phase = "target_owned", !.cleanup = "pending"]
  <2>1. PICK ok \in BOOLEAN :
          /\ Save(q, ok) /\ Remember(Owner, q)
          /\ Goto(Owner, IF ok THEN "attach" ELSE "close_only")
    BY <1>4 DEF SaveOwned
  <2>2. /\ pc'[Owner] = IF ok THEN "attach" ELSE "close_only"
        /\ rec'[Owner] = q /\ pc[Owner] = "own"
    BY <1>4, <1>t, <2>1, <1>g DEF SaveOwned, Remember, TypeOK
  <2>3. rec'[Owner].target /\ rec'[Owner] # None
    BY <1>t, <2>2, BrowserflowAssumption
       DEF GoneInv, HoldersKnowTarget, TargetLabels, TypeOK
  <2> HIDE DEF q
  <2>4. ok => file' = q
    BY <2>1 DEF Save
  <2>5. QED
    BY <2>2, <2>3, <2>4 DEF OwnerMoves, UnkeptLabels, EarlyLabels
<1>5. CASE Attach \/ SaveAttached
  <2>1. /\ pc[Owner] \in {"attach", "save_attached"}
        /\ pc'[Owner] \in {"save_attached", "attach_failed", "navigate",
                           "close_only"}
    BY <1>5, <1>g DEF Attach, SaveAttached
  <2>2. QED
    BY <2>1 DEF OwnerMoves, UnkeptLabels, EarlyLabels
<1>6. CASE \/ SaveAttachFailed \/ Navigate \/ CloseUnjournaled
           \/ SettlePending(Owner) \/ SettleClose(Owner)
           \/ SettleResult(Owner)
  <2>1. pc'[Owner] \in {"closing", "close_only", "lease", "settle", "failed",
                        "result"}
    BY <1>6, <1>g DEF SaveAttachFailed, Navigate, CloseUnjournaled,
       SettlePending, SettleClose, SettleResult
  <2>2. QED
    BY <1>u, <2>1 DEF UnkeptLabels, EarlyLabels
<1>7. CASE LeaseStep \/ DispatchStep \/ CloseStep
  <2>1. pc'[Owner] \in LeaseLabels \cup {"closed"}
    BY <1>7, <1>g, <1>t DEF LeaseStep, DispatchStep, CloseStep,
       BindInputFingerprint, MarkPrepared, BeginDispatch, Acknowledge,
       ConfirmPostcondition, BeginNextAction, MarkCompletion, ReleaseInput,
       LeaseSave, SendRawInput, DispatchReturns, Close, LeaseCloseTarget,
       LeaseCloseResult, AtLease, LeaseLabels
  <2>2. QED
    BY <1>u, <2>1 DEF UnkeptLabels, EarlyLabels, LeaseLabels
<1>8. ASSUME NEW p \in Recoverers,
             RecoverLoad(p) \/ RecoverStep(p) \/ RecovererCrash(p)
      PROVE  OwnerMoves
  <2>1. pc'[Owner] \in {"failed", "exited"}
    BY <1>8, <1>t, RecoverersFollow
  <2>2. QED
    BY <1>u, <2>1 DEF UnkeptLabels, EarlyLabels
<1>9. CASE Exit
  BY <1>9, <1>g, <1>u DEF Exit, UnkeptLabels, EarlyLabels
<1>10. CASE BrowserStep \/ UNCHANGED vars
  <2>1. UNCHANGED <<pc, file>>
    BY <1>10 DEF BrowserStep, CreateLands, TargetLost, vars
  <2>2. QED
    BY <2>1 DEF OwnerMoves
<1>11. QED
  BY <1>1, <1>2, <1>3, <1>4, <1>5, <1>6, <1>7, <1>8, <1>9, <1>10
     DEF Next, AcquireStep, Crash

\* A recoverer gets to an unsuccessful end of the search only by searching.
LEMMA SearchEnds ==
  ASSUME TypeOK, [Next]_vars, NEW p \in Recoverers, pc'[p] = "not_found",
         ~MarkerSearch(p)
  PROVE  pc[p] = "not_found" /\ rec'[p] = rec[p]
<1>o. p \in Procs /\ p # Owner /\ Owner \in Procs /\ Recoverers \subseteq Procs
  BY OwnerIsProc, BrowserflowAssumption
<1> DEFINE Kept == pc'[p] = pc[p] /\ rec'[p] = rec[p]
<1>g. ASSUME NEW label, Goto(Owner, label)
      PROVE  pc'[p] = pc[p]
  BY <1>g, <1>o DEF Goto, TypeOK
<1>m. ASSUME NEW r, Remember(Owner, r)
      PROVE  rec'[p] = rec[p]
  BY <1>m, <1>o DEF Remember, TypeOK
<1>l. ASSUME NEW label, Goto(p, label)
      PROVE  label = "not_found"
  BY <1>l, <1>o DEF Goto, TypeOK
<1> USE DEF FailAcquire
<1>1. CASE AcquireStep
  <2>1. CASE \/ Create \/ CheckBudget \/ AcquireInputLock
             \/ SaveCreateIntent \/ SendCreate \/ CreateReturns
             \/ MarkTargetPersistent
    BY <1>g, <1>m, <2>1 DEF Create, CheckBudget, AcquireInputLock,
       SaveCreateIntent, SendCreate, CreateReturns, MarkTargetPersistent
  <2>2. CASE \/ SaveOwned \/ Attach \/ SaveAttachFailed \/ SaveAttached
             \/ Navigate \/ CloseUnjournaled
    BY <1>g, <1>m, <2>2 DEF SaveOwned, Attach, SaveAttachFailed,
       SaveAttached, Navigate, CloseUnjournaled
  <2>3. CASE \/ MarkerSearch(Owner) \/ SaveNotFound(Owner)
             \/ SettlePending(Owner) \/ SettleClose(Owner)
             \/ SettleResult(Owner)
    BY <1>g, <1>m, <2>3 DEF MarkerSearch, SaveNotFound, SettlePending,
       SettleClose, SettleResult
  <2>4. QED
    BY <1>1, <2>1, <2>2, <2>3 DEF AcquireStep
<1>2. CASE LeaseStep
  BY <1>2, <1>g, <1>m DEF LeaseStep, BindInputFingerprint, MarkPrepared,
     BeginDispatch, Acknowledge, ConfirmPostcondition, BeginNextAction,
     MarkCompletion, ReleaseInput, LeaseSave
<1>3. CASE DispatchStep \/ CloseStep \/ Exit
  BY <1>3, <1>g, <1>m DEF DispatchStep, CloseStep, SendRawInput,
     DispatchReturns, Close, LeaseCloseTarget, LeaseCloseResult, Exit
<1>4. ASSUME NEW o \in Recoverers, o # p,
             RecoverLoad(o) \/ RecoverStep(o) \/ RecovererCrash(o)
      PROVE  Kept
  <2>1. CASE RecoverStep(o)
    BY <1>4, <1>o, <2>1, RecovererSavesMemory DEF RecovererSaves
  <2>2. CASE RecoverLoad(o) \/ RecovererCrash(o)
    BY <1>4, <1>o, <2>2 DEF RecoverLoad, RecovererCrash, Goto, Remember, TypeOK
  <2>3. QED
    BY <1>4, <2>1, <2>2
<1>5. CASE RecoverStep(p)
  <2>1. CASE SaveNotFound(p)
    BY <2>1 DEF SaveNotFound
  <2>2. CASE \/ RecoverAmbiguous(p) \/ SettlePending(p) \/ SettleClose(p)
             \/ SettleResult(p)
    BY <1>l, <1>o, <2>2 DEF RecoverAmbiguous, SettlePending, SettleClose,
       SettleResult
  <2>3. QED
    BY <1>5, <2>1, <2>2 DEF RecoverStep
<1>6. CASE RecoverLoad(p) \/ RecovererCrash(p)
  <2>1. CASE RecovererCrash(p)
    BY <1>l, <2>1 DEF RecovererCrash
  <2>2. CASE RecoverLoad(p) /\ ~file.target
    BY <1>l, <2>2 DEF RecoverLoad, NeedsMarkerSearch
  <2>3. CASE RecoverLoad(p) /\ file.target
    BY <1>l, <2>3 DEF RecoverLoad
  <2>4. QED
    BY <1>6, <2>1, <2>2, <2>3
<1>7. CASE BrowserStep \/ UNCHANGED vars
  BY <1>7 DEF BrowserStep, CreateLands, TargetLost, vars
<1>8. QED
  BY <1>1, <1>2, <1>3, <1>4, <1>5, <1>6, <1>7 DEF Next, Crash

\* Every step keeps the target within reach: one step per conjunct.
LEMMA StrandInvNext ==
  ASSUME StrandInv, [Next]_vars, ~RecoverWhileOwned
  PROVE  StrandInv'
<1>1. JournalInv' /\ GoneInv'
  BY JournalInvNext, GoneInvNext DEF StrandInv
<1>t. /\ TypeOK /\ TypeOK' /\ JournalInv /\ GoneInv
      /\ Owner \in Procs /\ \A p \in Recoverers : p \in Procs /\ p # Owner
  BY <1>1, OwnerIsProc, BrowserflowAssumption DEF StrandInv, GoneInv
<1>f. FileMove /\ OwnerMoves
  BY <1>1, <1>t, FileMoves, OwnerPath
<1>b. /\ persistent' = persistent \/ MarkTargetPersistent
      /\ \/ target' = target \/ target' = "gone"
         \/ SendCreate \/ CreateLands
         \/ Navigate /\ Live /\ target' = "navigated"
  BY BrowserMoves
<1>k. file # None /\ file.target => file' # None /\ file'.target
  BY <1>f DEF FileMove, ValidTransition
<1>m. Made => Made' /\ target' # "creating"
  <2>1. CASE SendCreate
    BY <1>t, <2>1 DEF SendCreate, GoneInv, NotAskedYet, EarlyLabels, Made
  <2>2. CASE CreateLands
    BY <2>2 DEF CreateLands, Made
  <2>3. QED
    BY <1>b, <2>1, <2>2 DEF Made
<1>p. MarkTargetPersistent =>
        /\ pc[Owner] = "mark" /\ file' = file /\ target' = target /\ Made
        /\ \A p \in Recoverers : pc'[p] = "idle"
  <2>1. ASSUME MarkTargetPersistent
        PROVE  \A p \in Recoverers : pc'[p] = "idle"
    <3>1. PICK label : Goto(Owner, label) /\ pc[Owner] = "mark"
      BY <2>1 DEF MarkTargetPersistent
    <3>2. QED
      BY <1>t, <3>1 DEF Goto, JournalInv, Alone, TypeOK
  <2>2. QED
    BY <1>t, <2>1 DEF MarkTargetPersistent, GoneInv, HoldersKnowTarget,
       KnownTargetMade, TargetLabels
<1>2. IntentJournaled'
  BY <1>f, <1>t DEF OwnerMoves, IntentJournaled, StrandInv, UnkeptLabels,
     EarlyLabels
<1>3. NotKeptYet'
  <2>1. SUFFICES ASSUME pc'[Owner] \in UnkeptLabels
                 PROVE  ~persistent'
    BY DEF NotKeptYet
  <2>2. pc[Owner] \in UnkeptLabels /\ ~persistent
    BY <1>f, <2>1 DEF OwnerMoves, StrandInv, NotKeptYet
  <2>3. ~MarkTargetPersistent
    BY <1>t, <2>1 DEF MarkTargetPersistent, Goto, TypeOK, UnkeptLabels,
       EarlyLabels
  <2>4. QED
    BY <1>b, <2>2, <2>3
<1>4. OwnedJournaled'
  BY <1>f, <1>k DEF OwnerMoves, OwnedJournaled, StrandInv
<1>5. NavigatedJournaled'
  <2>1. ASSUME target' = "navigated"
        PROVE  target = "navigated" \/ pc[Owner] = "navigate"
    BY <1>b, <2>1 DEF SendCreate, CreateLands, Navigate
  <2>2. QED
    BY <1>k, <2>1 DEF NavigatedJournaled, OwnedJournaled, StrandInv
<1>6. KeptMade'
  BY <1>b, <1>m, <1>p DEF KeptMade, StrandInv
<1>7. Led'
  <2>1. SUFFICES ASSUME Live', persistent' PROVE Leads'
    BY DEF Led
  <2>2. CASE MarkTargetPersistent
    <3>1. file # None /\ (file.target \/ file.phase = "target_create_pending")
      BY <1>p, <2>2 DEF StrandInv, IntentJournaled
    <3>2. QED
      BY <1>p, <2>2, <3>1 DEF Leads, NeedsMarkerSearch
  <2>3. CASE persistent' = persistent
    <3>1. persistent /\ Made /\ Live /\ pc[Owner] \notin UnkeptLabels
      BY <1>b, <2>1, <2>3 DEF StrandInv, KeptMade, NotKeptYet, Live, Made,
         SendCreate, CreateLands
    <3>2. Leads
      BY <3>1 DEF StrandInv, Led
    <3>3. CASE file' = file
      BY <3>2, <3>3 DEF Leads, NeedsMarkerSearch
    <3>4. ASSUME NEW p \in Recoverers, pc[p] = "not_found", file' = rec[p]
          PROVE  Leads'
      <4>1. \/ file # None /\ file.target
            \/ rec[p].phase = "failed" /\ rec[p].unreconciled
        BY <3>1, <3>4 DEF StrandInv, SearchersKeepLead
      <4>2. rec[p] # None
        BY <1>t, BrowserflowAssumption DEF TypeOK
      <4>3. QED
        BY <1>k, <3>4, <4>1, <4>2 DEF Leads, NeedsMarkerSearch
    <3>5. CASE file' # None /\ file'.target
      BY <3>5 DEF Leads
    <3>6. QED
      BY <1>f, <3>1, <3>2, <3>3, <3>4, <3>5 DEF FileMove, Leads
  <2>4. QED
    BY <1>b, <2>2, <2>3
<1>8. SearchersKeepLead'
  <2>1. SUFFICES ASSUME NEW p \in Recoverers, pc'[p] = "not_found", Live',
                        persistent'
                 PROVE  \/ file' # None /\ file'.target
                        \/ rec'[p].phase = "failed" /\ rec'[p].unreconciled
    BY DEF SearchersKeepLead
  <2>2. persistent /\ Live
    BY <1>b, <1>p, <2>1 DEF StrandInv, KeptMade, Live, Made, SendCreate,
       CreateLands
  <2>3. CASE pc[p] = "not_found" /\ rec'[p] = rec[p]
    BY <1>k, <2>2, <2>3 DEF StrandInv, SearchersKeepLead
  <2>4. CASE MarkerSearch(p)
    <3>1. CASE target = "navigated"
      BY <1>k, <3>1 DEF StrandInv, NavigatedJournaled
    <3>2. CASE target = "marker"
      <4>1. ~Goto(p, "settle")
        BY <1>t, <2>1 DEF Goto, TypeOK
      <4>2. Remember(p, NotFound(rec[p], TRUE, p = Owner))
        BY <2>4, <3>2, <4>1 DEF MarkerSearch
      <4>3. rec'[p] = NotFound(rec[p], TRUE, p = Owner)
        BY <1>t, <4>2 DEF Remember, TypeOK
      <4>4. rec[p] \in Record /\ (p = Owner) \in BOOLEAN
        BY <1>t DEF TypeOK
      <4>5. QED
        BY <4>3, <4>4, NotFoundTells
    <3>3. QED
      BY <2>2, <3>1, <3>2 DEF Live
  <2>5. ~MarkerSearch(p) => pc[p] = "not_found" /\ rec'[p] = rec[p]
    BY <1>t, <2>1, SearchEnds
  <2>6. QED
    BY <2>3, <2>4, <2>5
<1>9. QED
  BY <1>1, <1>2, <1>3, <1>4, <1>5, <1>6, <1>7, <1>8 DEF StrandInv

LEMMA StrandInvInit ==
  ASSUME Init
  PROVE  StrandInv
<1>1. JournalInv /\ GoneInv
  BY JournalInvInit, GoneInvInit
<1>2. pc[Owner] = "idle" /\ target = "none" /\ ~persistent
  BY OwnerIsProc DEF Init
<1>3. QED
  BY <1>1, <1>2 DEF StrandInv, IntentJournaled, NotKeptYet, OwnedJournaled,
     NavigatedJournaled, KeptMade, Led, SearchersKeepLead, Live

\* A live target that the daemon keeps is always within Recover's reach, for
\* any number of recoverers, wherever a save fails or a process dies, if
\* Recover waits for the run to be over (engine.go Acquire, settleExactCleanup,
\* Recover: "Persistence must never strand an owned target before cleanup can
\* run").
THEOREM NeverStranded ==
  ASSUME ~RecoverWhileOwned
  PROVE  Spec => []NoStrandedTarget
<1>1. Init => StrandInv
  BY StrandInvInit
<1>2. StrandInv /\ [Next]_vars => StrandInv'
  BY StrandInvNext
<1>3. StrandInv => NoStrandedTarget
  <2>1. SUFFICES ASSUME StrandInv, Live, persistent
                 PROVE  Discoverable
    BY DEF NoStrandedTarget
  <2>2. Leads /\ file.phase # "closed"
    BY <2>1 DEF StrandInv, Led, GoneInv, ClosedMeansGone, Live, Leads
  <2>3. CASE file.target
    BY <2>2, <2>3 DEF Discoverable, Leads
  <2>4. CASE ~file.target
    <3>1. target = "marker"
      BY <2>1, <2>4 DEF StrandInv, NavigatedJournaled, Live
    <3>2. QED
      BY <2>2, <2>4, <3>1 DEF Discoverable, Leads
  <2>5. QED
    BY <2>3, <2>4
<1>4. QED
  BY <1>1, <1>2, <1>3, PTL DEF Spec
=============================================================================
