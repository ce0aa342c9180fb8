---------------------------- MODULE Browserflow ----------------------------
(***************************************************************************)
(* One browser run of internal/browserflow: the process that acquires and  *)
(* drives the exact target (the Owner), the recovery journal on disk, the  *)
(* processes that call Recover for the run, and the browser.  A step is    *)
(* one journal save or one call to the browser, so a crash, another        *)
(* process or the browser can come between any two of them.                *)
(*                                                                         *)
(* file is what the disk holds.  A save may be refused or fail before it   *)
(* writes, and it may also report an error after the rename has made the   *)
(* new record durable.                                                     *)
(***************************************************************************)
EXTENDS BrowserflowRecord

CONSTANTS
  Owner, Recoverers,     \* the run's process and those that call Recover
  MaxDispatchAttempts,   \* Config.MaxDispatchAttempts, 2 by default
  InputLockConfigured,   \* Config.InputLockPath is not empty
  RecoverWhileOwned      \* Recover may overlap with a live Owner

ASSUME BrowserflowAssumption ==
  /\ Owner \notin Recoverers
  /\ MaxDispatchAttempts \in Nat
  /\ InputLockConfigured \in BOOLEAN
  /\ RecoverWhileOwned \in BOOLEAN
  /\ None \notin Record

VARIABLES
  file,        \* the journal's record of the run, None until created
  pc, rec,     \* per process: where it is, and its copy of the record
  inputLock,   \* the Owner holds the headed-browser input lock
  target,      \* what became of the one target the run creates
  persistent,  \* the daemon will not reap the target with its lease
  sends        \* raw inputs sent to the browser, per action slot

vars == <<file, pc, rec, inputLock, target, persistent, sends>>
browser == <<target, persistent>>

Procs == {Owner} \cup Recoverers
Slots == 1 .. MaxCompletedActions + 1
Slot(r) == Len(r.done) + 1

TargetStates == {"none", "creating", "marker", "navigated", "gone"}
Live == target \in {"marker", "navigated"}

AcquireLabels ==
  {"budget", "lock", "intent", "create", "creating", "search", "mark", "own",
   "attach", "attach_failed", "save_attached", "navigate", "close_only"}
LeaseLabels == {"lease", "dispatch", "sent", "lease_close", "lease_result"}
CleanupLabels == {"not_found", "settle", "closing", "result"}
OwnerDone == {"failed", "closed", "exited"}
Labels == {"idle", "ambiguous"} \cup AcquireLabels \cup LeaseLabels
            \cup CleanupLabels \cup OwnerDone

Init ==
  /\ file = None
  /\ pc = [p \in Procs |-> "idle"]
  /\ rec = [p \in Procs |-> NewRecord(None)]
  /\ inputLock = FALSE
  /\ target = "none" /\ persistent = FALSE
  /\ sends = [s \in Slots |-> 0]

-----------------------------------------------------------------------------
\* Moves of one process.
Goto(p, label) == pc' = [pc EXCEPT ![p] = label]
Remember(p, r) == rec' = [rec EXCEPT ![p] = r]

\* Journal.Save: ok is what the caller sees.
Save(r, ok) ==
  \/ ~ok /\ file' = file
  \/ file # None /\ ValidTransition(file, r) /\ file' = r

\* Acquire returns an error: every such path gives the input lock back.
FailAcquire == Goto(Owner, "failed") /\ inputLock' = FALSE

\* Variant: the journal does not tell a missing target from an unanswered
\* search.
FailedForGood(r, unreconciled) ==
  [r EXCEPT !.phase = "failed", !.unreconciled = FALSE]

Failed(r, unreconciled) ==
  [r EXCEPT !.phase = "failed", !.unreconciled = unreconciled]

\* Acquire keeps the cleanup state where it finds that there is no target.
NotFound(r, unreconciled, acquiring) ==
  [Failed(r, unreconciled) EXCEPT !.cleanup =
     IF unreconciled THEN "failed"
     ELSE IF acquiring THEN @ ELSE "not_required"]

-----------------------------------------------------------------------------
\* Acquire, step by step.
Create ==
  /\ pc[Owner] = "idle"
  /\ \E name \in ActionNames \cup {None}, ok \in BOOLEAN :
       /\ \/ file = None /\ file' = NewRecord(name)
          \/ ~ok /\ file' = file
       /\ Remember(Owner, NewRecord(name))
       /\ Goto(Owner, IF ok THEN "budget" ELSE "failed")
  /\ UNCHANGED <<inputLock, browser, sends>>

CheckBudget ==
  /\ pc[Owner] = "budget"
  /\ \E admitted, ok \in BOOLEAN :
       LET r == IF admitted
                THEN [rec[Owner] EXCEPT !.phase = "budget_checked"]
                ELSE Failed(rec[Owner], FALSE)
       IN /\ Save(r, ok) /\ Remember(Owner, r)
          /\ Goto(Owner, IF admitted /\ ok THEN "lock" ELSE "failed")
  /\ UNCHANGED <<inputLock, browser, sends>>

AcquireInputLock ==
  /\ pc[Owner] = "lock"
  /\ \/ /\ inputLock' = InputLockConfigured
        /\ Goto(Owner, "intent")
        /\ UNCHANGED <<file, rec>>
     \/ /\ InputLockConfigured
        /\ LET r == Failed(rec[Owner], FALSE)
           IN Remember(Owner, r) /\ \E ok \in BOOLEAN : Save(r, ok)
        /\ FailAcquire
  /\ UNCHANGED <<browser, sends>>

SaveCreateIntent ==
  /\ pc[Owner] = "intent"
  /\ LET r == [rec[Owner] EXCEPT !.phase = "target_create_pending"]
     IN /\ Remember(Owner, r)
        /\ \/ Save(r, TRUE) /\ Goto(Owner, "create") /\ UNCHANGED inputLock
           \/ Save(r, FALSE) /\ FailAcquire
  /\ UNCHANGED <<browser, sends>>

SendCreate ==
  /\ pc[Owner] = "create"
  /\ target' = "creating"
  /\ Goto(Owner, "creating")
  /\ UNCHANGED <<file, rec, inputLock, persistent, sends>>

\* The reply names the target, or is an error that leaves everything open.
CreateReturns ==
  /\ pc[Owner] = "creating"
  /\ \/ /\ target \in {"marker", "gone"}
        /\ Remember(Owner, [rec[Owner] EXCEPT !.target = TRUE])
        /\ Goto(Owner, "mark")
     \/ Goto(Owner, "search") /\ UNCHANGED rec
  /\ UNCHANGED <<file, inputLock, browser, sends>>

\* findMarkerTarget and its three answers: one exact page, none within five
\* seconds, or an error (several pages carry the marker, or a listing failed).
MarkerSearch(p) ==
  /\ pc[p] = "search"
  /\ \/ /\ target = "marker"
        /\ Remember(p, [rec[p] EXCEPT !.target = TRUE,
                                      !.unreconciled = FALSE])
        /\ Goto(p, "settle")
     \/ \E unreconciled \in BOOLEAN :
          /\ target = "marker" => unreconciled
          /\ Remember(p, NotFound(rec[p], unreconciled, p = Owner))
          /\ Goto(p, "not_found")
  /\ UNCHANGED <<file, inputLock, browser, sends>>

SaveNotFound(p) ==
  /\ pc[p] = "not_found"
  /\ \E ok \in BOOLEAN : Save(rec[p], ok)
  /\ IF p = Owner THEN FailAcquire ELSE Goto(p, "idle") /\ UNCHANGED inputLock
  /\ UNCHANGED <<rec, browser, sends>>

MarkTargetPersistent ==
  /\ pc[Owner] = "mark"
  /\ \/ persistent' = TRUE /\ Goto(Owner, "own")
     \/ persistent' \in BOOLEAN /\ Goto(Owner, "settle")
  /\ UNCHANGED <<file, rec, inputLock, target, sends>>

\* The save is tried twice; when both fail the target is closed unjournaled.
SaveOwned ==
  /\ pc[Owner] = "own"
  /\ \E ok \in BOOLEAN :
       LET r == [rec[Owner] EXCEPT !.phase = "target_owned",
                                   !.cleanup = "pending"]
       IN /\ Save(r, ok) /\ Remember(Owner, r)
          /\ Goto(Owner, IF ok THEN "attach" ELSE "close_only")
  /\ UNCHANGED <<inputLock, browser, sends>>

Attach ==
  /\ pc[Owner] = "attach"
  /\ \E ok \in BOOLEAN :
       /\ ok => Live
       /\ Remember(Owner,
            IF ok THEN [rec[Owner] EXCEPT !.session = TRUE,
                                          !.phase = "attached"]
            ELSE [rec[Owner] EXCEPT !.phase = "cleanup_pending",
                                    !.cleanup = "pending"])
       /\ Goto(Owner, IF ok THEN "save_attached" ELSE "attach_failed")
  /\ UNCHANGED <<file, inputLock, browser, sends>>

\* The cleanup result is saved only if the pending record was.
SaveAttachFailed ==
  /\ pc[Owner] = "attach_failed"
  /\ \E ok \in BOOLEAN :
       /\ Save(rec[Owner], ok)
       /\ Goto(Owner, IF ok THEN "closing" ELSE "close_only")
  /\ UNCHANGED <<rec, inputLock, browser, sends>>

SaveAttached ==
  /\ pc[Owner] = "save_attached"
  /\ \E ok \in BOOLEAN :
       /\ Save(rec[Owner], ok)
       /\ Goto(Owner, IF ok THEN "navigate" ELSE "close_only")
  /\ UNCHANGED <<rec, inputLock, browser, sends>>

Navigate ==
  /\ pc[Owner] = "navigate"
  /\ \/ Live /\ target' = "navigated" /\ Goto(Owner, "lease")
     \/ /\ target' \in IF Live THEN {target, "navigated"} ELSE {target}
        /\ Goto(Owner, "settle")
  /\ UNCHANGED <<file, rec, inputLock, persistent, sends>>

-----------------------------------------------------------------------------
\* Closing the exact target.  closeExactTarget reports closed only when it
\* has seen the target gone; a close it could not confirm may still work.
CloseTarget(gone) ==
  /\ gone => target' = "gone"
  /\ ~gone => target' \in {target, "gone"}
  /\ UNCHANGED persistent

\* Variant: a close request that was sent counts as a closed target.
AfterCloseSent(r, gone) ==
  [r EXCEPT !.phase = "closed", !.cleanup = "closed", !.unreconciled = FALSE]

\* The record after closeExactTarget answered.
AfterClose(r, gone) ==
  IF gone THEN [r EXCEPT !.phase = "closed", !.cleanup = "closed",
                         !.unreconciled = FALSE]
  ELSE [r EXCEPT !.phase = "cleanup_pending", !.cleanup = "failed",
                 !.unreconciled = FALSE]

CloseUnjournaled ==
  /\ pc[Owner] = "close_only"
  /\ \E gone \in BOOLEAN : CloseTarget(gone)
  /\ FailAcquire
  /\ UNCHANGED <<file, rec, sends>>

\* settleExactCleanup, for the Owner and for Recover alike.
SettlePending(p) ==
  /\ pc[p] = "settle"
  /\ LET r == [rec[p] EXCEPT !.phase = "cleanup_pending",
                             !.cleanup = "pending"]
     IN Remember(p, r) /\ \E ok \in BOOLEAN : Save(r, ok)
  /\ Goto(p, "closing")
  /\ UNCHANGED <<inputLock, browser, sends>>

SettleClose(p) ==
  /\ pc[p] = "closing"
  /\ \E gone \in BOOLEAN :
       CloseTarget(gone) /\ Remember(p, AfterClose(rec[p], gone))
  /\ Goto(p, "result")
  /\ UNCHANGED <<file, inputLock, sends>>

SettleResult(p) ==
  /\ pc[p] = "result"
  /\ \E ok \in BOOLEAN : Save(rec[p], ok)
  /\ IF p = Owner THEN FailAcquire ELSE Goto(p, "idle") /\ UNCHANGED inputLock
  /\ UNCHANGED <<rec, browser, sends>>

-----------------------------------------------------------------------------
\* The lease.  Its mutex makes every operation one transaction in memory.
AtLease == pc[Owner] = "lease"

\* Save the next record; only a save that succeeded is remembered.
LeaseSave(next) ==
  /\ \E ok \in BOOLEAN :
       Save(next, ok) /\ Remember(Owner, IF ok THEN next ELSE rec[Owner])
  /\ UNCHANGED <<pc, inputLock, browser, sends>>

BindInputFingerprint(f) ==
  /\ AtLease /\ rec[Owner].phase = "attached"
  /\ LeaseSave([rec[Owner] EXCEPT !.fp = f])

MarkPrepared ==
  /\ AtLease /\ rec[Owner].phase = "attached"
  /\ LeaseSave([rec[Owner] EXCEPT !.phase = "prepared"])

\* Dispatch up to the durable intent ...
BeginDispatch ==
  /\ AtLease /\ rec[Owner].phase = "prepared"
  /\ rec[Owner].raw = 0
  /\ rec[Owner].attempts < MaxDispatchAttempts
  /\ LET r == [rec[Owner] EXCEPT !.phase = "action_pending",
                                 !.attempts = @ + 1, !.pend = TRUE]
     IN \/ Save(r, TRUE) /\ Remember(Owner, r) /\ Goto(Owner, "dispatch")
        \/ Save(r, FALSE) /\ UNCHANGED <<rec, pc>>
  /\ UNCHANGED <<inputLock, browser, sends>>

\* ... the dispatcher, which crosses the raw-input boundary at most once ...
SendRawInput ==
  /\ pc[Owner] = "dispatch"
  /\ sends' = [sends EXCEPT ![Slot(rec[Owner])] = @ + 1]
  /\ Goto(Owner, "sent")
  /\ UNCHANGED <<file, rec, inputLock, browser>>

\* ... and what it may answer: an outcome it cannot classify is unknown.
Outcomes(label) ==
  {"unknown", IF label = "sent" THEN "performed" ELSE "not_performed"}

\* Variant: an unknown outcome is retried like one that was not performed.
ObservedRetryable(r, outcome) ==
  [r EXCEPT !.dispatch = IF outcome = "unknown" THEN "not_performed"
                         ELSE outcome,
            !.raw = IF outcome = "performed" THEN 1 ELSE @,
            !.phase = IF outcome = "performed" THEN "action_performed"
                      ELSE "prepared"]

Observed(r, outcome) ==
  [r EXCEPT !.dispatch = outcome,
            !.raw = IF outcome = "not_performed" THEN @ ELSE 1,
            !.phase = CASE outcome = "not_performed" -> "prepared"
                        [] outcome = "performed" -> "action_performed"
                        [] OTHER -> "action_unknown"]

DispatchReturns ==
  /\ pc[Owner] \in {"dispatch", "sent"}
  /\ \E outcome \in Outcomes(pc[Owner]), ok \in BOOLEAN :
       LET r == Observed(rec[Owner], outcome)
       IN Save(r, ok) /\ Remember(Owner, r)
  /\ Goto(Owner, "lease")
  /\ UNCHANGED <<inputLock, browser, sends>>

Acknowledge ==
  /\ AtLease /\ rec[Owner].phase \in {"action_performed", "action_unknown"}
  /\ LeaseSave([rec[Owner] EXCEPT
       !.conv = TRUE, !.phase = "acknowledged",
       !.dispatch = IF @ = "unknown" THEN "performed" ELSE @])

ConfirmPostcondition(proof) ==
  /\ AtLease /\ rec[Owner].phase \in {"action_performed", "action_unknown"}
  /\ LeaseSave([rec[Owner] EXCEPT !.dispatch = "performed", !.post = proof,
                                  !.phase = "action_performed"])

NextSlot(r, name) ==
  [r EXCEPT !.done = Append(@, Archive(r)), !.phase = "attached",
            !.name = name, !.dispatch = None, !.attempts = 0, !.raw = 0,
            !.pend = FALSE, !.post = None]

BeginNextAction(name) ==
  /\ AtLease /\ rec[Owner].name # None
  /\ rec[Owner].phase \in CompletionPhases
  /\ LeaseSave(NextSlot(rec[Owner], name))

MarkCompletion(phase) ==
  /\ AtLease
  /\ \/ rec[Owner].phase \in {"prepared", "action_performed", "acknowledged"}
     \/ rec[Owner].phase = "action_unknown" /\ phase = "incomplete"
  /\ LeaseSave([rec[Owner] EXCEPT !.phase = phase])

ReleaseInput ==
  /\ AtLease /\ inputLock
  /\ inputLock' = FALSE
  /\ UNCHANGED <<file, pc, rec, browser, sends>>

\* Variant: Close leaves the input lock to ReleaseInput.
CloseKeepingInput ==
  /\ AtLease
  /\ LET r == [rec[Owner] EXCEPT !.phase = "cleanup_pending",
                                 !.cleanup = "pending"]
     IN Remember(Owner, r) /\ \E ok \in BOOLEAN : Save(r, ok)
  /\ Goto(Owner, "lease_close")
  /\ UNCHANGED <<inputLock, browser, sends>>

Close ==
  /\ AtLease
  /\ inputLock' = FALSE
  /\ LET r == [rec[Owner] EXCEPT !.phase = "cleanup_pending",
                                 !.cleanup = "pending"]
     IN Remember(Owner, r) /\ \E ok \in BOOLEAN : Save(r, ok)
  /\ Goto(Owner, "lease_close")
  /\ UNCHANGED <<browser, sends>>

LeaseCloseTarget ==
  /\ pc[Owner] = "lease_close"
  /\ \E gone \in BOOLEAN :
       CloseTarget(gone) /\ Remember(Owner, AfterClose(rec[Owner], gone))
  /\ Goto(Owner, "lease_result")
  /\ UNCHANGED <<file, inputLock, sends>>

LeaseCloseResult ==
  /\ pc[Owner] = "lease_result"
  /\ \E ok \in BOOLEAN : Save(rec[Owner], ok)
  /\ Goto(Owner, IF rec[Owner].phase = "closed" THEN "closed" ELSE "lease")
  /\ UNCHANGED <<rec, inputLock, browser, sends>>

-----------------------------------------------------------------------------
\* Recover.  Providers call it after Acquire failed and after a restart; with
\* RecoverWhileOwned it may also be called under a live lease.
NeedsMarkerSearch(r) ==
  /\ ~r.target
  /\ \/ r.phase = "target_create_pending"
     \/ r.phase = "failed" /\ r.unreconciled

\* Variant: Recover may run under a live lease of the same run.
RecoverLoadAnytime(p) ==
  /\ pc[p] = "idle"
  /\ file # None
  /\ file.phase # "closed"
  /\ file.target \/ NeedsMarkerSearch(file)
  /\ Remember(p, file)
  /\ Goto(p, CASE ~file.target -> "search"
               [] file.phase = "action_pending" -> "ambiguous"
               [] OTHER -> "settle")
  /\ UNCHANGED <<file, inputLock, browser, sends>>

RecoverLoad(p) ==
  /\ pc[p] = "idle"
  /\ RecoverWhileOwned \/ pc[Owner] \in {"failed", "exited"}
  /\ file # None
  /\ file.phase # "closed"
  /\ file.target \/ NeedsMarkerSearch(file)
  /\ Remember(p, file)
  /\ Goto(p, CASE ~file.target -> "search"
               [] file.phase = "action_pending" -> "ambiguous"
               [] OTHER -> "settle")
  /\ UNCHANGED <<file, inputLock, browser, sends>>

\* Variant: an interrupted dispatch is assumed not to have happened.
RecoverUnsent(p) ==
  /\ pc[p] = "ambiguous"
  /\ LET r == [rec[p] EXCEPT !.phase = "prepared",
                             !.dispatch = "not_performed"]
     IN Remember(p, r) /\ \E ok \in BOOLEAN : Save(r, ok)
  /\ Goto(p, "settle")
  /\ UNCHANGED <<inputLock, browser, sends>>

\* An interrupted dispatch is unknown, whatever happened to the raw input.
RecoverAmbiguous(p) ==
  /\ pc[p] = "ambiguous"
  /\ LET r == [rec[p] EXCEPT !.phase = "action_unknown", !.pend = TRUE,
                             !.dispatch = "unknown", !.raw = 1]
     IN Remember(p, r) /\ \E ok \in BOOLEAN : Save(r, ok)
  /\ Goto(p, "settle")
  /\ UNCHANGED <<inputLock, browser, sends>>

-----------------------------------------------------------------------------
\* Processes die with their memory, and the kernel drops their locks.
Exit ==
  /\ pc[Owner] \notin {"idle", "exited"}
  /\ Goto(Owner, "exited") /\ Remember(Owner, NewRecord(None))
  /\ inputLock' = FALSE
  /\ UNCHANGED <<file, browser, sends>>

RecovererCrash(p) ==
  /\ pc[p] # "idle"
  /\ Goto(p, "idle") /\ Remember(p, NewRecord(None))
  /\ UNCHANGED <<file, inputLock, browser, sends>>

\* The browser, on its own time: a creation request may be served long after
\* its caller gave up, or never, and a target may go away (its tab closed, or
\* reaped by the daemon when the invocation lease expires).
CreateLands ==
  /\ target = "creating"
  /\ target' \in {"marker", "none"}
  /\ UNCHANGED <<file, pc, rec, inputLock, persistent, sends>>

TargetLost ==
  /\ Live
  /\ target' = "gone"
  /\ UNCHANGED <<file, pc, rec, inputLock, persistent, sends>>

-----------------------------------------------------------------------------
AcquireStep ==
  \/ Create \/ CheckBudget \/ AcquireInputLock \/ SaveCreateIntent
  \/ SendCreate \/ CreateReturns \/ MarkTargetPersistent \/ SaveOwned
  \/ Attach \/ SaveAttachFailed \/ SaveAttached \/ Navigate
  \/ CloseUnjournaled \/ MarkerSearch(Owner) \/ SaveNotFound(Owner)
  \/ SettlePending(Owner) \/ SettleClose(Owner) \/ SettleResult(Owner)

LeaseStep ==
  \/ \E f \in Fingerprints : BindInputFingerprint(f)
  \/ MarkPrepared \/ BeginDispatch \/ Acknowledge
  \/ \E proof \in Proofs : ConfirmPostcondition(proof)
  \/ \E name \in ActionNames : BeginNextAction(name)
  \/ \E phase \in CompletionPhases : MarkCompletion(phase)
  \/ ReleaseInput

DispatchStep == SendRawInput \/ DispatchReturns

CloseStep == Close \/ LeaseCloseTarget \/ LeaseCloseResult

RecoverStep(p) ==
  \/ RecoverAmbiguous(p) \/ MarkerSearch(p) \/ SaveNotFound(p)
  \/ SettlePending(p) \/ SettleClose(p) \/ SettleResult(p)

Crash == Exit \/ \E p \in Recoverers : RecovererCrash(p)

BrowserStep == CreateLands \/ TargetLost

Next ==
  \/ AcquireStep \/ LeaseStep \/ DispatchStep \/ CloseStep
  \/ \E p \in Recoverers : RecoverLoad(p) \/ RecoverStep(p)
  \/ Crash \/ BrowserStep

\* Every call of a running process is bounded by a timeout, and a provider
\* closes its lease before it returns.  Nobody promises to call Recover.
Fairness ==
  /\ WF_vars(AcquireStep) /\ WF_vars(DispatchStep) /\ WF_vars(CloseStep)
  /\ \A p \in Recoverers : WF_vars(RecoverStep(p))

Spec == Init /\ [][Next]_vars
FairSpec == Spec /\ Fairness

-----------------------------------------------------------------------------
\* Type correctness of the run's state.
TypeOK ==
  /\ file \in Record \cup {None}
  /\ pc \in [Procs -> Labels]
  /\ rec \in [Procs -> Record]
  /\ inputLock \in BOOLEAN
  /\ target \in TargetStates
  /\ persistent \in BOOLEAN
  /\ sends \in [Slots -> Nat]

\* No action slot of a run ever sends raw input twice, whatever saves fail,
\* whoever crashes and however often the caller calls Dispatch again
\* (engine.go Dispatch: only a proven not_performed may be tried again).
AtMostOneRawInput == \A s \in Slots : sends[s] <= 1

\* The journal alone tells a restarted process that raw input may have been
\* sent: the slot is archived with raw_input_count = 1, or it is the current
\* one and is either counted or still action_pending (engine.go Dispatch saves
\* the intent first, Recover turns it into unknown).
JournalShowsInput ==
  \A s \in Slots : sends[s] > 0 =>
    /\ file # None
    /\ IF s <= Len(file.done) THEN file.done[s].raw = 1
       ELSE s = Slot(file) /\ (file.phase = "action_pending" \/ file.raw = 1)

\* A journal that says closed is right: the exact target is gone and nothing
\* can bring it back (engine.go closeExactTarget reports what it observed).
ClosedMeansGone == file # None /\ file.phase = "closed" => target = "gone"

\* Recover would look for the run's target, and would find it.
Discoverable ==
  /\ file # None
  /\ file.phase # "closed"
  /\ \/ file.target
     \/ target = "marker" /\ NeedsMarkerSearch(file)

\* A live target that the daemon was told to keep is never out of Recover's
\* reach: every failure of Acquire that leaves it behind leaves a journal that
\* leads back to it (engine.go: "Persistence must never strand an owned
\* target before cleanup can run").
NoStrandedTarget == Live /\ persistent => Discoverable

\* Once the journal says that cleanup has begun, the run sends no raw input.
NoInputAfterCleanup ==
  [][(file # None /\ file.phase \in {"cleanup_pending", "closed"})
       => sends' = sends]_vars

\* The shared input lock is given back by every path, crashes included.
InputLockReleased == inputLock ~> ~inputLock
=============================================================================
