------------------------- MODULE BrowserflowRecord -------------------------
(***************************************************************************)
(* The recovery record of one browser run and the rules under which the    *)
(* journal accepts a new version of it (internal/browserflow/record.go).   *)
(*                                                                         *)
(* Identifiers are abstracted to what the rules tell apart: target,        *)
(* session and conv say whether the identifier has been recorded (each is  *)
(* only ever written with the one value its run owns).  last_error_class   *)
(* keeps the only class the engine branches on.  Timestamps are left out:  *)
(* a clock that moves backwards makes the journal refuse a save, and every *)
(* save may be refused in the modules that use this one.                   *)
(***************************************************************************)
EXTENDS Naturals, Sequences

CONSTANTS
  ActionNames,           \* names a caller gives to irreversible actions
  Fingerprints,          \* input fingerprints a caller may bind
  Proofs,                \* postcondition proof labels
  None,                  \* an optional string that was not recorded
  MaxCompletedActions    \* 16 in the code

ASSUME RecordAssumption ==
  /\ None \notin ActionNames \cup Fingerprints \cup Proofs
  /\ MaxCompletedActions \in Nat

Phases == {"planned", "budget_checked", "target_create_pending",
           "target_owned", "attached", "prepared", "action_pending",
           "action_performed", "action_unknown", "acknowledged", "terminal",
           "incomplete", "cleanup_pending", "closed", "failed"}

Dispatches == {"performed", "not_performed", "unknown"}

CleanupStates == {"not_required", "pending", "closed", "failed"}

\* The phases that prove something about the record that is in them.
TargetPhases ==
  Phases \ {"planned", "budget_checked", "target_create_pending", "failed"}
SessionPhases == TargetPhases \ {"target_owned", "cleanup_pending", "closed"}
PendingProofPhases ==
  {"action_pending", "action_performed", "action_unknown", "acknowledged"}
CompletionPhases == {"terminal", "incomplete"}

CompletedAction ==
  [name : ActionNames \cup {None}, dispatch : Dispatches \cup {None},
   attempts : Nat, raw : {0, 1}, pend : BOOLEAN, phase : Phases,
   post : Proofs \cup {None}]

Record ==
  [phase : Phases, name : ActionNames \cup {None},
   dispatch : Dispatches \cup {None}, attempts : Nat, raw : {0, 1},
   pend : BOOLEAN, target : BOOLEAN, session : BOOLEAN, conv : BOOLEAN,
   fp : Fingerprints \cup {None}, post : Proofs \cup {None},
   done : Seq(CompletedAction), cleanup : CleanupStates,
   unreconciled : BOOLEAN]

NewRecord(name) ==
  [phase |-> "planned", name |-> name, dispatch |-> None, attempts |-> 0,
   raw |-> 0, pend |-> FALSE, target |-> FALSE, session |-> FALSE,
   conv |-> FALSE, fp |-> None, post |-> None, done |-> <<>>,
   cleanup |-> "not_required", unreconciled |-> FALSE]

\* raw_input_count and dispatch must tell the same story.
DispatchMatchesRaw(d, raw) ==
  /\ d = "not_performed" => raw = 0
  /\ d \in {"performed", "unknown"} => raw = 1

ValidCompletedAction(a) ==
  /\ a.name # None
  /\ a.dispatch \in Dispatches
  /\ DispatchMatchesRaw(a.dispatch, a.raw)
  /\ a.phase \in CompletionPhases

ValidRecord(r) ==
  /\ DispatchMatchesRaw(r.dispatch, r.raw)
  /\ r.phase \in TargetPhases => r.target
  /\ r.phase \in SessionPhases => r.session
  /\ r.phase \in PendingProofPhases => r.pend
  /\ r.phase = "closed" => r.cleanup = "closed"
  /\ r.cleanup = "closed" => r.target
  /\ Len(r.done) <= MaxCompletedActions
  /\ \A i \in 1 .. Len(r.done) : ValidCompletedAction(r.done[i])

\* The archive entry BeginNextAction writes for the slot that r has finished.
Archive(r) ==
  [name |-> r.name, dispatch |-> r.dispatch, attempts |-> r.attempts,
   raw |-> r.raw, pend |-> r.pend, phase |-> r.phase, post |-> r.post]

ActionAdvance(before, after) ==
  /\ before.name # None /\ after.name # None
  /\ before.phase \in CompletionPhases
  /\ after.phase = "attached"
  /\ after.dispatch = None /\ after.attempts = 0 /\ after.raw = 0
  /\ ~after.pend /\ after.post = None
  /\ Len(after.done) = Len(before.done) + 1
  /\ after.done[Len(after.done)] = Archive(before)

\* Where a phase may go besides staying and besides cleanup_pending.
Successors ==
  [from \in Phases |->
    CASE from = "planned"          -> {"budget_checked", "failed"}
      [] from = "budget_checked"   -> {"target_create_pending", "failed"}
      [] from = "target_create_pending" -> {"target_owned", "failed"}
      [] from = "target_owned"     -> {"attached", "failed"}
      [] from = "attached"         -> {"prepared", "failed"}
      [] from = "prepared"         -> {"action_pending", "failed"}
                                        \cup CompletionPhases
      [] from = "action_pending"   ->
           {"prepared", "action_performed", "action_unknown"}
      [] from = "action_performed" -> {"acknowledged", "failed"}
                                        \cup CompletionPhases
      [] from = "action_unknown"   ->
           {"action_performed", "acknowledged", "incomplete", "failed"}
      [] from = "acknowledged"     -> {"failed"} \cup CompletionPhases
      [] from = "cleanup_pending"  -> {"closed"}
      [] OTHER                     -> {}]

AllowedTransition(from, to) ==
  \/ from = to
  \/ to = "cleanup_pending" /\ from # "closed"
  \/ to \in Successors[from]

\* The only ways out of dispatch = unknown within a slot.
RefinesUnknown(after) ==
  /\ after.dispatch = "performed" /\ after.raw = 1 /\ after.pend
  /\ \/ after.phase = "acknowledged" /\ after.conv
     \/ after.phase = "action_performed" /\ after.post # None

SameSlotTransition(before, after) ==
  /\ after.name = before.name
  /\ Len(after.done) = Len(before.done)
  /\ after.attempts >= before.attempts
  /\ after.raw >= before.raw
  /\ before.dispatch = "performed" => after.dispatch = "performed"
  /\ (before.dispatch = "unknown" /\ after.dispatch # "unknown") =>
       RefinesUnknown(after)
  /\ AllowedTransition(before.phase, after.phase)

ValidTransition(before, after) ==
  /\ ValidRecord(after)
  /\ before.target => after.target
  /\ before.session => after.session
  /\ before.conv => after.conv
  /\ \/ before.fp = after.fp
     \/ before.fp = None /\ before.phase = "attached"
                         /\ after.phase = "attached"
  /\ before.post \in {None, after.post}
  /\ Len(after.done) >= Len(before.done)
  /\ \A i \in 1 .. Len(before.done) : after.done[i] = before.done[i]
  /\ \/ ActionAdvance(before, after)
     \/ SameSlotTransition(before, after)
============================================================================
