----------------------------- MODULE ProbeHealth -----------------------------
(***************************************************************************)
(* What the transcription service knows of a provider's file path          *)
(* (transcriptionapi/probe.go, probe_state.go): a synthetic probe runs now *)
(* and then, requests report what they observe, and each of them saves the *)
(* state.  It is restored at the next start.                               *)
(***************************************************************************)
EXTENDS Integers

CONSTANTS
  Reporters,    \* request handlers
  Prober        \* the goroutine of the coordinator

ASSUME ProbeAssumption == Prober \notin Reporters

VARIABLES
  health,       \* of the provider, in memory
  saved,        \* the same in probe-state.json
  writers,      \* who writes the file, and what
  probe,        \* what the prober does
  behind        \* history: the last write of the file failed

probeVars == <<health, saved, writers, probe, behind>>

\* What a later round may tell apart: whether a probe has ever succeeded, and
\* the reason, where "none" stands for the empty one.
Healths == [success : BOOLEAN, reason : {"none", "pending", "failed"}]

ProberStates == {"idle", "begun", "prepare", "attempting", "run", "result"}

Unknown == [success |-> FALSE, reason |-> "none"]

ProbeInit ==
  /\ probe = "idle" /\ writers = {}
  /\ health = Unknown /\ saved = Unknown /\ behind = FALSE

\* A probe under way leaves the last success alone.
RecordAttempt == health' = [health EXCEPT !.reason = "pending"]
RecordSuccess == health' = [success |-> TRUE, reason |-> "none"]
RecordFailure == health' = [health EXCEPT !.reason = "failed"]

-----------------------------------------------------------------------------
\* persistState takes its copy of the health under stateMu, ...
\* Variant: without the lock.
BeginSaveUnlocked(who) ==
  /\ \A w \in writers : w.by # who
  /\ writers' = writers \cup {[by |-> who, copy |-> health]}

BeginSave(who) ==
  /\ writers = {}
  /\ writers' = {[by |-> who, copy |-> health]}

\* ... and writes it, or fails, which nobody looks at.
EndSave(w, ok) ==
  /\ writers' = writers \ {w}
  /\ saved' = (IF ok THEN w.copy ELSE saved) /\ behind' = ~ok

-----------------------------------------------------------------------------
\* RunOnce and probeProvider.  It saves when it begins, when it records the
\* attempt, and when it records the result.
AfterSave ==
  [begun |-> "prepare", attempting |-> "run", result |-> "idle"]

ProbeBegins ==
  /\ probe = "idle"
  /\ probe' = "begun"
  /\ UNCHANGED <<health, saved, writers, behind>>

ProbeBeginsSave ==
  /\ probe \in DOMAIN AfterSave /\ BeginSave(Prober)
  /\ UNCHANGED <<health, saved, probe, behind>>

ProbeEndsSave(ok) ==
  /\ \E w \in writers : w.by = Prober /\ EndSave(w, ok)
  /\ probe' = AfterSave[probe]
  /\ UNCHANGED <<health>>

\* Authentication is refreshed; then the attempt is recorded.
ProbeAttempts ==
  /\ probe = "prepare"
  /\ RecordAttempt
  /\ probe' = "attempting"
  /\ UNCHANGED <<saved, writers, behind>>

ProbeFails ==
  /\ probe \in {"prepare", "run"}
  /\ RecordFailure
  /\ probe' = "result"
  /\ UNCHANGED <<saved, writers, behind>>

ProbeSucceeds ==
  /\ probe = "run"
  /\ RecordSuccess
  /\ probe' = "result"
  /\ UNCHANGED <<saved, writers, behind>>

ProbeStep ==
  \/ ProbeBegins \/ ProbeBeginsSave \/ ProbeEndsSave(TRUE)
  \/ ProbeAttempts \/ ProbeFails \/ ProbeSucceeds

-----------------------------------------------------------------------------
\* RecordObservedFileFailure, from a request handler, which saves afterwards.
ObserveFailure ==
  /\ RecordFailure
  /\ UNCHANGED <<saved, writers, probe, behind>>

ReporterBeginsSave(r) ==
  BeginSave(r) /\ UNCHANGED <<health, saved, probe, behind>>

ReporterEndsSave(r, ok) ==
  /\ \E w \in writers : w.by = r /\ EndSave(w, ok)
  /\ UNCHANGED <<health, probe>>

\* The service starts again, and a new coordinator reads the file.
RestoreProbe ==
  /\ health' = saved /\ writers' = {} /\ probe' = "idle" /\ behind' = FALSE
  /\ UNCHANGED <<saved>>

ProbeTypeOK ==
  /\ health \in Healths /\ saved \in Healths
  /\ writers \subseteq [by : Reporters \cup {Prober}, copy : Healths]
  /\ probe \in ProberStates /\ behind \in BOOLEAN
=============================================================================
