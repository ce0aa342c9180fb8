---------------------------- MODULE ManagedChrome ----------------------------
(***************************************************************************)
(* The headless Chrome that cdp owns (internal/browser/managed.go): the    *)
(* commands that start it, sweep its processes and stop it share a lock    *)
(* file, a registry of launches, the metadata of the latest launch and the *)
(* port file that Chrome writes when it is ready.  The lock covers the     *)
(* registry only.                                                          *)
(*                                                                         *)
(* A launch is a number, which stands for its process id and for the start *)
(* identity recorded with it; as soon as its Chrome has gone, the id may   *)
(* belong to a foreign process.  An identity that could not be read at the *)
(* launch is weak: it fits any process.  A signal ends the process it is   *)
(* sent to, whatever that is by then.                                      *)
(***************************************************************************)
EXTENDS Naturals, FiniteSets

CONSTANTS
  Starters,     \* ensureManagedChromeForKeepalive: reuse, or launch with retries
  Sweepers,     \* ReconcileManagedProcesses that reaps
  Stoppers,     \* StopManagedChrome without force
  Crowds,       \* which of them run together, the launches with a weak
                \* identity, a bound on launches and one on faults: crashed
                \* commands, exits of Chrome, ids that a foreign process takes
  None,
  MaxLaunches,
  MaxTries      \* managedChromeLaunchMaxAttempts

Commands == Starters \cup Sweepers \cup Stoppers
Launches == 1 .. MaxLaunches
LockFiles == [owner : Commands \cup {None}, written : BOOLEAN]

ASSUME ManagedAssumption ==
  /\ Starters \cap Sweepers = {} /\ Starters \cap Stoppers = {}
  /\ Sweepers \cap Stoppers = {}
  /\ None \notin Commands \cup Launches \cup LockFiles
  /\ Crowds \subseteq [who : SUBSET Commands, weak : SUBSET Launches,
                     launches : 0 .. MaxLaunches, faults : Nat]
  /\ MaxLaunches \in Nat /\ MaxTries \in Nat \ {0}

VARIABLES
  proc,         \* what the process id of each launch belongs to
  port,         \* whose DevToolsActivePort file it is
  metadata,     \* the launch in the metadata file
  registry,     \* the launches in the registry
  lock,         \* the registry's lock file
  cmd,          \* the commands
  returned,     \* launches that a start has returned
  weak,         \* launches whose recorded identity is weak
  struck,       \* history: launches that a stop has signalled as the root when
                \* their id was a foreign process's
  faults        \* those still to come

vars == <<proc, port, metadata, registry, lock, cmd, returned, weak, struck, faults>>
files == <<port, metadata, registry>>
history == <<returned, weak, struck, faults>>

\* A command: where it is, what it wants the lock for, its attempt, the launch
\* it is about, and what it has read: the registry, or the processes a stop has
\* tracked; the live processes; and those it is going to signal.
Idle == [pc |-> "idle", task |-> "none", try |-> 0, own |-> None,
         known |-> {}, live |-> {}, todo |-> {}]

Init ==
  /\ port = None /\ metadata = None /\ registry = {} /\ lock = None
  /\ \E crowd \in Crowds :
       /\ cmd = [p \in Commands |->
                   IF p \in crowd.who THEN Idle ELSE [Idle EXCEPT !.pc = "absent"]]
       /\ proc = [l \in Launches |->
                    IF l <= crowd.launches THEN "none" ELSE "absent"]
       /\ faults = crowd.faults /\ weak = crowd.weak
  /\ returned = {} /\ struck = {}

Chrome(l) == proc[l] \in {"starting", "ready"}
Live == {l \in Launches : Chrome(l)}
Taken == {l \in Launches : proc[l] = "foreign"}

Goto(p, label) == cmd' = [cmd EXCEPT ![p].pc = label]
ForLock(p, task) == cmd' = [cmd EXCEPT ![p].pc = "want", ![p].task = task]
Done(p) == cmd' = [cmd EXCEPT ![p] = Idle]

\* What becomes of the processes that are sent a signal.
After(l) == IF l \in Live \cup Taken THEN "gone" ELSE proc[l]

Kill(l) == proc' = [proc EXCEPT ![l] = After(l)]

-----------------------------------------------------------------------------
\* withManagedRegistryLock.
CreateLock(p) ==
  /\ cmd[p].pc = "want" /\ lock = None
  /\ lock' = [owner |-> p, written |-> FALSE]
  /\ Goto(p, "write")
  /\ UNCHANGED <<proc, files, history>>

WriteLock(p) ==
  /\ cmd[p].pc = "write"
  /\ lock' = [lock EXCEPT !.written = TRUE]
  /\ Goto(p, "hold")
  /\ UNCHANGED <<proc, files, history>>

\* staleManagedRegistryLock: only a dead owner makes a file stale, and a file
\* that was never written names none.  (It is looked at again before it is
\* removed; here nothing comes between that look and the removal.)
Stale(f) == f.written /\ f.owner = None

RemoveStaleLock(p) ==
  /\ cmd[p].pc = "want" /\ lock # None /\ Stale(lock)
  /\ lock' = None
  /\ UNCHANGED <<proc, files, cmd, history>>

\* Where a command goes after fn, or when its context ends before fn.
Resume(p, ok) ==
  IF p \notin Starters THEN Done(p)
  ELSE CASE cmd[p].task = "reconcile" ->
              cmd' = [cmd EXCEPT
                ![p].pc = IF ok /\ cmd[p].live = {} THEN "launch" ELSE "failed",
                ![p].live = {}]
         [] cmd[p].task = "register" -> Goto(p, IF ok THEN "port" ELSE "terminate")
         [] cmd[p].task = "publish" -> Goto(p, IF ok THEN "check" ELSE "terminate")
         [] cmd[p].task = "launch_failed" ->
              cmd' = [cmd EXCEPT ![p].pc = "failed", ![p].own = None]
         [] cmd[p].task = "stopped" -> Goto(p, "clear")

LockFails(p) ==
  /\ cmd[p].pc = "want"
  /\ Resume(p, FALSE)
  /\ UNCHANGED <<proc, files, lock, history>>

LockAbandoned(p) ==
  /\ cmd[p].pc = "write"
  /\ lock' = None
  /\ Resume(p, FALSE)
  /\ UNCHANGED <<proc, files, history>>

\* fn has returned; the file goes if it is still the one created.
Unlock(p) ==
  /\ cmd[p].pc = "unlock"
  /\ lock' = IF lock # None /\ lock.owner = p THEN None ELSE lock
  /\ Resume(p, TRUE)
  /\ UNCHANGED <<proc, files, history>>

-----------------------------------------------------------------------------
\* reconcileManagedProcessesLocked.
\* Variant: a process that is in neither file is not counted.
CountRegistered(known) == Live \cap known

\* The process table, without what the identities recorded for an id reject:
\* a foreign process has no command line of the managed profile.
ListProcesses(known) == Live

\* All but one of several: it keeps the one the metadata names, or the newest
\* record, which may be any.
Extras(live) ==
  IF metadata \in live THEN {live \ {metadata}} ELSE {live \ {l} : l \in live}

Look(p) ==
  /\ cmd[p].pc = "hold" /\ cmd[p].task = "reconcile"
  /\ LET known == registry \cup ({metadata} \ {None})
         live == ListProcesses(known)
     IN \E todo \in IF Cardinality(live) > 1 THEN Extras(live) ELSE {{}} :
          cmd' = [cmd EXCEPT ![p].pc = "reap", ![p].known = known,
                             ![p].own = IF metadata \in live THEN metadata
                                          ELSE None,
                             ![p].live = live, ![p].todo = todo]
  /\ UNCHANGED <<proc, files, lock, history>>

\* The table, or an identity in it, cannot be read; or a file cannot.
LookFails(p) ==
  /\ cmd[p].pc = "hold"
  /\ lock' = IF lock # None /\ lock.owner = p THEN None ELSE lock
  /\ Resume(p, FALSE)
  /\ UNCHANGED <<proc, files, history>>

Reap(p, l) ==
  /\ cmd[p].pc = "reap" /\ l \in cmd[p].todo
  /\ Kill(l)
  /\ cmd' = [cmd EXCEPT ![p].todo = @ \ {l}, ![p].live = @ \ {l}]
  /\ UNCHANGED <<files, lock, history>>

ReapFails(p, l) ==
  /\ cmd[p].pc = "reap" /\ l \in cmd[p].todo
  /\ cmd' = [cmd EXCEPT ![p].todo = @ \ {l}]
  /\ UNCHANGED <<proc, files, lock, history>>

\* Variant: the record of a live launch may be dropped like any other.
RetainedIfNew(p) == {}

\* compactManagedProcessRecords keeps the records of live launches, unless the
\* metadata names another live one and they are superseded; the others go
\* when they are old or many.
Retained(p) ==
  IF cmd[p].own # None THEN {cmd[p].own} ELSE cmd[p].live \cap cmd[p].known

SaveReconciled(p) ==
  /\ cmd[p].pc = "reap" /\ cmd[p].todo = {}
  /\ registry' \in {Retained(p) \cup kept : kept \in SUBSET cmd[p].known}
  /\ cmd' = [cmd EXCEPT ![p].pc = "unlock", ![p].known = {}, ![p].own = None]
  /\ UNCHANGED <<proc, port, metadata, lock, history>>

\* RegisterManagedProcessLaunchContext and markManagedProcessesStopped: load
\* the registry, and save it with the launch, or with another state.
Load(p) ==
  /\ cmd[p].pc = "hold" /\ cmd[p].task # "reconcile"
  /\ cmd' = [cmd EXCEPT ![p].pc = "save", ![p].known = registry]
  /\ UNCHANGED <<proc, files, lock, history>>

Save(p) ==
  /\ cmd[p].pc = "save"
  /\ registry' = cmd[p].known \cup
       (IF cmd[p].task \in {"register", "publish"} THEN {cmd[p].own} ELSE {})
  /\ cmd' = [cmd EXCEPT ![p].pc = "unlock", ![p].known = {}]
  /\ UNCHANGED <<proc, port, metadata, lock, history>>

-----------------------------------------------------------------------------
\* ensureManagedChromeForKeepalive: a browser that answers is reused.
Reusable == metadata # None /\ port # None /\ proc[port] = "ready"

Sweep(p) ==
  /\ p \in Sweepers /\ cmd[p].pc = "idle"
  /\ ForLock(p, "reconcile")
  /\ UNCHANGED <<proc, files, lock, history>>

Ensure(p) ==
  /\ p \in Starters /\ cmd[p].pc = "idle" /\ ~Reusable
  /\ cmd' = [cmd EXCEPT ![p].pc = "want", ![p].task = "reconcile", ![p].try = 1]
  /\ UNCHANGED <<proc, files, lock, history>>

\* StartManagedChrome, after its reconciliation has counted no live process.
Launch(p, l) ==
  /\ cmd[p].pc = "launch"
  /\ proc[l] = "none" /\ \A m \in Launches : m < l => proc[m] # "none"
  /\ proc' = [proc EXCEPT ![l] = "starting"]
  /\ port' = None
  /\ cmd' = [cmd EXCEPT ![p].pc = "metadata", ![p].own = l]
  /\ UNCHANGED <<metadata, registry, lock, history>>

LaunchFails(p) ==
  /\ cmd[p].pc = "launch"
  /\ Goto(p, "failed")
  /\ UNCHANGED <<proc, files, lock, history>>

SaveMetadata(p) ==
  /\ cmd[p].pc \in {"metadata", "metadata_port"}
  /\ metadata' = cmd[p].own
  /\ ForLock(p, IF cmd[p].pc = "metadata" THEN "register" ELSE "publish")
  /\ UNCHANGED <<proc, port, registry, lock, history>>

SaveMetadataFails(p) ==
  /\ cmd[p].pc \in {"metadata", "metadata_port"}
  /\ Goto(p, "terminate")
  /\ UNCHANGED <<proc, files, lock, history>>

\* The child of this command, and no other process.
Terminated(p) ==
  proc' = IF Chrome(cmd[p].own) THEN [proc EXCEPT ![cmd[p].own] = "gone"] ELSE proc

Terminate(p) ==
  /\ cmd[p].pc = "terminate"
  /\ Terminated(p)
  /\ cmd' = [cmd EXCEPT ![p].pc = "failed", ![p].own = None]
  /\ UNCHANGED <<files, lock, history>>

\* Any port file will do.
WaitPort(p) ==
  /\ cmd[p].pc = "port"
  /\ port # None /\ Chrome(cmd[p].own)
  /\ Goto(p, "metadata_port")
  /\ UNCHANGED <<proc, files, lock, history>>

\* The child has exited, or the attempt has lasted too long.
WaitPortFails(p) ==
  /\ cmd[p].pc = "port"
  /\ Terminated(p)
  /\ ForLock(p, "launch_failed")
  /\ UNCHANGED <<files, lock, history>>

Return(p) ==
  /\ cmd[p].pc = "check" /\ Chrome(cmd[p].own)
  /\ returned' = returned \cup {cmd[p].own}
  /\ Done(p)
  /\ UNCHANGED <<proc, files, lock, weak, struck, faults>>

ReturnFails(p) ==
  /\ cmd[p].pc = "check" /\ ~Chrome(cmd[p].own)
  /\ ForLock(p, "launch_failed")
  /\ UNCHANGED <<proc, files, lock, history>>

MayRetry(p) == cmd[p].try < MaxTries

\* startManagedChromeWithRetries: a failed attempt is followed by a forced
\* stop of whatever has the command line of the managed profile.
ForceStop(p) ==
  /\ cmd[p].pc = "failed" /\ MayRetry(p)
  /\ cmd' = [cmd EXCEPT
       ![p].pc = "force", ![p].todo = Live,
       ![p].task = IF metadata = None \/ Live = {} THEN "none" ELSE "stopped"]
  /\ UNCHANGED <<proc, files, lock, history>>

GiveUp(p) ==
  /\ cmd[p].pc = "failed"
  /\ Done(p)
  /\ UNCHANGED <<proc, files, lock, history>>

ForceSignal(p, l) ==
  /\ cmd[p].pc = "force" /\ l \in cmd[p].todo
  /\ Kill(l)
  /\ cmd' = [cmd EXCEPT ![p].todo = @ \ {l}]
  /\ UNCHANGED <<files, lock, history>>

ForceFails(p) ==
  /\ cmd[p].pc = "force" /\ cmd[p].todo # {}
  /\ cmd' = [cmd EXCEPT ![p].pc = "clear", ![p].todo = {}]
  /\ UNCHANGED <<proc, files, lock, history>>

Forced(p) ==
  /\ cmd[p].pc = "force" /\ cmd[p].todo = {}
  /\ Goto(p, IF cmd[p].task = "stopped" THEN "want" ELSE "clear")
  /\ UNCHANGED <<proc, files, lock, history>>

\* ClearManagedRuntimeArtifacts, and the next attempt.
Clear(p) ==
  /\ cmd[p].pc = "clear"
  /\ port' = None
  /\ cmd' = [cmd EXCEPT ![p] = [Idle EXCEPT !.pc = "want", !.task = "reconcile",
                                             !.try = cmd[p].try + 1]]
  /\ UNCHANGED <<proc, metadata, registry, lock, history>>

-----------------------------------------------------------------------------
\* StopManagedChrome: the launch the metadata names, if its id still has the
\* recorded identity, and the rest of the profile's processes.
\* Variant: the identity was checked before the processes were listed.
AlreadyChecked(l) == TRUE

\* managedProcessIdentityMatches
Rechecked(l) == Chrome(l) \/ l \in weak

Stop(p) ==
  /\ p \in Stoppers /\ cmd[p].pc = "idle"
  /\ metadata # None /\ (Chrome(metadata) \/ metadata \in weak)
  /\ cmd' = [cmd EXCEPT ![p].pc = "recheck", ![p].own = metadata,
                         ![p].known = Live \cup {metadata},
                         ![p].todo = Live \ {metadata}]
  /\ UNCHANGED <<proc, files, lock, history>>

\* The root is signalled as soon as its identity is checked again.
StopSignals(p) ==
  LET root == cmd[p].own IN
  /\ cmd[p].pc = "recheck"
  /\ IF Rechecked(root)
     THEN Kill(root) /\ struck' = struck \cup ({root} \cap Taken) /\ Goto(p, "stop")
     ELSE Done(p) /\ UNCHANGED <<proc, struck>>
  /\ UNCHANGED <<files, lock, returned, weak, faults>>

\* The others are signalled without another look at them.
StopDescendant(p, l) ==
  /\ cmd[p].pc = "stop" /\ l \in cmd[p].todo
  /\ Kill(l)
  /\ cmd' = [cmd EXCEPT ![p].todo = @ \ {l}]
  /\ UNCHANGED <<files, lock, history>>

StopFails(p) ==
  /\ cmd[p].pc \in {"recheck", "stop"}
  /\ Done(p)
  /\ UNCHANGED <<proc, files, lock, history>>

\* waitForManagedChromeStopped: the processes of the profile, and whatever has
\* the id of a tracked one.
Remaining(p) == Live \cup (cmd[p].known \cap Taken)

\* What remains after a while is signalled once more, but for the root.
StopAgain(p) ==
  /\ cmd[p].pc = "stop" /\ cmd[p].todo = {} /\ cmd[p].try = 0
  /\ Remaining(p) # {}
  /\ cmd' = [cmd EXCEPT ![p].todo = Remaining(p) \ {cmd[p].own}, ![p].try = 1,
                         ![p].known = @ \cup Remaining(p)]
  /\ UNCHANGED <<proc, files, lock, history>>

Stopped(p) ==
  /\ cmd[p].pc = "stop" /\ cmd[p].todo = {} /\ Remaining(p) = {}
  /\ ForLock(p, "stopped")
  /\ UNCHANGED <<proc, files, lock, history>>

-----------------------------------------------------------------------------
\* Chrome, the other processes of the host, and commands that die.
ChromeReady(l) ==
  /\ proc[l] = "starting"
  /\ proc' = [proc EXCEPT ![l] = "ready"] /\ port' = l
  /\ UNCHANGED <<metadata, registry, lock, cmd, history>>

Fault == faults > 0 /\ faults' = faults - 1

ChromeExits(l) ==
  /\ Chrome(l) /\ Fault
  /\ proc' = [proc EXCEPT ![l] = "gone"]
  /\ UNCHANGED <<files, lock, cmd, returned, weak, struck>>

\* An id that is free may be given away at any time.
ForeignTakes(l) ==
  /\ proc[l] = "gone" /\ Fault
  /\ proc' = [proc EXCEPT ![l] = "foreign"]
  /\ UNCHANGED <<files, lock, cmd, returned, weak, struck>>

Crash(p) ==
  /\ cmd[p].pc \notin {"idle", "absent"}
  /\ Fault
  /\ Done(p)
  /\ lock' = IF lock # None /\ lock.owner = p THEN [lock EXCEPT !.owner = None]
             ELSE lock
  /\ UNCHANGED <<proc, files, returned, weak, struck>>

LockStep(p) ==
  \/ CreateLock(p) \/ WriteLock(p) \/ RemoveStaleLock(p)
  \/ LockFails(p) \/ LockAbandoned(p) \/ Unlock(p)

RegistryStep(p) ==
  \/ Look(p) \/ LookFails(p) \/ SaveReconciled(p) \/ Load(p) \/ Save(p)
  \/ \E l \in Launches : Reap(p, l) \/ ReapFails(p, l)

StartStep(p) ==
  \/ Ensure(p) \/ LaunchFails(p) \/ SaveMetadata(p) \/ SaveMetadataFails(p)
  \/ Terminate(p) \/ WaitPort(p) \/ WaitPortFails(p) \/ Return(p)
  \/ ReturnFails(p) \/ ForceStop(p) \/ GiveUp(p) \/ ForceFails(p)
  \/ Forced(p) \/ Clear(p)
  \/ \E l \in Launches : Launch(p, l) \/ ForceSignal(p, l)

StopStep(p) ==
  \/ Stop(p) \/ StopSignals(p) \/ StopFails(p) \/ StopAgain(p) \/ Stopped(p)
  \/ \E l \in Launches : StopDescendant(p, l)

Next ==
  \/ \E p \in Commands :
       LockStep(p) \/ RegistryStep(p) \/ Sweep(p) \/ StartStep(p)
         \/ StopStep(p) \/ Crash(p)
  \/ \E l \in Launches : ChromeReady(l) \/ ChromeExits(l) \/ ForeignTakes(l)

Spec == Init /\ [][Next]_vars

-----------------------------------------------------------------------------
CommandRecords ==
  [pc : {"absent", "idle", "want", "write", "hold", "reap", "save", "unlock",
         "launch", "metadata", "port", "metadata_port", "check", "terminate",
         "failed", "force", "clear", "recheck", "stop"},
   task : {"none", "reconcile", "register", "publish", "launch_failed", "stopped"},
   try : 0 .. MaxTries, own : Launches \cup {None},
   known : SUBSET Launches, live : SUBSET Launches, todo : SUBSET Launches]

\* Type correctness of the files, the processes and the commands.
TypeOK ==
  /\ proc \in [Launches -> {"absent", "none", "starting", "ready", "gone",
                           "foreign"}]
  /\ port \in Launches \cup {None} /\ metadata \in Launches \cup {None}
  /\ registry \subseteq Launches
  /\ lock \in LockFiles \cup {None}
  /\ cmd \in [Commands -> CommandRecords]
  /\ returned \subseteq Launches /\ weak \subseteq Launches
  /\ struck \subseteq Launches /\ faults \in Nat

\* There are never more Chromes on the managed profile than starts that run
\* side by side: whatever crashed between a launch and its registration, the
\* next start finds it in the process table and does not launch another
\* (StartManagedChrome refuses when LiveCount is not zero).
NoMoreThanStarts ==
  Cardinality(Live) <= Cardinality({p \in Starters : cmd[p].pc # "absent"})

\* A launch that was returned, that the metadata names and that still runs is
\* in the registry, whatever sweeps, stops and other launches load and save
\* (withManagedRegistryLock; compactManagedProcessRecords).
ReturnedIsRegistered ==
  \A l \in returned : metadata = l /\ Chrome(l) => l \in registry

\* A stop signals a foreign process as the root only if the identity recorded
\* for the root is weak, however long ago the stop first checked it (README.md:
\* "Normal managed Chrome stop also rechecks the recorded root process-start
\* identity immediately before invoking its signal callback").
RootSpared == struck \subseteq weak
=============================================================================
