------------------------ MODULE ManagedChromeProofs ------------------------
(***************************************************************************)
(* For any number of starts, sweeps, stops, launches and faults: a launch  *)
(* that was returned and still runs is registered as long as the metadata  *)
(* names it, and a stop signals no foreign process as the root, unless the *)
(* identity of the root is weak.  The first needs the lock to exclude, and *)
(* that a sweep looks at the metadata under it; the metadata itself is     *)
(* written without.  And however many commands there are, there are never  *)
(* more Chromes than starts.                                               *)
(***************************************************************************)
EXTENDS ManagedChrome, FiniteSetTheorems, TLAPS

Critical == {"write", "hold", "reap", "save", "unlock"}
Locking == Critical \cup {"want"}
Launching == {"metadata", "port", "metadata_port", "check", "terminate"}

\* What the labels of a command say of the rest of its record.
Shape(p, c) ==
  /\ c \in CommandRecords
  /\ p \in Starters /\ c.pc \in Locking => c.task # "none"
  /\ c.pc = "launch" => p \in Starters
  /\ c.pc = "reap" => c.task = "reconcile"
  /\ c.pc \in {"recheck", "stop"} => p \in Stoppers
  /\ c.pc \in Launching => p \in Starters /\ c.own \in Launches
  /\ c.pc \in Locking /\ c.task \in {"register", "publish"}
       => p \in Starters /\ c.own \in Launches
  /\ c.pc \in {"force", "clear"} => c.try < MaxTries
  /\ p \in Starters /\ c.pc \in Locking /\ c.task = "stopped" => c.try < MaxTries

Shaped ==
  /\ cmd \in [Commands -> CommandRecords]
  /\ \A p \in Commands : Shape(p, cmd[p])

FilesTyped ==
  /\ port \in Launches \cup {None} /\ metadata \in Launches \cup {None}
  /\ registry \subseteq Launches /\ returned \subseteq Launches

ProcTyped ==
  proc \in [Launches -> {"absent", "none", "starting", "ready", "gone",
                         "foreign"}]

LockTyped == lock \in LockFiles \cup {None}

\* Who is between creating the lock file and removing it is its owner.
LockOwned ==
  \A p \in Commands :
    cmd[p].pc \in Critical => lock # None /\ lock.owner = p

\* What is about to be saved is still what the file has.
KnownCurrent == \A p \in Commands : cmd[p].pc = "save" => cmd[p].known = registry

\* A start and the launch it has made.
Starts(p, l) == p \in Starters /\ cmd[p].own = l /\ cmd[p].pc # "reap"

Published(p) ==
  \/ cmd[p].pc = "check"
  \/ cmd[p].pc = "unlock" /\ cmd[p].task = "publish"

OneStarter ==
  \A p, q \in Commands, l \in Launches : Starts(p, l) /\ Starts(q, l) => p = q

StarterFirst ==
  \A p \in Commands, l \in Launches : Starts(p, l) => l \notin returned

LaunchesUsed ==
  \A p \in Commands, l \in Launches :
    Starts(p, l) \/ l \in returned => proc[l] \notin {"absent", "none"}

Current(l) == metadata = l /\ Chrome(l)

\* Registered at the latest when the launch is published.
Registered ==
  \A l \in Launches : Current(l) =>
    /\ l \in returned => l \in registry
    /\ \A p \in Commands : Starts(p, l) /\ Published(p) => l \in registry

\* A sweep that has looked keeps the record of such a launch.
SweepKeeps ==
  \A s \in Commands, l \in Launches : cmd[s].pc = "reap" /\ Current(l) =>
    /\ l \in returned => cmd[s].own = l
    /\ \A p \in Commands : Starts(p, l) /\ Published(p) => cmd[s].own = l

CmdInv == Shaped /\ LockTyped /\ LockOwned
LaunchInv == OneStarter /\ StarterFirst /\ LaunchesUsed /\ Registered /\ SweepKeeps
ManagedInv ==
  /\ CmdInv /\ FilesTyped /\ ProcTyped /\ faults \in Nat
  /\ KnownCurrent /\ LaunchInv
-----------------------------------------------------------------------------
USE ManagedAssumption
USE DEF Commands

\* A process stays what it is, or a Chrome or a foreign process goes away.
Fades ==
  /\ ProcTyped'
  /\ \A l \in Launches :
       \/ proc'[l] = proc[l]
       \/ (Chrome(l) \/ proc[l] = "foreign") /\ proc'[l] = "gone"

\* The lock of the others is left alone by p.
LeavesLock(p) ==
  \A q \in Commands \ {p} : lock # None /\ lock.owner = q =>
    lock' # None /\ lock'.owner = q

\* Process p goes on from its record to c, without a new launch, a look at the
\* metadata or a write to the registry.
Calm(p, c) ==
  /\ cmd' = [cmd EXCEPT ![p] = c]
  /\ p \in Starters /\ c.own # None =>
       c.pc = "reap" \/ (c.own = cmd[p].own /\ cmd[p].pc # "reap")
  /\ (c.pc = "check" \/ (c.pc = "unlock" /\ c.task = "publish")) /\ p \in Starters
       => Published(p)
  /\ c.pc = "reap" => cmd[p].pc = "reap" /\ c.own = cmd[p].own
  /\ c.pc = "save" => c.known = registry
  /\ c.pc \in Critical => lock' # None /\ lock'.owner = p

\* What the other processes' records are after p's step.
LEMMA Others ==
  ASSUME Shaped, NEW p \in Commands, NEW c, Shape(p, c),
         cmd' = [cmd EXCEPT ![p] = c]
  PROVE  Shaped' /\ cmd'[p] = c /\ \A q \in Commands \ {p} : cmd'[q] = cmd[q]
<1>1. cmd'[p] = c /\ \A q \in Commands \ {p} : cmd'[q] = cmd[q]
  BY DEF Shaped
<1>2. cmd' \in [Commands -> CommandRecords]
  BY DEF Shaped, Shape
<1>3. \A q \in Commands : Shape(q, cmd'[q])
  BY <1>1 DEF Shaped
<1>4. QED
  BY <1>1, <1>2, <1>3 DEF Shaped, Shape

LEMMA CalmInv ==
  ASSUME ManagedInv, NEW p \in Commands, NEW c, Shape(p, c), Calm(p, c),
         LeavesLock(p), Fades, port' \in Launches \cup {None},
         metadata' = metadata, registry' = registry, returned' = returned,
         faults' \in Nat, LockTyped'
  PROVE  ManagedInv'
<1>1. Shaped' /\ cmd'[p] = c /\ \A q \in Commands \ {p} : cmd'[q] = cmd[q]
  BY Others DEF ManagedInv, CmdInv, Calm
<1>2. FilesTyped' /\ ProcTyped' /\ faults' \in Nat
  BY DEF ManagedInv, FilesTyped, Fades
<1>3. LockOwned'
  BY <1>1 DEF LockOwned, ManagedInv, CmdInv, Calm, LeavesLock
<1>4. KnownCurrent'
  BY <1>1 DEF KnownCurrent, ManagedInv, Calm
<1>5. \A q \in Commands, l \in Launches : Starts(q, l)' => Starts(q, l)
  BY <1>1 DEF Starts, Calm
<1>6. \A q \in Commands, l \in Launches :
        Starts(q, l)' /\ Published(q)' => Starts(q, l) /\ Published(q)
  <2> SUFFICES ASSUME NEW q \in Commands, NEW l \in Launches, Starts(q, l)',
                      Published(q)'
               PROVE  Published(q)
    BY <1>5
  <2>1. CASE q = p
    BY <2>1, <1>1 DEF Starts, Published, Calm
  <2>2. CASE q # p
    BY <2>2, <1>1 DEF Published
  <2>3. QED
    BY <2>1, <2>2
<1>7. \A l \in Launches : Current(l)' => Current(l)
  BY DEF Current, Chrome, Fades
<1>8. OneStarter' /\ StarterFirst'
  BY <1>5 DEF OneStarter, StarterFirst, ManagedInv, LaunchInv
<1>9. LaunchesUsed'
  BY <1>5 DEF LaunchesUsed, ManagedInv, LaunchInv, Fades
<1>10. Registered'
  BY <1>6, <1>7 DEF Registered, ManagedInv, LaunchInv
<1>11. \A s \in Commands : cmd'[s].pc = "reap" =>
         cmd[s].pc = "reap" /\ cmd'[s].own = cmd[s].own
  BY <1>1 DEF Calm
<1>12. SweepKeeps'
  BY <1>6, <1>7, <1>11 DEF SweepKeeps, ManagedInv, LaunchInv
<1>13. QED
  BY <1>1, <1>2, <1>3, <1>4, <1>8, <1>9, <1>10, <1>12
     DEF ManagedInv, CmdInv, LaunchInv
-----------------------------------------------------------------------------
\* A signal ends a Chrome, a foreign process, or nothing.
LEMMA KillFades ==
  ASSUME ProcTyped, NEW l, Kill(l)
  PROVE  Fades
BY DEF ProcTyped, Fades, Kill, After, Chrome, Live, Taken

LEMMA TerminatedFades ==
  ASSUME ProcTyped, NEW p, Terminated(p) PROVE Fades
BY DEF ProcTyped, Fades, Terminated, Chrome

LEMMA SameFades ==
  ASSUME ProcTyped, proc' = proc PROVE Fades
BY DEF ProcTyped, Fades

\* Where a command goes on after the lock.
LEMMA ResumeCalm ==
  ASSUME ManagedInv, NEW p \in Commands, NEW ok \in BOOLEAN, Resume(p, ok),
         cmd[p].pc \in {"want", "write", "hold", "unlock"},
         ok => cmd[p].pc = "unlock"
  PROVE  \E c : Shape(p, c) /\ Calm(p, c)
<1>1. Shape(p, cmd[p]) /\ cmd[p] \in CommandRecords /\ cmd \in [Commands -> CommandRecords]
  BY DEF ManagedInv, CmdInv, Shaped
<1>2. CASE p \notin Starters
  <2>1. Shape(p, Idle)
    BY <1>2 DEF Shape, Idle, CommandRecords, Locking, Critical, Launching
  <2>2. Calm(p, Idle)
    BY <1>2 DEF Resume, Done, Calm, Idle, Critical
  <2>3. QED
    BY <2>1, <2>2
<1>3. CASE p \in Starters /\ cmd[p].task = "reconcile"
  <2> DEFINE label == IF ok /\ cmd[p].live = {} THEN "launch" ELSE "failed"
             c == [cmd[p] EXCEPT !.pc = label, !.live = {}]
  <2>1. c \in CommandRecords /\ c.pc = label /\ c.own = cmd[p].own
        /\ c.todo = cmd[p].todo
    BY <1>1 DEF CommandRecords
  <2>2. cmd' = [cmd EXCEPT ![p] = c]
    BY <1>3 DEF Resume
  <2>3. label \in {"launch", "failed"}
    OBVIOUS
  <2>4. Shape(p, c)
    BY <2>1, <2>3, <1>3 DEF Shape, Locking, Critical, Launching
  <2>5. Calm(p, c)
    BY <2>1, <2>2, <2>3, <1>3 DEF Calm, Critical
  <2>6. QED
    BY <2>1, <2>4, <2>5
<1>4. ASSUME NEW label \in {"port", "check", "terminate", "clear"},
             cmd' = [cmd EXCEPT ![p].pc = label],
             label \in {"port", "check", "terminate"} =>
               p \in Starters /\ cmd[p].own \in Launches,
             label = "check" => cmd[p].pc = "unlock" /\ cmd[p].task = "publish",
             label = "clear" => cmd[p].try < MaxTries
      PROVE  \E c : Shape(p, c) /\ Calm(p, c)
  <2> DEFINE c == [cmd[p] EXCEPT !.pc = label]
  <2>1. c \in CommandRecords /\ c.pc = label /\ c.own = cmd[p].own
        /\ c.todo = cmd[p].todo /\ c.try = cmd[p].try
    BY <1>1 DEF CommandRecords
  <2>2. Shape(p, c)
    BY <2>1, <1>4 DEF Shape, Locking, Critical, Launching
  <2>3. Calm(p, c)
    BY <2>1, <1>4 DEF Calm, Critical, Published
  <2>4. QED
    BY <2>1, <2>2, <2>3
<1>5. CASE p \in Starters /\ cmd[p].task \in {"register", "publish"}
  BY <1>1, <1>4, <1>5 DEF Resume, Goto, Shape, Locking, Critical
<1>6. CASE p \in Starters /\ cmd[p].task = "launch_failed"
  <2> DEFINE c == [cmd[p] EXCEPT !.pc = "failed", !.own = None]
  <2>1. c \in CommandRecords /\ c.pc = "failed" /\ c.own = None
        /\ c.todo = cmd[p].todo
    BY <1>1 DEF CommandRecords
  <2>2. cmd' = [cmd EXCEPT ![p] = c]
    BY <1>6 DEF Resume
  <2>3. Shape(p, c)
    BY <2>1 DEF Shape, Locking, Critical, Launching
  <2>4. Calm(p, c)
    BY <2>1, <2>2 DEF Calm, Critical
  <2>5. QED
    BY <2>1, <2>3, <2>4
<1>7. CASE p \in Starters /\ cmd[p].task = "stopped"
  BY <1>1, <1>4, <1>7 DEF Resume, Goto, Shape, Locking, Critical
<1>8. QED
  BY <1>1, <1>2, <1>3, <1>5, <1>6, <1>7 DEF Shape, Locking, Critical, CommandRecords

-----------------------------------------------------------------------------
\* The start: no command runs, and nothing is there.
LEMMA InitInv == Init => ManagedInv
<1> SUFFICES ASSUME Init PROVE ManagedInv
  OBVIOUS
<1>1. PICK crowd \in Crowds :
        /\ cmd = [p \in Commands |->
                    IF p \in crowd.who THEN Idle ELSE [Idle EXCEPT !.pc = "absent"]]
        /\ proc = [l \in Launches |->
                     IF l <= crowd.launches THEN "none" ELSE "absent"]
        /\ faults = crowd.faults
  BY DEF Init
<1>2. \A p \in Commands :
        /\ cmd[p] \in CommandRecords /\ cmd[p].pc \in {"idle", "absent"}
        /\ cmd[p].own = None /\ cmd[p].todo = {}
  BY <1>1 DEF Idle, CommandRecords
<1>3. CmdInv
  BY <1>1, <1>2 DEF CmdInv, Shaped, Shape, LockTyped, LockOwned, Locking,
     Critical, Launching, Init
<1>4. FilesTyped /\ ProcTyped /\ faults \in Nat
  BY <1>1 DEF Init, FilesTyped, ProcTyped
<1>5. \A p \in Commands, l \in Launches : ~Starts(p, l)
  BY <1>2 DEF Starts
<1>6. KnownCurrent /\ LaunchInv
  BY <1>2, <1>5 DEF KnownCurrent, LaunchInv, OneStarter, StarterFirst,
     LaunchesUsed, Registered, SweepKeeps, Init
<1>7. QED
  BY <1>3, <1>4, <1>6 DEF ManagedInv

-----------------------------------------------------------------------------
\* The lock file.
LEMMA LockStepInv ==
  ASSUME ManagedInv, NEW p \in Commands, LockStep(p)
  PROVE  ManagedInv'
<1>1. /\ Shape(p, cmd[p]) /\ cmd[p] \in CommandRecords
      /\ cmd \in [Commands -> CommandRecords]
      /\ LockTyped /\ LockOwned
  BY DEF ManagedInv, CmdInv, Shaped
<1>2. /\ UNCHANGED <<proc, files, history>> /\ Fades
      /\ port' \in Launches \cup {None} /\ faults' \in Nat
  BY SameFades DEF LockStep, CreateLock, WriteLock, RemoveStaleLock, LockFails,
     LockAbandoned, Unlock, ManagedInv, FilesTyped, files, history
<1>3. ASSUME NEW c, Shape(p, c), Calm(p, c), LeavesLock(p), LockTyped'
      PROVE  ManagedInv'
  BY <1>2, <1>3, CalmInv DEF files, history
<1>4. CASE CreateLock(p)
  <2> DEFINE c == [cmd[p] EXCEPT !.pc = "write"]
  <2>1. c \in CommandRecords /\ c.pc = "write" /\ c.own = cmd[p].own
        /\ c.todo = cmd[p].todo /\ c.task = cmd[p].task /\ c.try = cmd[p].try
    BY <1>1 DEF CommandRecords
  <2>2. Shape(p, c)
    BY <2>1, <1>1, <1>4 DEF Shape, CreateLock, Locking, Critical, Launching
  <2>3. LockTyped' /\ lock' # None /\ lock'.owner = p /\ LeavesLock(p)
    <3>1. lock = None /\ lock' = [owner |-> p, written |-> FALSE]
      BY <1>4 DEF CreateLock
    <3>2. lock' \in LockFiles
      BY <3>1 DEF LockFiles
    <3>3. QED
      BY <3>1, <3>2 DEF LockTyped, LeavesLock
  <2>4. Calm(p, c)
    BY <2>1, <2>3, <1>4 DEF CreateLock, Goto, Calm
  <2>5. QED
    BY <1>3, <2>1, <2>2, <2>3, <2>4
<1>5. CASE WriteLock(p)
  <2> DEFINE c == [cmd[p] EXCEPT !.pc = "hold"]
  <2>1. c \in CommandRecords /\ c.pc = "hold" /\ c.own = cmd[p].own
        /\ c.todo = cmd[p].todo /\ c.task = cmd[p].task /\ c.try = cmd[p].try
    BY <1>1 DEF CommandRecords
  <2>2. Shape(p, c)
    BY <2>1, <1>1, <1>5 DEF Shape, WriteLock, Locking, Critical, Launching
  <2>3. lock \in LockFiles /\ lock.owner = p
    BY <1>1, <1>5 DEF WriteLock, LockTyped, LockOwned, Critical
  <2>4. lock' \in LockFiles /\ lock'.owner = p
    BY <2>3, <1>5 DEF WriteLock, LockFiles
  <2>5. LockTyped' /\ lock' # None /\ LeavesLock(p)
    BY <2>3, <2>4 DEF LockTyped, LeavesLock
  <2>6. Calm(p, c)
    BY <2>1, <2>4, <2>5, <1>5 DEF WriteLock, Goto, Calm
  <2>7. QED
    BY <1>3, <2>1, <2>2, <2>5, <2>6
<1>6. CASE RemoveStaleLock(p)
  <2>1. lock # None /\ lock.owner = None /\ lock' = None /\ cmd' = cmd
        /\ cmd[p].pc = "want"
    BY <1>6 DEF RemoveStaleLock, Stale
  <2>2. LeavesLock(p) /\ LockTyped'
    BY <2>1 DEF LeavesLock, LockTyped
  <2>3. cmd' = [cmd EXCEPT ![p] = cmd[p]]
    BY <1>1, <2>1
  <2>4. Calm(p, cmd[p])
    BY <2>1, <2>3 DEF Calm, Critical
  <2>5. QED
    BY <1>1, <1>3, <2>2, <2>4
<1>7. ASSUME NEW ok \in BOOLEAN, Resume(p, ok), ok => cmd[p].pc = "unlock",
             cmd[p].pc \in {"want", "write", "hold", "unlock"},
             LeavesLock(p), LockTyped'
      PROVE  ManagedInv'
  <2>1. PICK c : Shape(p, c) /\ Calm(p, c)
    BY <1>7, ResumeCalm
  <2>2. QED
    BY <1>3, <1>7, <2>1
<1>8. CASE LockFails(p)
  BY <1>1, <1>7, <1>8 DEF LockFails, LeavesLock, LockTyped
<1>9. CASE LockAbandoned(p)
  <2>1. lock.owner = p /\ lock' = None /\ cmd[p].pc = "write"
    BY <1>1, <1>9 DEF LockAbandoned, LockOwned, Critical
  <2>2. QED
    BY <1>7, <1>9, <2>1 DEF LockAbandoned, LeavesLock, LockTyped
<1>10. CASE Unlock(p)
  BY <1>1, <1>7, <1>10 DEF Unlock, LeavesLock, LockTyped
<1>11. QED
  BY <1>4, <1>5, <1>6, <1>8, <1>9, <1>10 DEF LockStep
-----------------------------------------------------------------------------
\* A step outside the lock: processes fade, and the record goes on.
LEMMA OutsideInv ==
  ASSUME ManagedInv, NEW p \in Commands, NEW c, Shape(p, c),
         cmd' = [cmd EXCEPT ![p] = c],
         UNCHANGED <<metadata, registry, lock, returned>>,
         Fades, port' \in Launches \cup {None}, faults' \in Nat,
         c.pc \notin Critical \cup {"check"},
         p \in Starters /\ c.own # None => c.own = cmd[p].own /\ cmd[p].pc # "reap"
  PROVE  ManagedInv'
<1>1. Calm(p, c)
  BY DEF Calm, Critical
<1>2. LeavesLock(p) /\ LockTyped'
  BY DEF LeavesLock, LockTyped, ManagedInv, CmdInv
<1>3. QED
  BY <1>1, <1>2, CalmInv

\* Steps that change the label, and perhaps the task, and nothing else.
LEMMA LabelInv ==
  ASSUME ManagedInv, NEW p \in Commands,
         NEW label \in {"want", "launch", "metadata", "port", "metadata_port",
                        "terminate", "failed", "clear", "stop"},
         NEW task \in {"none", "reconcile", "register", "publish",
                       "launch_failed", "stopped"},
         cmd' = [cmd EXCEPT ![p].pc = label, ![p].task = task],
         UNCHANGED <<metadata, registry, lock, returned, faults>>,
         port' = port, Fades, cmd[p].pc # "reap",
         label \in {"launch", "metadata", "port", "metadata_port", "terminate"}
           => p \in Starters,
         label \in Launching \/ task \in {"register", "publish"}
           => p \in Starters /\ cmd[p].own \in Launches,
         label = "clear" \/ (p \in Starters /\ task = "stopped")
           => cmd[p].try < MaxTries,
         label = "want" /\ p \in Starters => task # "none",
         label # "stop"
  PROVE  ManagedInv'
<1> DEFINE c == [cmd[p] EXCEPT !.pc = label, !.task = task]
<1>1. cmd[p] \in CommandRecords
  BY DEF ManagedInv, CmdInv, Shaped
<1>2. /\ c \in CommandRecords /\ c.pc = label /\ c.task = task
      /\ c.own = cmd[p].own /\ c.todo = cmd[p].todo /\ c.try = cmd[p].try
  BY <1>1 DEF CommandRecords
<1>3. Shape(p, c)
  BY <1>2 DEF Shape, Locking, Critical, Launching
<1>5. port' \in Launches \cup {None} /\ faults' \in Nat
  BY DEF ManagedInv, FilesTyped
<1>6. c.pc \notin Critical \cup {"check"}
  BY <1>2 DEF Critical
<1>7. cmd' = [cmd EXCEPT ![p] = c]
  OBVIOUS
<1> HIDE DEF c
<1>8. QED
  BY <1>2, <1>3, <1>5, <1>6, <1>7, OutsideInv

\* Steps that change the label only.
LEMMA GotoInv ==
  ASSUME ManagedInv, NEW p \in Commands,
         NEW label \in {"want", "metadata_port", "terminate", "failed", "clear",
                        "stop"},
         Goto(p, label), cmd[p].pc # "reap",
         UNCHANGED <<metadata, registry, lock, returned, faults>>,
         port' = port, Fades,
         label \in Launching => p \in Starters /\ cmd[p].own \in Launches,
         label \in {"want", "clear"} => cmd[p].try < MaxTries,
         label = "want" => cmd[p].task = "stopped",
         label = "stop" => p \in Stoppers
  PROVE  ManagedInv'
<1> DEFINE c == [cmd[p] EXCEPT !.pc = label]
<1>1. cmd[p] \in CommandRecords
  BY DEF ManagedInv, CmdInv, Shaped
<1>2. /\ c \in CommandRecords /\ c.pc = label /\ c.task = cmd[p].task
      /\ c.own = cmd[p].own /\ c.todo = cmd[p].todo /\ c.try = cmd[p].try
  BY <1>1 DEF CommandRecords
<1>3. Shape(p, c)
  BY <1>2 DEF Shape, Locking, Critical, Launching
<1>5. port' \in Launches \cup {None} /\ faults' \in Nat
  BY DEF ManagedInv, FilesTyped
<1>6. c.pc \notin Critical \cup {"check"}
  BY <1>2 DEF Critical
<1>7. cmd' = [cmd EXCEPT ![p] = c]
  BY DEF Goto
<1> HIDE DEF c
<1>8. QED
  BY <1>2, <1>3, <1>5, <1>6, <1>7, OutsideInv

\* A command that is done, or dies.
LEMMA IdleInv ==
  ASSUME ManagedInv, NEW p \in Commands, Done(p), Fades, LockTyped', LeavesLock(p),
         UNCHANGED <<metadata, registry, returned>>,
         port' = port, faults' \in Nat
  PROVE  ManagedInv'
<1>1. Shape(p, Idle)
  BY DEF Shape, Idle, CommandRecords, Locking, Critical, Launching
<1>2. Calm(p, Idle)
  BY DEF Calm, Done, Idle, Critical
<1>3. port' \in Launches \cup {None}
  BY DEF ManagedInv, FilesTyped
<1>4. QED
  BY <1>1, <1>2, <1>3, CalmInv
-----------------------------------------------------------------------------
\* Starting, retrying and the forced stop between two attempts.
LEMMA StartCalmInv ==
  ASSUME ManagedInv, NEW p \in Commands,
         \/ Ensure(p) \/ Sweep(p) \/ LaunchFails(p) \/ SaveMetadataFails(p)
         \/ Terminate(p) \/ WaitPort(p) \/ WaitPortFails(p) \/ ReturnFails(p)
         \/ ForceStop(p) \/ GiveUp(p) \/ ForceFails(p) \/ Forced(p) \/ Clear(p)
         \/ \E l \in Launches : ForceSignal(p, l)
  PROVE  ManagedInv'
<1>1. /\ Shape(p, cmd[p]) /\ cmd[p] \in CommandRecords
      /\ cmd \in [Commands -> CommandRecords]
      /\ ProcTyped /\ LockTyped /\ faults \in Nat
      /\ port \in Launches \cup {None}
  BY DEF ManagedInv, CmdInv, Shaped, FilesTyped
<1>2. ASSUME proc' = proc PROVE Fades
  BY <1>1, <1>2, SameFades
<1>3. CASE Ensure(p)
  <2> DEFINE c == [cmd[p] EXCEPT !.pc = "want", !.task = "reconcile", !.try = 1]
  <2>0. 1 \in 0 .. MaxTries
    OBVIOUS
  <2>1. /\ c \in CommandRecords /\ c.pc = "want" /\ c.task = "reconcile"
        /\ c.own = cmd[p].own /\ c.todo = cmd[p].todo
    BY <1>1, <2>0 DEF CommandRecords
  <2>2. Shape(p, c)
    BY <2>1 DEF Shape, Locking, Critical, Launching
  <2>3. Fades
    BY <1>2, <1>3 DEF Ensure
  <2>4. cmd' = [cmd EXCEPT ![p] = c] /\ c.pc \notin Critical \cup {"check"}
        /\ cmd[p].pc # "reap"
        /\ UNCHANGED <<proc, files, lock, history>>
    BY <1>3, <2>1 DEF Ensure, Critical
  <2> HIDE DEF c
  <2>5. QED
    BY <1>1, <2>1, <2>2, <2>3, <2>4, OutsideInv DEF files, history
<1>4. CASE Sweep(p)
  BY <1>1, <1>2, <1>4, LabelInv DEF Sweep, ForLock, files, history, Launching
<1>5. CASE LaunchFails(p)
  BY <1>1, <1>2, <1>5, GotoInv DEF LaunchFails, files, history, Launching
<1>6. CASE SaveMetadataFails(p)
  BY <1>1, <1>2, <1>6, GotoInv DEF SaveMetadataFails, files, history, Launching,
     Shape
<1>7. CASE WaitPort(p)
  BY <1>1, <1>2, <1>7, GotoInv DEF WaitPort, files, history, Launching, Shape
<1>8. CASE WaitPortFails(p)
  <2>1. Fades
    BY <1>1, <1>8, TerminatedFades DEF WaitPortFails
  <2>2. QED
    BY <1>1, <1>8, <2>1, LabelInv DEF WaitPortFails, ForLock, files, history,
       Launching, Shape
<1>9. CASE ReturnFails(p)
  BY <1>1, <1>2, <1>9, LabelInv DEF ReturnFails, ForLock, files, history,
     Launching, Shape
<1>10. CASE GiveUp(p)
  BY <1>1, <1>2, <1>10, IdleInv DEF GiveUp, files, history, LeavesLock, LockTyped
<1>11. CASE Forced(p)
  BY <1>1, <1>2, <1>11, GotoInv DEF Forced, files, history, Launching, Shape
<1>12. CASE Terminate(p)
  <2> DEFINE c == [cmd[p] EXCEPT !.pc = "failed", !.own = None]
  <2>1. c \in CommandRecords /\ c.pc = "failed" /\ c.own = None
        /\ c.todo = cmd[p].todo
    BY <1>1 DEF CommandRecords
  <2>2. Shape(p, c)
    BY <2>1 DEF Shape, Locking, Critical, Launching
  <2>3. Fades
    BY <1>1, <1>12, TerminatedFades DEF Terminate
  <2>4. cmd' = [cmd EXCEPT ![p] = c] /\ c.pc \notin Critical \cup {"check"}
        /\ UNCHANGED <<files, lock, history>>
    BY <1>12, <2>1 DEF Terminate, Critical
  <2> HIDE DEF c
  <2>5. QED
    BY <1>1, <2>1, <2>2, <2>3, <2>4, OutsideInv DEF files, history
<1>13. CASE ForceStop(p)
  <2> DEFINE task == IF metadata = None \/ Live = {} THEN "none" ELSE "stopped"
             c == [cmd[p] EXCEPT !.pc = "force", !.todo = Live, !.task = task]
  <2>1. Live \subseteq Launches /\ task \in {"none", "stopped"}
    BY DEF Live
  <2>2. /\ c \in CommandRecords /\ c.pc = "force" /\ c.todo = Live
        /\ c.own = cmd[p].own /\ c.try = cmd[p].try
    BY <1>1, <2>1 DEF CommandRecords
  <2>3. Shape(p, c)
    BY <2>2, <1>13 DEF Shape, Locking, Critical, Launching, ForceStop, MayRetry
  <2>4. Fades
    BY <1>2, <1>13 DEF ForceStop
  <2>5. cmd' = [cmd EXCEPT ![p] = c] /\ c.pc \notin Critical \cup {"check"}
        /\ cmd[p].pc # "reap" /\ UNCHANGED <<files, lock, history>>
    BY <1>13, <2>2 DEF ForceStop, Critical
  <2> HIDE DEF c
  <2>6. QED
    BY <1>1, <2>2, <2>3, <2>4, <2>5, OutsideInv DEF files, history
<1>14. CASE ForceFails(p)
  <2> DEFINE c == [cmd[p] EXCEPT !.pc = "clear", !.todo = {}]
  <2>1. /\ c \in CommandRecords /\ c.pc = "clear" /\ c.todo = {}
        /\ c.own = cmd[p].own /\ c.try = cmd[p].try
    BY <1>1 DEF CommandRecords
  <2>2. Shape(p, c)
    BY <2>1, <1>1, <1>14 DEF Shape, Locking, Critical, Launching, ForceFails
  <2>3. Fades
    BY <1>2, <1>14 DEF ForceFails
  <2>4. cmd' = [cmd EXCEPT ![p] = c] /\ c.pc \notin Critical \cup {"check"}
        /\ cmd[p].pc # "reap" /\ UNCHANGED <<files, lock, history>>
    BY <1>14, <2>1 DEF ForceFails, Critical
  <2> HIDE DEF c
  <2>5. QED
    BY <1>1, <2>1, <2>2, <2>3, <2>4, OutsideInv DEF files, history
<1>15. CASE Clear(p)
  <2> DEFINE c == [Idle EXCEPT !.pc = "want", !.task = "reconcile",
                               !.try = cmd[p].try + 1]
  <2>1. cmd[p].try + 1 \in 0 .. MaxTries
    BY <1>1, <1>15 DEF Clear, Shape, CommandRecords
  <2>2. /\ c \in CommandRecords /\ c.pc = "want" /\ c.task = "reconcile"
        /\ c.own = None /\ c.todo = {}
    BY <2>1 DEF CommandRecords, Idle
  <2>3. Shape(p, c)
    BY <2>2 DEF Shape, Locking, Critical, Launching
  <2>4. cmd' = [cmd EXCEPT ![p] = c] /\ c.pc \notin Critical \cup {"check"}
        /\ port' = None /\ Fades /\ UNCHANGED <<metadata, registry, lock, history>>
    BY <1>2, <1>15, <2>2 DEF Clear, Critical
  <2> HIDE DEF c
  <2>5. QED
    BY <1>1, <2>2, <2>3, <2>4, OutsideInv DEF history
<1>16. ASSUME NEW l \in Launches, ForceSignal(p, l) PROVE ManagedInv'
  <2> DEFINE c == [cmd[p] EXCEPT !.todo = @ \ {l}]
  <2>1. /\ c \in CommandRecords /\ c.pc = "force" /\ c.task = cmd[p].task
        /\ c.todo \subseteq cmd[p].todo
        /\ c.own = cmd[p].own /\ c.try = cmd[p].try
    BY <1>1, <1>16 DEF CommandRecords, ForceSignal
  <2>2. Shape(p, c)
    BY <2>1, <1>1, <1>16 DEF Shape, Locking, Critical, Launching, ForceSignal
  <2>3. Fades
    BY <1>1, <1>16, KillFades DEF ForceSignal
  <2>4. cmd' = [cmd EXCEPT ![p] = c] /\ c.pc \notin Critical \cup {"check"}
        /\ cmd[p].pc # "reap" /\ UNCHANGED <<files, lock, history>>
    BY <1>16, <2>1 DEF ForceSignal, Critical
  <2> HIDE DEF c
  <2>5. QED
    BY <1>1, <2>1, <2>2, <2>3, <2>4, OutsideInv DEF files, history
<1>17. QED
  BY <1>3, <1>4, <1>5, <1>6, <1>7, <1>8, <1>9, <1>10, <1>11, <1>12, <1>13, <1>14,
     <1>15, <1>16
-----------------------------------------------------------------------------
\* Stopping, and the death of a command.
LEMMA StopStepInv ==
  ASSUME ManagedInv, NEW p \in Commands, StopStep(p) \/ Crash(p)
  PROVE  ManagedInv'
<1>1. /\ Shape(p, cmd[p]) /\ cmd[p] \in CommandRecords
      /\ cmd \in [Commands -> CommandRecords]
      /\ ProcTyped /\ LockTyped /\ faults \in Nat
      /\ port \in Launches \cup {None} /\ metadata \in Launches \cup {None}
  BY DEF ManagedInv, CmdInv, Shaped, FilesTyped
<1>2. ASSUME proc' = proc PROVE Fades
  BY <1>1, <1>2, SameFades
<1>3. 1 \in 0 .. MaxTries /\ Live \subseteq Launches
  BY DEF Live
<1>4. ASSUME NEW c \in CommandRecords, cmd' = [cmd EXCEPT ![p] = c],
             c.pc \in {"recheck", "stop"}, p \in Stoppers, cmd[p].pc # "reap",
             UNCHANGED <<proc, files, lock, history>>
      PROVE  ManagedInv'
  <2>1. Shape(p, c)
    BY <1>4 DEF Shape, Locking, Critical, Launching
  <2>2. Fades
    BY <1>2, <1>4
  <2>3. c.pc \notin Critical \cup {"check"}
    BY <1>4 DEF Critical
  <2>4. QED
    BY <1>1, <1>4, <2>1, <2>2, <2>3, OutsideInv DEF files, history
<1>5. CASE Stop(p)
  <2> DEFINE c == [cmd[p] EXCEPT !.pc = "recheck", !.own = metadata,
                                 !.known = Live \cup {metadata},
                                 !.todo = Live \ {metadata}]
  <2>0. metadata \in Launches
    BY <1>1, <1>5 DEF Stop
  <2>1. c \in CommandRecords /\ c.pc = "recheck"
    BY <1>1, <1>3, <2>0 DEF CommandRecords
  <2>2. p \in Stoppers /\ cmd[p].pc # "reap" /\ cmd' = [cmd EXCEPT ![p] = c]
        /\ UNCHANGED <<proc, files, lock, history>>
    BY <1>5 DEF Stop
  <2> HIDE DEF c
  <2>3. QED
    BY <2>1, <2>2, <1>4
<1>6. CASE StopAgain(p)
  <2> DEFINE c == [cmd[p] EXCEPT !.todo = Remaining(p) \ {cmd[p].own}, !.try = 1,
                                 !.known = @ \cup Remaining(p)]
  <2>0. Remaining(p) \subseteq Launches
    BY <1>3 DEF Remaining, Taken
  <2>1. c \in CommandRecords /\ c.pc = "stop"
    BY <1>1, <1>3, <1>6, <2>0 DEF CommandRecords, StopAgain
  <2>2. p \in Stoppers /\ cmd[p].pc # "reap" /\ cmd' = [cmd EXCEPT ![p] = c]
        /\ UNCHANGED <<proc, files, lock, history>>
    BY <1>1, <1>6 DEF StopAgain, Shape
  <2> HIDE DEF c
  <2>3. QED
    BY <2>1, <2>2, <1>4
<1>7. CASE StopSignals(p)
  <2>1. CASE Rechecked(cmd[p].own)
    <3>1. Fades
      BY <1>1, <1>7, <2>1, KillFades DEF StopSignals
    <3>2. QED
      BY <1>1, <1>7, <2>1, <3>1, GotoInv DEF StopSignals, files, history, Launching,
         Shape
  <2>2. CASE ~Rechecked(cmd[p].own)
    BY <1>1, <1>2, <1>7, <2>2, IdleInv DEF StopSignals, files, history, LeavesLock,
       LockTyped
  <2>3. QED
    BY <2>1, <2>2
<1>8. CASE StopFails(p)
  BY <1>1, <1>2, <1>8, IdleInv DEF StopFails, files, history, LeavesLock, LockTyped
<1>9. CASE Stopped(p)
  BY <1>1, <1>2, <1>9, LabelInv DEF Stopped, ForLock, files, history, Launching,
     Shape
<1>10. ASSUME NEW l \in Launches, StopDescendant(p, l) PROVE ManagedInv'
  <2> DEFINE c == [cmd[p] EXCEPT !.todo = @ \ {l}]
  <2>1. /\ c \in CommandRecords /\ c.pc = "stop" /\ c.todo \subseteq cmd[p].todo
        /\ c.own = cmd[p].own
    BY <1>1, <1>10 DEF CommandRecords, StopDescendant
  <2>2. Shape(p, c)
    BY <1>1, <1>10, <2>1 DEF Shape, Locking, Critical, Launching, StopDescendant
  <2>3. Fades
    BY <1>1, <1>10, KillFades DEF StopDescendant
  <2>4. cmd' = [cmd EXCEPT ![p] = c] /\ c.pc \notin Critical \cup {"check"}
        /\ cmd[p].pc # "reap" /\ UNCHANGED <<files, lock, history>>
    BY <1>10, <2>1 DEF StopDescendant, Critical
  <2> HIDE DEF c
  <2>5. QED
    BY <1>1, <2>1, <2>2, <2>3, <2>4, OutsideInv DEF files, history
<1>11. CASE Crash(p)
  <2>1. Fades /\ faults' \in Nat /\ UNCHANGED <<files, returned>>
    BY <1>1, <1>2, <1>11 DEF Crash, Fault
  <2>2. LockTyped'
    BY <1>1, <1>11 DEF Crash, LockTyped, LockFiles
  <2>3. LeavesLock(p)
    BY <1>1, <1>11 DEF Crash, LeavesLock, LockTyped, LockFiles
  <2>4. QED
    BY <1>11, <2>1, <2>2, <2>3, IdleInv DEF Crash, files
<1>12. QED
  BY <1>5, <1>6, <1>7, <1>8, <1>9, <1>10, <1>11 DEF StopStep
-----------------------------------------------------------------------------
\* A step under the lock that does not write the registry.
LEMMA UnderLockInv ==
  ASSUME ManagedInv, NEW p \in Commands, NEW c \in CommandRecords,
         cmd' = [cmd EXCEPT ![p] = c],
         cmd[p].pc \in Critical, c.pc \in Critical \ {"unlock"},
         c.own = cmd[p].own, c.task = cmd[p].task, c.try = cmd[p].try,
         (c.pc = "reap") = (cmd[p].pc = "reap"),
         c.pc = "save" => c.known = registry,
         UNCHANGED <<files, lock, history>>, Fades
  PROVE  ManagedInv'
<1>1. Shape(p, cmd[p]) /\ LockTyped /\ LockOwned
  BY DEF ManagedInv, CmdInv, Shaped
<1>2. Shape(p, c)
  BY <1>1 DEF Shape, Locking, Critical, Launching
<1>3. lock # None /\ lock.owner = p
  BY <1>1 DEF LockOwned
<1>4. Calm(p, c)
  BY <1>3 DEF Calm, Critical
<1>5. LeavesLock(p) /\ LockTyped' /\ faults' \in Nat /\ port' \in Launches \cup {None}
  BY <1>1 DEF LeavesLock, LockTyped, history, files, ManagedInv, FilesTyped
<1>6. QED
  BY <1>2, <1>4, <1>5, CalmInv DEF files, history

LEMMA SweepCalmInv ==
  ASSUME ManagedInv, NEW p \in Commands,
         \/ LookFails(p) \/ Load(p)
         \/ \E l \in Launches : Reap(p, l) \/ ReapFails(p, l)
  PROVE  ManagedInv'
<1>1. /\ Shape(p, cmd[p]) /\ cmd[p] \in CommandRecords
      /\ cmd \in [Commands -> CommandRecords]
      /\ ProcTyped /\ LockTyped /\ registry \subseteq Launches
  BY DEF ManagedInv, CmdInv, Shaped, FilesTyped
<1>2. ASSUME proc' = proc PROVE Fades
  BY <1>1, <1>2, SameFades
<1>3. CASE LookFails(p)
  <2>1. PICK c : Shape(p, c) /\ Calm(p, c)
    BY <1>3, ResumeCalm DEF LookFails
  <2>2. Fades /\ LeavesLock(p) /\ LockTyped'
    BY <1>1, <1>2, <1>3 DEF LookFails, LeavesLock, LockTyped
  <2>3. UNCHANGED <<files, history>> /\ port' \in Launches \cup {None}
        /\ faults' \in Nat
    BY <1>3 DEF LookFails, files, history, ManagedInv, FilesTyped
  <2>4. QED
    BY <2>1, <2>2, <2>3, CalmInv DEF files, history
<1>4. CASE Load(p)
  <2> DEFINE c == [cmd[p] EXCEPT !.pc = "save", !.known = registry]
  <2>1. /\ c \in CommandRecords /\ c.pc = "save" /\ c.known = registry
        /\ c.own = cmd[p].own /\ c.task = cmd[p].task /\ c.try = cmd[p].try
        /\ c.todo = cmd[p].todo
    BY <1>1 DEF CommandRecords
  <2>2. /\ cmd' = [cmd EXCEPT ![p] = c] /\ cmd[p].pc = "hold" /\ Fades
        /\ UNCHANGED <<files, lock, history>>
    BY <1>2, <1>4 DEF Load
  <2>3. c.pc \in Critical \ {"unlock"} /\ cmd[p].pc \in Critical
    BY <2>1, <2>2 DEF Critical
  <2> HIDE DEF c
  <2>4. QED
    BY <2>1, <2>2, <2>3, UnderLockInv
<1>5. ASSUME NEW l \in Launches, NEW live \in SUBSET Launches,
             cmd[p].pc = "reap", Fades, UNCHANGED <<files, lock, history>>,
             cmd' = [cmd EXCEPT ![p].todo = @ \ {l}, ![p].live = live]
      PROVE  ManagedInv'
  <2> DEFINE c == [cmd[p] EXCEPT !.todo = @ \ {l}, !.live = live]
  <2>1. /\ c \in CommandRecords /\ c.pc = "reap"
        /\ c.own = cmd[p].own /\ c.task = cmd[p].task /\ c.try = cmd[p].try
        /\ c.todo \subseteq cmd[p].todo
    BY <1>1, <1>5 DEF CommandRecords
  <2>2. cmd' = [cmd EXCEPT ![p] = c]
    BY <1>5
  <2>3. c.pc \in Critical \ {"unlock"} /\ cmd[p].pc \in Critical
    BY <2>1, <1>5 DEF Critical
  <2> HIDE DEF c
  <2>4. QED
    BY <2>1, <2>2, <2>3, <1>5, UnderLockInv
<1>6. ASSUME NEW l \in Launches, Reap(p, l) PROVE ManagedInv'
  <2>1. Fades
    BY <1>1, <1>6, KillFades DEF Reap
  <2>2. cmd[p].live \ {l} \in SUBSET Launches
    BY <1>1 DEF CommandRecords
  <2>3. cmd' = [cmd EXCEPT ![p].todo = @ \ {l}, ![p].live = cmd[p].live \ {l}]
    BY <1>1, <1>6 DEF Reap
  <2>4. QED
    BY <1>5, <1>6, <2>1, <2>2, <2>3 DEF Reap
<1>7. ASSUME NEW l \in Launches, ReapFails(p, l) PROVE ManagedInv'
  <2>1. cmd[p].live \in SUBSET Launches
    BY <1>1 DEF CommandRecords
  <2>2. cmd' = [cmd EXCEPT ![p].todo = @ \ {l}, ![p].live = cmd[p].live]
    BY <1>1, <1>7 DEF ReapFails, CommandRecords
  <2>3. QED
    BY <1>2, <1>5, <1>7, <2>1, <2>2 DEF ReapFails
<1>8. QED
  BY <1>3, <1>4, <1>6, <1>7
-----------------------------------------------------------------------------
\* A sweep that looks takes the metadata's live launch as the one to keep.
LEMMA LookInv ==
  ASSUME ManagedInv, NEW p \in Commands, Look(p) PROVE ManagedInv'
<1> DEFINE known == registry \cup ({metadata} \ {None})
           own == IF metadata \in Live THEN metadata ELSE None
<1>1. /\ Shape(p, cmd[p]) /\ cmd[p] \in CommandRecords
      /\ LockTyped /\ LockOwned /\ FilesTyped
  BY DEF ManagedInv, CmdInv, Shaped
<1>2. PICK todo \in SUBSET Live :
        cmd' = [cmd EXCEPT ![p].pc = "reap", ![p].known = known, ![p].own = own,
                           ![p].live = Live, ![p].todo = todo]
  <2>1. PICK todo \in IF Cardinality(Live) > 1 THEN Extras(Live) ELSE {{}} :
          cmd' = [cmd EXCEPT ![p].pc = "reap", ![p].known = known, ![p].own = own,
                             ![p].live = Live, ![p].todo = todo]
    BY DEF Look, ListProcesses
  <2>2. todo \in SUBSET Live
    BY <2>1 DEF Extras
  <2>3. QED
    BY <2>1, <2>2
<1> DEFINE c == [cmd[p] EXCEPT !.pc = "reap", !.known = known, !.own = own,
                               !.live = Live, !.todo = todo]
<1>3. known \in SUBSET Launches /\ own \in Launches \cup {None} /\ Live \in SUBSET Launches
  BY <1>1 DEF FilesTyped, Live
<1> HIDE DEF known, own
<1>4. /\ c \in CommandRecords /\ c.pc = "reap" /\ c.own = own
      /\ c.task = cmd[p].task /\ c.try = cmd[p].try /\ c.todo = todo
  BY <1>1, <1>3 DEF CommandRecords
<1>5. cmd' = [cmd EXCEPT ![p] = c]
  BY <1>2
<1>6. /\ cmd[p].pc = "hold" /\ cmd[p].task = "reconcile"
      /\ UNCHANGED <<proc, port, metadata, registry, lock, returned, faults>>
  BY DEF Look, files, history
<1> HIDE DEF c
<1>7. Shape(p, c)
  BY <1>1, <1>4, <1>6 DEF Shape, Locking, Critical, Launching
<1>8. Shaped' /\ cmd'[p] = c /\ \A q \in Commands \ {p} : cmd'[q] = cmd[q]
  BY <1>5, <1>7, Others DEF ManagedInv, CmdInv
<1>9. CmdInv'
  BY <1>1, <1>4, <1>6, <1>8 DEF CmdInv, LockTyped, LockOwned, Critical
<1>10. FilesTyped' /\ ProcTyped' /\ faults' \in Nat
  BY <1>6 DEF ManagedInv, FilesTyped, ProcTyped
<1>11. KnownCurrent'
  BY <1>4, <1>6, <1>8 DEF KnownCurrent, ManagedInv
<1>13. \A q \in Commands, l \in Launches :
         /\ Starts(q, l)' => Starts(q, l)
         /\ Starts(q, l)' /\ Published(q)' => Starts(q, l) /\ Published(q)
  BY <1>4, <1>8 DEF Starts, Published
<1>14. OneStarter' /\ StarterFirst' /\ LaunchesUsed' /\ Registered'
  BY <1>6, <1>13 DEF OneStarter, StarterFirst, LaunchesUsed, Registered, Current,
     Chrome, ManagedInv, LaunchInv
<1>15. \A l \in Launches : Current(l)' => Current(l) /\ own = l
  BY <1>6 DEF Current, Chrome, Live, own
<1>16. SweepKeeps'
  BY <1>4, <1>8, <1>6, <1>13, <1>15 DEF SweepKeeps, ManagedInv, LaunchInv
<1>17. QED
  BY <1>9, <1>10, <1>11, <1>14, <1>16 DEF ManagedInv, LaunchInv

\* The registry is saved: under the lock, with the launch that matters.
LEMMA SavedInv ==
  ASSUME ManagedInv, NEW p \in Commands, NEW c, Shape(p, c),
         cmd' = [cmd EXCEPT ![p] = c],
         cmd[p].pc \in {"reap", "save"}, c.pc = "unlock",
         UNCHANGED <<proc, port, metadata, lock, returned, faults>>,
         registry' \subseteq Launches,
         p \in Starters /\ c.own # None => c.own = cmd[p].own /\ cmd[p].pc # "reap",
         \A l \in Launches : Current(l) =>
           /\ l \in returned => l \in registry'
           /\ \A q \in Commands : Starts(q, l) /\ Published(q) => l \in registry'
           /\ p \in Starters /\ c.own = l /\ c.task = "publish" => l \in registry'
  PROVE  ManagedInv'
<1>1. Shaped' /\ cmd'[p] = c /\ \A q \in Commands \ {p} : cmd'[q] = cmd[q]
  BY Others DEF ManagedInv, CmdInv
<1>2. LockOwned /\ LockTyped /\ lock.owner = p /\ lock # None
  BY DEF ManagedInv, CmdInv, LockOwned, Critical
<1>3. \A q \in Commands \ {p} : cmd[q].pc \notin {"reap", "save"}
  BY <1>2 DEF LockOwned, Critical
<1>4. CmdInv'
  BY <1>1, <1>2 DEF CmdInv, LockTyped, LockOwned, Critical
<1>5. FilesTyped' /\ ProcTyped' /\ faults' \in Nat
  BY DEF ManagedInv, FilesTyped, ProcTyped
<1>6. KnownCurrent' /\ SweepKeeps'
  BY <1>1, <1>3 DEF KnownCurrent, SweepKeeps
<1>8. \A q \in Commands, l \in Launches : Starts(q, l)' => Starts(q, l)
  BY <1>1 DEF Starts
<1>9. OneStarter' /\ StarterFirst' /\ LaunchesUsed'
  BY <1>8 DEF OneStarter, StarterFirst, LaunchesUsed, ManagedInv, LaunchInv
<1>10. Registered'
  <2> SUFFICES ASSUME NEW l \in Launches, Current(l)
               PROVE  /\ l \in returned => l \in registry'
                      /\ \A q \in Commands :
                           Starts(q, l)' /\ Published(q)' => l \in registry'
    BY DEF Registered, Current, Chrome
  <2>1. l \in returned => l \in registry'
    OBVIOUS
  <2>2. ASSUME NEW q \in Commands, Starts(q, l)', Published(q)'
        PROVE  l \in registry'
    <3>1. CASE q = p
      BY <1>1, <2>2, <3>1 DEF Starts, Published
    <3>2. CASE q # p
      BY <1>1, <1>8, <2>2, <3>2 DEF Published
    <3>3. QED
      BY <3>1, <3>2
  <2>3. QED
    BY <2>1, <2>2
<1>11. QED
  BY <1>4, <1>5, <1>6, <1>9, <1>10 DEF ManagedInv, LaunchInv

LEMMA SaveReconciledInv ==
  ASSUME ManagedInv, NEW p \in Commands, SaveReconciled(p) PROVE ManagedInv'
<1> DEFINE c == [cmd[p] EXCEPT !.pc = "unlock", !.known = {}, !.own = None]
<1>1. Shape(p, cmd[p]) /\ cmd[p] \in CommandRecords /\ None \notin Launches
  BY DEF ManagedInv, CmdInv, Shaped
<1>2. /\ c \in CommandRecords /\ c.pc = "unlock" /\ c.own = None
      /\ c.task = cmd[p].task /\ c.try = cmd[p].try /\ c.todo = cmd[p].todo
  BY <1>1 DEF CommandRecords
<1>3. /\ cmd[p].pc = "reap" /\ cmd' = [cmd EXCEPT ![p] = c]
      /\ UNCHANGED <<proc, port, metadata, lock, returned, faults>>
  BY DEF SaveReconciled, history
<1> HIDE DEF c
<1>4. Shape(p, c)
  BY <1>1, <1>2, <1>3 DEF Shape, Locking, Critical, Launching
<1>5. PICK kept \in SUBSET cmd[p].known : registry' = Retained(p) \cup kept
  BY DEF SaveReconciled
<1>6. registry' \subseteq Launches
  BY <1>1, <1>5 DEF Retained, CommandRecords
<1>7. \A l \in Launches : cmd[p].own = l => l \in registry'
  BY <1>1, <1>5 DEF Retained
<1>8. \A l \in Launches : Current(l) =>
        /\ l \in returned => l \in registry'
        /\ \A q \in Commands : Starts(q, l) /\ Published(q) => l \in registry'
  BY <1>3, <1>7 DEF ManagedInv, LaunchInv, SweepKeeps
<1>9. \A l \in Launches : Current(l) =>
        /\ l \in returned => l \in registry'
        /\ \A q \in Commands : Starts(q, l) /\ Published(q) => l \in registry'
        /\ p \in Starters /\ c.own = l /\ c.task = "publish" => l \in registry'
  BY <1>1, <1>2, <1>8
<1>10. cmd[p].pc \in {"reap", "save"} /\ c.own = None
  BY <1>2, <1>3
<1>11. QED
  BY <1>2, <1>3, <1>4, <1>6, <1>9, <1>10, SavedInv
\* What a registration saves is what the file has, and the launch.
LEMMA SaveInv ==
  ASSUME ManagedInv, NEW p \in Commands, Save(p) PROVE ManagedInv'
<1> DEFINE c == [cmd[p] EXCEPT !.pc = "unlock", !.known = {}]
<1>1. /\ Shape(p, cmd[p]) /\ cmd[p] \in CommandRecords
      /\ registry \subseteq Launches /\ KnownCurrent
  BY DEF ManagedInv, CmdInv, Shaped, FilesTyped
<1>2. /\ c \in CommandRecords /\ c.pc = "unlock" /\ c.own = cmd[p].own
      /\ c.task = cmd[p].task /\ c.try = cmd[p].try /\ c.todo = cmd[p].todo
  BY <1>1 DEF CommandRecords
<1>3. /\ cmd[p].pc = "save" /\ cmd' = [cmd EXCEPT ![p] = c]
      /\ UNCHANGED <<proc, port, metadata, lock, returned, faults>>
      /\ registry' = cmd[p].known \cup
           (IF cmd[p].task \in {"register", "publish"} THEN {cmd[p].own} ELSE {})
  BY DEF Save, history
<1> HIDE DEF c
<1>4. Shape(p, c)
  BY <1>1, <1>2, <1>3 DEF Shape, Locking, Critical, Launching
<1>5. cmd[p].task \in {"register", "publish"} => cmd[p].own \in Launches
  BY <1>1, <1>3 DEF Shape, Locking, Critical
<1>6. registry \subseteq registry' /\ registry' \subseteq Launches
  BY <1>1, <1>3, <1>5 DEF KnownCurrent
<1>7. cmd[p].task = "publish" => cmd[p].own \in registry'
  BY <1>3
<1>8. \A l \in Launches : Current(l) =>
        /\ l \in returned => l \in registry
        /\ \A q \in Commands : Starts(q, l) /\ Published(q) => l \in registry
  BY DEF ManagedInv, LaunchInv, Registered
<1>9. \A l \in Launches : Current(l) =>
        /\ l \in returned => l \in registry'
        /\ \A q \in Commands : Starts(q, l) /\ Published(q) => l \in registry'
        /\ p \in Starters /\ c.own = l /\ c.task = "publish" => l \in registry'
  BY <1>2, <1>6, <1>7, <1>8
<1>10. cmd[p].pc \in {"reap", "save"} /\ cmd[p].pc # "reap"
  BY <1>3
<1>11. QED
  BY <1>2, <1>3, <1>4, <1>6, <1>9, <1>10, SavedInv
-----------------------------------------------------------------------------
\* A launch that nothing names yet.
LEMMA LaunchStepInv ==
  ASSUME ManagedInv, NEW p \in Commands, NEW l \in Launches, Launch(p, l)
  PROVE  ManagedInv'
<1> DEFINE c == [cmd[p] EXCEPT !.pc = "metadata", !.own = l]
<1>1. /\ Shape(p, cmd[p]) /\ cmd[p] \in CommandRecords
      /\ LockTyped /\ LockOwned /\ FilesTyped /\ ProcTyped /\ LaunchInv
  BY DEF ManagedInv, CmdInv, Shaped
<1>2. /\ c \in CommandRecords /\ c.pc = "metadata" /\ c.own = l
      /\ c.try = cmd[p].try /\ c.todo = cmd[p].todo
  BY <1>1 DEF CommandRecords
<1>3. /\ cmd[p].pc = "launch" /\ cmd' = [cmd EXCEPT ![p] = c]
      /\ proc[l] = "none" /\ proc' = [proc EXCEPT ![l] = "starting"]
      /\ port' = None
      /\ UNCHANGED <<metadata, registry, lock, returned, faults>>
  BY DEF Launch, history
<1> HIDE DEF c
<1>4. Shape(p, c)
  BY <1>1, <1>2, <1>3 DEF Shape, Locking, Critical, Launching
<1>5. Shaped' /\ cmd'[p] = c /\ \A q \in Commands \ {p} : cmd'[q] = cmd[q]
  BY <1>3, <1>4, Others DEF ManagedInv, CmdInv
<1>6. CmdInv'
  BY <1>1, <1>2, <1>3, <1>5 DEF CmdInv, LockTyped, LockOwned, Critical
<1>7. FilesTyped' /\ faults' \in Nat
  BY <1>1, <1>3 DEF ManagedInv, FilesTyped
<1>8. ProcTyped' /\ proc'[l] = "starting" /\ \A m \in Launches \ {l} : proc'[m] = proc[m]
  BY <1>1, <1>3 DEF ProcTyped
<1>10. KnownCurrent'
  BY <1>2, <1>3, <1>5 DEF KnownCurrent, ManagedInv
<1>12. l \notin returned /\ \A q \in Commands : ~Starts(q, l)
  BY <1>1, <1>3 DEF LaunchInv, LaunchesUsed
<1>13. \A q \in Commands, m \in Launches :
         Starts(q, m)' => (q = p /\ m = l) \/ (m # l /\ Starts(q, m))
  BY <1>2, <1>5, <1>12 DEF Starts
<1>14. ~Published(p)' /\ \A q \in Commands \ {p} : Published(q)' = Published(q)
  BY <1>2, <1>5 DEF Published
<1>15. OneStarter' /\ StarterFirst' /\ LaunchesUsed'
  BY <1>1, <1>3, <1>8, <1>12, <1>13
     DEF OneStarter, StarterFirst, LaunchesUsed, LaunchInv
<1>16. \A m \in Launches : Current(m)' => m = l \/ Current(m)
  BY <1>3, <1>8 DEF Current, Chrome
<1>17. \A q \in Commands, m \in Launches :
         Starts(q, m)' /\ Published(q)' => m # l /\ Starts(q, m) /\ Published(q)
  BY <1>13, <1>14
<1>18. \A s \in Commands : cmd'[s].pc = "reap" => cmd'[s] = cmd[s]
  BY <1>2, <1>5
<1>19. Registered' /\ SweepKeeps'
  BY <1>1, <1>3, <1>12, <1>16, <1>17, <1>18 DEF Registered, SweepKeeps, LaunchInv
<1>20. QED
  BY <1>6, <1>7, <1>8, <1>10, <1>15, <1>19 DEF ManagedInv, LaunchInv
\* The metadata of a launch is saved by the one start that has it, before it
\* is published and registered.
LEMMA SaveMetadataInv ==
  ASSUME ManagedInv, NEW p \in Commands, SaveMetadata(p) PROVE ManagedInv'
<1> DEFINE task == IF cmd[p].pc = "metadata" THEN "register" ELSE "publish"
           c == [cmd[p] EXCEPT !.pc = "want", !.task = task]
<1>1. /\ Shape(p, cmd[p]) /\ cmd[p] \in CommandRecords
      /\ LockTyped /\ LockOwned /\ FilesTyped /\ LaunchInv
  BY DEF ManagedInv, CmdInv, Shaped
<1>2. task \in {"register", "publish"}
  OBVIOUS
<1> HIDE DEF task
<1>3. /\ c \in CommandRecords /\ c.pc = "want" /\ c.task = task
      /\ c.own = cmd[p].own /\ c.try = cmd[p].try /\ c.todo = cmd[p].todo
  BY <1>1, <1>2 DEF CommandRecords
<1>4. /\ cmd[p].pc \in {"metadata", "metadata_port"}
      /\ cmd' = [cmd EXCEPT ![p] = c] /\ metadata' = cmd[p].own
      /\ UNCHANGED <<proc, port, registry, lock, returned, faults>>
  BY DEF SaveMetadata, ForLock, task, history
<1> HIDE DEF c
<1>5. p \in Starters /\ cmd[p].own \in Launches /\ Starts(p, cmd[p].own)
  BY <1>1, <1>4 DEF Shape, Launching, Starts
<1>6. Shape(p, c)
  BY <1>1, <1>2, <1>3, <1>5 DEF Shape, Locking, Critical, Launching
<1>7. Shaped' /\ cmd'[p] = c /\ \A q \in Commands \ {p} : cmd'[q] = cmd[q]
  BY <1>4, <1>6, Others DEF ManagedInv, CmdInv
<1>8. CmdInv'
  BY <1>1, <1>3, <1>4, <1>7 DEF CmdInv, LockTyped, LockOwned, Critical
<1>9. FilesTyped' /\ ProcTyped' /\ faults' \in Nat
  BY <1>4, <1>5 DEF ManagedInv, FilesTyped, ProcTyped
<1>10. KnownCurrent'
  BY <1>3, <1>4, <1>7 DEF KnownCurrent, ManagedInv
<1>11. \A q \in Commands, l \in Launches : Starts(q, l)' => Starts(q, l)
  BY <1>3, <1>4, <1>7 DEF Starts
<1>12. ~Published(p)' /\ \A q \in Commands \ {p} : Published(q)' => Published(q)
  BY <1>3, <1>7 DEF Published
<1>13. OneStarter' /\ StarterFirst' /\ LaunchesUsed'
  BY <1>4, <1>11 DEF OneStarter, StarterFirst, LaunchesUsed, ManagedInv, LaunchInv
<1>14. \A l \in Launches : Current(l)' => l = cmd[p].own
  BY <1>4 DEF Current
<1>15. cmd[p].own \notin returned
  BY <1>1, <1>5 DEF LaunchInv, StarterFirst
<1>16. ASSUME NEW l \in Launches, l = cmd[p].own, NEW q \in Commands,
              Starts(q, l)', Published(q)'
       PROVE  FALSE
  <2>1. Starts(q, l) /\ Starts(p, l)
    BY <1>5, <1>11, <1>16
  <2>2. q = p
    BY <1>1, <2>1 DEF LaunchInv, OneStarter
  <2>3. QED
    BY <1>12, <1>16, <2>2
<1>17. Registered' /\ SweepKeeps'
  BY <1>4, <1>14, <1>15, <1>16 DEF Registered, SweepKeeps
<1>18. QED
  BY <1>8, <1>9, <1>10, <1>13, <1>17 DEF ManagedInv, LaunchInv

\* A start returns the launch that it has published.
LEMMA ReturnInv ==
  ASSUME ManagedInv, NEW p \in Commands, Return(p) PROVE ManagedInv'
<1>1. /\ Shape(p, cmd[p]) /\ LockTyped /\ LockOwned /\ FilesTyped /\ LaunchInv
  BY DEF ManagedInv, CmdInv, Shaped
<1>2. /\ cmd[p].pc = "check" /\ cmd' = [cmd EXCEPT ![p] = Idle]
      /\ returned' = returned \cup {cmd[p].own}
      /\ UNCHANGED <<proc, port, metadata, registry, lock, faults>>
  BY DEF Return, Done, files
<1>3. p \in Starters /\ cmd[p].own \in Launches
      /\ Starts(p, cmd[p].own) /\ Published(p)
  BY <1>1, <1>2 DEF Shape, Launching, Starts, Published
<1>4. Shape(p, Idle) /\ Idle.pc = "idle" /\ Idle.own = None /\ Idle.todo = {}
  BY DEF Shape, Idle, CommandRecords, Locking, Critical, Launching
<1>5. Shaped' /\ cmd'[p] = Idle /\ \A q \in Commands \ {p} : cmd'[q] = cmd[q]
  BY <1>2, <1>4, Others DEF ManagedInv, CmdInv
<1>6. CmdInv'
  BY <1>1, <1>2, <1>4, <1>5 DEF CmdInv, LockTyped, LockOwned, Critical
<1>7. FilesTyped' /\ ProcTyped' /\ faults' \in Nat
  BY <1>2, <1>3 DEF ManagedInv, FilesTyped, ProcTyped
<1>8. KnownCurrent'
  BY <1>2, <1>4, <1>5 DEF KnownCurrent, ManagedInv
<1>9. \A q \in Commands, l \in Launches : Starts(q, l)' => q # p /\ Starts(q, l)
  BY <1>4, <1>5 DEF Starts
<1>10. \A q \in Commands \ {p} : Published(q)' => Published(q)
  BY <1>5 DEF Published
<1>11. OneStarter' /\ StarterFirst' /\ LaunchesUsed'
  BY <1>1, <1>2, <1>3, <1>9 DEF OneStarter, StarterFirst, LaunchesUsed, LaunchInv
<1>12. \A l \in Launches : Current(l)' => Current(l)
  BY <1>2 DEF Current, Chrome
<1>13. \A s \in Commands : cmd'[s].pc = "reap" => cmd'[s] = cmd[s]
  BY <1>4, <1>5
<1>14. \A q \in Commands, l \in Launches :
         Starts(q, l)' /\ Published(q)' => Starts(q, l) /\ Published(q)
  BY <1>9, <1>10
<1>15. \A l \in Launches : l \in returned' =>
         l \in returned \/ (Starts(p, l) /\ Published(p))
  BY <1>2, <1>3
<1>16. Registered'
  BY <1>1, <1>2, <1>12, <1>14, <1>15 DEF Registered, LaunchInv
<1>17. SweepKeeps'
  BY <1>1, <1>12, <1>13, <1>14, <1>15 DEF SweepKeeps, LaunchInv
<1>18. QED
  BY <1>6, <1>7, <1>8, <1>11, <1>16, <1>17 DEF ManagedInv, LaunchInv

\* Chrome becomes ready or exits, or a foreign process takes its id.
LEMMA ProcessInv ==
  ASSUME ManagedInv, NEW l \in Launches,
         ChromeReady(l) \/ ChromeExits(l) \/ ForeignTakes(l)
  PROVE  ManagedInv'
<1>1. /\ CmdInv /\ FilesTyped /\ ProcTyped /\ faults \in Nat
      /\ KnownCurrent /\ LaunchInv
  BY DEF ManagedInv
<1>2. UNCHANGED <<cmd, metadata, registry, lock, returned>>
  BY DEF ChromeReady, ChromeExits, ForeignTakes, files, history
<1>3. PICK state \in {"ready", "gone", "foreign"} :
        /\ proc' = [proc EXCEPT ![l] = state]
        /\ state = "ready" => proc[l] = "starting"
        /\ state = "gone" => Chrome(l)
        /\ state = "foreign" => proc[l] = "gone"
  BY DEF ChromeReady, ChromeExits, ForeignTakes
<1>4. ProcTyped' /\ proc'[l] = state /\ \A m \in Launches \ {l} : proc'[m] = proc[m]
  BY <1>1, <1>3 DEF ProcTyped
<1>5. FilesTyped' /\ faults' \in Nat
  <2>1. port' \in Launches \cup {None} /\ faults' \in Nat
    BY <1>1 DEF ChromeReady, ChromeExits, ForeignTakes, Fault, files, history,
       FilesTyped
  <2>2. QED
    BY <1>1, <1>2, <2>1 DEF FilesTyped
<1>6. CmdInv' /\ KnownCurrent'
  BY <1>1, <1>2 DEF CmdInv, Shaped, LockTyped, LockOwned, KnownCurrent
<1>7. \A m \in Launches : Chrome(m)' => Chrome(m)
  BY <1>3, <1>4 DEF Chrome
<1>8. \A m \in Launches : proc[m] \notin {"absent", "none"}
        => proc'[m] \notin {"absent", "none"}
  BY <1>4
<1>9. LaunchInv'
  BY <1>1, <1>2, <1>7, <1>8 DEF LaunchInv, OneStarter, StarterFirst, LaunchesUsed,
     Registered, SweepKeeps, Starts, Published, Current
<1>10. QED
  BY <1>4, <1>5, <1>6, <1>9 DEF ManagedInv
-----------------------------------------------------------------------------
\* Every step keeps the invariant.
LEMMA NextInv == ManagedInv /\ [Next]_vars => ManagedInv'
<1> SUFFICES ASSUME ManagedInv, [Next]_vars PROVE ManagedInv'
  OBVIOUS
<1>1. ASSUME NEW p \in Commands, RegistryStep(p) PROVE ManagedInv'
  BY <1>1, LookInv, SaveReconciledInv, SaveInv, SweepCalmInv DEF RegistryStep
<1>2. ASSUME NEW p \in Commands, StartStep(p) \/ Sweep(p) PROVE ManagedInv'
  BY <1>2, SaveMetadataInv, ReturnInv, LaunchStepInv, StartCalmInv DEF StartStep
<1>3. CASE UNCHANGED vars
  <2>1. UNCHANGED <<proc, port, metadata, registry, lock, cmd, returned, faults>>
    BY <1>3 DEF vars, history
  <2>2. CmdInv' /\ FilesTyped' /\ ProcTyped' /\ faults' \in Nat
    BY <2>1 DEF ManagedInv, CmdInv, Shaped, LockTyped, LockOwned, FilesTyped, ProcTyped
  <2>3. KnownCurrent' /\ LaunchInv'
    BY <2>1 DEF ManagedInv, KnownCurrent, LaunchInv, OneStarter, StarterFirst,
       LaunchesUsed, Registered, SweepKeeps, Starts, Published, Current, Chrome
  <2>4. QED
    BY <2>2, <2>3 DEF ManagedInv
<1>4. QED
  BY <1>1, <1>2, <1>3, LockStepInv, StopStepInv, ProcessInv DEF Next

LEMMA Always == Spec => []ManagedInv
BY InitInv, NextInv, PTL DEF Spec

\* What a stop has signalled as the root.
StruckInv == weak \subseteq Launches /\ struck \subseteq weak

LEMMA StruckStep == StruckInv /\ [Next]_vars => StruckInv'
<1> SUFFICES ASSUME StruckInv, [Next]_vars PROVE StruckInv'
  OBVIOUS
<1>1. ASSUME UNCHANGED <<weak, struck>> PROVE StruckInv'
  BY <1>1 DEF StruckInv
<1>2. ASSUME NEW p \in Commands, LockStep(p) PROVE UNCHANGED <<weak, struck>>
  BY <1>2 DEF LockStep, CreateLock, WriteLock, RemoveStaleLock, LockFails,
     LockAbandoned, Unlock, history
<1>3. ASSUME NEW p \in Commands, RegistryStep(p) PROVE UNCHANGED <<weak, struck>>
  BY <1>3 DEF RegistryStep, Look, LookFails, SaveReconciled, Load, Save, Reap,
     ReapFails, history
<1>4. ASSUME NEW p \in Commands, StartStep(p) \/ Sweep(p) \/ Crash(p)
      PROVE  UNCHANGED <<weak, struck>>
  BY <1>4 DEF StartStep, Ensure, LaunchFails, SaveMetadata, SaveMetadataFails,
     Terminate, WaitPort, WaitPortFails, Return, ReturnFails, ForceStop, GiveUp,
     ForceFails, Forced, Clear, Launch, ForceSignal, Sweep, Crash, history
<1>5. ASSUME NEW p \in Commands, StopSignals(p) PROVE StruckInv'
  <2>1. CASE Rechecked(cmd[p].own)
    <3>1. struck' = struck \cup ({cmd[p].own} \cap Taken) /\ weak' = weak
      BY <1>5, <2>1 DEF StopSignals
    <3>2. cmd[p].own \in Taken => cmd[p].own \in weak
      BY <2>1 DEF Rechecked, Taken, Chrome
    <3>3. QED
      BY <3>1, <3>2 DEF StruckInv
  <2>2. CASE ~Rechecked(cmd[p].own)
    BY <1>1, <1>5, <2>2 DEF StopSignals
  <2>3. QED
    BY <2>1, <2>2
<1>6. ASSUME NEW p \in Commands, StopStep(p), ~StopSignals(p)
      PROVE  UNCHANGED <<weak, struck>>
  BY <1>6 DEF StopStep, Stop, StopFails, StopAgain, Stopped, StopDescendant, history
<1>7. ASSUME NEW l \in Launches, ChromeReady(l) \/ ChromeExits(l) \/ ForeignTakes(l)
      PROVE  UNCHANGED <<weak, struck>>
  BY <1>7 DEF ChromeReady, ChromeExits, ForeignTakes, history
<1>8. CASE UNCHANGED vars
  BY <1>1, <1>8 DEF vars
<1>9. QED
  BY <1>1, <1>2, <1>3, <1>4, <1>5, <1>6, <1>7, <1>8 DEF Next

LEMMA Struck == Spec => []StruckInv
<1>1. Init => StruckInv
  BY DEF Init, StruckInv
<1>2. QED
  BY <1>1, StruckStep, PTL DEF Spec

\* The files, the processes and the commands keep their types, for any number
\* of commands, launches, attempts and faults (managed.go, the whole of it).
THEOREM Typed == Spec => []TypeOK
<1>1. ManagedInv /\ StruckInv => TypeOK
  BY DEF ManagedInv, CmdInv, Shaped, LockTyped, FilesTyped, ProcTyped, TypeOK,
     StruckInv
<1>2. QED
  BY <1>1, Always, Struck, PTL

\* A launch that was returned, that the metadata names and that still runs is
\* in the registry, although the metadata is written without the lock: it is
\* saved before the launch is registered, and a sweep that looked before that
\* has saved its registry by then (withManagedRegistryLock, managed.go:698).
THEOREM KeepsRegistered == Spec => []ReturnedIsRegistered
<1>1. ManagedInv => ReturnedIsRegistered
  BY DEF ManagedInv, LaunchInv, FilesTyped, Registered, Current, ReturnedIsRegistered
<1>2. QED
  BY <1>1, Always, PTL

\* A stop signals a foreign process as the root only if the identity of the
\* root is weak: whatever exits and whoever takes its id after the first check
\* and the listing, the second check tells them apart (StopManagedChrome).
THEOREM SparesForeign == Spec => []RootSpared
<1>1. StruckInv => RootSpared
  BY DEF StruckInv, RootSpared
<1>2. QED
  BY <1>1, Struck, PTL
-----------------------------------------------------------------------------
\* How many Chromes there are.  A start that is about to launch has seen no
\* live process; a sweep that ends several leaves one of them.
Opens(p) ==
  \/ cmd[p].pc = "launch"
  \/ /\ cmd[p].pc \in {"reap", "unlock"} /\ cmd[p].task = "reconcile"
     /\ cmd[p].live = {}

Spares(p) ==
  /\ cmd[p].pc = "reap" => cmd[p].live = {} \/ ~(cmd[p].live \subseteq cmd[p].todo)
  /\ cmd[p].pc = "save" => cmd[p].task # "reconcile"

Opening == {p \in Starters : Opens(p)}
Present == {p \in Starters : cmd[p].pc # "absent"}

Counted == Cardinality(Live) + Cardinality(Opening) <= Cardinality(Present)

CountInv == ManagedInv /\ Counted /\ \A p \in Commands : Spares(p)

\* A step of p that makes no launch possible.
Settles(p) ==
  /\ \A l \in Launches : Chrome(l)' => Chrome(l)
  /\ \A q \in Commands \ {p} : cmd'[q] = cmd[q]
  /\ cmd'[p].pc = "absent" <=> cmd[p].pc = "absent"
  /\ p \in Starters /\ Opens(p)' => Opens(p)
  /\ Spares(p)'

Fields == {"pc", "task", "try", "own", "known", "live", "todo"}

LEMMA FieldsOf ==
  ASSUME ManagedInv
  PROVE  /\ DOMAIN cmd = Commands /\ DOMAIN proc = Launches
         /\ \A p \in Commands : DOMAIN cmd[p] = Fields /\ Shape(p, cmd[p])
         /\ \A p \in Commands : cmd[p].task \in {"none", "reconcile", "register",
                                  "publish", "launch_failed", "stopped"}
BY DEF ManagedInv, CmdInv, Shaped, CommandRecords, Fields, ProcTyped

LEMMA KillSettles ==
  ASSUME ManagedInv, NEW l, Kill(l)
  PROVE  \A m \in Launches : Chrome(m)' => Chrome(m)
BY FieldsOf DEF Kill, After, Chrome

LEMMA TerminatedSettles ==
  ASSUME ManagedInv, NEW p \in Commands, cmd[p].own \in Launches, Terminated(p)
  PROVE  \A m \in Launches : Chrome(m)' => Chrome(m)
BY FieldsOf DEF Terminated, Chrome

LEMMA ResumeSettles ==
  ASSUME ManagedInv, NEW p \in Commands, Spares(p), NEW ok \in BOOLEAN, Resume(p, ok),
         cmd[p].pc \in {"want", "write", "hold", "unlock"},
         ok => cmd[p].pc = "unlock", proc' = proc
  PROVE  Settles(p)
<1>1. /\ DOMAIN cmd = Commands /\ DOMAIN cmd[p] = Fields
      /\ Shape(p, cmd[p])
      /\ cmd[p].task \in {"none", "reconcile", "register",
                          "publish", "launch_failed", "stopped"}
  BY FieldsOf
<1>2. \A l \in Launches : Chrome(l)' => Chrome(l)
  BY DEF Chrome
<1> USE <1>1, <1>2 DEF Settles, Opens, Spares, Fields
<1>3. CASE p \notin Starters
  BY <1>3 DEF Resume, Done, Idle
<1>4. CASE p \in Starters /\ cmd[p].task = "reconcile"
  <2>1. cmd' = [cmd EXCEPT
                ![p].pc = IF ok /\ cmd[p].live = {} THEN "launch" ELSE "failed",
                ![p].live = {}]
    BY <1>4 DEF Resume
  <2>2. CASE ok /\ cmd[p].live = {}
    BY <1>4, <2>1, <2>2
  <2>3. CASE ~(ok /\ cmd[p].live = {})
    BY <1>4, <2>1, <2>3
  <2>4. QED
    BY <2>2, <2>3
<1>5. CASE p \in Starters /\ cmd[p].task = "register"
  BY <1>5 DEF Resume, Goto
<1>6. CASE p \in Starters /\ cmd[p].task = "publish"
  BY <1>6 DEF Resume, Goto
<1>7. CASE p \in Starters /\ cmd[p].task = "launch_failed"
  BY <1>7 DEF Resume
<1>8. CASE p \in Starters /\ cmd[p].task = "stopped"
  BY <1>8 DEF Resume, Goto
<1>9. QED
  BY <1>3, <1>4, <1>5, <1>6, <1>7, <1>8 DEF Shape, Locking, Critical

LEMMA LockSettles ==
  ASSUME ManagedInv, NEW p \in Commands, Spares(p), LockStep(p)
  PROVE  Settles(p)
<1>1. DOMAIN cmd = Commands /\ DOMAIN cmd[p] = Fields
  BY FieldsOf
<1>2. CASE CreateLock(p) \/ WriteLock(p) \/ RemoveStaleLock(p)
  BY <1>1, <1>2 DEF CreateLock, WriteLock, RemoveStaleLock, Goto, Settles, Opens,
     Spares, Fields, Chrome
<1>3. CASE LockFails(p) \/ LockAbandoned(p)
  BY <1>3, ResumeSettles DEF LockFails, LockAbandoned
<1>4. CASE Unlock(p)
  BY <1>4, ResumeSettles DEF Unlock
<1>5. QED
  BY <1>2, <1>3, <1>4 DEF LockStep

LEMMA RegistrySettles ==
  ASSUME ManagedInv, NEW p \in Commands, Spares(p), RegistryStep(p), ~Look(p)
  PROVE  Settles(p)
<1>1. DOMAIN cmd = Commands /\ DOMAIN cmd[p] = Fields
  BY FieldsOf
<1> USE <1>1 DEF Settles, Opens, Spares, Fields
<1>2. CASE LookFails(p)
  BY <1>2, ResumeSettles DEF LookFails
<1>3. CASE SaveReconciled(p)
  BY <1>3 DEF SaveReconciled, Chrome
<1>4. CASE Load(p)
  BY <1>4 DEF Load, Chrome
<1>5. CASE Save(p)
  BY <1>5 DEF Save, Chrome
<1>6. ASSUME NEW l \in Launches, Reap(p, l)
      PROVE  Settles(p)
  <2>1. \A m \in Launches : Chrome(m)' => Chrome(m)
    BY <1>6, KillSettles DEF Reap
  <2>2. /\ cmd[p].pc = "reap" /\ l \in cmd[p].todo
        /\ cmd' = [cmd EXCEPT ![p].todo = @ \ {l}, ![p].live = @ \ {l}]
    BY <1>6 DEF Reap
  <2>3. /\ cmd'[p].pc = "reap" /\ cmd'[p].task = cmd[p].task
        /\ cmd'[p].todo = cmd[p].todo \ {l} /\ cmd'[p].live = cmd[p].live \ {l}
        /\ \A q \in Commands \ {p} : cmd'[q] = cmd[q]
    BY <2>2
  <2>4. cmd[p].live = {} \/ \E m \in cmd[p].live : m \notin cmd[p].todo
    BY <2>2
  <2>5. cmd'[p].live = {} => cmd[p].live = {}
    BY <2>2, <2>3, <2>4
  <2>6. QED
    BY <2>1, <2>2, <2>3, <2>4, <2>5
<1>7. ASSUME NEW l \in Launches, ReapFails(p, l)
      PROVE  Settles(p)
  BY <1>7 DEF ReapFails, Chrome
<1>8. QED
  BY <1>2, <1>3, <1>4, <1>5, <1>6, <1>7 DEF RegistryStep

LEMMA StartSettles ==
  ASSUME ManagedInv, NEW p \in Commands, Spares(p), StartStep(p),
         \A l \in Launches : ~Launch(p, l)
  PROVE  Settles(p)
<1>1. /\ DOMAIN cmd = Commands /\ DOMAIN cmd[p] = Fields
      /\ Shape(p, cmd[p])
  BY FieldsOf
<1> USE <1>1 DEF Settles, Opens, Spares, Fields
<1>2. CASE Ensure(p) \/ LaunchFails(p) \/ SaveMetadata(p) \/ SaveMetadataFails(p)
  BY <1>2 DEF Ensure, LaunchFails, SaveMetadata, SaveMetadataFails, ForLock, Goto,
     Chrome
<1>3. CASE Terminate(p) \/ WaitPortFails(p)
  <2>1. \A m \in Launches : Chrome(m)' => Chrome(m)
    BY <1>3, TerminatedSettles DEF Terminate, WaitPortFails, Shape, Launching
  <2>2. QED
    BY <1>3, <2>1 DEF Terminate, WaitPortFails, ForLock
<1>4. CASE WaitPort(p) \/ Return(p) \/ ReturnFails(p)
  BY <1>4 DEF WaitPort, Return, ReturnFails, ForLock, Goto, Done, Idle, Chrome
<1>5. CASE ForceStop(p) \/ GiveUp(p) \/ ForceFails(p) \/ Forced(p) \/ Clear(p)
  <2>1. CASE ForceStop(p) \/ ForceFails(p)
    BY <2>1 DEF ForceStop, ForceFails, Chrome
  <2>2. CASE GiveUp(p) \/ Forced(p)
    BY <2>2 DEF GiveUp, Forced, Goto, Done, Idle, Chrome
  <2>3. CASE Clear(p)
    BY <2>3 DEF Clear, Idle, Chrome
  <2>4. QED
    BY <1>5, <2>1, <2>2, <2>3
<1>6. ASSUME NEW l \in Launches, ForceSignal(p, l)
      PROVE  Settles(p)
  <2>1. \A m \in Launches : Chrome(m)' => Chrome(m)
    BY <1>6, KillSettles DEF ForceSignal
  <2>2. QED
    BY <1>6, <2>1 DEF ForceSignal
<1>7. QED
  BY <1>2, <1>3, <1>4, <1>5, <1>6 DEF StartStep

LEMMA StopSettles ==
  ASSUME ManagedInv, NEW p \in Commands, Spares(p),
         StopStep(p) \/ Sweep(p) \/ Crash(p)
  PROVE  Settles(p)
<1>1. /\ DOMAIN cmd = Commands /\ DOMAIN cmd[p] = Fields
  BY FieldsOf
<1> USE <1>1 DEF Settles, Opens, Spares, Fields
<1>2. CASE Sweep(p) \/ Crash(p)
  BY <1>2 DEF Sweep, Crash, ForLock, Done, Idle, Chrome
<1>3. CASE Stop(p) \/ StopFails(p) \/ StopAgain(p) \/ Stopped(p)
  BY <1>3 DEF Stop, StopFails, StopAgain, Stopped, ForLock, Done, Idle, Chrome
<1>4. CASE StopSignals(p)
  <2>1. \A m \in Launches : Chrome(m)' => Chrome(m)
    BY <1>4, KillSettles DEF StopSignals, Rechecked, Chrome
  <2>2. QED
    BY <1>4, <2>1 DEF StopSignals, Goto, Done, Idle
<1>5. ASSUME NEW l \in Launches, StopDescendant(p, l)
      PROVE  Settles(p)
  <2>1. \A m \in Launches : Chrome(m)' => Chrome(m)
    BY <1>5, KillSettles DEF StopDescendant
  <2>2. QED
    BY <1>5, <2>1 DEF StopDescendant
<1>6. QED
  BY <1>2, <1>3, <1>4, <1>5 DEF StopStep

\* The sets are finite, and smaller ones count for less.
LEMMA Finite ==
  ASSUME IsFiniteSet(Starters)
  PROVE  /\ IsFiniteSet(Live) /\ IsFiniteSet(Opening) /\ IsFiniteSet(Present)
         /\ Cardinality(Live) \in Nat /\ Cardinality(Opening) \in Nat
         /\ Cardinality(Present) \in Nat
<1>1. IsFiniteSet(Launches)
  BY FS_Interval DEF Launches
<1>2. Live \subseteq Launches /\ Opening \subseteq Starters /\ Present \subseteq Starters
  BY DEF Live, Opening, Present
<1>3. IsFiniteSet(Live) /\ IsFiniteSet(Opening) /\ IsFiniteSet(Present)
  BY <1>1, <1>2, FS_Subset
<1>4. QED
  BY <1>3, FS_CardinalityType

LEMMA FewerCounted ==
  ASSUME IsFiniteSet(Starters), Counted, Live' \subseteq Live,
         Opening' \subseteq Opening, Present' = Present
  PROVE  Counted'
<1>1. Cardinality(Live') <= Cardinality(Live)
      /\ Cardinality(Opening') <= Cardinality(Opening)
  BY Finite, FS_Subset
<1>2. IsFiniteSet(Live') /\ IsFiniteSet(Opening')
  BY Finite, FS_Subset
<1>3. Cardinality(Live') \in Nat /\ Cardinality(Opening') \in Nat
  BY <1>2, FS_CardinalityType
<1>4. QED
  BY <1>1, <1>3, Finite DEF Counted

LEMMA SettlesCounted ==
  ASSUME IsFiniteSet(Starters), CountInv, NEW p \in Commands, Settles(p)
  PROVE  Counted' /\ \A q \in Commands : Spares(q)'
<1>1. Live' \subseteq Live
  BY DEF Live, Settles
<1>2. Opening' \subseteq Opening /\ Present' = Present
  <2>1. \A q \in Starters : (Opens(q)' => Opens(q))
          /\ (cmd'[q].pc = "absent" <=> cmd[q].pc = "absent")
    BY DEF Settles, Opens
  <2>2. QED
    BY <2>1 DEF Opening, Present
<1>3. \A q \in Commands : Spares(q)'
  BY DEF Settles, Spares, CountInv
<1>4. QED
  BY <1>1, <1>2, <1>3, FewerCounted DEF CountInv

\* A start that sees no live process opens; then none is counted but the starts.
LEMMA LookCounted ==
  ASSUME IsFiniteSet(Starters), CountInv, NEW p \in Commands, Look(p)
  PROVE  Counted' /\ \A q \in Commands : Spares(q)'
<1>1. ManagedInv /\ Counted /\ \A q \in Commands : Spares(q)
  BY DEF CountInv
<1>2. DOMAIN cmd = Commands /\ DOMAIN cmd[p] = Fields
  BY <1>1, FieldsOf
<1>3. PICK todo \in IF Cardinality(Live) > 1 THEN Extras(Live) ELSE {{}} :
        cmd' = [cmd EXCEPT ![p].pc = "reap",
                           ![p].known = registry \cup ({metadata} \ {None}),
                           ![p].own = IF metadata \in Live THEN metadata
                                      ELSE None,
                           ![p].live = Live, ![p].todo = todo]
  BY DEF Look, ListProcesses
<1>4. /\ cmd'[p].pc = "reap" /\ cmd'[p].live = Live /\ cmd'[p].todo = todo
      /\ cmd'[p].task = "reconcile" /\ cmd[p].pc = "hold"
      /\ \A q \in Commands \ {p} : cmd'[q] = cmd[q]
  BY <1>2, <1>3 DEF Look, Fields
<1>5. Live' = Live
  BY DEF Look, Live, Chrome
<1>6. Live = {} \/ ~(Live \subseteq todo)
  BY <1>3 DEF Extras
<1>7. \A q \in Commands : Spares(q)'
  BY <1>1, <1>4, <1>6 DEF Spares
<1>8. Present' = Present
  BY <1>4 DEF Present
<1>9. CASE Live = {}
  <2>1. Opening' \subseteq Present'
    <3>1. \A q \in Starters : Opens(q)' => cmd'[q].pc # "absent"
      BY DEF Opens
    <3>2. QED
      BY <3>1 DEF Opening, Present
  <2>2. Cardinality(Opening') <= Cardinality(Present) /\ IsFiniteSet(Opening')
    BY <1>8, <2>1, Finite, FS_Subset
  <2>3. Cardinality(Live') = 0
    BY <1>5, <1>9, FS_EmptySet
  <2>4. Cardinality(Opening') \in Nat
    BY <2>2, FS_CardinalityType
  <2>5. Cardinality(Live') + Cardinality(Opening') <= Cardinality(Present')
    BY <1>8, <2>2, <2>3, <2>4, Finite
  <2>6. QED
    BY <1>7, <2>5 DEF Counted
<1>10. CASE Live # {}
  <2>1. \A q \in Starters : Opens(q)' => Opens(q)
    BY <1>4, <1>10 DEF Opens
  <2>2. Opening' \subseteq Opening
    BY <2>1 DEF Opening
  <2>3. QED
    BY <1>1, <1>5, <1>7, <1>8, <2>2, FewerCounted
<1>11. QED
  BY <1>9, <1>10

\* A launch takes the place of the start that was about to make it.
LEMMA LaunchCounted ==
  ASSUME IsFiniteSet(Starters), CountInv, NEW p \in Commands, NEW l \in Launches,
         Launch(p, l)
  PROVE  Counted' /\ \A q \in Commands : Spares(q)'
<1>1. ManagedInv /\ Counted /\ \A q \in Commands : Spares(q)
  BY DEF CountInv
<1>2. DOMAIN cmd = Commands /\ DOMAIN cmd[p] = Fields /\ Shape(p, cmd[p])
      /\ DOMAIN proc = Launches
  BY <1>1, FieldsOf
<1>3. /\ cmd[p].pc = "launch" /\ cmd'[p].pc = "metadata" /\ p \in Starters
      /\ \A q \in Commands \ {p} : cmd'[q] = cmd[q]
  BY <1>2 DEF Launch, Fields, Shape
<1>4. Live' = Live \cup {l} /\ l \notin Live
  <2>1. proc'[l] = "starting" /\ proc[l] = "none"
        /\ \A m \in Launches \ {l} : proc'[m] = proc[m]
    BY <1>2 DEF Launch
  <2>2. QED
    BY <2>1 DEF Live, Chrome
<1>5. Opening' = Opening \ {p} /\ p \in Opening
  <2>1. Opens(p) /\ ~Opens(p)' /\ \A q \in Starters \ {p} : Opens(q)' <=> Opens(q)
    BY <1>3 DEF Opens
  <2>2. QED
    BY <1>3, <2>1 DEF Opening
<1>6. Present' = Present
  BY <1>3 DEF Present
<1>7. Cardinality(Live') = Cardinality(Live) + 1
  BY <1>4, Finite, FS_AddElement
<1>8. Cardinality(Opening') = Cardinality(Opening) - 1
  BY <1>5, Finite, FS_RemoveElement
<1>9. Counted'
  BY <1>1, <1>6, <1>7, <1>8, Finite DEF Counted
<1>10. \A q \in Commands : Spares(q)'
  BY <1>1, <1>3 DEF Spares
<1>11. QED
  BY <1>9, <1>10

LEMMA CountStep ==
  ASSUME IsFiniteSet(Starters), CountInv, [Next]_vars
  PROVE  CountInv'
<1>1. ManagedInv /\ \A q \in Commands : Spares(q)
  BY DEF CountInv
<1>2. ManagedInv'
  BY <1>1, NextInv
<1>3. Counted' /\ \A q \in Commands : Spares(q)'
  <2>1. ASSUME NEW p \in Commands,
               LockStep(p) \/ RegistryStep(p) \/ Sweep(p) \/ StartStep(p)
                 \/ StopStep(p) \/ Crash(p)
        PROVE  Counted' /\ \A q \in Commands : Spares(q)'
    <3>1. CASE Look(p)
      BY <3>1, LookCounted
    <3>2. CASE \E l \in Launches : Launch(p, l)
      BY <3>2, LaunchCounted
    <3>3. CASE ~Look(p) /\ \A l \in Launches : ~Launch(p, l)
      <4>1. Settles(p)
        BY <1>1, <2>1, <3>3, LockSettles, RegistrySettles, StartSettles, StopSettles
      <4>2. QED
        BY <4>1, SettlesCounted
    <3>4. QED
      BY <3>1, <3>2, <3>3
  <2>2. ASSUME NEW l \in Launches,
               ChromeReady(l) \/ ChromeExits(l) \/ ForeignTakes(l)
        PROVE  Counted' /\ \A q \in Commands : Spares(q)'
    <3>1. cmd' = cmd /\ \A m \in Launches : Chrome(m)' => Chrome(m)
      BY <1>1, <2>2, FieldsOf DEF ChromeReady, ChromeExits, ForeignTakes, Chrome
    <3>2. Live' \subseteq Live
      BY <3>1 DEF Live
    <3>3. Opening' = Opening /\ Present' = Present /\ \A q \in Commands : Spares(q)'
      BY <1>1, <3>1 DEF Opening, Present, Opens, Spares
    <3>4. QED
      BY <3>2, <3>3, FewerCounted DEF CountInv
  <2>3. CASE UNCHANGED vars
    <3>1. Live' = Live /\ Opening' = Opening /\ Present' = Present
          /\ \A q \in Commands : Spares(q)'
      BY <1>1, <2>3 DEF vars, Live, Chrome, Opening, Present, Opens, Spares
    <3>2. QED
      BY <3>1, FewerCounted DEF CountInv
  <2>4. QED
    BY <2>1, <2>2, <2>3 DEF Next
<1>4. QED
  BY <1>2, <1>3 DEF CountInv

\* There are never more Chromes on the managed profile than starts that run
\* side by side, whatever crashes, exits or is swept (NoMoreThanStarts): every
\* launch follows a look at the process table that showed no Chrome
\* (StartManagedChrome refuses when LiveCount is not zero), and since that look
\* only the other starts that had looked, too, can have launched one.
THEOREM NeverMoreChromes ==
  ASSUME IsFiniteSet(Starters)
  PROVE  Spec => []NoMoreThanStarts
<1>1. ASSUME Init
      PROVE  CountInv
  <2>1. ManagedInv
    BY <1>1, InitInv
  <2>2. \A l \in Launches : ~Chrome(l)
    BY <1>1 DEF Init, Chrome
  <2>3. \A p \in Commands : cmd[p].pc \in {"idle", "absent"}
    BY <1>1 DEF Init, Idle
  <2>4. Live = {} /\ Opening = {} /\ \A p \in Commands : Spares(p)
    BY <2>2, <2>3 DEF Live, Opening, Opens, Spares
  <2>5. Counted
    BY <2>4, FS_EmptySet, Finite DEF Counted
  <2>6. QED
    BY <2>1, <2>4, <2>5 DEF CountInv
<1>2. CountInv /\ [Next]_vars => CountInv'
  BY CountStep
<1>3. CountInv => NoMoreThanStarts
  BY Finite DEF CountInv, Counted, Present, NoMoreThanStarts
<1>4. QED
  BY <1>1, <1>2, <1>3, PTL DEF Spec
=============================================================================
