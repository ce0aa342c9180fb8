--------------------------- MODULE DaemonRuntime ---------------------------
(***************************************************************************)
(* The daemon of one browser mode: hold processes that keep a connection   *)
(* to the browser, the runtime file that names one of them, the path of    *)
(* their socket, and the commands that start, stop and repair the daemon   *)
(* and reap orphaned holds (daemon/runtime.go, daemon/hold_reconcile.go,   *)
(* the keepalive command of cli/daemon_commands.go).                       *)
(*                                                                         *)
(* The file and the path are shared by name: each is read in one system    *)
(* call and removed in another.  What may come in between depends on the   *)
(* setting: whether holds reconnect, commands overlap and commands are     *)
(* killed.                                                                 *)
(***************************************************************************)
EXTENDS Naturals, FiniteSets

CONSTANTS
  Holds,        \* identities of hold processes, reused once forgotten
  Commands,
  None,
  MaxFaults,    \* bound of what goes wrong in one behaviour
  MaxBrowser,   \* browsers after the first, each with an endpoint of its own
  Settings

Hazards == {"reconnect", "overlap", "deaths"}

ASSUME RuntimeAssumption ==
  /\ None \notin Holds \cup Commands
  /\ MaxFaults \in Nat /\ MaxBrowser \in Nat
  /\ Settings \subseteq SUBSET Hazards

VARIABLES
  file,         \* the hold named by the runtime file, or None
  socket,       \* the hold whose listener the socket path names, or None
  pc,           \* where each hold is; see HoldStates
  dials,        \* the endpoint each hold was given
  told,         \* holds that were interrupted
  cmd,          \* what each command does
  browser,      \* the browser that runs now, by the number of its endpoint
  faults,       \* how many faults there were
  setting,      \* what this behaviour allows; never changes
  kept          \* history: holds that failed to remove the file that names them

vars == <<file, socket, pc, dials, told, cmd, browser, faults, setting, kept>>

HoldStates ==
  {"unborn", "top", "dial", "unlink", "bind", "save", "serve",
   "remove", "close", "clear", "clearing", "wait", "leaving", "dead"}

CommandStates ==
  {"idle", "status", "start", "await", "stop", "interrupt", "stopping",
   "clear", "clearing", "unlink", "reload", "spawn", "watch",
   "reap", "scan", "recheck", "signal"}

\* seen is the hold the command has loaded or started, after what follows when
\* that is stopped and cleared, victim the hold it is about to reap.
CommandRecords ==
  [at : CommandStates, op : {"start", "stop", "repair"}, want : 0 .. MaxBrowser,
   seen : Holds \cup {None},
   after : {"end", "spawn", "reload", "start", "abandon"},
   victim : Holds \cup {None}]

Idle == [at |-> "idle", op |-> "stop", want |-> 0, seen |-> None,
         after |-> "end", victim |-> None]

Init ==
  /\ file = None /\ socket = None
  /\ pc = [h \in Holds |-> "unborn"]
  /\ dials = [h \in Holds |-> 0]
  /\ told = {}
  /\ cmd = [c \in Commands |-> Idle]
  /\ browser = 0 /\ faults = 0
  /\ setting \in Settings /\ kept = {}

Alive(h) == pc[h] \notin {"unborn", "dead"}
\* The runtime file names a process that runs.
Running == file # None /\ Alive(file)

\* The listener of h is open from its bind to its close.
Listening(h) == pc[h] \in {"save", "serve", "remove", "close"}

\* RuntimeSocketReady asks the path, not the process the file names.
SocketReady == socket # None /\ Listening(socket)

Fault == faults < MaxFaults /\ faults' = faults + 1
NoFault == faults' = faults

Goto(h, label) == pc' = [pc EXCEPT ![h] = label]

-----------------------------------------------------------------------------
(***************************************************************************)
(* A hold process: holdWithOptions and holdConnection.                     *)
(***************************************************************************)
\* Variant: an older hold does not look whether it was replaced.
NeverReplaced(h) == FALSE

\* holdHasReplacementRuntime.
HasReplacement(h) == Running /\ file # h

\* ClearRuntimeForMode is deferred to the end of the process.  It finds the file
\* to be the hold's own only if an earlier call has failed.
End(h) == IF file = h THEN "leaving" ELSE "dead"

Top(h) ==
  /\ pc[h] = "top"
  /\ Goto(h, IF h \notin told /\ HasReplacement(h) THEN End(h) ELSE "dial")
  /\ UNCHANGED <<file, socket, dials, told, cmd, browser, faults, setting, kept>>

\* What a hold without a connection does: it waits, or it ends (no reconnect
\* interval).  An interrupted one ends.
WithoutConnection(h) ==
  IF "reconnect" \in setting /\ h \notin told THEN "wait" ELSE End(h)

Dial(h) ==
  /\ pc[h] = "dial" /\ h \notin told /\ dials[h] = browser
  /\ Goto(h, "unlink")
  /\ UNCHANGED <<file, socket, dials, told, cmd, browser, faults, setting, kept>>

DialFails(h) ==
  /\ pc[h] = "dial"
  /\ IF h \in told \/ dials[h] # browser THEN NoFault ELSE Fault
  /\ Goto(h, WithoutConnection(h))
  /\ UNCHANGED <<file, socket, dials, told, cmd, browser, setting, kept>>

\* The desktop is locked, or the approval was rejected.
DialRefused(h) ==
  /\ pc[h] = "dial" /\ Fault
  /\ Goto(h, End(h))
  /\ UNCHANGED <<file, socket, dials, told, cmd, browser, setting, kept>>

\* listenRuntimeSocket removes what the path names and binds it; ...
UnlinkOld(h) ==
  /\ pc[h] = "unlink"
  /\ socket' = None
  /\ Goto(h, "bind")
  /\ UNCHANGED <<file, dials, told, cmd, browser, faults, setting, kept>>

\* ... when somebody else was faster, the address is in use.
Bind(h) ==
  /\ pc[h] = "bind"
  /\ IF socket = None
     THEN socket' = h /\ Goto(h, "save")
     ELSE UNCHANGED socket /\ Goto(h, "clear")
  /\ UNCHANGED <<file, dials, told, cmd, browser, faults, setting, kept>>

SaveRuntime(h) ==
  /\ pc[h] = "save" /\ h \notin told
  /\ file' = h /\ kept' = kept \ {h}
  /\ Goto(h, "serve")
  /\ UNCHANGED <<socket, dials, told, cmd, browser, faults, setting>>

\* An interrupted hold does not save; reading the ledger or writing may fail.
SaveFails(h) ==
  /\ pc[h] = "save"
  /\ IF h \in told THEN NoFault ELSE Fault
  /\ Goto(h, "remove")
  /\ UNCHANGED <<file, socket, dials, told, cmd, browser, setting, kept>>

\* keepAlive returns: interrupted, the transport ended, or three heartbeats
\* failed.
StopServing(h) ==
  /\ pc[h] = "serve"
  /\ IF h \in told \/ dials[h] # browser THEN NoFault ELSE Fault
  /\ Goto(h, "remove")
  /\ UNCHANGED <<file, socket, dials, told, cmd, browser, setting, kept>>

\* The deferred os.Remove and the close of the listener (in either order: the
\* end of the context closes it too) unlink the path, whoever's socket it names.
RemoveSocket(h) ==
  /\ pc[h] = "remove"
  /\ socket' = None
  /\ Goto(h, "close")
  /\ UNCHANGED <<file, dials, told, cmd, browser, faults, setting, kept>>

CloseListener(h) ==
  /\ pc[h] = "close"
  /\ socket' = None
  /\ Goto(h, "clear")
  /\ UNCHANGED <<file, dials, told, cmd, browser, faults, setting, kept>>

\* Variant: a hold whose connection ended leaves its runtime file.
KeepOwn(h) ==
  /\ pc[h] = "clear"
  /\ Goto(h, WithoutConnection(h))
  /\ UNCHANGED <<file, socket, dials, told, cmd, browser, faults, setting, kept>>

\* ClearRuntimeForMode with its own pid, ...
ClearOwn(h) ==
  /\ pc[h] = "clear"
  /\ Goto(h, IF file = h THEN "clearing" ELSE WithoutConnection(h))
  /\ UNCHANGED <<file, socket, dials, told, cmd, browser, faults, setting, kept>>

RemoveFile(h) ==
  /\ pc[h] \in {"clearing", "leaving"}
  /\ file' = None
  /\ Goto(h, IF pc[h] = "clearing" /\ WithoutConnection(h) = "wait"
             THEN "wait" ELSE "dead")
  /\ UNCHANGED <<socket, dials, told, cmd, browser, faults, setting, kept>>

\* ... whose failure nobody looks at.
ClearFails(h) ==
  /\ pc[h] \in {"clear", "clearing", "leaving"} /\ Fault
  /\ kept' = kept \cup {h}
  /\ Goto(h, IF pc[h] = "leaving" THEN "dead" ELSE WithoutConnection(h))
  /\ UNCHANGED <<file, socket, dials, told, cmd, browser, setting>>

Wait(h) ==
  /\ pc[h] = "wait"
  /\ Goto(h, IF h \in told THEN End(h) ELSE "top")
  /\ UNCHANGED <<file, socket, dials, told, cmd, browser, faults, setting, kept>>

HoldStep(h) ==
  \/ Top(h) \/ Dial(h) \/ UnlinkOld(h) \/ Bind(h) \/ SaveRuntime(h)
  \/ RemoveSocket(h) \/ CloseListener(h) \/ ClearOwn(h) \/ RemoveFile(h)
  \/ Wait(h)

\* Steps that a hold takes because something ended.
HoldEnds(h) ==
  \/ DialFails(h) \/ DialRefused(h) \/ SaveFails(h) \/ StopServing(h)
  \/ ClearFails(h)

\* The process is gone; its listener with it, the path and the file stay.
Killed(h) == pc' = [pc EXCEPT ![h] = "dead"]

HoldCrashes(h) ==
  /\ Alive(h) /\ Fault /\ Killed(h)
  /\ UNCHANGED <<file, socket, dials, told, cmd, browser, setting, kept>>

\* A process number that nothing remembers can be given to a new process.
Forget(h) ==
  /\ pc[h] = "dead" /\ file # h /\ socket # h
  /\ \A c \in Commands : cmd[c].seen # h /\ cmd[c].victim # h
  /\ Goto(h, "unborn")
  /\ told' = told \ {h} /\ kept' = kept \ {h}
  /\ dials' = [dials EXCEPT ![h] = 0]
  /\ UNCHANGED <<file, socket, cmd, browser, faults, setting>>

BrowserRestarts ==
  /\ browser < MaxBrowser /\ Fault
  /\ browser' = browser + 1
  /\ UNCHANGED <<file, socket, pc, dials, told, cmd, setting, kept>>

-----------------------------------------------------------------------------
(***************************************************************************)
(* Commands.  Errors and deadlines end one; so does being killed.          *)
(***************************************************************************)
holds == <<pc, dials, told>>
world == <<browser, setting, kept>>

Set(c, record) == cmd' = [cmd EXCEPT ![c] = record]
At(c, label) == Set(c, [cmd[c] EXCEPT !.at = label])
Loads(c, h, label) == Set(c, [cmd[c] EXCEPT !.at = label, !.seen = h])
Return(c) == Set(c, Idle)
Runs(c, label) == cmd[c].at = label

\* The keepalive lock lets one repair run at a time; nothing else is locked.
MayBegin(op) ==
  /\ "overlap" \in setting \/ \A d \in Commands : Runs(d, "idle")
  /\ op = "repair" => \A d \in Commands : cmd[d].op # "repair"

\* The user stops or starts the daemon now and then; cron repairs it.
Begin(c, op, label) ==
  /\ Runs(c, "idle") /\ MayBegin(op)
  /\ Set(c, [Idle EXCEPT !.at = label, !.op = op, !.want = browser])
  /\ UNCHANGED <<file, socket, holds, world>>

BeginRepair(c) == Begin(c, "repair", "status") /\ NoFault
BeginStart(c) == Begin(c, "start", "start") /\ Fault
BeginStop(c) == Begin(c, "stop", "stop") /\ Fault

\* Its context ends, a process identity cannot be verified, a file cannot be
\* read or removed.  A launch that fails is cleaned up first, whatever the
\* context; whether its file could be removed nobody looks at.
GiveUp(c) ==
  /\ cmd[c].at \notin {"idle", "watch"} /\ Fault
  /\ Return(c)
  /\ UNCHANGED <<file, socket, holds, world>>

CommandKilled(c) ==
  /\ "deaths" \in setting /\ ~Runs(c, "idle") /\ Fault
  /\ Return(c)
  /\ UNCHANGED <<file, socket, holds, world>>

\* What a command does when the runtime it wants is there.
Reached(c) == IF cmd[c].op = "repair" THEN At(c, "reap") ELSE Return(c)

\* daemonStatus and keepaliveRuntimeCheck: a runtime whose process or socket is
\* missing is left to StartKeepAlive, one that does not answer is stopped.
CheckStatus(c) ==
  /\ Runs(c, "status")
  /\ IF Running /\ SocketReady
     THEN \/ pc[socket] = "serve" /\ At(c, "reap") /\ NoFault
          \/ /\ Set(c, [cmd[c] EXCEPT !.at = "stop", !.after = "start"])
             /\ IF pc[socket] = "serve" THEN Fault ELSE NoFault
     ELSE At(c, "start") /\ NoFault
  /\ UNCHANGED <<file, socket, holds, world>>

-----------------------------------------------------------------------------
(***************************************************************************)
(* StartKeepAliveForModeWithMetadata.                                      *)
(***************************************************************************)
Matches(c, h) == dials[h] = cmd[c].want

\* Variant: a runtime whose socket is not ready counts as gone.
StartIfUnready(c) ==
  /\ Runs(c, "start")
  /\ IF Running /\ SocketReady THEN Reached(c) ELSE At(c, "spawn")
  /\ UNCHANGED <<file, socket, holds, world, faults>>

\* The number of a process that is gone may be another process's by now.
StartLoads(c) ==
  /\ Runs(c, "start")
  /\ \/ ~Running /\ At(c, "spawn")
     \/ /\ file # None /\ ~(Running /\ Matches(c, file))
        /\ Set(c, [cmd[c] EXCEPT !.at = "stop", !.after = "spawn"])
     \/ /\ Running /\ Matches(c, file)
        /\ IF SocketReady THEN Reached(c) ELSE Loads(c, file, "await")
  /\ UNCHANGED <<file, socket, holds, world, faults>>

\* waitForRuntimeSocket ends when the process is gone; with a process that
\* stays and a socket that does not come, the deadline ends it.
Await(c) ==
  /\ Runs(c, "await")
  /\ IF Alive(cmd[c].seen) /\ SocketReady THEN Reached(c) ELSE Return(c)
  /\ UNCHANGED <<file, socket, holds, world, faults>>

Spawn(c) ==
  /\ Runs(c, "spawn")
  /\ \E h \in Holds :
       /\ pc[h] = "unborn"
       /\ Goto(h, "top")
       /\ dials' = [dials EXCEPT ![h] = cmd[c].want]
       /\ Loads(c, h, "watch")
  /\ UNCHANGED <<file, socket, told, world, faults>>

\* waitForRuntimeForMode, then Detach.
Watch(c) ==
  /\ Runs(c, "watch")
  /\ file = cmd[c].seen /\ Running /\ SocketReady
  /\ Reached(c)
  /\ UNCHANGED <<file, socket, holds, world, faults>>

\* A minute is long enough for a hold that gets its connection.
OnItsWay(h) ==
  /\ dials[h] = browser
  /\ \/ pc[h] \in {"top", "dial", "unlink", "bind", "save"}
     \/ pc[h] = "serve" /\ file = h /\ SocketReady

\* The launch is terminated, and its runtime file cleared.
LaunchFails(c) ==
  /\ Runs(c, "watch")
  /\ IF OnItsWay(cmd[c].seen) THEN Fault ELSE NoFault
  /\ Killed(cmd[c].seen)
  /\ Set(c, [cmd[c] EXCEPT !.at = "clear", !.after = "abandon"])
  /\ UNCHANGED <<file, socket, dials, told, world>>

-----------------------------------------------------------------------------
(***************************************************************************)
(* StopRuntimeForMode.  after becomes "reload" when it did not stop what a *)
(* start wants out of its way.                                             *)
(***************************************************************************)
NotStopped(c) == IF cmd[c].after = "spawn" THEN "reload" ELSE cmd[c].after

Continue(c, after) ==
  IF after \in {"end", "abandon"} THEN Return(c)
  ELSE Set(c, [cmd[c] EXCEPT !.at = after, !.after = "end"])

\* Variant: the file of a process that is gone stays.
StopLeavesStale(c) ==
  /\ Runs(c, "stop")
  /\ IF Running THEN Loads(c, file, "interrupt") ELSE Continue(c, NotStopped(c))
  /\ UNCHANGED <<file, socket, holds, world, faults>>

StopLoads(c) ==
  /\ Runs(c, "stop")
  /\ \/ file = None /\ Continue(c, NotStopped(c))
     \/ /\ file # None /\ ~Running
        /\ Set(c, [cmd[c] EXCEPT !.at = "clear", !.seen = file,
                                 !.after = NotStopped(c)])
     \/ Running /\ Loads(c, file, "interrupt")
  /\ UNCHANGED <<file, socket, holds, world, faults>>

\* It checks the process once more, and interrupts it.
Interrupt(c) ==
  /\ Runs(c, "interrupt")
  /\ IF Alive(cmd[c].seen)
     THEN told' = told \cup {cmd[c].seen} /\ At(c, "stopping")
     ELSE /\ Set(c, [cmd[c] EXCEPT !.at = "clear", !.after = NotStopped(c)])
          /\ UNCHANGED told
  /\ UNCHANGED <<file, socket, pc, dials, world, faults>>

\* Variant: the interrupted process is not waited for.
AssumeStopped(c) ==
  /\ Runs(c, "stopping")
  /\ At(c, "clear")
  /\ UNCHANGED <<file, socket, holds, world, faults>>

\* After five seconds a process that has not ended is killed.
Stopping(c) ==
  /\ Runs(c, "stopping")
  /\ Killed(cmd[c].seen)
  /\ At(c, "clear")
  /\ UNCHANGED <<file, socket, dials, told, world, faults>>

\* clearRuntimeForModeIfCurrent, and ClearRuntimeForMode after a launch: ...
ClearIfCurrent(c) ==
  /\ Runs(c, "clear")
  /\ IF file = cmd[c].seen THEN At(c, "clearing") ELSE Continue(c, cmd[c].after)
  /\ UNCHANGED <<file, socket, holds, world, faults>>

\* ... the removal goes by the path.
ClearFile(c) ==
  /\ Runs(c, "clearing")
  /\ file' = None
  /\ IF file # None /\ cmd[c].after # "abandon"
     THEN At(c, "unlink") ELSE Continue(c, cmd[c].after)
  /\ UNCHANGED <<socket, holds, world, faults>>

RemoveRuntimeSocket(c) ==
  /\ Runs(c, "unlink")
  /\ socket' = None
  /\ Continue(c, cmd[c].after)
  /\ UNCHANGED <<file, holds, world, faults>>

\* A start that could not stop the old runtime goes on only without a file.
Reload(c) ==
  /\ Runs(c, "reload")
  /\ IF file = None THEN At(c, "spawn") ELSE Return(c)
  /\ UNCHANGED <<file, socket, holds, world, faults>>

-----------------------------------------------------------------------------
(***************************************************************************)
(* ReconcileOrphanedDaemonHolds.                                           *)
(***************************************************************************)
Orphan(h) == Alive(h) /\ \A c \in Commands : Runs(c, "watch") => cmd[c].seen # h

ReapLoads(c) ==
  /\ Runs(c, "reap")
  /\ IF Running THEN Loads(c, file, "scan") ELSE Return(c)
  /\ UNCHANGED <<file, socket, holds, world, faults>>

Candidates(c) == {h \in Holds \ {cmd[c].seen} : Orphan(h)}

Scan(c) ==
  /\ Runs(c, "scan")
  /\ \E h \in Candidates(c) :
       Set(c, [cmd[c] EXCEPT !.at = "recheck", !.victim = h])
  /\ UNCHANGED <<file, socket, holds, world, faults>>

\* Nothing is left to look at, or its evidence is ambiguous.
ScanEnds(c) ==
  /\ Runs(c, "scan")
  /\ IF Candidates(c) = {} THEN NoFault ELSE Fault
  /\ Return(c)
  /\ UNCHANGED <<file, socket, holds, world>>

\* With another runtime in the file, this and every further one is skipped.
Recheck(c) ==
  /\ Runs(c, "recheck")
  /\ IF file # cmd[c].seen \/ ~Running THEN Return(c)
     ELSE At(c, IF Alive(cmd[c].victim) THEN "signal" ELSE "scan")
  /\ UNCHANGED <<file, socket, holds, world, faults>>

Signal(c) ==
  /\ Runs(c, "signal")
  /\ Killed(cmd[c].victim)
  /\ Set(c, [cmd[c] EXCEPT !.at = "scan", !.victim = None])
  /\ UNCHANGED <<file, socket, dials, told, world, faults>>

-----------------------------------------------------------------------------
CommandStep(c) ==
  \/ CheckStatus(c) \/ StartLoads(c) \/ Await(c) \/ Spawn(c) \/ Watch(c)
  \/ StopLoads(c) \/ Interrupt(c) \/ Stopping(c)
  \/ ClearIfCurrent(c) \/ ClearFile(c) \/ RemoveRuntimeSocket(c) \/ Reload(c)
  \/ ReapLoads(c) \/ Scan(c) \/ Recheck(c) \/ Signal(c)

Next ==
  \/ \E h \in Holds : HoldStep(h) \/ HoldEnds(h) \/ HoldCrashes(h) \/ Forget(h)
  \/ \E c \in Commands :
       \/ BeginRepair(c) \/ BeginStart(c) \/ BeginStop(c)
       \/ CommandStep(c) \/ LaunchFails(c) \/ ScanEnds(c)
       \/ GiveUp(c) \/ CommandKilled(c)
  \/ BrowserRestarts

Spec == Init /\ [][Next]_vars

\* Processes run, cron repairs the daemon again and again, and an operation
\* that cannot succeed runs into its deadline.
FairSpec ==
  /\ Spec
  /\ \A h \in Holds :
       /\ WF_vars(HoldStep(h)) /\ WF_vars(HoldEnds(h) /\ NoFault)
       /\ WF_vars(Forget(h))
  /\ \A c \in Commands :
       /\ WF_vars(CommandStep(c))
       /\ WF_vars(LaunchFails(c) /\ NoFault) /\ WF_vars(ScanEnds(c) /\ NoFault)
  /\ WF_vars(\E c \in Commands : BeginRepair(c))

-----------------------------------------------------------------------------
\* Type correctness of files, holds and commands.
TypeOK ==
  /\ file \in Holds \cup {None} /\ socket \in Holds \cup {None}
  /\ pc \in [Holds -> HoldStates]
  /\ dials \in [Holds -> 0 .. MaxBrowser]
  /\ told \subseteq Holds
  /\ cmd \in [Commands -> CommandRecords]
  /\ browser \in 0 .. MaxBrowser /\ faults \in 0 .. MaxFaults
  /\ setting \in Settings /\ kept \subseteq Holds

\* A live hold that the runtime file names has bound its socket, and has not
\* gone on to wait or dial again, unless its removal of the file failed: what
\* loads the file never waits for a process that is between two connections
\* (holdConnection saves last and clears first).
FileNamesServer ==
  Running =>
    \/ pc[file] \in {"serve", "remove", "close", "clear", "clearing", "leaving"}
    \/ file \in kept

Calm == setting = {}

\* If holds do not reconnect, commands take turns and are not killed, there is at
\* most one hold process: a start that finds a runtime in its way has seen it end
\* (StopRuntimeForMode), and a launch that fails is terminated before it is left.
OneHold == Calm => \A g, h \in Holds : Alive(g) /\ Alive(h) => g = h

\* Serves, and can be found.
Current(h) == file = h /\ socket = h /\ pc[h] = "serve"

\* The same assumption: nobody but the hold itself takes the file or the socket
\* of a hold that serves (README.md: the reconciliation "keeps the current
\* daemon, Chrome, profile, socket, tabs, and connection intact").
ServerKeepsFiles ==
  [][\A h \in Holds : Calm /\ Current(h) => file' = h /\ socket' = h]_vars

Reachable == \E h \in Holds : Current(h) /\ dials[h] = browser

\* The same assumption: when nothing goes wrong any more, the repair that cron
\* runs brings the daemon back for good (StartKeepAlive replaces what is gone).
Settles == Calm => <>[]Reachable

\* The file names a live hold whose socket nobody can reach.
Unreachable(h) == file = h /\ pc[h] = "serve" /\ ~SocketReady

\* Whatever the setting: the repair that cron runs does something about a hold
\* that cannot be reached (README.md: keepalive "starts or repairs the
\* selected-mode daemon only when the selected connection is not healthy").
RepairHeals == \A h \in Holds : Unreachable(h) ~> ~Unreachable(h)

\* A hold that waits to reconnect while the file names another live one ends,
\* unless that one goes first (docs/FORMAL_INVARIANTS.md: a hold retires after "a
\* positive live PID in the exact mode-scoped runtime differs from its own PID").
SupersededRetires ==
  \A h \in Holds :
    pc[h] = "wait" /\ Running /\ file # h
      ~> pc[h] \in {"dead", "unborn"} \/ ~Running \/ file = h
=============================================================================
