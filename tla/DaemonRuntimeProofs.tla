------------------------ MODULE DaemonRuntimeProofs ------------------------
(***************************************************************************)
(* Two facts about the daemon of a mode.  The runtime file names a hold    *)
(* that is between two connections only if that hold failed to remove it,  *)
(* whatever holds and commands do.                                         *)
(* And if holds do not reconnect and commands take turns, a new hold is    *)
(* started only when the last one has ended: nobody takes the file or the  *)
(* socket of a hold that serves.                                           *)
(***************************************************************************)
EXTENDS DaemonRuntime, TLAPS

\* An identity that the file names is not given to a new process.
UnbornUnnamed == \A h \in Holds : pc[h] = "unborn" => file # h

\* A command interrupts a hold that it has loaded.
SeenBeforeInterrupt ==
  \A c \in Commands : cmd[c].at = "interrupt" => cmd[c].seen \in Holds

NamesInv == TypeOK /\ SeenBeforeInterrupt /\ UnbornUnnamed /\ FileNamesServer

\* What follows a hold that was stopped, up to its replacement.
Replacing == {"clear", "clearing", "unlink", "reload", "spawn"}
\* The command knows the only hold there may be.
Knowing == {"interrupt", "stopping", "watch", "scan"}

Launched(h) == \E c \in Commands : cmd[c].at = "watch" /\ cmd[c].seen = h

\* A live hold is in the file, or somebody waits for it to get there.
AliveIsKnown == \A h \in Holds : Alive(h) => file = h \/ Launched(h)

OneCommand ==
  \A c, d \in Commands : cmd[c].at # "idle" /\ cmd[d].at # "idle" => c = d

ReplacesTheDead ==
  \A c \in Commands : cmd[c].at \in Replacing => \A h \in Holds : ~Alive(h)

KnowsTheOnlyOne ==
  \A c \in Commands : cmd[c].at \in Knowing =>
    \A h \in Holds : Alive(h) => h = cmd[c].seen

\* There is no orphan to reap.
NothingToReap == \A c \in Commands : cmd[c].at \notin {"recheck", "signal"}

CalmInv ==
  Calm => /\ AliveIsKnown /\ OneCommand /\ ReplacesTheDead
          /\ KnowsTheOnlyOne /\ NothingToReap
-----------------------------------------------------------------------------
Sequels == {"end", "spawn", "reload", "start", "abandon"}

\* Records of commands: what an update leaves.
LEMMA CommandUpdates ==
  ASSUME TypeOK, NEW c \in Commands
  PROVE  /\ \A at \in CommandStates : [cmd[c] EXCEPT !.at = at] \in CommandRecords
         /\ \A at \in CommandStates, h \in Holds \cup {None} :
              /\ [cmd[c] EXCEPT !.at = at, !.seen = h] \in CommandRecords
              /\ [cmd[c] EXCEPT !.at = at, !.victim = h] \in CommandRecords
         /\ \A at \in CommandStates, after \in Sequels :
              [cmd[c] EXCEPT !.at = at, !.after = after] \in CommandRecords
         /\ \A at \in CommandStates, h \in Holds \cup {None}, after \in Sequels :
              [cmd[c] EXCEPT !.at = at, !.seen = h, !.after = after] \in CommandRecords
         /\ Idle \in CommandRecords
<1>1. cmd[c] \in CommandRecords
  BY DEF TypeOK
<1>2. Idle \in CommandRecords
  BY RuntimeAssumption DEF CommandRecords, CommandStates, Idle
<1>3. \A at \in CommandStates : [cmd[c] EXCEPT !.at = at] \in CommandRecords
  BY <1>1 DEF CommandRecords
<1>4. \A at \in CommandStates, h \in Holds \cup {None} :
        /\ [cmd[c] EXCEPT !.at = at, !.seen = h] \in CommandRecords
        /\ [cmd[c] EXCEPT !.at = at, !.victim = h] \in CommandRecords
  BY <1>1 DEF CommandRecords
<1>5. \A at \in CommandStates, after \in Sequels :
        [cmd[c] EXCEPT !.at = at, !.after = after] \in CommandRecords
  BY <1>1 DEF CommandRecords, Sequels
<1>6. \A at \in CommandStates, h \in Holds \cup {None}, after \in Sequels :
        [cmd[c] EXCEPT !.at = at, !.seen = h, !.after = after] \in CommandRecords
  BY <1>1 DEF CommandRecords, Sequels
<1>7. QED
  BY <1>2, <1>3, <1>4, <1>5, <1>6, Zenon

\* Updates of one command.
LEMMA SetTypes ==
  ASSUME TypeOK, NEW c \in Commands, NEW r \in CommandRecords, Set(c, r)
  PROVE  cmd' \in [Commands -> CommandRecords]
  BY DEF TypeOK, Set

\* Where a finished stop goes on.
LEMMA ContinueTypes ==
  ASSUME TypeOK, NEW c \in Commands, NEW after \in Sequels, Continue(c, after)
  PROVE  cmd' \in [Commands -> CommandRecords]
<1>1. CASE after \in {"end", "abandon"}
  BY <1>1, CommandUpdates, SetTypes, Zenon DEF Continue, Return
<1>2. CASE after \notin {"end", "abandon"}
  <2>1. after \in CommandStates /\ "end" \in Sequels
    BY <1>2 DEF Sequels, CommandStates
  <2>2. QED
    BY <1>2, <2>1, CommandUpdates, SetTypes, Zenon DEF Continue
<1>3. QED
  BY <1>1, <1>2

\* A hold's own steps keep the types; ...
LEMMA HoldTypes ==
  ASSUME TypeOK, NEW h \in Holds, HoldStep(h) \/ HoldEnds(h) \/ HoldCrashes(h) \/ Forget(h)
  PROVE  TypeOK'
<1>1. ASSUME Top(h) PROVE TypeOK'
  BY <1>1, RuntimeAssumption DEF TypeOK, Top, Goto, HoldStates, WithoutConnection, End,
     Fault, NoFault, Killed
<1>2. ASSUME Dial(h) PROVE TypeOK'
  BY <1>2, RuntimeAssumption DEF TypeOK, Dial, Goto, HoldStates, WithoutConnection, End,
     Fault, NoFault, Killed
<1>3. ASSUME UnlinkOld(h) PROVE TypeOK'
  BY <1>3, RuntimeAssumption DEF TypeOK, UnlinkOld, Goto, HoldStates,
     WithoutConnection, End, Fault, NoFault, Killed
<1>4. ASSUME Bind(h) PROVE TypeOK'
  BY <1>4, RuntimeAssumption DEF TypeOK, Bind, Goto, HoldStates, WithoutConnection, End,
     Fault, NoFault, Killed
<1>5. ASSUME SaveRuntime(h) PROVE TypeOK'
  BY <1>5, RuntimeAssumption DEF TypeOK, SaveRuntime, Goto, HoldStates,
     WithoutConnection, End, Fault, NoFault, Killed
<1>6. ASSUME RemoveSocket(h) PROVE TypeOK'
  BY <1>6, RuntimeAssumption DEF TypeOK, RemoveSocket, Goto, HoldStates,
     WithoutConnection, End, Fault, NoFault, Killed
<1>7. ASSUME CloseListener(h) PROVE TypeOK'
  BY <1>7, RuntimeAssumption DEF TypeOK, CloseListener, Goto, HoldStates,
     WithoutConnection, End, Fault, NoFault, Killed
<1>8. ASSUME ClearOwn(h) PROVE TypeOK'
  BY <1>8, RuntimeAssumption DEF TypeOK, ClearOwn, Goto, HoldStates, WithoutConnection, End,
     Fault, NoFault, Killed
<1>9. ASSUME RemoveFile(h) PROVE TypeOK'
  BY <1>9, RuntimeAssumption DEF TypeOK, RemoveFile, Goto, HoldStates,
     WithoutConnection, End, Fault, NoFault, Killed
<1>10. ASSUME Wait(h) PROVE TypeOK'
  BY <1>10, RuntimeAssumption DEF TypeOK, Wait, Goto, HoldStates, WithoutConnection, End,
     Fault, NoFault, Killed
<1>11. ASSUME DialFails(h) PROVE TypeOK'
  BY <1>11, RuntimeAssumption DEF TypeOK, DialFails, Goto, HoldStates,
     WithoutConnection, End, Fault, NoFault, Killed
<1>12. ASSUME DialRefused(h) PROVE TypeOK'
  BY <1>12, RuntimeAssumption DEF TypeOK, DialRefused, Goto, HoldStates,
     WithoutConnection, End, Fault, NoFault, Killed
<1>13. ASSUME SaveFails(h) PROVE TypeOK'
  BY <1>13, RuntimeAssumption DEF TypeOK, SaveFails, Goto, HoldStates,
     WithoutConnection, End, Fault, NoFault, Killed
<1>14. ASSUME StopServing(h) PROVE TypeOK'
  BY <1>14, RuntimeAssumption DEF TypeOK, StopServing, Goto, HoldStates,
     WithoutConnection, End, Fault, NoFault, Killed
<1>15. ASSUME HoldCrashes(h) PROVE TypeOK'
  BY <1>15, RuntimeAssumption DEF TypeOK, HoldCrashes, Goto, HoldStates,
     WithoutConnection, End, Fault, NoFault, Killed
<1>16. ASSUME Forget(h) PROVE TypeOK'
  BY <1>16, RuntimeAssumption DEF TypeOK, Forget, Goto, HoldStates, WithoutConnection, End,
     Fault, NoFault, Killed
<1>17. ASSUME ClearFails(h) PROVE TypeOK'
  BY <1>17, RuntimeAssumption DEF TypeOK, ClearFails, Goto, HoldStates,
     WithoutConnection, End, Fault
<1>18. QED
  BY <1>1, <1>2, <1>3, <1>4, <1>5, <1>6, <1>7, <1>8, <1>9, <1>10, <1>11, <1>12, <1>13,
     <1>14, <1>15, <1>16, <1>17 DEF HoldStep, HoldEnds

\* A command that begins.
LEMMA BeginTypes ==
  ASSUME TypeOK, NEW c \in Commands, NEW op \in {"start", "stop", "repair"},
         NEW label \in CommandStates, Begin(c, op, label)
  PROVE  /\ cmd' \in [Commands -> CommandRecords]
         /\ UNCHANGED <<file, socket, pc, dials, told, browser, setting, kept>>
<1>1. Idle \in CommandRecords /\ browser \in 0 .. MaxBrowser
  BY CommandUpdates, Zenon DEF TypeOK
<1>2. [Idle EXCEPT !.at = label, !.op = op, !.want = browser] \in CommandRecords
  BY <1>1 DEF CommandRecords
<1>3. QED
  BY <1>2, SetTypes DEF Begin, holds, world

\* ... and so do a command's.
LEMMA CommandTypes ==
  ASSUME TypeOK, SeenBeforeInterrupt, NEW c \in Commands,
         \/ BeginRepair(c) \/ BeginStart(c) \/ BeginStop(c)
         \/ CommandStep(c) \/ LaunchFails(c) \/ ScanEnds(c)
         \/ GiveUp(c) \/ CommandKilled(c)
  PROVE  TypeOK'
<1>1. cmd[c].after \in Sequels /\ NotStopped(c) \in Sequels
  BY DEF TypeOK, CommandRecords, Sequels, NotStopped
<1>2. \A at \in CommandStates : At(c, at) => cmd' \in [Commands -> CommandRecords]
  BY CommandUpdates, SetTypes, Zenon DEF At
<1>3. \A at \in CommandStates, h \in Holds \cup {None} :
        Loads(c, h, at) => cmd' \in [Commands -> CommandRecords]
  BY CommandUpdates, SetTypes, Zenon DEF Loads
<1>4. Return(c) => cmd' \in [Commands -> CommandRecords]
  BY CommandUpdates, SetTypes DEF Return
<1>5. Reached(c) => cmd' \in [Commands -> CommandRecords]
  BY <1>2, <1>4 DEF Reached, CommandStates
<1>6. \A after \in Sequels : Continue(c, after) => cmd' \in [Commands -> CommandRecords]
  BY ContinueTypes
<1>7. Fault \/ NoFault \/ UNCHANGED faults => faults' \in 0 .. MaxFaults
  BY RuntimeAssumption DEF Fault, NoFault, TypeOK
<1>8. \A at \in CommandStates, after \in Sequels, h \in Holds \cup {None} :
        /\ Set(c, [cmd[c] EXCEPT !.at = at, !.after = after])
             => cmd' \in [Commands -> CommandRecords]
        /\ Set(c, [cmd[c] EXCEPT !.at = at, !.seen = h, !.after = after])
             => cmd' \in [Commands -> CommandRecords]
        /\ Set(c, [cmd[c] EXCEPT !.at = at, !.victim = h])
             => cmd' \in [Commands -> CommandRecords]
  BY CommandUpdates, SetTypes
<1>9. /\ {"idle", "reap", "stop", "start", "spawn", "await", "watch", "clear"}
            \subseteq CommandStates
      /\ {"interrupt", "stopping", "clearing", "unlink", "scan", "recheck", "signal"}
            \subseteq CommandStates
      /\ {"start", "spawn", "reload", "end", "abandon"} \subseteq Sequels
      /\ file \in Holds \cup {None} /\ None \in Holds \cup {None}
  BY DEF CommandStates, Sequels, TypeOK
<1>10. ASSUME cmd' \in [Commands -> CommandRecords], faults' \in 0 .. MaxFaults,
             file' \in {file, None}, socket' \in {socket, None},
             pc' = pc \/ \E h : Killed(h),
             UNCHANGED <<dials, told, browser, setting, kept>>
      PROVE  TypeOK'
  <2>1. pc' \in [Holds -> HoldStates]
    BY <1>10 DEF Killed, TypeOK, HoldStates
  <2>2. QED
    BY <1>10, <2>1 DEF TypeOK
<1>11. ASSUME BeginRepair(c) PROVE TypeOK'
  BY <1>11, <1>7, BeginTypes DEF BeginRepair, TypeOK, CommandStates
<1>12. ASSUME BeginStart(c) PROVE TypeOK'
  BY <1>12, <1>7, BeginTypes DEF BeginStart, TypeOK, CommandStates
<1>13. ASSUME BeginStop(c) PROVE TypeOK'
  BY <1>13, <1>7, BeginTypes DEF BeginStop, TypeOK, CommandStates
<1>14. ASSUME CheckStatus(c) PROVE TypeOK'
  <2>1. cmd' \in [Commands -> CommandRecords]
    BY <1>14, <1>1, <1>2, <1>3, <1>4, <1>5, <1>6, <1>8, <1>9, Zenon DEF CheckStatus
  <2>2. QED
    BY <1>14, <1>7, <1>10, <2>1 DEF CheckStatus, holds, world
<1>15. ASSUME StartLoads(c) PROVE TypeOK'
  <2>1. cmd' \in [Commands -> CommandRecords]
    BY <1>15, <1>1, <1>2, <1>3, <1>4, <1>5, <1>6, <1>8, <1>9, Zenon DEF StartLoads
  <2>2. QED
    BY <1>15, <1>7, <1>10, <2>1 DEF StartLoads, holds, world
<1>16. ASSUME Await(c) PROVE TypeOK'
  <2>1. cmd' \in [Commands -> CommandRecords]
    BY <1>16, <1>1, <1>2, <1>3, <1>4, <1>5, <1>6, <1>8, <1>9, Zenon DEF Await
  <2>2. QED
    BY <1>16, <1>7, <1>10, <2>1 DEF Await, holds, world
<1>17. ASSUME Spawn(c) PROVE TypeOK'
  <2>1. PICK h \in Holds : /\ pc' = [pc EXCEPT ![h] = "top"]
                           /\ dials' = [dials EXCEPT ![h] = cmd[c].want]
                           /\ Loads(c, h, "watch")
    BY <1>17 DEF Spawn, Goto
  <2>2. cmd[c].want \in 0 .. MaxBrowser
    BY DEF TypeOK, CommandRecords
  <2>3. cmd' \in [Commands -> CommandRecords]
    BY <2>1, <1>3 DEF CommandStates
  <2>4. UNCHANGED <<file, socket, told, browser, setting, kept, faults>>
    BY <1>17 DEF Spawn, world
  <2>5. QED
    BY <2>1, <2>2, <2>3, <2>4 DEF TypeOK, HoldStates
<1>18. ASSUME Watch(c) PROVE TypeOK'
  <2>1. cmd' \in [Commands -> CommandRecords]
    BY <1>18, <1>1, <1>2, <1>3, <1>4, <1>5, <1>6, <1>8, <1>9, Zenon DEF Watch
  <2>2. QED
    BY <1>18, <1>7, <1>10, <2>1 DEF Watch, holds, world
<1>19. ASSUME StopLoads(c) PROVE TypeOK'
  <2>1. cmd' \in [Commands -> CommandRecords]
    BY <1>19, <1>1, <1>2, <1>3, <1>4, <1>5, <1>6, <1>8, <1>9, Zenon DEF StopLoads
  <2>2. QED
    BY <1>19, <1>7, <1>10, <2>1 DEF StopLoads, holds, world
<1>20. ASSUME Interrupt(c) PROVE TypeOK'
  <2>1. cmd[c].seen \in Holds
    BY <1>20 DEF Interrupt, Runs, SeenBeforeInterrupt
  <2>2. told' \subseteq Holds
    BY <1>20, <2>1 DEF Interrupt, TypeOK
  <2>3. cmd' \in [Commands -> CommandRecords]
    <3>1. "stopping" \in CommandStates /\ "clear" \in CommandStates
      BY DEF CommandStates
    <3>2. CASE Alive(cmd[c].seen)
      BY <1>20, <1>2, <3>1, <3>2 DEF Interrupt
    <3>3. CASE ~Alive(cmd[c].seen)
      BY <1>20, <1>1, <3>1, <3>3, CommandUpdates, SetTypes, Zenon DEF Interrupt
    <3>4. QED
      BY <3>2, <3>3
  <2>4. QED
    BY <1>20, <2>2, <2>3 DEF Interrupt, world, TypeOK
<1>21. ASSUME Stopping(c) PROVE TypeOK'
  <2>1. cmd' \in [Commands -> CommandRecords]
    BY <1>21, <1>1, <1>2, <1>3, <1>4, <1>5, <1>6, <1>8, <1>9, Zenon DEF Stopping
  <2>2. QED
    BY <1>21, <1>7, <1>10, <2>1 DEF Stopping, holds, world
<1>22. ASSUME ClearIfCurrent(c) PROVE TypeOK'
  <2>1. cmd' \in [Commands -> CommandRecords]
    BY <1>22, <1>1, <1>2, <1>3, <1>4, <1>5, <1>6, <1>8, <1>9, Zenon DEF ClearIfCurrent
  <2>2. QED
    BY <1>22, <1>7, <1>10, <2>1 DEF ClearIfCurrent, holds, world
<1>23. ASSUME ClearFile(c) PROVE TypeOK'
  <2>1. cmd' \in [Commands -> CommandRecords]
    BY <1>23, <1>1, <1>2, <1>3, <1>4, <1>5, <1>6, <1>8, <1>9, Zenon DEF ClearFile
  <2>2. QED
    BY <1>23, <1>7, <1>10, <2>1 DEF ClearFile, holds, world
<1>24. ASSUME RemoveRuntimeSocket(c) PROVE TypeOK'
  <2>1. cmd' \in [Commands -> CommandRecords]
    BY <1>24, <1>1, <1>2, <1>3, <1>4, <1>5, <1>6, <1>8, <1>9, Zenon DEF RemoveRuntimeSocket
  <2>2. QED
    BY <1>24, <1>7, <1>10, <2>1 DEF RemoveRuntimeSocket, holds, world
<1>25. ASSUME Reload(c) PROVE TypeOK'
  <2>1. cmd' \in [Commands -> CommandRecords]
    BY <1>25, <1>1, <1>2, <1>3, <1>4, <1>5, <1>6, <1>8, <1>9, Zenon DEF Reload
  <2>2. QED
    BY <1>25, <1>7, <1>10, <2>1 DEF Reload, holds, world
<1>26. ASSUME ReapLoads(c) PROVE TypeOK'
  <2>1. cmd' \in [Commands -> CommandRecords]
    BY <1>26, <1>1, <1>2, <1>3, <1>4, <1>5, <1>6, <1>8, <1>9, Zenon DEF ReapLoads
  <2>2. QED
    BY <1>26, <1>7, <1>10, <2>1 DEF ReapLoads, holds, world
<1>27. ASSUME Scan(c) PROVE TypeOK'
  <2>1. PICK h \in Holds :
          Set(c, [cmd[c] EXCEPT !.at = "recheck", !.victim = h])
    BY <1>27 DEF Scan, Candidates
  <2>2. cmd' \in [Commands -> CommandRecords]
    BY <2>1, CommandUpdates, SetTypes, Zenon DEF CommandStates
  <2>3. QED
    BY <1>27, <2>2 DEF Scan, TypeOK, holds, world
<1>28. ASSUME Recheck(c) PROVE TypeOK'
  <2>1. cmd' \in [Commands -> CommandRecords]
    BY <1>28, <1>1, <1>2, <1>3, <1>4, <1>5, <1>6, <1>8, <1>9, Zenon DEF Recheck
  <2>2. QED
    BY <1>28, <1>7, <1>10, <2>1 DEF Recheck, holds, world
<1>29. ASSUME Signal(c) PROVE TypeOK'
  <2>1. cmd' \in [Commands -> CommandRecords]
    BY <1>29, <1>1, <1>2, <1>3, <1>4, <1>5, <1>6, <1>8, <1>9, Zenon DEF Signal
  <2>2. QED
    BY <1>29, <1>7, <1>10, <2>1 DEF Signal, holds, world
<1>30. ASSUME LaunchFails(c) PROVE TypeOK'
  <2>1. cmd' \in [Commands -> CommandRecords]
    BY <1>30, <1>1, <1>2, <1>3, <1>4, <1>5, <1>6, <1>8, <1>9, Zenon DEF LaunchFails
  <2>2. QED
    BY <1>30, <1>7, <1>10, <2>1 DEF LaunchFails, holds, world
<1>31. ASSUME ScanEnds(c) PROVE TypeOK'
  <2>1. cmd' \in [Commands -> CommandRecords]
    BY <1>31, <1>1, <1>2, <1>3, <1>4, <1>5, <1>6, <1>8, <1>9, Zenon DEF ScanEnds
  <2>2. QED
    BY <1>31, <1>7, <1>10, <2>1 DEF ScanEnds, holds, world
<1>32. ASSUME GiveUp(c) PROVE TypeOK'
  <2>1. cmd' \in [Commands -> CommandRecords]
    BY <1>32, <1>1, <1>2, <1>3, <1>4, <1>5, <1>6, <1>8, <1>9, Zenon DEF GiveUp
  <2>2. QED
    BY <1>32, <1>7, <1>10, <2>1 DEF GiveUp, holds, world
<1>33. ASSUME CommandKilled(c) PROVE TypeOK'
  <2>1. cmd' \in [Commands -> CommandRecords]
    BY <1>33, <1>1, <1>2, <1>3, <1>4, <1>5, <1>6, <1>8, <1>9, Zenon DEF CommandKilled
  <2>2. QED
    BY <1>33, <1>7, <1>10, <2>1 DEF CommandKilled, holds, world
<1>34. QED
  BY <1>11, <1>12, <1>13, <1>14, <1>15, <1>16, <1>17, <1>18, <1>19, <1>20, <1>21, <1>22,
     <1>23, <1>24, <1>25, <1>26, <1>27, <1>28, <1>29, <1>30, <1>31, <1>32, <1>33 DEF
     CommandStep

-----------------------------------------------------------------------------
\* What the updates of a command change, ...
LEMMA SetFields ==
  ASSUME TypeOK, NEW c \in Commands, NEW r, Set(c, r)
  PROVE  cmd'[c] = r /\ \A d \in Commands \ {c} : cmd'[d] = cmd[d]
  BY DEF Set, TypeOK

LEMMA RecordFields ==
  ASSUME TypeOK, NEW c \in Commands, NEW at, NEW h, NEW after
  PROVE  /\ [cmd[c] EXCEPT !.at = at].at = at
         /\ [cmd[c] EXCEPT !.at = at].seen = cmd[c].seen
         /\ [cmd[c] EXCEPT !.at = at, !.seen = h].at = at
         /\ [cmd[c] EXCEPT !.at = at, !.seen = h].seen = h
         /\ [cmd[c] EXCEPT !.at = at, !.victim = h].at = at
         /\ [cmd[c] EXCEPT !.at = at, !.victim = h].seen = cmd[c].seen
         /\ [cmd[c] EXCEPT !.at = at, !.after = after].at = at
         /\ [cmd[c] EXCEPT !.at = at, !.after = after].seen = cmd[c].seen
         /\ [cmd[c] EXCEPT !.at = at, !.seen = h, !.after = after].at = at
         /\ [cmd[c] EXCEPT !.at = at, !.seen = h, !.after = after].seen = h
<1>1. cmd[c] \in CommandRecords
  BY DEF TypeOK
<1>2. QED
  BY <1>1 DEF CommandRecords

\* ... by the name of the update.
LEMMA UpdateFields ==
  ASSUME TypeOK, NEW c \in Commands
  PROVE  /\ \A at : At(c, at) => cmd'[c].at = at /\ cmd'[c].seen = cmd[c].seen
         /\ \A at, h : Loads(c, h, at) => cmd'[c].at = at /\ cmd'[c].seen = h
         /\ Return(c) => cmd'[c].at = "idle"
         /\ Reached(c) => cmd'[c].at \in {"idle", "reap"}
         /\ \A after : Continue(c, after) =>
               cmd'[c].at = IF after \in {"end", "abandon"} THEN "idle" ELSE after
         /\ \A at, after : Set(c, [cmd[c] EXCEPT !.at = at, !.after = after]) =>
               cmd'[c].at = at /\ cmd'[c].seen = cmd[c].seen
         /\ \A at, h, after : Set(c, [cmd[c] EXCEPT !.at = at, !.seen = h, !.after = after]) =>
               cmd'[c].at = at /\ cmd'[c].seen = h
         /\ \A at, h : Set(c, [cmd[c] EXCEPT !.at = at, !.victim = h]) =>
               cmd'[c].at = at /\ cmd'[c].seen = cmd[c].seen
<1>1. \A at : At(c, at) => cmd'[c].at = at /\ cmd'[c].seen = cmd[c].seen
  <2> SUFFICES ASSUME NEW at, At(c, at)
               PROVE  cmd'[c].at = at /\ cmd'[c].seen = cmd[c].seen
    OBVIOUS
  <2>1. cmd'[c] = [cmd[c] EXCEPT !.at = at]
    BY SetFields DEF At
  <2>2. QED
    BY <2>1, RecordFields
<1>2. \A at, h : Loads(c, h, at) => cmd'[c].at = at /\ cmd'[c].seen = h
  <2> SUFFICES ASSUME NEW at, NEW h, Loads(c, h, at)
               PROVE  cmd'[c].at = at /\ cmd'[c].seen = h
    OBVIOUS
  <2>1. cmd'[c] = [cmd[c] EXCEPT !.at = at, !.seen = h]
    BY SetFields DEF Loads
  <2>2. QED
    BY <2>1, RecordFields
<1>3. Return(c) => cmd'[c].at = "idle"
  BY SetFields DEF Return, Idle
<1>4. Reached(c) => cmd'[c].at \in {"idle", "reap"}
  BY <1>1, <1>3 DEF Reached
<1>5. ASSUME NEW after, Continue(c, after)
      PROVE  cmd'[c].at = IF after \in {"end", "abandon"} THEN "idle" ELSE after
  <2>1. CASE after \in {"end", "abandon"}
    BY <1>3, <1>5, <2>1 DEF Continue
  <2>2. CASE after \notin {"end", "abandon"}
    <3>1. Set(c, [cmd[c] EXCEPT !.at = after, !.after = "end"])
      BY <1>5, <2>2 DEF Continue
    <3>2. cmd'[c] = [cmd[c] EXCEPT !.at = after, !.after = "end"]
      BY <3>1, SetFields
    <3>3. cmd'[c].at = after
      BY <3>2, RecordFields
    <3>4. QED
      BY <2>2, <3>3
  <2>3. QED
    BY <2>1, <2>2
<1>6. ASSUME NEW at, NEW after, Set(c, [cmd[c] EXCEPT !.at = at, !.after = after])
      PROVE  cmd'[c].at = at /\ cmd'[c].seen = cmd[c].seen
  <2>1. cmd'[c] = [cmd[c] EXCEPT !.at = at, !.after = after]
    BY <1>6, SetFields
  <2>2. QED
    BY <2>1, RecordFields
<1>7. ASSUME NEW at, NEW h, NEW after,
             Set(c, [cmd[c] EXCEPT !.at = at, !.seen = h, !.after = after])
      PROVE  cmd'[c].at = at /\ cmd'[c].seen = h
  <2>1. cmd'[c] = [cmd[c] EXCEPT !.at = at, !.seen = h, !.after = after]
    BY <1>7, SetFields
  <2>2. QED
    BY <2>1, RecordFields
<1>8. ASSUME NEW at, NEW h, Set(c, [cmd[c] EXCEPT !.at = at, !.victim = h])
      PROVE  cmd'[c].at = at /\ cmd'[c].seen = cmd[c].seen
  <2>1. cmd'[c] = [cmd[c] EXCEPT !.at = at, !.victim = h]
    BY <1>8, SetFields
  <2>2. QED
    BY <2>1, RecordFields
<1>9. QED
  BY <1>1, <1>2, <1>3, <1>4, <1>5, <1>6, <1>7, <1>8

\* No other command is touched.
LEMMA OthersKeep ==
  ASSUME TypeOK, NEW c \in Commands,
         \/ BeginRepair(c) \/ BeginStart(c) \/ BeginStop(c)
         \/ CommandStep(c) \/ LaunchFails(c) \/ ScanEnds(c)
         \/ GiveUp(c) \/ CommandKilled(c)
  PROVE  \A d \in Commands \ {c} : cmd'[d] = cmd[d]
<1>1. \E r : Set(c, r)
  <2>1. \A at : At(c, at) => \E r : Set(c, r)
    BY DEF At
  <2>2. \A at, h : Loads(c, h, at) => \E r : Set(c, r)
    BY DEF Loads
  <2>3. Return(c) => \E r : Set(c, r)
    BY DEF Return
  <2>4. Reached(c) => \E r : Set(c, r)
    BY <2>1, <2>3 DEF Reached
  <2>5. \A after : Continue(c, after) => \E r : Set(c, r)
    BY <2>3 DEF Continue
  <2>6. ASSUME BeginRepair(c) PROVE \E r : Set(c, r)
    BY <2>6, <2>1, <2>2, <2>3, <2>4, <2>5 DEF BeginRepair, Begin
  <2>7. ASSUME BeginStart(c) PROVE \E r : Set(c, r)
    BY <2>7, <2>1, <2>2, <2>3, <2>4, <2>5 DEF BeginStart, Begin
  <2>8. ASSUME BeginStop(c) PROVE \E r : Set(c, r)
    BY <2>8, <2>1, <2>2, <2>3, <2>4, <2>5 DEF BeginStop, Begin
  <2>9. ASSUME CheckStatus(c) PROVE \E r : Set(c, r)
    BY <2>9, <2>1, <2>2, <2>3, <2>4, <2>5 DEF CheckStatus
  <2>10. ASSUME StartLoads(c) PROVE \E r : Set(c, r)
    BY <2>10, <2>1, <2>2, <2>3, <2>4, <2>5 DEF StartLoads
  <2>11. ASSUME Await(c) PROVE \E r : Set(c, r)
    BY <2>11, <2>1, <2>2, <2>3, <2>4, <2>5 DEF Await
  <2>12. ASSUME Spawn(c) PROVE \E r : Set(c, r)
    BY <2>12, <2>1, <2>2, <2>3, <2>4, <2>5 DEF Spawn
  <2>13. ASSUME Watch(c) PROVE \E r : Set(c, r)
    BY <2>13, <2>1, <2>2, <2>3, <2>4, <2>5 DEF Watch
  <2>14. ASSUME StopLoads(c) PROVE \E r : Set(c, r)
    BY <2>14, <2>1, <2>2, <2>3, <2>4, <2>5 DEF StopLoads
  <2>15. ASSUME Interrupt(c) PROVE \E r : Set(c, r)
    BY <2>15, <2>1, <2>2, <2>3, <2>4, <2>5 DEF Interrupt
  <2>16. ASSUME Stopping(c) PROVE \E r : Set(c, r)
    BY <2>16, <2>1, <2>2, <2>3, <2>4, <2>5 DEF Stopping
  <2>17. ASSUME ClearIfCurrent(c) PROVE \E r : Set(c, r)
    BY <2>17, <2>1, <2>2, <2>3, <2>4, <2>5 DEF ClearIfCurrent
  <2>18. ASSUME ClearFile(c) PROVE \E r : Set(c, r)
    BY <2>18, <2>1, <2>2, <2>3, <2>4, <2>5 DEF ClearFile
  <2>19. ASSUME RemoveRuntimeSocket(c) PROVE \E r : Set(c, r)
    BY <2>19, <2>1, <2>2, <2>3, <2>4, <2>5 DEF RemoveRuntimeSocket
  <2>20. ASSUME Reload(c) PROVE \E r : Set(c, r)
    BY <2>20, <2>1, <2>2, <2>3, <2>4, <2>5 DEF Reload
  <2>21. ASSUME ReapLoads(c) PROVE \E r : Set(c, r)
    BY <2>21, <2>1, <2>2, <2>3, <2>4, <2>5 DEF ReapLoads
  <2>22. ASSUME Scan(c) PROVE \E r : Set(c, r)
    BY <2>22, <2>1, <2>2, <2>3, <2>4, <2>5 DEF Scan
  <2>23. ASSUME Recheck(c) PROVE \E r : Set(c, r)
    BY <2>23, <2>1, <2>2, <2>3, <2>4, <2>5 DEF Recheck
  <2>24. ASSUME Signal(c) PROVE \E r : Set(c, r)
    BY <2>24, <2>1, <2>2, <2>3, <2>4, <2>5 DEF Signal
  <2>25. ASSUME LaunchFails(c) PROVE \E r : Set(c, r)
    BY <2>25, <2>1, <2>2, <2>3, <2>4, <2>5 DEF LaunchFails
  <2>26. ASSUME ScanEnds(c) PROVE \E r : Set(c, r)
    BY <2>26, <2>1, <2>2, <2>3, <2>4, <2>5 DEF ScanEnds
  <2>27. ASSUME GiveUp(c) PROVE \E r : Set(c, r)
    BY <2>27, <2>1, <2>2, <2>3, <2>4, <2>5 DEF GiveUp
  <2>28. ASSUME CommandKilled(c) PROVE \E r : Set(c, r)
    BY <2>28, <2>1, <2>2, <2>3, <2>4, <2>5 DEF CommandKilled
  <2>29. QED
    BY <2>6, <2>7, <2>8, <2>9, <2>10, <2>11, <2>12, <2>13, <2>14, <2>15, <2>16, <2>17,
       <2>18, <2>19, <2>20, <2>21, <2>22, <2>23, <2>24, <2>25, <2>26, <2>27, <2>28 DEF
       CommandStep
<1>2. QED
  BY <1>1, SetFields

-----------------------------------------------------------------------------
\* The runtime file and holds: a hold saves after it has bound, and before it
\* waits it has cleared its name, or failed to.
LEMMA HoldNames ==
  ASSUME NamesInv, NEW h \in Holds, HoldStep(h) \/ HoldEnds(h) \/ HoldCrashes(h) \/ Forget(h)
  PROVE  UnbornUnnamed' /\ FileNamesServer'
<1> USE RuntimeAssumption DEF NamesInv, UnbornUnnamed, FileNamesServer, Running, Alive, TypeOK
<1>1. ASSUME Top(h) PROVE UnbornUnnamed' /\ FileNamesServer'
  BY <1>1 DEF Top, Goto, WithoutConnection, End, Killed
<1>2. ASSUME Dial(h) PROVE UnbornUnnamed' /\ FileNamesServer'
  BY <1>2 DEF Dial, Goto, WithoutConnection, End, Killed
<1>3. ASSUME UnlinkOld(h) PROVE UnbornUnnamed' /\ FileNamesServer'
  BY <1>3 DEF UnlinkOld, Goto, WithoutConnection, End, Killed
<1>4. ASSUME Bind(h) PROVE UnbornUnnamed' /\ FileNamesServer'
  BY <1>4 DEF Bind, Goto, WithoutConnection, End, Killed
<1>5. ASSUME SaveRuntime(h) PROVE UnbornUnnamed' /\ FileNamesServer'
  BY <1>5 DEF SaveRuntime, Goto, WithoutConnection, End, Killed
<1>6. ASSUME RemoveSocket(h) PROVE UnbornUnnamed' /\ FileNamesServer'
  BY <1>6 DEF RemoveSocket, Goto, WithoutConnection, End, Killed
<1>7. ASSUME CloseListener(h) PROVE UnbornUnnamed' /\ FileNamesServer'
  BY <1>7 DEF CloseListener, Goto, WithoutConnection, End, Killed
<1>8. ASSUME ClearOwn(h) PROVE UnbornUnnamed' /\ FileNamesServer'
  BY <1>8 DEF ClearOwn, Goto, WithoutConnection, End, Killed
<1>9. ASSUME RemoveFile(h) PROVE UnbornUnnamed' /\ FileNamesServer'
  BY <1>9 DEF RemoveFile, Goto, WithoutConnection, End, Killed
<1>10. ASSUME Wait(h) PROVE UnbornUnnamed' /\ FileNamesServer'
  BY <1>10 DEF Wait, Goto, WithoutConnection, End, Killed
<1>11. ASSUME DialFails(h) PROVE UnbornUnnamed' /\ FileNamesServer'
  BY <1>11 DEF DialFails, Goto, WithoutConnection, End, Killed
<1>12. ASSUME DialRefused(h) PROVE UnbornUnnamed' /\ FileNamesServer'
  BY <1>12 DEF DialRefused, Goto, WithoutConnection, End, Killed
<1>13. ASSUME SaveFails(h) PROVE UnbornUnnamed' /\ FileNamesServer'
  BY <1>13 DEF SaveFails, Goto, WithoutConnection, End, Killed
<1>14. ASSUME StopServing(h) PROVE UnbornUnnamed' /\ FileNamesServer'
  BY <1>14 DEF StopServing, Goto, WithoutConnection, End, Killed
<1>15. ASSUME HoldCrashes(h) PROVE UnbornUnnamed' /\ FileNamesServer'
  BY <1>15 DEF HoldCrashes, Goto, WithoutConnection, End, Killed
<1>16. ASSUME Forget(h) PROVE UnbornUnnamed' /\ FileNamesServer'
  BY <1>16 DEF Forget, Goto, WithoutConnection, End, Killed
<1>17. ASSUME ClearFails(h) PROVE UnbornUnnamed' /\ FileNamesServer'
  BY <1>17 DEF ClearFails, Goto, WithoutConnection, End
<1>18. QED
  BY <1>1, <1>2, <1>3, <1>4, <1>5, <1>6, <1>7, <1>8, <1>9, <1>10, <1>11, <1>12, <1>13,
     <1>14, <1>15, <1>16, <1>17 DEF HoldStep, HoldEnds

\* Commands only take the name away, or end holds.
LEMMA CommandNames ==
  ASSUME NamesInv, NEW c \in Commands,
         \/ BeginRepair(c) \/ BeginStart(c) \/ BeginStop(c)
         \/ CommandStep(c) \/ LaunchFails(c) \/ ScanEnds(c)
         \/ GiveUp(c) \/ CommandKilled(c)
  PROVE  UnbornUnnamed' /\ FileNamesServer'
<1> DEFINE
  Ends(h) == pc' = [pc EXCEPT ![h] = "dead"]
  Starts(h) == h \in Holds /\ pc[h] = "unborn" /\ pc' = [pc EXCEPT ![h] = "top"]
  Tame == /\ file' \in {file, None} /\ kept' = kept
          /\ pc' = pc \/ \E h \in Holds \cup {None} : Ends(h) \/ Starts(h)
<1>1. ASSUME BeginRepair(c) PROVE Tame
  BY <1>1 DEF BeginRepair, Begin, holds, world
<1>2. ASSUME BeginStart(c) PROVE Tame
  BY <1>2 DEF BeginStart, Begin, holds, world
<1>3. ASSUME BeginStop(c) PROVE Tame
  BY <1>3 DEF BeginStop, Begin, holds, world
<1>4. ASSUME CheckStatus(c) PROVE Tame
  BY <1>4 DEF CheckStatus, holds, world
<1>5. ASSUME StartLoads(c) PROVE Tame
  BY <1>5 DEF StartLoads, holds, world
<1>6. ASSUME Await(c) PROVE Tame
  BY <1>6 DEF Await, holds, world
<1>7. ASSUME Spawn(c) PROVE Tame
  BY <1>7 DEF Spawn, Goto, holds, world
<1>8. ASSUME Watch(c) PROVE Tame
  BY <1>8 DEF Watch, holds, world
<1>9. ASSUME StopLoads(c) PROVE Tame
  BY <1>9 DEF StopLoads, holds, world
<1>10. ASSUME Interrupt(c) PROVE Tame
  BY <1>10 DEF Interrupt, holds, world
<1>11. ASSUME Stopping(c) PROVE Tame
  BY <1>11 DEF Stopping, Killed, TypeOK, NamesInv, CommandRecords, holds, world
<1>12. ASSUME ClearIfCurrent(c) PROVE Tame
  BY <1>12 DEF ClearIfCurrent, holds, world
<1>13. ASSUME ClearFile(c) PROVE Tame
  BY <1>13 DEF ClearFile, holds, world
<1>14. ASSUME RemoveRuntimeSocket(c) PROVE Tame
  BY <1>14 DEF RemoveRuntimeSocket, holds, world
<1>15. ASSUME Reload(c) PROVE Tame
  BY <1>15 DEF Reload, holds, world
<1>16. ASSUME ReapLoads(c) PROVE Tame
  BY <1>16 DEF ReapLoads, holds, world
<1>17. ASSUME Scan(c) PROVE Tame
  BY <1>17 DEF Scan, holds, world
<1>18. ASSUME Recheck(c) PROVE Tame
  BY <1>18 DEF Recheck, holds, world
<1>19. ASSUME Signal(c) PROVE Tame
  BY <1>19 DEF Signal, Killed, TypeOK, NamesInv, CommandRecords, holds, world
<1>20. ASSUME LaunchFails(c) PROVE Tame
  BY <1>20 DEF LaunchFails, Killed, TypeOK, NamesInv, CommandRecords, holds, world
<1>21. ASSUME ScanEnds(c) PROVE Tame
  BY <1>21 DEF ScanEnds, holds, world
<1>22. ASSUME GiveUp(c) PROVE Tame
  BY <1>22 DEF GiveUp, holds, world
<1>23. ASSUME CommandKilled(c) PROVE Tame
  BY <1>23 DEF CommandKilled, holds, world
<1>24. Tame
  BY <1>1, <1>2, <1>3, <1>4, <1>5, <1>6, <1>7, <1>8, <1>9, <1>10, <1>11, <1>12, <1>13,
     <1>14, <1>15, <1>16, <1>17, <1>18, <1>19, <1>20, <1>21, <1>22, <1>23 DEF
     CommandStep
<1>25. QED
  BY <1>24, RuntimeAssumption
  DEF NamesInv, UnbornUnnamed, FileNamesServer, Running, Alive, TypeOK

\* Only StopRuntimeForMode interrupts, and what the file names.
LEMMA CommandInterrupts ==
  ASSUME NamesInv, NEW c \in Commands,
         \/ BeginRepair(c) \/ BeginStart(c) \/ BeginStop(c)
         \/ CommandStep(c) \/ LaunchFails(c) \/ ScanEnds(c)
         \/ GiveUp(c) \/ CommandKilled(c)
  PROVE  SeenBeforeInterrupt'
<1>1. \A d \in Commands \ {c} : cmd'[d] = cmd[d]
  BY OthersKeep DEF NamesInv
<1> DEFINE Fine == cmd'[c].at = "interrupt" => cmd'[c].seen \in Holds
<1>2. TypeOK
  BY DEF NamesInv
<1>3. /\ \A at : At(c, at) => cmd'[c].at = at
      /\ \A h, at : Loads(c, h, at) => cmd'[c].at = at /\ cmd'[c].seen = h
      /\ Return(c) => cmd'[c].at = "idle"
      /\ Reached(c) => cmd'[c].at \in {"idle", "reap"}
      /\ \A after : Continue(c, after) =>
            cmd'[c].at = IF after \in {"end", "abandon"} THEN "idle" ELSE after
  BY <1>2, UpdateFields
<1>4. \A r : Set(c, r) => cmd'[c] = r
  BY <1>2, SetFields
<1>5. /\ \A at, after : Set(c, [cmd[c] EXCEPT !.at = at, !.after = after]) => cmd'[c].at = at
      /\ \A at, h, after :
           Set(c, [cmd[c] EXCEPT !.at = at, !.seen = h, !.after = after]) => cmd'[c].at = at
      /\ \A at, h : Set(c, [cmd[c] EXCEPT !.at = at, !.victim = h]) => cmd'[c].at = at
  BY <1>2, UpdateFields
<1>6. cmd[c].after # "interrupt" /\ NotStopped(c) # "interrupt"
  BY <1>2 DEF TypeOK, CommandRecords, NotStopped
<1>7. ASSUME BeginRepair(c) PROVE Fine
  BY <1>7, <1>4 DEF BeginRepair, Begin, Idle
<1>8. ASSUME BeginStart(c) PROVE Fine
  BY <1>8, <1>4 DEF BeginStart, Begin, Idle
<1>9. ASSUME BeginStop(c) PROVE Fine
  BY <1>9, <1>4 DEF BeginStop, Begin, Idle
<1>10. ASSUME CheckStatus(c) PROVE Fine
  BY <1>10, <1>3, <1>4, <1>5, <1>6 DEF CheckStatus
<1>11. ASSUME StartLoads(c) PROVE Fine
  BY <1>11, <1>3, <1>4, <1>5, <1>6 DEF StartLoads
<1>12. ASSUME Await(c) PROVE Fine
  BY <1>12, <1>3, <1>4, <1>5, <1>6 DEF Await
<1>13. ASSUME Spawn(c) PROVE Fine
  BY <1>13, <1>3, <1>4, <1>5, <1>6 DEF Spawn
<1>14. ASSUME Watch(c) PROVE Fine
  BY <1>14, <1>3, <1>4, <1>5, <1>6 DEF Watch
<1>15. ASSUME StopLoads(c) PROVE Fine
  <2>1. CASE file = None /\ Continue(c, NotStopped(c))
    BY <2>1, <1>3, <1>6
  <2>2. CASE Set(c, [cmd[c] EXCEPT !.at = "clear", !.seen = file, !.after = NotStopped(c)])
    <3>1. cmd'[c].at = "clear"
      BY <2>2, <1>5
    <3>2. QED
      BY <3>1
  <2>3. CASE Running /\ Loads(c, file, "interrupt")
    BY <2>3, <1>2, <1>3 DEF Running, TypeOK
  <2>4. QED
    BY <1>15, <2>1, <2>2, <2>3 DEF StopLoads
<1>16. ASSUME Interrupt(c) PROVE Fine
  BY <1>16, <1>3, <1>4, <1>5, <1>6 DEF Interrupt
<1>17. ASSUME Stopping(c) PROVE Fine
  BY <1>17, <1>3, <1>4, <1>5, <1>6 DEF Stopping
<1>18. ASSUME ClearIfCurrent(c) PROVE Fine
  BY <1>18, <1>3, <1>4, <1>5, <1>6 DEF ClearIfCurrent
<1>19. ASSUME ClearFile(c) PROVE Fine
  BY <1>19, <1>3, <1>4, <1>5, <1>6 DEF ClearFile
<1>20. ASSUME RemoveRuntimeSocket(c) PROVE Fine
  BY <1>20, <1>3, <1>4, <1>5, <1>6 DEF RemoveRuntimeSocket
<1>21. ASSUME Reload(c) PROVE Fine
  BY <1>21, <1>3, <1>4, <1>5, <1>6 DEF Reload
<1>22. ASSUME ReapLoads(c) PROVE Fine
  BY <1>22, <1>3, <1>4, <1>5, <1>6 DEF ReapLoads
<1>23. ASSUME Scan(c) PROVE Fine
  BY <1>23, <1>3, <1>4, <1>5, <1>6 DEF Scan
<1>24. ASSUME Recheck(c) PROVE Fine
  BY <1>24, <1>3, <1>4, <1>5, <1>6 DEF Recheck
<1>25. ASSUME Signal(c) PROVE Fine
  BY <1>25, <1>3, <1>4, <1>5, <1>6 DEF Signal
<1>26. ASSUME LaunchFails(c) PROVE Fine
  BY <1>26, <1>3, <1>4, <1>5, <1>6 DEF LaunchFails
<1>27. ASSUME ScanEnds(c) PROVE Fine
  BY <1>27, <1>3, <1>4, <1>5, <1>6 DEF ScanEnds
<1>28. ASSUME GiveUp(c) PROVE Fine
  BY <1>28, <1>3, <1>4, <1>5, <1>6 DEF GiveUp
<1>29. ASSUME CommandKilled(c) PROVE Fine
  BY <1>29, <1>3, <1>4, <1>5, <1>6 DEF CommandKilled
<1>30. Fine
  BY <1>7, <1>8, <1>9, <1>10, <1>11, <1>12, <1>13, <1>14, <1>15, <1>16, <1>17, <1>18,
     <1>19, <1>20, <1>21, <1>22, <1>23, <1>24, <1>25, <1>26, <1>27, <1>28, <1>29 DEF
     CommandStep
<1>31. QED
  BY <1>1, <1>30 DEF NamesInv, SeenBeforeInterrupt

\* Initially there is no hold and no command.
LEMMA NamesInit == Init => NamesInv
<1>1. Init => TypeOK
  BY RuntimeAssumption DEF Init, TypeOK, HoldStates, CommandRecords, CommandStates, Idle
<1>2. QED
  BY <1>1, RuntimeAssumption DEF Init, NamesInv, UnbornUnnamed, FileNamesServer,
     Running, SeenBeforeInterrupt, Idle

\* Every step keeps the names right.
LEMMA NamesNext == NamesInv /\ [Next]_vars => NamesInv'
<1> SUFFICES ASSUME NamesInv, [Next]_vars PROVE NamesInv'
  OBVIOUS
<1>1. ASSUME NEW h \in Holds,
             HoldStep(h) \/ HoldEnds(h) \/ HoldCrashes(h) \/ Forget(h)
      PROVE  NamesInv'
  <2>1. TypeOK'
    BY <1>1, HoldTypes DEF NamesInv
  <2>2. UnbornUnnamed' /\ FileNamesServer'
    BY <1>1, HoldNames
  <2>3. cmd' = cmd
    BY <1>1 DEF HoldStep, HoldEnds, Top, Dial, UnlinkOld, Bind, SaveRuntime, RemoveSocket,
       CloseListener, ClearOwn, RemoveFile, Wait, DialFails, DialRefused, SaveFails,
       StopServing, ClearFails, HoldCrashes, Forget
  <2>4. QED
    BY <2>1, <2>2, <2>3 DEF NamesInv, SeenBeforeInterrupt
<1>2. ASSUME NEW c \in Commands,
             \/ BeginRepair(c) \/ BeginStart(c) \/ BeginStop(c)
             \/ CommandStep(c) \/ LaunchFails(c) \/ ScanEnds(c)
             \/ GiveUp(c) \/ CommandKilled(c)
      PROVE  NamesInv'
  BY <1>2, CommandTypes, CommandNames, CommandInterrupts DEF NamesInv
<1>3. ASSUME BrowserRestarts PROVE NamesInv'
  BY <1>3, RuntimeAssumption DEF BrowserRestarts, Fault, NamesInv, TypeOK, UnbornUnnamed,
     FileNamesServer, Running, Alive, SeenBeforeInterrupt
<1>4. ASSUME UNCHANGED vars PROVE NamesInv'
  BY <1>4 DEF vars, NamesInv, TypeOK, UnbornUnnamed, FileNamesServer, Running, Alive,
     SeenBeforeInterrupt
<1>5. QED
  BY <1>1, <1>2, <1>3, <1>4 DEF Next

\* Every reachable state has the declared types.
THEOREM Typed == Spec => []TypeOK
<1>1. NamesInv => TypeOK
  BY DEF NamesInv
<1>2. QED
  BY <1>1, NamesInit, NamesNext, PTL DEF Spec

\* Whatever holds, commands and faults do: a live hold that the runtime file
\* names has bound its socket and is not between two connections, unless its own
\* removal of the file failed (holdConnection saves the file last and clears it
\* first).
THEOREM NamesServer == Spec => []FileNamesServer
<1>1. NamesInv => FileNamesServer
  BY DEF NamesInv
<1>2. QED
  BY <1>1, NamesInit, NamesNext, PTL DEF Spec

-----------------------------------------------------------------------------
\* Without reconnects, with commands that take turns.
LEMMA OnlyOne ==
  ASSUME Calm, CalmInv, NEW g \in Holds, NEW h \in Holds, Alive(g), Alive(h)
  PROVE  g = h
  BY DEF CalmInv, AliveIsKnown, Launched, KnowsTheOnlyOne, Knowing

\* A hold's step: nobody comes to life, the file changes only for the hold that
\* lives, and the socket only while it does not serve.
LEMMA HoldChanges ==
  ASSUME Calm, NamesInv, NEW h \in Holds,
         HoldStep(h) \/ HoldEnds(h) \/ HoldCrashes(h) \/ Forget(h)
  PROVE  /\ \A g \in Holds : Alive(g)' => Alive(g)
         /\ file' = file \/ (Alive(h) /\ (file' = h \/ ~Alive(h)'))
         /\ file' # file \/ socket' # socket => Alive(h) /\ pc[h] # "serve"
         /\ UNCHANGED <<cmd, setting>>
<1> DEFINE
  Goal == /\ \A g \in Holds : Alive(g)' => Alive(g)
          /\ file' = file \/ (Alive(h) /\ (file' = h \/ ~Alive(h)'))
          /\ file' # file \/ socket' # socket => Alive(h) /\ pc[h] # "serve"
          /\ UNCHANGED <<cmd, setting>>
<1>1. \A label : Goto(h, label) => /\ pc'[h] = label
                                  /\ \A g \in Holds \ {h} : pc'[g] = pc[g]
  BY DEF Goto, NamesInv, TypeOK
<1>2. Killed(h) => pc'[h] = "dead" /\ \A g \in Holds \ {h} : pc'[g] = pc[g]
  BY DEF Killed, NamesInv, TypeOK
<1>3. End(h) \in {"dead", "leaving"} /\ WithoutConnection(h) = End(h)
  BY DEF WithoutConnection, End, Calm
<1>4. ASSUME Top(h) PROVE Goal
  BY <1>4, <1>1, <1>2, <1>3 DEF Top, Alive
<1>5. ASSUME Dial(h) PROVE Goal
  BY <1>5, <1>1, <1>2, <1>3 DEF Dial, Alive
<1>6. ASSUME UnlinkOld(h) PROVE Goal
  BY <1>6, <1>1, <1>2, <1>3 DEF UnlinkOld, Alive
<1>7. ASSUME Bind(h) PROVE Goal
  BY <1>7, <1>1, <1>2, <1>3 DEF Bind, Alive
<1>8. ASSUME SaveRuntime(h) PROVE Goal
  BY <1>8, <1>1, <1>2, <1>3 DEF SaveRuntime, Alive
<1>9. ASSUME RemoveSocket(h) PROVE Goal
  BY <1>9, <1>1, <1>2, <1>3 DEF RemoveSocket, Alive
<1>10. ASSUME CloseListener(h) PROVE Goal
  BY <1>10, <1>1, <1>2, <1>3 DEF CloseListener, Alive
<1>11. ASSUME ClearOwn(h) PROVE Goal
  BY <1>11, <1>1, <1>2, <1>3 DEF ClearOwn, Alive
<1>12. ASSUME RemoveFile(h) PROVE Goal
  BY <1>12, <1>1, <1>2, <1>3 DEF RemoveFile, Alive
<1>13. ASSUME Wait(h) PROVE Goal
  BY <1>13, <1>1, <1>2, <1>3 DEF Wait, Alive
<1>14. ASSUME DialFails(h) PROVE Goal
  BY <1>14, <1>1, <1>2, <1>3 DEF DialFails, Alive
<1>15. ASSUME DialRefused(h) PROVE Goal
  BY <1>15, <1>1, <1>2, <1>3 DEF DialRefused, Alive
<1>16. ASSUME SaveFails(h) PROVE Goal
  BY <1>16, <1>1, <1>2, <1>3 DEF SaveFails, Alive
<1>17. ASSUME StopServing(h) PROVE Goal
  BY <1>17, <1>1, <1>2, <1>3 DEF StopServing, Alive
<1>18. ASSUME HoldCrashes(h) PROVE Goal
  BY <1>18, <1>1, <1>2, <1>3 DEF HoldCrashes, Alive
<1>19. ASSUME Forget(h) PROVE Goal
  BY <1>19, <1>1, <1>2, <1>3 DEF Forget, Alive
<1>20. ASSUME ClearFails(h) PROVE Goal
  BY <1>20, <1>1, <1>3 DEF ClearFails, Alive
<1>21. QED
  BY <1>4, <1>5, <1>6, <1>7, <1>8, <1>9, <1>10, <1>11, <1>12, <1>13, <1>14, <1>15,
     <1>16, <1>17, <1>18, <1>19, <1>20 DEF HoldStep, HoldEnds

LEMMA HoldCalm ==
  ASSUME Calm, NamesInv, CalmInv, NEW h \in Holds,
         HoldStep(h) \/ HoldEnds(h) \/ HoldCrashes(h) \/ Forget(h)
  PROVE  CalmInv'
<1>1. /\ \A g \in Holds : Alive(g)' => Alive(g)
      /\ file' = file \/ (Alive(h) /\ (file' = h \/ ~Alive(h)'))
      /\ UNCHANGED <<cmd, setting>>
  BY HoldChanges
<1>2. AliveIsKnown'
  <2> SUFFICES ASSUME NEW g \in Holds, Alive(g)'
               PROVE  file' = g \/ Launched(g)'
    BY DEF AliveIsKnown
  <2>1. Alive(g)
    BY <1>1
  <2>2. CASE file' = file
    BY <1>1, <2>1, <2>2 DEF CalmInv, AliveIsKnown, Launched
  <2>3. CASE Alive(h) /\ (file' = h \/ ~Alive(h)')
    <3>1. g = h
      BY <2>1, <2>3, OnlyOne
    <3>2. QED
      BY <2>3, <3>1
  <2>4. QED
    BY <1>1, <2>2, <2>3
<1>3. OneCommand' /\ NothingToReap'
  BY <1>1 DEF CalmInv, OneCommand, NothingToReap
<1>4. ReplacesTheDead'
  BY <1>1 DEF CalmInv, ReplacesTheDead
<1>5. KnowsTheOnlyOne'
  BY <1>1 DEF CalmInv, KnowsTheOnlyOne
<1>6. QED
  BY <1>2, <1>3, <1>4, <1>5 DEF CalmInv

\* What is true of the one command that is not idle ...
LEMMA Alone ==
  ASSUME Calm, CalmInv, NEW c \in Commands, cmd[c].at # "idle"
  PROVE  /\ \A d \in Commands \ {c} : cmd[d].at = "idle"
         /\ \A h \in Holds : Alive(h) =>
           file = h \/ (cmd[c].at = "watch" /\ cmd[c].seen = h)
         /\ cmd[c].at \in Replacing => \A h \in Holds : ~Alive(h)
         /\ cmd[c].at \in Knowing => \A h \in Holds : Alive(h) => h = cmd[c].seen
         /\ cmd[c].at \notin {"recheck", "signal"}
<1>1. \A d \in Commands \ {c} : cmd[d].at = "idle"
  BY DEF CalmInv, OneCommand
<1>2. \A h \in Holds : Alive(h) =>
           file = h \/ (cmd[c].at = "watch" /\ cmd[c].seen = h)
  BY <1>1 DEF CalmInv, AliveIsKnown, Launched
<1>3. cmd[c].at \in Replacing => \A h \in Holds : ~Alive(h)
  BY DEF CalmInv, ReplacesTheDead
<1>4. cmd[c].at \in Knowing => \A h \in Holds : Alive(h) => h = cmd[c].seen
  BY DEF CalmInv, KnowsTheOnlyOne
<1>5. cmd[c].at \notin {"recheck", "signal"}
  BY DEF CalmInv, NothingToReap
<1>6. QED
  BY <1>1, <1>2, <1>3, <1>4, <1>5

\* ... is all there is to CalmInv after a step of it.
LEMMA AloneAfter ==
  ASSUME Calm, UNCHANGED setting, NEW c \in Commands,
         \A d \in Commands \ {c} : cmd[d].at = "idle" /\ cmd'[d] = cmd[d],
         \A h \in Holds : Alive(h)' =>
           file' = h \/ (cmd'[c].at = "watch" /\ cmd'[c].seen = h),
         cmd'[c].at \in Replacing => \A h \in Holds : ~Alive(h)',
         cmd'[c].at \in Knowing => \A h \in Holds : Alive(h)' => h = cmd'[c].seen,
         cmd'[c].at \notin {"recheck", "signal"}
  PROVE  CalmInv'
<1>1. \A d \in Commands \ {c} : cmd'[d].at = "idle"
  OBVIOUS
<1>2. AliveIsKnown'
  BY DEF AliveIsKnown, Launched
<1>3. OneCommand'
  BY <1>1 DEF OneCommand
<1>4. ReplacesTheDead'
  BY <1>1 DEF ReplacesTheDead, Replacing
<1>5. KnowsTheOnlyOne'
  BY <1>1 DEF KnowsTheOnlyOne, Knowing
<1>6. NothingToReap'
  BY <1>1 DEF NothingToReap
<1>7. QED
  BY <1>2, <1>3, <1>4, <1>5, <1>6 DEF CalmInv

\* A command that begins finds the others idle.
LEMMA BeginCalm ==
  ASSUME Calm, NamesInv, CalmInv, NEW c \in Commands,
         BeginRepair(c) \/ BeginStart(c) \/ BeginStop(c)
  PROVE  CalmInv'
<1>1. /\ \A d \in Commands : cmd[d].at = "idle"
      /\ UNCHANGED <<file, pc, setting>>
      /\ cmd'[c].at \in {"status", "start", "stop"}
  <2>1. PICK op \in {"repair", "start", "stop"}, label \in {"status", "start", "stop"} :
          Begin(c, op, label)
    BY DEF BeginRepair, BeginStart, BeginStop
  <2>2. \A d \in Commands : cmd[d].at = "idle"
    BY <2>1 DEF Begin, MayBegin, Calm, Runs
  <2>3. cmd'[c] = [Idle EXCEPT !.at = label, !.op = op, !.want = browser]
    BY <2>1, SetFields DEF Begin, NamesInv
  <2>4. QED
    BY <2>1, <2>2, <2>3 DEF Begin, holds, world, Idle
<1>2. \A d \in Commands \ {c} : cmd'[d] = cmd[d]
  BY OthersKeep DEF NamesInv
<1>3. \A h \in Holds : Alive(h)' => file' = h
  BY <1>1 DEF CalmInv, AliveIsKnown, Launched, Alive
<1>4. QED
  BY <1>1, <1>2, <1>3, AloneAfter DEF Replacing, Knowing

\* A command that is under way: what it takes away belongs to nobody alive.
LEMMA CommandChanges ==
  ASSUME Calm, NamesInv, CalmInv, NEW c \in Commands,
         CommandStep(c) \/ LaunchFails(c) \/ ScanEnds(c) \/ GiveUp(c) \/ CommandKilled(c)
  PROVE  /\ CalmInv'
         /\ \/ UNCHANGED <<file, socket>>
            \/ \A h \in Holds : ~Alive(h)
<1> DEFINE
  Known == \A h \in Holds : Alive(h)' =>
             file' = h \/ (cmd'[c].at = "watch" /\ cmd'[c].seen = h)
  Gone == cmd'[c].at \in Replacing => \A h \in Holds : ~Alive(h)'
  Only == cmd'[c].at \in Knowing => \A h \in Holds : Alive(h)' => h = cmd'[c].seen
  NoReap == cmd'[c].at \notin {"recheck", "signal"}
  Tame == UNCHANGED <<file, socket>> \/ \A h \in Holds : ~Alive(h)
  Good == Known /\ Gone /\ Only /\ NoReap /\ Tame
<1>1. TypeOK /\ cmd[c].at # "idle"
  BY DEF NamesInv, CommandStep, CheckStatus, StartLoads, Await, Spawn, Watch, StopLoads,
     Interrupt, Stopping, ClearIfCurrent, ClearFile, RemoveRuntimeSocket, Reload, ReapLoads,
     Scan, Recheck, Signal, LaunchFails, ScanEnds, GiveUp, CommandKilled, Runs
<1>2. /\ \A d \in Commands \ {c} : cmd[d].at = "idle"
      /\ \A h \in Holds : Alive(h) =>
           file = h \/ (cmd[c].at = "watch" /\ cmd[c].seen = h)
      /\ cmd[c].at \in Replacing => \A h \in Holds : ~Alive(h)
      /\ cmd[c].at \in Knowing => \A h \in Holds : Alive(h) => h = cmd[c].seen
      /\ cmd[c].at \notin {"recheck", "signal"}
  BY <1>1, Alone
<1>3. /\ \A at : At(c, at) => cmd'[c].at = at /\ cmd'[c].seen = cmd[c].seen
      /\ \A at, h : Loads(c, h, at) => cmd'[c].at = at /\ cmd'[c].seen = h
      /\ Return(c) => cmd'[c].at = "idle"
      /\ Reached(c) => cmd'[c].at \in {"idle", "reap"}
      /\ \A after : Continue(c, after) =>
            cmd'[c].at = IF after \in {"end", "abandon"} THEN "idle" ELSE after
  BY <1>1, UpdateFields
<1>4. /\ \A at, after : Set(c, [cmd[c] EXCEPT !.at = at, !.after = after]) =>
            cmd'[c].at = at /\ cmd'[c].seen = cmd[c].seen
      /\ \A at, h, after : Set(c, [cmd[c] EXCEPT !.at = at, !.seen = h, !.after = after]) =>
            cmd'[c].at = at /\ cmd'[c].seen = h
  BY <1>1, UpdateFields
<1>5. cmd[c].after \in Sequels /\ NotStopped(c) \in Sequels \ {"spawn"}
  BY <1>1 DEF TypeOK, CommandRecords, Sequels, NotStopped
<1>6. file \in Holds \cup {None} /\ None \notin Holds
  BY <1>1, RuntimeAssumption DEF TypeOK
<1>7. \A h : Killed(h) => \A g \in Holds :
        /\ Alive(g)' => Alive(g) /\ g # h
  BY <1>1 DEF Killed, TypeOK, Alive
<1>8. pc' = pc => \A h \in Holds : Alive(h)' = Alive(h)
  BY DEF Alive
<1>9. ASSUME UNCHANGED <<file, socket, pc>>, cmd[c].at # "watch",
             cmd'[c].at \notin Replacing \cup Knowing \cup {"recheck", "signal"}
      PROVE  Good
  BY <1>9, <1>2, <1>8
<1>10. ASSUME \A h \in Holds : ~Alive(h)', NoReap, Tame PROVE Good
  BY <1>10
<1>11. \A h \in Holds : cmd[c].at \in Replacing => ~Alive(h)
  BY <1>2
<1>12. ~Running /\ cmd[c].at # "watch" => \A h \in Holds : ~Alive(h)
  BY <1>2, <1>6 DEF Running
<1>13. ASSUME CheckStatus(c) PROVE Good
  <2>1. UNCHANGED <<file, socket, pc>> /\ cmd[c].at = "status"
    BY <1>13 DEF CheckStatus, Runs, holds
  <2>2. cmd'[c].at \in {"reap", "stop", "start"}
    BY <1>13, <1>3, <1>4 DEF CheckStatus
  <2>3. QED
    BY <1>9, <2>1, <2>2 DEF Replacing, Knowing
<1>14. ASSUME StartLoads(c) PROVE Good
  <2>1. UNCHANGED <<file, socket, pc>> /\ cmd[c].at = "start"
    BY <1>14 DEF StartLoads, Runs, holds
  <2>2. CASE ~Running /\ At(c, "spawn")
    BY <2>1, <2>2, <1>3, <1>8, <1>10, <1>12
  <2>3. CASE Set(c, [cmd[c] EXCEPT !.at = "stop", !.after = "spawn"])
    <3>1. cmd'[c].at = "stop"
      BY <2>3, <1>4
    <3>2. QED
      BY <2>1, <3>1, <1>9 DEF Replacing, Knowing
  <2>4. CASE Running /\ (Reached(c) \/ Loads(c, file, "await"))
    <3>1. cmd'[c].at \in {"idle", "reap", "await"}
      BY <2>4, <1>3
    <3>2. QED
      BY <2>1, <3>1, <1>9 DEF Replacing, Knowing
  <2>5. QED
    BY <1>14, <2>2, <2>3, <2>4 DEF StartLoads
<1>15. ASSUME Await(c) PROVE Good
  BY <1>15, <1>2, <1>3, <1>4, <1>5, <1>6, <1>7, <1>8 DEF Await, Running, Runs,
     Replacing, Knowing, Sequels, holds
<1>16. ASSUME Spawn(c) PROVE Good
  <2>1. PICK h \in Holds : pc' = [pc EXCEPT ![h] = "top"] /\ Loads(c, h, "watch")
    BY <1>16 DEF Spawn, Goto
  <2>2. \A g \in Holds : ~Alive(g)
    BY <1>16, <1>2 DEF Spawn, Runs, Replacing
  <2>3. \A g \in Holds : Alive(g)' => g = h
    BY <2>1, <2>2, <1>1 DEF Alive, TypeOK
  <2>4. QED
    BY <2>1, <2>2, <2>3, <1>3 DEF Replacing, Knowing
<1>17. ASSUME Watch(c) PROVE Good
  BY <1>17, <1>2, <1>3, <1>4, <1>5, <1>6, <1>7, <1>8 DEF Watch, Running, Runs,
     Replacing, Knowing, Sequels, holds
<1>18. ASSUME StopLoads(c) PROVE Good
  <2>1. UNCHANGED <<file, socket, pc>> /\ cmd[c].at = "stop"
    BY <1>18 DEF StopLoads, Runs, holds
  <2>2. CASE file = None /\ Continue(c, NotStopped(c))
    <3>1. cmd'[c].at \in {"idle"} \cup (Sequels \ {"end", "abandon", "spawn"})
      BY <2>2, <1>3, <1>5
    <3>2. \A h \in Holds : ~Alive(h)'
      BY <2>1, <2>2, <1>8, <1>12 DEF Running
    <3>3. QED
      BY <2>1, <3>1, <3>2, <1>10 DEF Sequels
  <2>3. CASE ~Running /\ Set(c, [cmd[c] EXCEPT !.at = "clear", !.seen = file,
                                               !.after = NotStopped(c)])
    <3>1. cmd'[c].at = "clear"
      BY <2>3, <1>4
    <3>2. \A h \in Holds : ~Alive(h)'
      BY <2>1, <2>3, <1>8, <1>12
    <3>3. QED
      BY <2>1, <3>1, <3>2, <1>10
  <2>4. CASE Running /\ Loads(c, file, "interrupt")
    <3>1. cmd'[c].at = "interrupt" /\ cmd'[c].seen = file
      BY <2>4, <1>3
    <3>2. QED
      BY <2>1, <3>1, <1>2, <1>8 DEF Replacing
  <2>5. QED
    BY <1>18, <2>2, <2>3, <2>4 DEF StopLoads
<1>19. ASSUME Interrupt(c) PROVE Good
  <2>1. UNCHANGED <<file, socket, pc>> /\ cmd[c].at = "interrupt"
    BY <1>19 DEF Interrupt, Runs
  <2>2. \A h \in Holds : Alive(h) => h = cmd[c].seen /\ file = h
    BY <2>1, <1>2 DEF Knowing
  <2>3. CASE At(c, "stopping")
    BY <2>1, <2>2, <2>3, <1>3, <1>8 DEF Replacing
  <2>4. CASE ~Alive(cmd[c].seen)
             /\ Set(c, [cmd[c] EXCEPT !.at = "clear", !.after = NotStopped(c)])
    <3>1. cmd'[c].at = "clear"
      BY <2>4, <1>4
    <3>2. \A h \in Holds : ~Alive(h)'
      BY <2>1, <2>2, <2>4, <1>8
    <3>3. QED
      BY <2>1, <3>1, <3>2, <1>10
  <2>5. QED
    BY <1>19, <2>3, <2>4 DEF Interrupt
<1>20. ASSUME Stopping(c) PROVE Good
  <2>1. /\ UNCHANGED <<file, socket>> /\ Killed(cmd[c].seen)
        /\ cmd[c].at \in Knowing
    BY <1>20 DEF Stopping, Runs, Knowing, holds
  <2>2. cmd'[c].at = "clear"
    BY <1>20, <1>3, <1>4 DEF Stopping
  <2>3. \A h \in Holds : ~Alive(h)'
    BY <2>1, <1>2, <1>7
  <2>4. QED
    BY <2>1, <2>2, <2>3, <1>10
<1>21. ASSUME ClearIfCurrent(c) PROVE Good
  <2>1. pc' = pc /\ cmd[c].at \in Replacing
    BY <1>21 DEF ClearIfCurrent, Runs, Replacing, holds
  <2>2. \A h \in Holds : ~Alive(h) /\ ~Alive(h)'
    BY <2>1, <1>8, <1>11
  <2>3. NoReap
    BY <1>21, <1>3, <1>5 DEF ClearIfCurrent, Sequels
  <2>4. QED
    BY <2>2, <2>3, <1>10
<1>22. ASSUME ClearFile(c) PROVE Good
  <2>1. pc' = pc /\ cmd[c].at \in Replacing
    BY <1>22 DEF ClearFile, Runs, Replacing, holds
  <2>2. \A h \in Holds : ~Alive(h) /\ ~Alive(h)'
    BY <2>1, <1>8, <1>11
  <2>3. NoReap
    BY <1>22, <1>3, <1>5 DEF ClearFile, Sequels
  <2>4. QED
    BY <2>2, <2>3, <1>10
<1>23. ASSUME RemoveRuntimeSocket(c) PROVE Good
  <2>1. pc' = pc /\ cmd[c].at \in Replacing
    BY <1>23 DEF RemoveRuntimeSocket, Runs, Replacing, holds
  <2>2. \A h \in Holds : ~Alive(h) /\ ~Alive(h)'
    BY <2>1, <1>8, <1>11
  <2>3. NoReap
    BY <1>23, <1>3, <1>5 DEF RemoveRuntimeSocket, Sequels
  <2>4. QED
    BY <2>2, <2>3, <1>10
<1>24. ASSUME Reload(c) PROVE Good
  <2>1. pc' = pc /\ cmd[c].at \in Replacing
    BY <1>24 DEF Reload, Runs, Replacing, holds
  <2>2. \A h \in Holds : ~Alive(h) /\ ~Alive(h)'
    BY <2>1, <1>8, <1>11
  <2>3. NoReap
    BY <1>24, <1>3, <1>5 DEF Reload, Sequels
  <2>4. QED
    BY <2>2, <2>3, <1>10
<1>25. ASSUME ReapLoads(c) PROVE Good
  BY <1>25, <1>2, <1>3, <1>4, <1>5, <1>6, <1>7, <1>8 DEF ReapLoads, Running, Runs,
     Replacing, Knowing, Sequels, holds
<1>26. ASSUME Scan(c) PROVE Good
  <2>1. \A h \in Holds : Alive(h) => h = cmd[c].seen
    BY <1>26, <1>2 DEF Scan, Runs, Knowing
  <2>2. Candidates(c) = {}
    BY <2>1 DEF Candidates, Orphan
  <2>3. QED
    BY <1>26, <2>2 DEF Scan
<1>27. ASSUME Recheck(c) PROVE Good
  BY <1>27, <1>2, <1>3, <1>4, <1>5, <1>6, <1>7, <1>8 DEF Recheck, Running, Runs,
     Replacing, Knowing, Sequels, holds
<1>28. ASSUME Signal(c) PROVE Good
  BY <1>28, <1>2, <1>3, <1>4, <1>5, <1>6, <1>7, <1>8 DEF Signal, Running, Runs,
     Replacing, Knowing, Sequels, holds
<1>29. ASSUME LaunchFails(c) PROVE Good
  <2>1. /\ UNCHANGED <<file, socket>> /\ Killed(cmd[c].seen)
        /\ cmd[c].at \in Knowing
    BY <1>29 DEF LaunchFails, Runs, Knowing, holds
  <2>2. cmd'[c].at = "clear"
    BY <1>29, <1>3, <1>4 DEF LaunchFails
  <2>3. \A h \in Holds : ~Alive(h)'
    BY <2>1, <1>2, <1>7
  <2>4. QED
    BY <2>1, <2>2, <2>3, <1>10
<1>30. ASSUME ScanEnds(c) PROVE Good
  BY <1>30, <1>2, <1>3, <1>4, <1>5, <1>6, <1>7, <1>8
  DEF ScanEnds, Runs, Replacing, Knowing, Sequels, holds
<1>31. ASSUME GiveUp(c) PROVE Good
  BY <1>31, <1>2, <1>3, <1>4, <1>5, <1>6, <1>7, <1>8
  DEF GiveUp, Runs, Replacing, Knowing, Sequels, holds
<1>32. ASSUME CommandKilled(c) PROVE Good
  BY <1>32 DEF CommandKilled, Calm
<1>33. Good
  BY <1>13, <1>14, <1>15, <1>16, <1>17, <1>18, <1>19, <1>20, <1>21, <1>22, <1>23,
     <1>24, <1>25, <1>26, <1>27, <1>28, <1>29, <1>30, <1>31, <1>32 DEF CommandStep
<1>34. UNCHANGED setting
  BY DEF CommandStep, CheckStatus, StartLoads, Await, Spawn, Watch, StopLoads,
     Interrupt, Stopping, ClearIfCurrent, ClearFile, RemoveRuntimeSocket, Reload, ReapLoads,
     Scan, Recheck, Signal, LaunchFails, ScanEnds, GiveUp, CommandKilled, world
<1>35. \A d \in Commands \ {c} : cmd'[d] = cmd[d]
  BY <1>1, OthersKeep
<1>36. CalmInv'
  BY <1>2, <1>33, <1>34, <1>35, AloneAfter
<1>37. QED
  BY <1>33, <1>36

\* No hold, no command.
LEMMA CalmInit == Init => CalmInv
  BY DEF Init, CalmInv, AliveIsKnown, OneCommand, ReplacesTheDead, KnowsTheOnlyOne,
     NothingToReap, Alive, Idle, Replacing, Knowing

LEMMA CalmNext == NamesInv /\ CalmInv /\ [Next]_vars => CalmInv'
<1> SUFFICES ASSUME NamesInv, CalmInv, [Next]_vars PROVE CalmInv'
  OBVIOUS
<1>1. UNCHANGED setting
  BY DEF Next, HoldStep, HoldEnds, Top, Dial, UnlinkOld, Bind, SaveRuntime, RemoveSocket,
     CloseListener, ClearOwn, RemoveFile, Wait, DialFails, DialRefused, SaveFails,
     StopServing, ClearFails, HoldCrashes, Forget, BeginRepair, BeginStart, BeginStop, Begin,
     CommandStep, CheckStatus, StartLoads, Await, Spawn, Watch, StopLoads,
     Interrupt, Stopping, ClearIfCurrent, ClearFile, RemoveRuntimeSocket, Reload, ReapLoads,
     Scan, Recheck, Signal, LaunchFails, ScanEnds, GiveUp, CommandKilled, BrowserRestarts,
     world, vars
<1>2. CASE ~Calm
  BY <1>1, <1>2 DEF CalmInv, Calm
<1>3. CASE Calm
  <2>1. ASSUME NEW h \in Holds,
               HoldStep(h) \/ HoldEnds(h) \/ HoldCrashes(h) \/ Forget(h)
        PROVE  CalmInv'
    BY <1>3, <2>1, HoldCalm
  <2>2. ASSUME NEW c \in Commands, BeginRepair(c) \/ BeginStart(c) \/ BeginStop(c)
        PROVE  CalmInv'
    BY <1>3, <2>2, BeginCalm
  <2>3. ASSUME NEW c \in Commands,
               CommandStep(c) \/ LaunchFails(c) \/ ScanEnds(c) \/ GiveUp(c) \/ CommandKilled(c)
        PROVE  CalmInv'
    BY <1>3, <2>3, CommandChanges
  <2>4. ASSUME BrowserRestarts \/ UNCHANGED vars PROVE CalmInv'
    <3>1. UNCHANGED <<file, pc, cmd, setting>>
      BY <2>4 DEF BrowserRestarts, vars
    <3>2. QED
      BY <3>1 DEF CalmInv, Calm, AliveIsKnown, Launched, OneCommand, ReplacesTheDead,
         KnowsTheOnlyOne, NothingToReap, Alive
  <2>5. QED
    BY <2>1, <2>2, <2>3, <2>4 DEF Next
<1>4. QED
  BY <1>2, <1>3

\* Without reconnects, with commands that take turns and are not killed: there is
\* never a second hold (StopRuntimeForMode waits for the old one to end, a launch
\* that fails is terminated).
THEOREM One == Spec => []OneHold
<1>1. CalmInv => OneHold
  BY OnlyOne DEF OneHold, CalmInv
<1>2. QED
  BY <1>1, NamesInit, NamesNext, CalmInit, CalmNext, PTL DEF Spec

\* The same assumption: only a hold that serves takes its own file and socket away.
THEOREM KeepsFiles == Spec => ServerKeepsFiles
<1>1. NamesInv /\ CalmInv /\ [Next]_vars =>
        [\A h \in Holds : Calm /\ Current(h) => file' = h /\ socket' = h]_vars
  <2> SUFFICES ASSUME NamesInv, CalmInv, Next, NEW h \in Holds, Calm, Current(h)
               PROVE  file' = h /\ socket' = h
    BY DEF vars, Current
  <2>1. Alive(h) /\ pc[h] = "serve" /\ file = h /\ socket = h
    BY DEF Current, Alive
  <2>2. ASSUME NEW g \in Holds,
               HoldStep(g) \/ HoldEnds(g) \/ HoldCrashes(g) \/ Forget(g)
        PROVE  UNCHANGED <<file, socket>>
    <3>1. file' # file \/ socket' # socket => Alive(g) /\ pc[g] # "serve"
      BY <2>2, HoldChanges
    <3>2. Alive(g) => g = h
      BY <2>1, OnlyOne
    <3>3. QED
      BY <2>1, <3>1, <3>2
  <2>3. ASSUME NEW c \in Commands, BeginRepair(c) \/ BeginStart(c) \/ BeginStop(c)
        PROVE  UNCHANGED <<file, socket>>
    BY <2>3 DEF BeginRepair, BeginStart, BeginStop, Begin
  <2>4. ASSUME NEW c \in Commands,
               CommandStep(c) \/ LaunchFails(c) \/ ScanEnds(c) \/ GiveUp(c) \/ CommandKilled(c)
        PROVE  UNCHANGED <<file, socket>>
    BY <2>1, <2>4, CommandChanges
  <2>5. ASSUME BrowserRestarts PROVE UNCHANGED <<file, socket>>
    BY <2>5 DEF BrowserRestarts
  <2>6. QED
    BY <2>1, <2>2, <2>3, <2>4, <2>5 DEF Next
<1>2. QED
  BY <1>1, NamesInit, NamesNext, CalmInit, CalmNext, PTL DEF Spec, ServerKeepsFiles
=============================================================================
