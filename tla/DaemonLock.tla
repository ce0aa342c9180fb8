----------------------------- MODULE DaemonLock -----------------------------
(***************************************************************************)
(* One named lock file of internal/daemon/lock.go, and the processes that  *)
(* want it: each acquires it once, works, and releases it, or dies.        *)
(* Cleaners only run RemoveStaleLocks.                                     *)
(*                                                                         *)
(* A file is known by its inode: a process that created it goes on writing *)
(* to it after somebody else has unlinked it.  Inspection and removal,     *)
(* and the ownership check and what follows it, are separate system calls  *)
(* on a path, and anything may come between the two.                       *)
(***************************************************************************)
EXTENDS Naturals

CONSTANTS
  Contenders, Cleaners,
  None,
  Leased      \* AcquireLockWithLease with a positive lease

Procs == Contenders \cup Cleaners

VARIABLES
  file,       \* what the path names: None or an inode and its content
  seen,       \* the inode each process found at the path, to act on it
  fd,         \* the inode each update has open
  pc,
  expired,    \* processes whose lease has run out
  raced       \* history: somebody acted on another file than it had checked

vars == <<file, seen, fd, pc, expired, raced>>

\* A contender creates one inode when it acquires, and one when its update
\* finds that the path is gone.
Inodes == Contenders \X {"create", "update"}

\* owner is None in a file that is empty, or being rewritten; old when it has
\* not been written for longer than staleAfter.
Files == [inode : Inodes, owner : Contenders \cup {None}, old : BOOLEAN]

ASSUME LockAssumption ==
  /\ Contenders \cap Cleaners = {}
  /\ None \notin Procs \cup Inodes \cup Files
  /\ Leased \in BOOLEAN

Empty(inode) == [inode |-> inode, owner |-> None, old |-> FALSE]

Init ==
  /\ file = None
  /\ seen = [p \in Procs |-> None]
  /\ fd = [p \in Contenders |-> None]
  /\ pc = [p \in Procs |-> "try"]
  /\ expired = {}
  /\ raced = FALSE

Goto(p, label) == pc' = [pc EXCEPT ![p] = label]
Alive(p) == pc[p] # "dead"

\* p reads what the path names, and later opens or removes what it names then.
Looks(p) == seen' = [seen EXCEPT ![p] = IF file = None THEN None ELSE file.inode]

Acts(p) ==
  /\ raced' = (raced \/ (file # None /\ file.inode # seen[p]))
  /\ seen' = [seen EXCEPT ![p] = None]

-----------------------------------------------------------------------------
\* AcquireLockWithLease.
CreateFile(p) ==
  /\ pc[p] = "try" /\ p \in Contenders
  /\ file = None
  /\ file' = Empty(<<p, "create">>)
  /\ Goto(p, "write")
  /\ UNCHANGED <<seen, fd, expired, raced>>

\* What the path names after p wrote its metadata to an inode it has open:
\* nothing new if the path names another file by now.
WrittenBy(p, inode) ==
  IF file # None /\ file.inode = inode
  THEN [file EXCEPT !.owner = p, !.old = FALSE] ELSE file

WriteMetadata(p) ==
  /\ pc[p] = "write"
  /\ file' = WrittenBy(p, <<p, "create">>)
  /\ Goto(p, "held")
  /\ UNCHANGED <<seen, fd, expired, raced>>

\* Cancelled, or not written: the path is removed.
AbandonFile(p) ==
  /\ pc[p] = "write"
  /\ file' = None
  /\ Goto(p, "done")
  /\ UNCHANGED <<seen, fd, expired, raced>>

\* Variant: age takes the lock from an owner that is still running.
RemovableByAge(f) ==
  \/ f.old
  \/ f.owner # None /\ (~Alive(f.owner) \/ f.owner \in expired)

\* Variant: a file that names nobody is never stale.
RemovableIfNamed(f) ==
  f.owner # None /\ (~Alive(f.owner) \/ f.owner \in expired)

\* InspectLockContext finds the file stale, for a reason that lets it go even
\* if its owner runs only when that reason is an expired lease.
Removable(f) ==
  IF f.owner = None THEN f.old
  ELSE ~Alive(f.owner) \/ f.owner \in expired

Inspect(p) ==
  /\ pc[p] = "try"
  /\ file # None /\ Removable(file)
  /\ Looks(p) /\ Goto(p, "remove")
  /\ UNCHANGED <<file, fd, expired, raced>>

RemoveStale(p) ==
  /\ pc[p] = "remove"
  /\ Acts(p) /\ file' = None
  /\ Goto(p, IF p \in Cleaners THEN "done" ELSE "try")
  /\ UNCHANGED <<fd, expired>>

\* The timeout, a cancelled context or, for a cleaner, nothing to remove.
GiveUp(p) ==
  /\ pc[p] = "try"
  /\ Goto(p, "done")
  /\ UNCHANGED <<file, seen, fd, expired, raced>>

-----------------------------------------------------------------------------
\* LockHandle.  A handle may be updated once here, and is then released.
OwnsCurrentFile(p) == file # None /\ file.owner = p /\ p \notin expired

BeginUpdate(p) ==
  /\ pc[p] = "held"
  /\ Looks(p)
  /\ Goto(p, IF OwnsCurrentFile(p) THEN "update" ELSE "updated")
  /\ UNCHANGED <<file, fd, expired, raced>>

\* os.WriteFile truncates what the path names, or creates it, ...
TruncateFile(p) ==
  /\ pc[p] = "update" /\ Acts(p)
  /\ LET inode == IF file = None THEN <<p, "update">> ELSE file.inode
     IN file' = Empty(inode) /\ fd' = [fd EXCEPT ![p] = inode]
  /\ Goto(p, "updating")
  /\ UNCHANGED expired

\* ... and then writes.
WriteUpdate(p) ==
  /\ pc[p] = "updating"
  /\ file' = WrittenBy(p, fd[p]) /\ fd' = [fd EXCEPT ![p] = None]
  /\ Goto(p, "updated")
  /\ UNCHANGED <<seen, expired, raced>>

\* Variant: Release does not look at whose file it is.
ReleaseUnchecked(p) ==
  /\ pc[p] \in {"held", "updated"}
  /\ Looks(p)
  /\ Goto(p, "release")
  /\ UNCHANGED <<file, fd, expired, raced>>

Release(p) ==
  /\ pc[p] \in {"held", "updated"}
  /\ Looks(p)
  /\ Goto(p, IF OwnsCurrentFile(p) THEN "release" ELSE "done")
  /\ UNCHANGED <<file, fd, expired, raced>>

RemoveOwn(p) ==
  /\ pc[p] = "release"
  /\ Acts(p) /\ file' = None
  /\ Goto(p, "done")
  /\ UNCHANGED <<fd, expired>>

-----------------------------------------------------------------------------
\* Processes die, leases run out, and files grow old unless a process that
\* lives is about to write them.
Dies(p) ==
  /\ pc[p] \notin {"done", "dead"}
  /\ Goto(p, "dead")
  /\ UNCHANGED <<file, seen, fd, expired, raced>>

Holding == {"held", "update", "updating", "updated", "release"}

LeaseExpires(p) ==
  /\ Leased /\ pc[p] \in Holding
  /\ expired' = expired \cup {p}
  /\ UNCHANGED <<file, seen, fd, pc, raced>>

FileAges ==
  /\ file # None /\ ~file.old
  /\ \A p \in Contenders : pc[p] \notin {"write", "updating"}
  /\ file' = [file EXCEPT !.old = TRUE]
  /\ UNCHANGED <<seen, fd, pc, expired, raced>>

Acquire(p) ==
  \/ CreateFile(p) \/ WriteMetadata(p) \/ AbandonFile(p)
  \/ Inspect(p) \/ RemoveStale(p)

Use(p) ==
  \/ BeginUpdate(p) \/ TruncateFile(p) \/ WriteUpdate(p)
  \/ Release(p) \/ RemoveOwn(p)

Next ==
  \/ \E p \in Procs :
       Acquire(p) \/ GiveUp(p) \/ Use(p) \/ Dies(p) \/ LeaseExpires(p)
  \/ FileAges

Spec == Init /\ [][Next]_vars

\* Every process that lives runs, and time passes.  Nobody has to give up.
FairSpec ==
  /\ Spec
  /\ WF_vars(FileAges)
  /\ \A p \in Procs : WF_vars(Acquire(p)) /\ WF_vars(Use(p))

-----------------------------------------------------------------------------
\* Type correctness of the lock file and its users.
TypeOK ==
  /\ file \in Files \cup {None}
  /\ seen \in [Procs -> Inodes \cup {None}]
  /\ fd \in [Contenders -> Inodes \cup {None}]
  /\ pc \in [Procs -> {"try", "write", "remove", "done", "dead"} \cup Holding]
  /\ expired \subseteq Procs
  /\ raced \in BOOLEAN

\* Works under the lock: has it, has not begun to release it, and its lease
\* has not run out.
Holds(p) == pc[p] \in Holding \ {"release"} /\ p \notin expired

\* At most one process works under the lock (docs/FORMAL_INVARIANTS.md: "An
\* unhealthy runtime has at most one headed-remote-debugging-repair owner").
MutualExclusion == \A p, q \in Procs : Holds(p) /\ Holds(q) => p = q

holders == {p \in Procs : Holds(p)}

\* To those that work under it, the file, its inspections, updates and removals
\* are a lock, until somebody opens or removes another file than the one it has
\* checked: who starts to work found nobody at work, and a holder that dies or
\* whose lease runs out has left (AcquireLockWithLease, LockHandle).
Lock == INSTANCE ExclusiveLock

ImplementsLock == Lock!Init /\ [][~raced' => Lock!Next]_holders

\* Until then nobody but its holder changes or removes the file of a process
\* that works under the lock (AcquireLockWithLease takes only a stale file away,
\* and Update and Release look at whose file it is).
HolderKeepsFile ==
  [][\A p \in Procs :
       Holds(p) /\ OwnsCurrentFile(p) /\ pc'[p] = pc[p] /\ file' # file /\ ~raced'
         => file' # None /\ file'.owner = p]_vars

\* A contender that keeps trying is not kept out by a process that died: the
\* file the dead one left goes away (InspectLockContext's reasons together).
DeadLockReclaimed ==
  \A p \in Contenders, q \in Contenders :
    (/\ file # None /\ ~Alive(file.inode[1]) /\ file.inode[1] = p
     /\ pc[q] = "try")
    ~> (\/ file = None
        \/ file.inode[1] # p
        \/ pc[q] \in {"done", "dead"})
=============================================================================
