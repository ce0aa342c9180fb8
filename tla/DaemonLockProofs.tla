-------------------------- MODULE DaemonLockProofs --------------------------
(***************************************************************************)
(* Until somebody opens or removes another file than the one it has        *)
(* checked, the lock file excludes: at most one process works under the    *)
(* lock, and nobody else touches its file.  The invariant says whose file  *)
(* the path names at each point of the protocol, and that whoever made a   *)
(* file that was found stale never works under the lock again.             *)
(***************************************************************************)
EXTENDS DaemonLock, TLAPS

\* Only contenders get as far as a file of their own.
OnlyContenders ==
  \A p \in Procs : pc[p] \in {"write"} \cup Holding => p \in Contenders

\* c is past its turn: it does not work under the lock and never will.
Spent(c) == ~Holds(c) /\ pc[c] \notin {"try", "remove", "write"}

\* The file is of the process that created it, and names it or nobody.
FileOfMaker ==
  file # None =>
    /\ file.owner \in {None, file.inode[1]}
    /\ pc[file.inode[1]] \notin {"try", "remove"}

\* A process that creates the file is its only writer, and the file is young.
WriterOwnsFile ==
  \A p \in Procs : pc[p] = "write" => file = Empty(<<p, "create">>)

\* Who works under the lock has the path, and is named there unless it is
\* rewriting the file.
HolderHasFile ==
  \A p \in Procs : Holds(p) =>
    /\ file # None /\ file.inode[1] = p
    /\ IF pc[p] = "updating" THEN file = Empty(fd[p]) ELSE file.owner = p

\* An update writes to a file of its own.
UpdaterOwnsFile ==
  \A p \in Procs : pc[p] = "updating" => fd[p] \in Inodes /\ fd[p][1] = p

\* The maker of a file that was found stale is past its turn.
StaleIsSpent ==
  \A p \in Procs :
    pc[p] = "remove" => seen[p] \in Inodes /\ Spent(seen[p][1])

\* The file that was found to be its own is of its own making.
CheckedIsOwn ==
  \A p \in Procs :
    pc[p] \in {"update", "release"} => seen[p] \in Inodes /\ seen[p][1] = p

Owned ==
  /\ FileOfMaker /\ WriterOwnsFile /\ HolderHasFile
  /\ UpdaterOwnsFile /\ StaleIsSpent /\ CheckedIsOwn

LockInv == TypeOK /\ OnlyContenders /\ (~raced => Owned)
-----------------------------------------------------------------------------
\* The labels of the protocol, for the provers.
USE DEF Holding, Procs

\* An empty file is a file.
LEMMA EmptyFile ==
  ASSUME NEW inode \in Inodes
  PROVE  /\ Empty(inode) \in Files /\ Empty(inode) # None
         /\ Empty(inode).owner = None /\ Empty(inode).inode = inode
         /\ ~Empty(inode).old
<1>1. Empty(inode) \in Files
  BY DEF Empty, Files
<1>2. Empty(inode) # None
  BY <1>1, LockAssumption
<1>3. QED
  BY <1>1, <1>2 DEF Empty

\* The parts of a file, and who made it.
LEMMA FileParts ==
  ASSUME TypeOK, file # None
  PROVE  /\ file \in Files /\ file.inode \in Inodes
         /\ file.inode[1] \in Contenders /\ file.inode[1] # None
         /\ file.owner \in Contenders \cup {None} /\ file.old \in BOOLEAN
<1>1. file \in Files
  BY DEF TypeOK
<1>2. file.inode \in Inodes /\ file.inode[1] \in Contenders
  BY <1>1 DEF Files, Inodes
<1>3. QED
  BY <1>1, <1>2, LockAssumption DEF Files

\* The file of a process about to write its metadata.
LEMMA WriterFile ==
  ASSUME LockInv, Owned, NEW p \in Procs, pc[p] = "write"
  PROVE  /\ p \in Contenders /\ <<p, "create">> \in Inodes
         /\ file # None /\ file.inode = <<p, "create">> /\ file.inode[1] = p
         /\ file.owner = None /\ ~file.old
<1>1. p \in Contenders /\ file = Empty(<<p, "create">>)
  BY DEF LockInv, OnlyContenders, Owned, WriterOwnsFile
<1>2. <<p, "create">> \in Inodes
  BY <1>1 DEF Inodes
<1>3. QED
  BY <1>1, <1>2, EmptyFile

\* Whoever works under the lock or is about to has made the file.
LEMMA MakerOnly ==
  ASSUME LockInv, Owned, NEW p \in Procs, Holds(p) \/ pc[p] = "write"
  PROVE  file # None /\ file.inode[1] = p
BY WriterFile DEF Owned, HolderHasFile

\* Who is past its turn stays so.
LEMMA SpentStays ==
  ASSUME TypeOK, [Next]_vars, NEW c \in Contenders, Spent(c) PROVE Spent(c)'
<1>1. pc'[c] = pc[c] \/ pc'[c] \in {"done", "dead"} \/ (c \in expired /\ pc'[c] \in Holding)
  BY DEF Spent, Holds, Next, Acquire, CreateFile, WriteMetadata, AbandonFile, Inspect,
     RemoveStale, GiveUp, Use, BeginUpdate, TruncateFile, WriteUpdate, Release,
     RemoveOwn, Dies, LeaseExpires, FileAges, Goto, vars, TypeOK
<1>2. c \in expired => c \in expired'
  BY DEF Next, Acquire, CreateFile, WriteMetadata, AbandonFile, Inspect,
     RemoveStale, GiveUp, Use, BeginUpdate, TruncateFile, WriteUpdate, Release,
     RemoveOwn, Dies, LeaseExpires, FileAges, vars
<1>3. QED
  BY <1>1, <1>2 DEF Spent, Holds

\* A file that may go away is of somebody past its turn.
LEMMA StaleSpent ==
  ASSUME LockInv, Owned, file # None, Removable(file)
  PROVE  Spent(file.inode[1])
<1> DEFINE c == file.inode[1]
<1>1. c \in Contenders /\ c # None /\ file.owner \in {None, c} /\ pc[c] \notin {"try", "remove"}
  BY FileParts DEF LockInv, Owned, FileOfMaker
<1>2. pc[c] # "write"
  <2> SUFFICES ASSUME pc[c] = "write" PROVE FALSE
    OBVIOUS
  <2>1. file.owner = None /\ ~file.old
    BY <1>1, WriterFile
  <2>2. QED
    BY <2>1 DEF Removable
<1>3. ~Holds(c)
  <2> SUFFICES ASSUME Holds(c) PROVE FALSE
    OBVIOUS
  <2>1. CASE file.owner = c
    BY <2>1, <1>1 DEF Removable, Alive, Holds
  <2>2. CASE pc[c] = "updating" /\ file = Empty(fd[c])
    <3>1. fd[c] \in Inodes
      BY <2>2, <1>1 DEF Owned, UpdaterOwnsFile
    <3>2. file.owner = None /\ ~file.old
      BY <2>2, <3>1, EmptyFile
    <3>3. QED
      BY <3>2 DEF Removable
  <2>3. QED
    BY <1>1, <2>1, <2>2 DEF Owned, HolderHasFile
<1>4. QED
  BY <1>1, <1>2, <1>3 DEF Spent
-----------------------------------------------------------------------------
\* The initial state of DaemonLock.
LEMMA InitInv == Init => LockInv
  BY LockAssumption DEF Init, LockInv, TypeOK, OnlyContenders, Owned, FileOfMaker,
     WriterOwnsFile, HolderHasFile, UpdaterOwnsFile, StaleIsSpent, CheckedIsOwn, Holds

\* What p writes to an inode of its own leaves the path to a file, or to none.
LEMMA WrittenFile ==
  ASSUME TypeOK, NEW p \in Contenders, NEW inode
  PROVE  WrittenBy(p, inode) \in Files \cup {None}
<1>1. CASE file # None /\ file.inode = inode
  <2>1. file \in Files
    BY <1>1 DEF TypeOK
  <2>2. WrittenBy(p, inode) = [file EXCEPT !.owner = p, !.old = FALSE]
    BY <1>1 DEF WrittenBy
  <2>3. QED
    BY <2>1, <2>2 DEF Files
<1>2. CASE ~(file # None /\ file.inode = inode)
  BY <1>2 DEF WrittenBy, TypeOK
<1>3. QED
  BY <1>1, <1>2

\* Every step keeps the types, and contenders alone get a file.
LEMMA TypesStep ==
  ASSUME TypeOK, OnlyContenders, [Next]_vars PROVE TypeOK' /\ OnlyContenders'
<1>1. ASSUME NEW p \in Procs, CreateFile(p) PROVE TypeOK' /\ OnlyContenders'
  <2>1. <<p, "create">> \in Inodes
    BY <1>1 DEF CreateFile, Inodes
  <2>2. Empty(<<p, "create">>) \in Files
    BY <2>1, EmptyFile
  <2>3. QED
    BY <1>1, <2>2 DEF CreateFile, Goto, TypeOK, OnlyContenders
<1>2. ASSUME NEW p \in Procs, WriteMetadata(p) PROVE TypeOK' /\ OnlyContenders'
  <2>1. p \in Contenders
    BY <1>2 DEF WriteMetadata, OnlyContenders
  <2>2. file' \in Files \cup {None}
    BY <1>2, <2>1, WrittenFile DEF WriteMetadata
  <2>3. QED
    BY <1>2, <2>1, <2>2 DEF WriteMetadata, Goto, TypeOK, OnlyContenders
<1>3. ASSUME NEW p \in Procs, AbandonFile(p) \/ GiveUp(p) \/ Dies(p)
      PROVE  TypeOK' /\ OnlyContenders'
  BY <1>3 DEF AbandonFile, GiveUp, Dies, Goto, TypeOK, OnlyContenders
<1>4. ASSUME NEW p \in Procs, Inspect(p) \/ BeginUpdate(p) \/ Release(p)
      PROVE  TypeOK' /\ OnlyContenders'
  <2>1. file # None => file.inode \in Inodes
    BY FileParts
  <2>2. seen' \in [Procs -> Inodes \cup {None}]
    BY <1>4, <2>1 DEF Inspect, BeginUpdate, Release, Looks, TypeOK
  <2>3. /\ file' = file /\ fd' = fd /\ expired' = expired /\ raced' = raced
        /\ \/ pc' = [pc EXCEPT ![p] = "remove"]
           \/ /\ pc[p] \in {"held", "updated"}
              /\ \E label \in {"update", "updated", "release", "done"} :
                   pc' = [pc EXCEPT ![p] = label]
    BY <1>4 DEF Inspect, BeginUpdate, Release, Goto
  <2>4. QED
    BY <2>2, <2>3 DEF TypeOK, OnlyContenders
<1>5. ASSUME NEW p \in Procs, RemoveStale(p) \/ RemoveOwn(p)
      PROVE  TypeOK' /\ OnlyContenders'
  BY <1>5 DEF RemoveStale, RemoveOwn, Acts, Goto, TypeOK, OnlyContenders
<1>6. ASSUME NEW p \in Procs, TruncateFile(p) PROVE TypeOK' /\ OnlyContenders'
  <2> DEFINE inode == IF file = None THEN <<p, "update">> ELSE file.inode
  <2>1. p \in Contenders
    BY <1>6 DEF TruncateFile, OnlyContenders
  <2>2. inode \in Inodes
    BY <2>1, FileParts DEF Inodes
  <2>3. Empty(inode) \in Files
    BY <2>2, EmptyFile
  <2>4. /\ file' = Empty(inode) /\ fd' = [fd EXCEPT ![p] = inode] /\ expired' = expired
        /\ pc' = [pc EXCEPT ![p] = "updating"]
    BY <1>6 DEF TruncateFile, Goto
  <2>5. seen' \in [Procs -> Inodes \cup {None}] /\ raced' \in BOOLEAN
    BY <1>6 DEF TruncateFile, Acts, TypeOK
  <2> HIDE DEF inode
  <2>6. QED
    BY <2>1, <2>2, <2>3, <2>4, <2>5 DEF TypeOK, OnlyContenders
<1>7. ASSUME NEW p \in Procs, WriteUpdate(p) PROVE TypeOK' /\ OnlyContenders'
  <2>1. p \in Contenders
    BY <1>7 DEF WriteUpdate, OnlyContenders
  <2>2. file' \in Files \cup {None}
    BY <1>7, <2>1, WrittenFile DEF WriteUpdate
  <2>3. QED
    BY <1>7, <2>1, <2>2 DEF WriteUpdate, Goto, TypeOK, OnlyContenders
<1>8. ASSUME NEW p \in Procs, LeaseExpires(p) PROVE TypeOK' /\ OnlyContenders'
  BY <1>8 DEF LeaseExpires, TypeOK, OnlyContenders
<1>9. ASSUME FileAges PROVE TypeOK' /\ OnlyContenders'
  <2>1. file' \in Files
    BY <1>9 DEF FileAges, TypeOK, Files
  <2>2. QED
    BY <1>9, <2>1 DEF FileAges, TypeOK, OnlyContenders
<1>10. CASE UNCHANGED vars
  BY <1>10 DEF vars, TypeOK, OnlyContenders
<1>11. QED
  BY <1>1, <1>2, <1>3, <1>4, <1>5, <1>6, <1>7, <1>8, <1>9, <1>10
  DEF Next, Acquire, Use

\* What a step of p leaves alone, and where it takes p.
Moves(p, label) ==
  /\ pc' = [pc EXCEPT ![p] = label] /\ expired' = expired
  /\ \A q \in Procs \ {p} : seen'[q] = seen[q] /\ (q \in Contenders => fd'[q] = fd[q])

\* The standing of the others does not change.
LEMMA OthersStay ==
  ASSUME TypeOK, NEW p \in Procs, NEW label, Moves(p, label)
  PROVE  /\ pc'[p] = label
         /\ \A q \in Procs \ {p} :
              pc'[q] = pc[q] /\ Holds(q)' = Holds(q)
BY DEF TypeOK, Moves, Holds

\* Of what p neither takes nor makes: a check of another stays as it was.
LEMMA ChecksStay ==
  ASSUME LockInv, Owned, [Next]_vars, NEW p \in Procs, NEW label, Moves(p, label)
  PROVE  /\ \A q \in Procs \ {p} : pc'[q] = "remove"
              => seen'[q] \in Inodes /\ Spent(seen[q][1])'
         /\ \A q \in Procs \ {p} : pc'[q] \in {"update", "release"}
              => seen'[q] \in Inodes /\ seen'[q][1] = q
         /\ \A q \in Procs \ {p} : pc'[q] = "updating"
              => fd'[q] \in Inodes /\ fd'[q][1] = q
<1>1. ASSUME NEW q \in Procs \ {p}, pc'[q] = "remove"
      PROVE  seen'[q] \in Inodes /\ Spent(seen[q][1])'
  <2>1. seen'[q] = seen[q] /\ seen[q] \in Inodes /\ Spent(seen[q][1])
    BY <1>1, OthersStay DEF LockInv, Owned, StaleIsSpent, Moves
  <2>2. seen[q][1] \in Contenders
    BY <2>1 DEF Inodes
  <2>3. ASSUME NEW c \in Contenders, Spent(c) PROVE Spent(c)'
    BY <2>3, SpentStays DEF LockInv
  <2>4. QED
    BY <2>1, <2>2, <2>3 DEF Spent, Holds
<1>2. ASSUME NEW q \in Procs \ {p}, pc'[q] \in {"update", "release"}
      PROVE  seen'[q] \in Inodes /\ seen'[q][1] = q
  BY <1>2, OthersStay DEF LockInv, Owned, CheckedIsOwn, Moves
<1>3. ASSUME NEW q \in Procs \ {p}, pc'[q] = "updating"
      PROVE  fd'[q] \in Inodes /\ fd'[q][1] = q
  BY <1>3, OthersStay DEF LockInv, OnlyContenders, Owned, UpdaterOwnsFile, Moves
<1>4. QED
  BY <1>1, <1>2, <1>3

-----------------------------------------------------------------------------
\* A step that leaves the file alone and takes p nowhere nearer to working
\* under the lock.
LEMMA CalmOwned ==
  ASSUME LockInv, Owned, [Next]_vars, NEW p \in Procs,
         NEW label \in {"remove", "update", "updated", "release", "done", "dead"},
         Moves(p, label), file' = file,
         Holds(p)' => Holds(p) /\ pc[p] # "updating",
         label = "remove" =>
           pc[p] = "try" /\ seen'[p] \in Inodes /\ Spent(seen[p][1])',
         label \in {"update", "release"} => seen'[p] \in Inodes /\ seen'[p][1] = p
  PROVE  Owned'
<1>1. /\ pc'[p] = label
      /\ \A q \in Procs \ {p} : pc'[q] = pc[q] /\ Holds(q)' = Holds(q)
  BY OthersStay DEF LockInv
<1>2. FileOfMaker'
  <2>1. file # None => file.inode[1] \in Procs
    BY FileParts DEF LockInv
  <2>2. QED
    BY <1>1, <2>1 DEF Owned, FileOfMaker
<1>3. WriterOwnsFile'
  BY <1>1 DEF Owned, WriterOwnsFile
<1>4. HolderHasFile'
  <2> SUFFICES ASSUME NEW q \in Procs, Holds(q)'
               PROVE  /\ file' # None /\ file'.inode[1] = q
                      /\ IF pc'[q] = "updating" THEN file' = Empty(fd'[q])
                         ELSE file'.owner = q
    BY DEF HolderHasFile, Empty
  <2>1. CASE q = p
    BY <2>1, <1>1 DEF Owned, HolderHasFile
  <2>2. CASE q # p
    <3>1. q \in Contenders
      BY <2>2, <1>1 DEF Holds, LockInv, OnlyContenders
    <3>2. fd'[q] = fd[q]
      BY <2>2, <3>1 DEF Moves
    <3>3. QED
      BY <2>2, <3>2, <1>1 DEF Owned, HolderHasFile
  <2>3. QED
    BY <2>1, <2>2
<1>5. StaleIsSpent' /\ CheckedIsOwn' /\ UpdaterOwnsFile'
  BY <1>1, ChecksStay DEF StaleIsSpent, CheckedIsOwn, UpdaterOwnsFile, Spent, Holds
<1>6. QED
  BY <1>2, <1>3, <1>4, <1>5 DEF Owned

\* A step that removes what the path names, of nobody that works under the lock
\* or is about to.
LEMMA GoneOwned ==
  ASSUME LockInv, Owned, [Next]_vars, NEW p \in Procs, NEW label \in {"try", "done"},
         Moves(p, label), file' = None,
         \A q \in Procs \ {p} : ~Holds(q) /\ pc[q] # "write"
  PROVE  Owned'
<1>1. /\ pc'[p] = label
      /\ \A q \in Procs \ {p} : pc'[q] = pc[q] /\ Holds(q)' = Holds(q)
  BY OthersStay DEF LockInv
<1>2. \A q \in Procs : ~Holds(q)' /\ pc'[q] # "write"
  BY <1>1 DEF Holds
<1>3. FileOfMaker' /\ WriterOwnsFile' /\ HolderHasFile'
  BY <1>2 DEF FileOfMaker, WriterOwnsFile, HolderHasFile
<1>4. StaleIsSpent' /\ CheckedIsOwn' /\ UpdaterOwnsFile'
  BY <1>1, ChecksStay DEF StaleIsSpent, CheckedIsOwn, UpdaterOwnsFile, Spent, Holds
<1>5. QED
  BY <1>3, <1>4 DEF Owned

\* A step that leaves at the path a file of p's making.
LEMMA MineOwned ==
  ASSUME LockInv, Owned, [Next]_vars, NEW p \in Procs,
         NEW label \in {"write", "held", "updating", "updated"},
         Moves(p, label), file' # None, file'.inode[1] = p, file'.owner \in {None, p},
         \A q \in Procs \ {p} : ~Holds(q) /\ pc[q] # "write",
         label = "write" => file' = Empty(<<p, "create">>),
         label = "updating" => fd'[p] \in Inodes /\ fd'[p][1] = p /\ file' = Empty(fd'[p]),
         label \in {"held", "updated"} => file'.owner = p
  PROVE  Owned'
<1>1. /\ pc'[p] = label
      /\ \A q \in Procs \ {p} : pc'[q] = pc[q] /\ Holds(q)' = Holds(q)
  BY OthersStay DEF LockInv
<1>2. \A q \in Procs \ {p} : ~Holds(q)' /\ pc'[q] # "write"
  BY <1>1
<1>3. FileOfMaker'
  BY <1>1 DEF FileOfMaker
<1>4. WriterOwnsFile'
  BY <1>1, <1>2 DEF WriterOwnsFile, Empty
<1>5. HolderHasFile'
  <2>1. Holds(p)' => label # "write"
    BY <1>1 DEF Holds
  <2>2. QED
    BY <1>1, <1>2, <2>1 DEF HolderHasFile, Empty
<1>6. StaleIsSpent' /\ CheckedIsOwn' /\ UpdaterOwnsFile'
  BY <1>1, ChecksStay DEF StaleIsSpent, CheckedIsOwn, UpdaterOwnsFile, Spent, Holds
<1>7. QED
  BY <1>3, <1>4, <1>5, <1>6 DEF Owned

\* If the path names a file of p's making, or none, nobody else works under the
\* lock or is about to.
LEMMA NobodyElse ==
  ASSUME LockInv, Owned, NEW p, file = None \/ file.inode[1] = p
  PROVE  \A q \in Procs \ {p} : ~Holds(q) /\ pc[q] # "write"
BY MakerOnly

\* If the path names a file of somebody past its turn, nobody does.
LEMMA NobodyHolds ==
  ASSUME LockInv, Owned, NEW p \in Procs, pc[p] = "remove",
         file # None => file.inode = seen[p]
  PROVE  \A q \in Procs : ~Holds(q) /\ pc[q] # "write"
BY MakerOnly DEF Owned, StaleIsSpent, Spent
-----------------------------------------------------------------------------
\* AcquireLockWithLease up to the file.
LEMMA CreateFileOwned ==
  ASSUME LockInv, Owned, [Next]_vars, NEW p \in Procs, CreateFile(p) PROVE Owned'
<1>1. /\ p \in Contenders /\ file = None /\ file' = Empty(<<p, "create">>)
      /\ Moves(p, "write")
  BY DEF CreateFile, Goto, Moves
<1>2. <<p, "create">> \in Inodes
  BY <1>1 DEF Inodes
<1>3. file' # None /\ file'.inode[1] = p /\ file'.owner \in {None, p}
  BY <1>1, <1>2, EmptyFile
<1>4. \A q \in Procs \ {p} : ~Holds(q) /\ pc[q] # "write"
  BY <1>1, NobodyElse
<1>5. QED
  BY <1>1, <1>3, <1>4, MineOwned

LEMMA WriteMetadataOwned ==
  ASSUME LockInv, Owned, [Next]_vars, NEW p \in Procs, WriteMetadata(p) PROVE Owned'
<1>1. /\ pc[p] = "write" /\ file' = WrittenBy(p, <<p, "create">>) /\ Moves(p, "held")
  BY DEF WriteMetadata, Goto, Moves
<1>2. file # None /\ file.inode = <<p, "create">> /\ file.inode[1] = p /\ file \in Files
  BY <1>1, WriterFile, FileParts DEF LockInv
<1>3. file' = [file EXCEPT !.owner = p, !.old = FALSE]
  BY <1>1, <1>2 DEF WrittenBy
<1>4. file'.owner = p /\ file'.inode[1] = p /\ file' \in Files
  BY <1>1, <1>2, <1>3, WriterFile DEF Files
<1>5. file' # None
  BY <1>4, LockAssumption
<1>6. \A q \in Procs \ {p} : ~Holds(q) /\ pc[q] # "write"
  BY <1>2, NobodyElse
<1>7. QED
  BY <1>1, <1>4, <1>5, <1>6, MineOwned

LEMMA AbandonFileOwned ==
  ASSUME LockInv, Owned, [Next]_vars, NEW p \in Procs, AbandonFile(p) PROVE Owned'
<1>1. pc[p] = "write" /\ file' = None /\ Moves(p, "done")
  BY DEF AbandonFile, Goto, Moves
<1>2. \A q \in Procs \ {p} : ~Holds(q) /\ pc[q] # "write"
  BY <1>1, WriterFile, NobodyElse
<1>3. QED
  BY <1>1, <1>2, GoneOwned

\* The maker of the stale file that was found is past its turn.
LEMMA InspectOwned ==
  ASSUME LockInv, Owned, [Next]_vars, NEW p \in Procs, Inspect(p) PROVE Owned'
<1>1. /\ pc[p] = "try" /\ file # None /\ Removable(file) /\ file' = file
      /\ Moves(p, "remove") /\ seen'[p] = file.inode
  BY DEF Inspect, Looks, Goto, Moves, LockInv, TypeOK
<1>2. file.inode \in Inodes /\ file.inode[1] \in Contenders /\ Spent(file.inode[1])
  BY <1>1, FileParts, StaleSpent DEF LockInv
<1>3. ASSUME NEW c \in Contenders, Spent(c) PROVE Spent(c)'
  BY <1>3, SpentStays DEF LockInv
<1>4. Spent(seen[p][1])'
  BY <1>1, <1>2, <1>3 DEF Spent, Holds
<1>5. ~Holds(p)'
  BY <1>1, OthersStay DEF Holds, LockInv
<1>6. QED
  BY <1>1, <1>2, <1>4, <1>5, CalmOwned

\* The file that is removed is the one that was found stale.
LEMMA RemoveStaleOwned ==
  ASSUME LockInv, Owned, [Next]_vars, NEW p \in Procs, RemoveStale(p), ~raced'
  PROVE  Owned'
<1>1. pc[p] = "remove" /\ file' = None /\ (file # None => file.inode = seen[p])
  BY DEF RemoveStale, Acts
<1>2. \A q \in Procs \ {p} : ~Holds(q) /\ pc[q] # "write"
  BY <1>1, NobodyHolds
<1>3. PICK label \in {"try", "done"} : Moves(p, label)
  BY DEF RemoveStale, Acts, Goto, Moves, LockInv, TypeOK
<1>4. QED
  BY <1>1, <1>2, <1>3, GoneOwned
-----------------------------------------------------------------------------
\* LockHandle: what was found to be its own is of its own making.
LEMMA OwnFile ==
  ASSUME LockInv, Owned, NEW p \in Procs, OwnsCurrentFile(p)
  PROVE  file # None /\ file.inode \in Inodes /\ file.inode[1] = p
BY FileParts, LockAssumption DEF OwnsCurrentFile, LockInv, Owned, FileOfMaker

LEMMA BeginUpdateOwned ==
  ASSUME LockInv, Owned, [Next]_vars, NEW p \in Procs, BeginUpdate(p) PROVE Owned'
<1>1. pc[p] = "held" /\ file' = file
  BY DEF BeginUpdate
<1>2. Holds(p)' => Holds(p)
  BY <1>1 DEF BeginUpdate, Holds
<1>3. CASE OwnsCurrentFile(p)
  <2>1. Moves(p, "update") /\ seen'[p] = file.inode
    BY <1>3 DEF BeginUpdate, Looks, Goto, Moves, LockInv, TypeOK, OwnsCurrentFile
  <2>2. QED
    BY <1>1, <1>2, <1>3, <2>1, OwnFile, CalmOwned
<1>4. CASE ~OwnsCurrentFile(p)
  <2>1. Moves(p, "updated")
    BY <1>4 DEF BeginUpdate, Looks, Goto, Moves, LockInv, TypeOK
  <2>2. QED
    BY <1>1, <1>2, <2>1, CalmOwned
<1>5. QED
  BY <1>3, <1>4

LEMMA ReleaseOwned ==
  ASSUME LockInv, Owned, [Next]_vars, NEW p \in Procs, Release(p) PROVE Owned'
<1>1. pc[p] \in {"held", "updated"} /\ file' = file
  BY DEF Release
<1>2. ~Holds(p)'
  BY DEF Release, Goto, Holds, LockInv, TypeOK
<1>3. CASE OwnsCurrentFile(p)
  <2>1. Moves(p, "release") /\ seen'[p] = file.inode
    BY <1>3 DEF Release, Looks, Goto, Moves, LockInv, TypeOK, OwnsCurrentFile
  <2>2. QED
    BY <1>1, <1>2, <1>3, <2>1, OwnFile, CalmOwned
<1>4. CASE ~OwnsCurrentFile(p)
  <2>1. Moves(p, "done")
    BY <1>4 DEF Release, Looks, Goto, Moves, LockInv, TypeOK
  <2>2. QED
    BY <1>1, <1>2, <2>1, CalmOwned
<1>5. QED
  BY <1>3, <1>4

\* The path an update opens names the file it has checked, or nothing.
LEMMA TruncateFileOwned ==
  ASSUME LockInv, Owned, [Next]_vars, NEW p \in Procs, TruncateFile(p), ~raced'
  PROVE  Owned'
<1> DEFINE inode == IF file = None THEN <<p, "update">> ELSE file.inode
<1>1. pc[p] = "update" /\ (file # None => file.inode = seen[p])
  BY DEF TruncateFile, Acts
<1>2. p \in Contenders /\ inode \in Inodes /\ inode[1] = p
  BY <1>1, FileParts DEF LockInv, OnlyContenders, Owned, CheckedIsOwn, Inodes
<1>3. file' = Empty(inode) /\ fd'[p] = inode /\ Moves(p, "updating")
  BY <1>2 DEF TruncateFile, Acts, Goto, Moves, LockInv, TypeOK
<1>4. \A q \in Procs \ {p} : ~Holds(q) /\ pc[q] # "write"
  BY <1>2, NobodyElse
<1>5. file' # None /\ file'.inode[1] = p /\ file'.owner \in {None, p}
  BY <1>2, <1>3, EmptyFile
<1> HIDE DEF inode
<1>6. QED
  BY <1>2, <1>3, <1>4, <1>5, MineOwned

LEMMA WriteUpdateOwned ==
  ASSUME LockInv, Owned, [Next]_vars, NEW p \in Procs, WriteUpdate(p) PROVE Owned'
<1>1. pc[p] = "updating" /\ file' = WrittenBy(p, fd[p]) /\ Moves(p, "updated")
  BY DEF WriteUpdate, Goto, Moves, LockInv, TypeOK
<1>2. p \in Contenders /\ fd[p] \in Inodes /\ fd[p][1] = p
  BY <1>1 DEF LockInv, OnlyContenders, Owned, UpdaterOwnsFile
<1>3. CASE file # None /\ file.inode = fd[p]
  <2>1. file \in Files
    BY <1>3 DEF LockInv, TypeOK
  <2>2. file' = [file EXCEPT !.owner = p, !.old = FALSE]
    BY <1>1, <1>3 DEF WrittenBy
  <2>3. file'.owner = p /\ file'.inode[1] = p /\ file' \in Files
    BY <1>2, <1>3, <2>1, <2>2 DEF Files
  <2>4. file' # None
    BY <2>3, LockAssumption
  <2>5. \A q \in Procs \ {p} : ~Holds(q) /\ pc[q] # "write"
    BY <1>2, <1>3, NobodyElse
  <2>6. QED
    BY <1>1, <2>3, <2>4, <2>5, MineOwned
<1>4. CASE ~(file # None /\ file.inode = fd[p])
  <2>1. file' = file
    BY <1>1, <1>4 DEF WrittenBy
  <2>2. ~Holds(p)
    <3> SUFFICES ASSUME Holds(p) PROVE FALSE
      OBVIOUS
    <3>1. file # None /\ file = Empty(fd[p])
      BY <1>1 DEF Owned, HolderHasFile
    <3>2. QED
      BY <1>2, <1>4, <3>1, EmptyFile
  <2>3. ~Holds(p)'
    BY <1>1, <2>2, OthersStay DEF Holds, Moves, LockInv
  <2>4. QED
    BY <1>1, <2>1, <2>3, CalmOwned
<1>5. QED
  BY <1>3, <1>4

LEMMA RemoveOwnOwned ==
  ASSUME LockInv, Owned, [Next]_vars, NEW p \in Procs, RemoveOwn(p), ~raced'
  PROVE  Owned'
<1>1. /\ pc[p] = "release" /\ file' = None /\ (file # None => file.inode = seen[p])
      /\ Moves(p, "done")
  BY DEF RemoveOwn, Acts, Goto, Moves, LockInv, TypeOK
<1>2. \A q \in Procs \ {p} : ~Holds(q) /\ pc[q] # "write"
  BY <1>1, NobodyElse DEF Owned, CheckedIsOwn
<1>3. QED
  BY <1>1, <1>2, GoneOwned
-----------------------------------------------------------------------------
\* Of the environment: a process dies, a lease runs out, the file grows old.
LEMMA LeaseExpiresOwned ==
  ASSUME LockInv, Owned, [Next]_vars, NEW p \in Procs, LeaseExpires(p) PROVE Owned'
<1>1. /\ file' = file /\ seen' = seen /\ fd' = fd /\ pc' = pc
      /\ \A q \in Procs : Holds(q)' => Holds(q)
      /\ \A c \in Contenders : Spent(c) => Spent(c)'
  BY DEF LeaseExpires, Holds, Spent
<1>2. StaleIsSpent'
  <2>1. ASSUME NEW q \in Procs, pc[q] = "remove"
        PROVE  seen[q] \in Inodes /\ Spent(seen[q][1])'
    <3>1. seen[q] \in Inodes /\ Spent(seen[q][1])
      BY <2>1 DEF Owned, StaleIsSpent
    <3>2. seen[q][1] \in Contenders
      BY <3>1 DEF Inodes
    <3>3. QED
      BY <1>1, <3>1, <3>2 DEF Spent, Holds
  <2>2. QED
    BY <1>1, <2>1 DEF StaleIsSpent, Spent, Holds
<1>3. FileOfMaker' /\ WriterOwnsFile' /\ UpdaterOwnsFile' /\ CheckedIsOwn'
  BY <1>1 DEF Owned, FileOfMaker, WriterOwnsFile, UpdaterOwnsFile, CheckedIsOwn
<1>4. HolderHasFile'
  BY <1>1 DEF Owned, HolderHasFile, Empty
<1>5. QED
  BY <1>2, <1>3, <1>4 DEF Owned

LEMMA FileAgesOwned ==
  ASSUME LockInv, Owned, [Next]_vars, FileAges PROVE Owned'
<1>1. /\ file # None /\ file' = [file EXCEPT !.old = TRUE]
      /\ \A p \in Contenders : pc[p] \notin {"write", "updating"}
      /\ seen' = seen /\ fd' = fd /\ pc' = pc /\ expired' = expired
  BY DEF FileAges
<1>2. file' \in Files /\ file'.owner = file.owner /\ file'.inode = file.inode
  BY <1>1 DEF LockInv, TypeOK, Files
<1>3. file' # None
  BY <1>2, LockAssumption
<1>4. \A p \in Procs : pc[p] \notin {"write", "updating"}
  BY <1>1 DEF LockInv, OnlyContenders
<1>5. FileOfMaker' /\ WriterOwnsFile' /\ HolderHasFile' /\ UpdaterOwnsFile'
  BY <1>1, <1>2, <1>3, <1>4 DEF Owned, FileOfMaker, WriterOwnsFile, HolderHasFile,
     UpdaterOwnsFile, Holds
<1>6. StaleIsSpent' /\ CheckedIsOwn'
  BY <1>1 DEF Owned, StaleIsSpent, CheckedIsOwn, Spent, Holds
<1>7. QED
  BY <1>5, <1>6 DEF Owned

\* Whoever gives up or dies has left.
LEMMA LeavesOwned ==
  ASSUME LockInv, Owned, [Next]_vars, NEW p \in Procs, GiveUp(p) \/ Dies(p)
  PROVE  Owned'
<1>1. PICK label \in {"done", "dead"} : Moves(p, label)
  BY DEF GiveUp, Dies, Goto, Moves
<1>2. file' = file
  BY DEF GiveUp, Dies
<1>3. ~Holds(p)'
  BY <1>1, OthersStay DEF LockInv, Holds
<1>4. QED
  BY <1>1, <1>2, <1>3, CalmOwned

\* Every step keeps the invariant.
LEMMA NextInv == LockInv /\ [Next]_vars => LockInv'
<1> SUFFICES ASSUME LockInv, [Next]_vars PROVE LockInv'
  OBVIOUS
<1>1. TypeOK' /\ OnlyContenders'
  BY TypesStep DEF LockInv
<1>2. raced => raced'
  BY DEF Next, Acquire, CreateFile, WriteMetadata, AbandonFile, Inspect,
     RemoveStale, GiveUp, Use, BeginUpdate, TruncateFile, WriteUpdate, Release,
     RemoveOwn, Acts, Dies, LeaseExpires, FileAges, vars
<1>3. ASSUME ~raced' PROVE Owned'
  <2>1. Owned
    BY <1>2, <1>3 DEF LockInv
  <2>2. ASSUME NEW p \in Procs, Acquire(p) PROVE Owned'
    BY <1>3, <2>1, <2>2, CreateFileOwned, WriteMetadataOwned, AbandonFileOwned,
       InspectOwned, RemoveStaleOwned DEF Acquire
  <2>3. ASSUME NEW p \in Procs, Use(p) PROVE Owned'
    BY <1>3, <2>1, <2>3, BeginUpdateOwned, TruncateFileOwned, WriteUpdateOwned,
       ReleaseOwned, RemoveOwnOwned DEF Use
  <2>4. CASE UNCHANGED vars
    BY <2>1, <2>4 DEF vars, Owned, FileOfMaker, WriterOwnsFile, HolderHasFile,
       UpdaterOwnsFile, StaleIsSpent, CheckedIsOwn, Spent, Holds, Empty
  <2>5. QED
    BY <2>1, <2>2, <2>3, <2>4, LeavesOwned, LeaseExpiresOwned, FileAgesOwned DEF Next
<1>4. QED
  BY <1>1, <1>3 DEF LockInv

LEMMA Always == Spec => []LockInv
BY InitInv, NextInv, PTL DEF Spec
-----------------------------------------------------------------------------
\* At most one process works under the lock.
LEMMA OneHolder == Owned => MutualExclusion
BY DEF Owned, HolderHasFile, MutualExclusion

\* For any number of contenders and cleaners, with and without leases: two
\* processes work under the lock only after somebody has opened or removed
\* another file than the one it had checked (AcquireLockWithLease, LockHandle).
THEOREM Excludes == Spec => [](TypeOK /\ (~raced => MutualExclusion))
<1>1. LockInv => TypeOK /\ (~raced => MutualExclusion)
  BY OneHolder DEF LockInv
<1>2. QED
  BY <1>1, Always, PTL

\* The file of a process that works under the lock is changed by nobody else:
\* a step that changes it is taken by its holder, or makes it older.
LEMMA OnlyHolder ==
  ASSUME LockInv, Owned, ~raced', [Next]_vars, NEW p \in Procs, Holds(p),
         OwnsCurrentFile(p), pc'[p] = pc[p], file' # file
  PROVE  file' # None /\ file'.owner = p
<1>1. file # None /\ file.inode[1] = p /\ file.owner = p /\ p \in Contenders
  BY FileParts, LockAssumption DEF LockInv, Owned, FileOfMaker, OwnsCurrentFile
<1>2. ASSUME NEW q \in Procs,
             GiveUp(q) \/ Dies(q) \/ LeaseExpires(q) \/ CreateFile(q) \/ Inspect(q)
               \/ BeginUpdate(q) \/ Release(q)
      PROVE  FALSE
  BY <1>1, <1>2 DEF GiveUp, Dies, LeaseExpires, CreateFile, Inspect, BeginUpdate, Release
<1>3. ASSUME NEW q \in Procs, WriteMetadata(q) \/ AbandonFile(q) PROVE FALSE
  BY <1>1, <1>3, WriterFile, LockAssumption DEF WriteMetadata, AbandonFile
<1>4. ASSUME NEW q \in Procs, RemoveStale(q) PROVE FALSE
  BY <1>1, <1>4, NobodyHolds DEF RemoveStale, Acts
<1>5. ASSUME NEW q \in Procs, TruncateFile(q) \/ RemoveOwn(q) PROVE FALSE
  <2>1. pc[q] \in {"update", "release"} /\ file.inode = seen[q]
    BY <1>1, <1>5 DEF TruncateFile, RemoveOwn, Acts
  <2>2. q = p
    BY <1>1, <2>1 DEF Owned, CheckedIsOwn
  <2>3. QED
    BY <1>5, <2>1, <2>2 DEF TruncateFile, RemoveOwn, Goto, LockInv, TypeOK
<1>6. ASSUME NEW q \in Procs, WriteUpdate(q) PROVE FALSE
  <2>1. file.inode = fd[q] /\ pc[q] = "updating"
    BY <1>6 DEF WriteUpdate, WrittenBy
  <2>2. q = p
    BY <1>1, <2>1 DEF Owned, UpdaterOwnsFile
  <2>3. QED
    BY <1>6, <2>1, <2>2 DEF WriteUpdate, Goto, LockInv, TypeOK
<1>7. ASSUME FileAges PROVE file' # None /\ file'.owner = p
  <2>1. file' \in Files /\ file'.owner = file.owner
    BY <1>7 DEF FileAges, LockInv, TypeOK, Files
  <2>2. QED
    BY <1>1, <2>1, LockAssumption
<1>8. ~UNCHANGED vars
  BY DEF vars
<1>9. QED
  BY <1>2, <1>3, <1>4, <1>5, <1>6, <1>7, <1>8 DEF Next, Acquire, Use

\* Before the first race the invariant's second part holds on both sides of a step.
LEMMA RacedGrows == LockInv /\ LockInv' /\ [Next]_vars /\ ~raced' => Owned /\ Owned'
<1> SUFFICES ASSUME LockInv, LockInv', [Next]_vars, ~raced' PROVE Owned /\ Owned'
  OBVIOUS
<1>1. raced => raced'
  BY DEF Next, Acquire, CreateFile, WriteMetadata, AbandonFile, Inspect,
     RemoveStale, GiveUp, Use, BeginUpdate, TruncateFile, WriteUpdate, Release,
     RemoveOwn, Acts, Dies, LeaseExpires, FileAges, vars
<1>2. QED
  BY <1>1 DEF LockInv

\* Nobody but its holder changes or removes the file of a process that works
\* under the lock, before the first act on another file than the one checked.
THEOREM KeepsFile == Spec => HolderKeepsFile
<1>1. LockInv /\ LockInv' /\ [Next]_vars =>
        [\A p \in Procs :
           Holds(p) /\ OwnsCurrentFile(p) /\ pc'[p] = pc[p] /\ file' # file /\ ~raced'
             => file' # None /\ file'.owner = p]_vars
  BY OnlyHolder, RacedGrows
<1>2. QED
  BY <1>1, Always, PTL DEF Spec, HolderKeepsFile

\* A step changes the standing of at most one process.
LEMMA OneAtATime ==
  ASSUME LockInv, [Next]_vars
  PROVE  \/ \A q \in Procs : Holds(q)' = Holds(q)
         \/ \E p \in Procs : \A q \in Procs \ {p} : Holds(q)' = Holds(q)
<1>1. ASSUME NEW p \in Procs, NEW label, pc' = [pc EXCEPT ![p] = label],
             expired' = expired
      PROVE  \A q \in Procs \ {p} : Holds(q)' = Holds(q)
  BY <1>1 DEF Holds, LockInv, TypeOK
<1>2. ASSUME NEW p \in Procs, GiveUp(p) \/ Dies(p)
      PROVE  \A q \in Procs \ {p} : Holds(q)' = Holds(q)
  BY <1>1, <1>2 DEF GiveUp, Dies, Goto
<1>3. ASSUME NEW p \in Procs, Acquire(p)
      PROVE  \A q \in Procs \ {p} : Holds(q)' = Holds(q)
  BY <1>1, <1>3 DEF Acquire, CreateFile, WriteMetadata, AbandonFile, Inspect,
     RemoveStale, Goto
<1>4. ASSUME NEW p \in Procs, Use(p)
      PROVE  \A q \in Procs \ {p} : Holds(q)' = Holds(q)
  BY <1>1, <1>4 DEF Use, BeginUpdate, TruncateFile, WriteUpdate, Release,
     RemoveOwn, Goto
<1>5. ASSUME NEW p \in Procs, LeaseExpires(p)
      PROVE  \A q \in Procs \ {p} : Holds(q)' = Holds(q)
  BY <1>5 DEF LeaseExpires, Holds
<1>6. ASSUME FileAges \/ UNCHANGED vars
      PROVE  \A q \in Procs : Holds(q)' = Holds(q)
  BY <1>6 DEF FileAges, vars, Holds
<1>7. QED
  BY <1>2, <1>3, <1>4, <1>5, <1>6 DEF Next

\* The lock file implements an exclusive lock, for any number of processes: until
\* the first act on another file than the one checked, every step takes the lock
\* when it is free, gives it back, or leaves it as it is.
THEOREM IsALock == Spec => ImplementsLock
<1>1. ASSUME Init PROVE Lock!Init
  BY <1>1 DEF Init, Lock!Init, Holds, holders
<1>2. LockInv /\ LockInv' /\ [Next]_vars => [~raced' => Lock!Next]_holders
  <2> SUFFICES ASSUME LockInv, LockInv', [Next]_vars, ~raced'
               PROVE  [Lock!Next]_holders
    OBVIOUS
  <2>1. MutualExclusion /\ MutualExclusion'
    BY RacedGrows, OneHolder, PTL
  <2>2. CASE \A q \in Procs : Holds(q)' = Holds(q)
    BY <2>2 DEF holders
  <2>3. ASSUME NEW p \in Procs, \A q \in Procs \ {p} : Holds(q)' = Holds(q)
        PROVE  [Lock!Next]_holders
    <3>1. CASE Holds(p)' = Holds(p)
      BY <3>1, <2>3 DEF holders
    <3>2. CASE ~Holds(p) /\ Holds(p)'
      <4>1. holders = {} /\ holders' = {p}
        BY <3>2, <2>1, <2>3 DEF MutualExclusion, holders
      <4>2. QED
        BY <4>1 DEF Lock!Next, Lock!Take
    <3>3. CASE Holds(p) /\ ~Holds(p)'
      <4>1. holders = {p} /\ holders' = {}
        BY <3>3, <2>1, <2>3 DEF MutualExclusion, holders
      <4>2. QED
        BY <4>1 DEF Lock!Next, Lock!Leave
    <3>4. QED
      BY <3>1, <3>2, <3>3 DEF Holds
  <2>4. QED
    BY <2>2, <2>3, OneAtATime
<1>3. QED
  BY <1>1, <1>2, Always, PTL DEF Spec, ImplementsLock
=============================================================================
