-------------------------- MODULE InvocationLeases --------------------------
(***************************************************************************)
(* The daemon's ledger of invocation leases (internal/daemon/leases.go)    *)
(* and the RPC handlers that keep it (handleRPC in runtime.go).  A CLI     *)
(* process begins a lease, creates targets under it and ends it; when the  *)
(* process disappears, the lease expires and the sweeper closes what it    *)
(* owned.  The ledger is held in memory and saved as a whole; a save       *)
(* either replaces the file or leaves it alone (writeFileAtomic).          *)
(*                                                                         *)
(* Every method of LeaseManager runs under its mutex and is one step here. *)
(* A handler is several steps, because it calls the browser in between,    *)
(* and so is a cleanup, which holds only reconcileMu.  A request that is   *)
(* cancelled, or whose save fails, is a request that may be refused.       *)
(***************************************************************************)
EXTENDS Naturals

CONSTANTS
  Leases,       \* invocation leases, one per CLI process
  Targets,      \* targets the browser may create for them
  Handlers,     \* goroutines of the daemon that serve RPCs
  None,
  Overlap,      \* requests of a lease may overlap with one another, with its
                \* end and with its expiry
  MaxRestarts   \* bound on crashes of the daemon

VARIABLES
  daemon,       \* whether the daemon runs, and serves
  restarts,
  mem, disk,    \* the ledger, lease -> record or None, in memory and saved
  client,       \* the CLI process behind each lease
  req,          \* the request each handler serves
  cleaner,      \* the cleanup that holds reconcileMu
  tab,          \* what became of each target
  told          \* the last policy the daemon acknowledged for each target

vars == <<daemon, restarts, mem, disk, client, req, cleaner, tab, told>>
process == <<daemon, restarts>>
ledger == <<mem, disk>>

LeaseRecord ==
  [state : {"active", "closing", "cleanup_pending"}, due : BOOLEAN,
   targets : SUBSET Targets, keep : SUBSET Targets]

ASSUME LeasesAssumption ==
  /\ None \notin LeaseRecord \cup Leases \cup Targets
  /\ Overlap \in BOOLEAN
  /\ MaxRestarts \in Nat

NewLease == [state |-> "active", due |-> FALSE, targets |-> {}, keep |-> {}]
NoRequest == [pc |-> "free", lease |-> None, target |-> None, seen |-> {}]
NoCleanup == [pc |-> "idle", todo |-> {}, lease |-> None, left |-> {},
              keep |-> {}]

Init ==
  /\ daemon = "up" /\ restarts = 0
  /\ mem = [l \in Leases |-> None] /\ disk = mem
  /\ client = [l \in Leases |-> "none"]
  /\ req = [h \in Handlers |-> NoRequest]
  /\ cleaner = NoCleanup
  /\ tab = [t \in Targets |-> "none"]
  /\ told = [t \in Targets |-> "none"]

-----------------------------------------------------------------------------
\* Variant: a failed save leaves the change in memory.
CommitWithoutRollback(new) == mem' = new /\ disk' \in {new, disk}

\* saveLocked for a method that takes its change back when the save fails:
\* then nothing has happened, so only the save that succeeds is a step.
Commit(new) == mem' = new /\ disk' = new

\* saveLocked for one that keeps its change in memory all the same.
Keep(new) == mem' = new /\ disk' \in {new, disk}

\* The ledger after it forgets some targets of a lease.
Without(l, gone) ==
  [mem EXCEPT ![l].targets = @ \ gone, ![l].keep = @ \ gone]

Active(l) == mem[l] # None /\ mem[l].state = "active"

\* No request of the lease is being served.
Quiet(l) == \A h \in Handlers : req[h].lease # l

MayCall(l) == daemon = "up" /\ client[l] = "live" /\ (Overlap \/ Quiet(l))

\* closeOwnedTarget: success means that the target was seen to be gone; after
\* a failure it may still go.
CloseTab(t, success) ==
  LET closed == [tab EXCEPT ![t] = IF @ = "open" THEN "reaped" ELSE @]
  IN IF success THEN tab' = closed ELSE tab' \in {tab, closed}

-----------------------------------------------------------------------------
\* Requests that are one method of the manager.
Begin(l) ==
  /\ daemon = "up" /\ client[l] = "none"
  /\ Commit([mem EXCEPT ![l] = NewLease])
  /\ client' = [client EXCEPT ![l] = "live"]
  /\ UNCHANGED <<process, req, cleaner, tab, told>>

Touched(l) == [mem EXCEPT ![l].due = FALSE]

Renew(l) ==
  /\ MayCall(l) /\ Active(l)
  /\ Commit(Touched(l))
  /\ UNCHANGED <<process, client, req, cleaner, tab, told>>

\* Variant: the policy is not saved.
SetTargetPersistentUnsaved(l, t) ==
  /\ MayCall(l)
  /\ mem[l] # None /\ t \in mem[l].targets
  /\ mem' = [mem EXCEPT ![l].keep = @ \cup {t}]
  /\ told' = [told EXCEPT ![t] = IF Active(l) THEN "persistent" ELSE "late"]
  /\ UNCHANGED <<process, disk, client, req, cleaner, tab>>

\* SetTargetDisposable asks nothing of the lease's state.  Clients only ever
\* turn a disposable target into a persistent one.
SetTargetPersistent(l, t) ==
  /\ MayCall(l)
  /\ mem[l] # None /\ t \in mem[l].targets
  /\ Commit([mem EXCEPT ![l].keep = @ \cup {t}])
  /\ told' = [told EXCEPT ![t] = IF Active(l) THEN "persistent" ELSE "late"]
  /\ UNCHANGED <<process, client, req, cleaner, tab>>

-----------------------------------------------------------------------------
\* Requests that call the browser: Touch, the call, and what follows it.
Serve(h, l, pc, t) ==
  /\ MayCall(l) /\ Active(l) /\ req[h] = NoRequest
  /\ Commit(Touched(l))
  /\ req' = [req EXCEPT ![h] = [pc |-> pc, lease |-> l, target |-> t,
                                seen |-> {}]]
  /\ UNCHANGED <<process, client, cleaner, told>>

At(h, pc) == daemon = "up" /\ req[h].pc = pc
Goto(h, pc) == req' = [req EXCEPT ![h].pc = pc]
Done(h) == req' = [req EXCEPT ![h] = NoRequest]

\* The deadline passes, the client disconnects or the browser refuses: the
\* handler answers with an error, whatever the browser has done or will do.
CallFails(h) ==
  /\ daemon = "up" /\ req[h].pc \in {"create", "list", "close"}
  /\ Done(h)
  /\ UNCHANGED <<process, ledger, client, cleaner, tab, told>>

CreateTarget(h, l, t) ==
  /\ Serve(h, l, "create", t)
  /\ tab[t] = "none" /\ tab' = [tab EXCEPT ![t] = "requested"]

CreateReply(h) ==
  /\ At(h, "create") /\ tab[req[h].target] \in {"open", "gone"}
  /\ Goto(h, "register")
  /\ UNCHANGED <<process, ledger, client, cleaner, tab, told>>

RegisterTarget(h) ==
  /\ At(h, "register")
  /\ LET l == req[h].lease  t == req[h].target IN
       \/ /\ Active(l)
          /\ Commit([mem EXCEPT ![l].targets = @ \cup {t}])
          /\ told' = [told EXCEPT ![t] = "disposable"]
          /\ Done(h)
       \/ Goto(h, "rollback") /\ UNCHANGED <<ledger, told>>
  /\ UNCHANGED <<process, client, cleaner, tab>>

\* The target is closed at once, and whether that worked is ignored.
RollBackCreate(h) ==
  /\ At(h, "rollback")
  /\ \E success \in BOOLEAN : CloseTab(req[h].target, success)
  /\ Done(h)
  /\ UNCHANGED <<process, ledger, client, cleaner, told>>

GetTargets(h, l) ==
  /\ Serve(h, l, "list", None)
  /\ UNCHANGED tab

ListReply(h) ==
  /\ At(h, "list")
  /\ req' = [req EXCEPT ![h].pc = "listed",
                        ![h].seen = {t \in Targets : tab[t] = "open"}]
  /\ UNCHANGED <<process, ledger, client, cleaner, tab, told>>

ReconcileTargetSnapshot(h) ==
  /\ At(h, "listed")
  /\ LET l == req[h].lease IN
       \/ UNCHANGED ledger
       \/ mem[l] # None /\ Commit(Without(l, Targets \ req[h].seen))
  /\ Done(h)
  /\ UNCHANGED <<process, client, cleaner, tab, told>>

CloseTarget(h, l, t) ==
  /\ Serve(h, l, "close", t)
  /\ told[t] # "none"
  /\ UNCHANGED tab

\* Target.closeTarget only acknowledges that Chrome accepted the request.
CloseReply(h) ==
  /\ At(h, "close")
  /\ tab' \in {tab, [tab EXCEPT ![req[h].target] = "gone"]}
  /\ Goto(h, "confirm")
  /\ UNCHANGED <<process, ledger, client, cleaner, told>>

UnregisterTarget(h) ==
  /\ At(h, "confirm")
  /\ LET l == req[h].lease  t == req[h].target IN
       \/ UNCHANGED ledger
       \/ /\ tab[t] \in {"gone", "reaped"} /\ mem[l] # None
          /\ Commit(Without(l, {t}))
  /\ Done(h)
  /\ UNCHANGED <<process, client, cleaner, tab, told>>

-----------------------------------------------------------------------------
\* Cleanup, by End for one lease or by the sweeper for all that need it.
StartCleanup(leases) ==
  cleaner' = [NoCleanup EXCEPT !.pc = "next", !.todo = leases]

\* End: markClosing saves first, unless the cleanup of the lease is pending.
End(l) ==
  /\ MayCall(l)
  /\ mem[l] # None /\ cleaner = NoCleanup
  /\ \/ /\ mem[l].state # "cleanup_pending"
        /\ Commit([mem EXCEPT ![l].state = "closing", ![l].due = TRUE])
     \/ mem[l].state = "cleanup_pending" /\ UNCHANGED ledger
  /\ StartCleanup({l})
  /\ client' = [client EXCEPT ![l] = "dead"]
  /\ UNCHANGED <<process, req, tab, told>>

\* ReconcileExpired marks what is due, and the mark outlives a failed save.
Marked ==
  [l \in Leases |->
     IF Active(l) /\ mem[l].due THEN [mem[l] EXCEPT !.state = "closing"]
     ELSE mem[l]]

\* Variant: a cleanup that failed is not tried again.
NeedFirstCleanup(m) == {l \in Leases : m[l] # None /\ m[l].state = "closing"}

NeedCleanup(m) == {l \in Leases : m[l] # None /\ m[l].state # "active"}

\* Only a daemon that is still loading goes on to serve.
Swept == daemon' = IF daemon = "loaded" THEN "reconciling" ELSE daemon

ReconcileExpired ==
  /\ daemon \in {"loaded", "up"} /\ cleaner = NoCleanup
  /\ Commit(Marked) /\ StartCleanup(NeedCleanup(Marked)) /\ Swept
  /\ UNCHANGED <<restarts, client, req, tab, told>>

ReconcileFails ==
  /\ daemon \in {"loaded", "up"} /\ cleaner = NoCleanup
  /\ mem' = Marked /\ Swept
  /\ UNCHANGED <<restarts, disk, client, req, cleaner, tab, told>>

\* cleanupLease works on a copy of the targets and of their policies.
CleanNext ==
  /\ cleaner.pc = "next"
  /\ IF cleaner.todo = {} THEN cleaner' = NoCleanup
     ELSE \E l \in cleaner.todo :
       cleaner' =
         IF mem[l] = None THEN [cleaner EXCEPT !.todo = @ \ {l}]
         ELSE [pc |-> "close", todo |-> cleaner.todo \ {l}, lease |-> l,
               left |-> mem[l].targets, keep |-> mem[l].keep]
  /\ UNCHANGED <<process, ledger, client, req, tab, told>>

Dropped(l, t) == IF mem[l] = None THEN mem ELSE Without(l, {t})
Pending(l) ==
  IF mem[l] = None THEN mem ELSE [mem EXCEPT ![l].state = "cleanup_pending"]

\* A persistent target is only forgotten, a closed one is too, and one that
\* could not be closed is left for the next cleanup.
CleanTarget(t) ==
  /\ cleaner.pc = "close" /\ t \in cleaner.left
  /\ \/ /\ t \in cleaner.keep
        /\ Keep(Dropped(cleaner.lease, t)) /\ UNCHANGED tab
     \/ /\ t \notin cleaner.keep
        /\ \E success \in BOOLEAN :
             /\ CloseTab(t, success)
             /\ Keep(IF success THEN Dropped(cleaner.lease, t)
                     ELSE Pending(cleaner.lease))
  /\ cleaner' = [cleaner EXCEPT !.left = @ \ {t}]
  /\ UNCHANGED <<process, client, req, told>>

\* Variant: the lease goes although a target could not be closed.
CleanFinishAnyway ==
  /\ cleaner.pc = "close" /\ cleaner.left = {}
  /\ Keep([mem EXCEPT ![cleaner.lease] = None])
  /\ cleaner' = [NoCleanup EXCEPT !.pc = "next", !.todo = cleaner.todo]
  /\ UNCHANGED <<process, client, req, tab, told>>

CleanFinish ==
  /\ cleaner.pc = "close" /\ cleaner.left = {}
  /\ LET l == cleaner.lease IN
       CASE mem[l] = None -> UNCHANGED ledger
         [] mem[l] # None /\ mem[l].targets = {} ->
              Keep([mem EXCEPT ![l] = None])
         [] OTHER -> Keep(Pending(l))
  /\ cleaner' = [NoCleanup EXCEPT !.pc = "next", !.todo = cleaner.todo]
  /\ UNCHANGED <<process, client, req, tab, told>>

-----------------------------------------------------------------------------
\* The environment: time, clients that vanish, the browser and its user.
Due(m, l) == IF m[l] = None THEN m ELSE [m EXCEPT ![l].due = TRUE]

LeaseDue(l) ==
  /\ Overlap \/ Quiet(l)
  /\ mem' = Due(mem, l) /\ disk' = Due(disk, l)
  /\ UNCHANGED <<process, client, req, cleaner, tab, told>>

ClientDies(l) ==
  /\ client[l] = "live"
  /\ client' = [client EXCEPT ![l] = "dead"]
  /\ UNCHANGED <<process, ledger, req, cleaner, tab, told>>

TabOpens(t) ==
  /\ tab[t] = "requested"
  /\ tab' = [tab EXCEPT ![t] = "open"]
  /\ UNCHANGED <<process, ledger, client, req, cleaner, told>>

TabGoes(t) ==
  /\ tab[t] = "open"
  /\ tab' = [tab EXCEPT ![t] = "gone"]
  /\ UNCHANGED <<process, ledger, client, req, cleaner, told>>

\* The daemon dies with its memory; the next one loads what was saved, and
\* reconciles before it serves.
Crash ==
  /\ daemon # "down" /\ restarts < MaxRestarts
  /\ daemon' = "down" /\ restarts' = restarts + 1
  /\ mem' = [l \in Leases |-> None]
  /\ req' = [h \in Handlers |-> NoRequest]
  /\ cleaner' = NoCleanup
  /\ UNCHANGED <<disk, client, tab, told>>

Load ==
  /\ daemon = "down"
  /\ daemon' = "loaded" /\ mem' = disk
  /\ UNCHANGED <<restarts, disk, client, req, cleaner, tab, told>>

StartServing ==
  /\ daemon = "reconciling" /\ cleaner = NoCleanup
  /\ daemon' = "up"
  /\ UNCHANGED <<restarts, ledger, client, req, cleaner, tab, told>>

-----------------------------------------------------------------------------
HandlerStep(h) ==
  \/ CallFails(h) \/ CreateReply(h) \/ RegisterTarget(h) \/ RollBackCreate(h)
  \/ ListReply(h) \/ ReconcileTargetSnapshot(h)
  \/ CloseReply(h) \/ UnregisterTarget(h)

ClientStep(l) ==
  \/ Begin(l) \/ Renew(l) \/ End(l) \/ ClientDies(l)
  \/ \E t \in Targets : SetTargetPersistent(l, t)
  \/ \E h \in Handlers :
       \/ GetTargets(h, l)
       \/ \E t \in Targets : CreateTarget(h, l, t) \/ CloseTarget(h, l, t)

CleanStep == CleanNext \/ CleanFinish \/ \E t \in Targets : CleanTarget(t)

Next ==
  \/ \E h \in Handlers : HandlerStep(h)
  \/ \E l \in Leases : ClientStep(l) \/ LeaseDue(l)
  \/ ReconcileExpired \/ ReconcileFails \/ CleanStep
  \/ \E t \in Targets : TabOpens(t) \/ TabGoes(t)
  \/ Crash \/ Load \/ StartServing

\* The daemon is restarted when it is down, its goroutines run, requests have
\* deadlines, and a lease that nobody uses falls due.  Neither a save nor a
\* close fails every time.
Fairness ==
  /\ WF_vars(Load) /\ WF_vars(StartServing)
  /\ WF_vars(CleanNext) /\ WF_vars(CleanFinish)
  /\ SF_vars(ReconcileExpired)
  /\ \A h \in Handlers : WF_vars(HandlerStep(h))
  /\ \A l \in Leases : WF_vars(client[l] = "dead" /\ LeaseDue(l))
  /\ \A t \in Targets :
       /\ WF_vars(CleanTarget(t))
       /\ SF_vars(CleanTarget(t) /\ tab'[t] # "open")

Spec == Init /\ [][Next]_vars
FairSpec == Spec /\ Fairness

-----------------------------------------------------------------------------
Ledgers == [Leases -> LeaseRecord \cup {None}]

Requests ==
  [pc : {"free", "create", "register", "rollback", "list", "listed",
         "close", "confirm"},
   lease : Leases \cup {None}, target : Targets \cup {None},
   seen : SUBSET Targets]

Cleanups ==
  [pc : {"idle", "next", "close"}, todo : SUBSET Leases,
   lease : Leases \cup {None}, left : SUBSET Targets, keep : SUBSET Targets]

\* Type correctness of the daemon's ledger and of what surrounds it.
TypeOK ==
  /\ daemon \in {"down", "loaded", "reconciling", "up"}
  /\ restarts \in 0 .. MaxRestarts
  /\ mem \in Ledgers /\ disk \in Ledgers
  /\ client \in [Leases -> {"none", "live", "dead"}]
  /\ req \in [Handlers -> Requests]
  /\ cleaner \in Cleanups
  /\ tab \in [Targets -> {"none", "requested", "open", "gone", "reaped"}]
  /\ told \in [Targets -> {"none", "disposable", "persistent", "late"}]

\* Will be closed by a cleanup of the ledger m.
Reapable(m, t) ==
  \E l \in Leases : m[l] # None /\ t \in m[l].targets \ m[l].keep

\* A tab whose creation was acknowledged and that nobody asked to keep is in
\* the ledger, in memory and on disk, for as long as it is open: whatever ends,
\* expires, fails to be saved or crashes, a later cleanup will find it
\* (handleRPC registers before it answers; no method forgets an open tab).
AnsweredTracked ==
  \A t \in Targets : told[t] = "disposable" /\ tab[t] = "open" =>
    Reapable(disk, t) /\ (daemon # "down" => Reapable(mem, t))

\* Memory never knows of a lease, a target or a promise to keep it that a
\* crash would forget (every method saves before it answers, and takes its
\* change back when it cannot).
LedgerDurable ==
  \A l \in Leases : mem[l] # None =>
    /\ disk[l] # None
    /\ mem[l].targets \subseteq disk[l].targets
    /\ mem[l].keep \subseteq disk[l].keep

\* The daemon never closes a tab that it agreed to keep while its lease was
\* active, whatever races with the end or expiry of the lease and over any
\* restart (SetTargetDisposable, cleanupLease).
KeptOpen ==
  [][\A t \in Targets : told[t] = "persistent" /\ tab[t] = "open"
       => tab'[t] # "reaped"]_vars

\* A disposable tab whose client is gone is closed in the end, crashes of the
\* daemon included (leases.go: the ledger is there "to recover targets after a
\* short-lived CLI process disappears").
AbandonedReclaimed ==
  \A l \in Leases, t \in Targets :
    (/\ client[l] = "dead" /\ told[t] = "disposable"
     /\ disk[l] # None /\ t \in disk[l].targets)
    ~> (tab[t] # "open")
=============================================================================
