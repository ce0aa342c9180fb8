----------------------- MODULE InvocationLeasesProofs -----------------------
(***************************************************************************)
(* Theorems about InvocationLeases for every value of its constants.       *)
(***************************************************************************)
EXTENDS InvocationLeases, TLAPS

-----------------------------------------------------------------------------
\* The inductive invariant.

Has(m, l, t) == m[l] # None /\ t \in m[l].targets

\* A ledger knows only leases that were begun and targets that were
\* acknowledged, each under one lease, and keeps those it agreed to keep.
LedgerTrue(m) ==
  /\ \A l \in Leases : m[l] # None => client[l] # "none"
  /\ \A l \in Leases, t \in Targets : Has(m, l, t) =>
       /\ told[t] # "none"
       /\ told[t] = "persistent" => t \in m[l].keep
       /\ \A k \in Leases : Has(m, k, t) => k = l

Creating(h) == req[h].pc \in {"create", "register", "rollback"}

\* A target is acknowledged only once it was asked for.  That of a request that
\* creates one is not acknowledged yet, and is no other such request's.
CreatingTrue ==
  /\ \A t \in Targets : tab[t] = "none" => told[t] = "none"
  /\ \A h \in Handlers : Creating(h) =>
       /\ req[h].target \in Targets /\ req[h].lease \in Leases
       /\ told[req[h].target] = "none" /\ tab[req[h].target] # "none"
       /\ client[req[h].lease] # "none"
       /\ \A g \in Handlers :
            Creating(g) /\ req[g].target = req[h].target => g = h

\* Begun and never to be active again.
Retired(l) == client[l] # "none" /\ ~Active(l)

\* A cleanup works on retired leases only, and on targets that are no other
\* lease's; it will keep those that were to be kept.
CleanerTrue ==
  /\ daemon = "down" => cleaner.pc = "idle"
  /\ cleaner.pc # "idle" => \A l \in cleaner.todo : Retired(l)
  /\ cleaner.pc = "close" =>
       /\ cleaner.lease \in Leases
       /\ \A l \in Leases : l = cleaner.lease => Retired(l)
       /\ \A t \in cleaner.left :
            /\ told[t] # "none"
            /\ told[t] = "persistent" => t \in cleaner.keep
            /\ \A l \in Leases : Has(mem, l, t) => l = cleaner.lease

KeepInv ==
  /\ TypeOK
  /\ LedgerDurable
  /\ LedgerTrue(mem)
  /\ LedgerTrue(disk)
  /\ CreatingTrue
  /\ CleanerTrue
-----------------------------------------------------------------------------
\* Updates of a ledger.

\* n is the ledger m after some leases or targets were forgotten, or some
\* leases retired.
Narrows(n, m) ==
  \A l \in Leases : n[l] # None =>
    /\ m[l] # None
    /\ n[l].targets \subseteq m[l].targets
    /\ n[l].keep \subseteq m[l].keep
    /\ n[l].targets \cap m[l].keep \subseteq n[l].keep
    /\ n[l].state = "active" => m[l].state = "active"

\* A lease that is there is a record.
LEMMA LeaseType ==
  ASSUME NEW m \in Ledgers, NEW l \in Leases, m[l] # None
  PROVE  m[l] \in LeaseRecord
BY DEF Ledgers

\* Replacing one lease by a record that narrows it narrows the ledger.
LEMMA NarrowOne ==
  ASSUME NEW m \in Ledgers, NEW l \in Leases, m[l] # None,
         NEW r \in LeaseRecord,
         r.targets \subseteq m[l].targets, r.keep \subseteq m[l].keep,
         r.targets \cap m[l].keep \subseteq r.keep,
         r.state = "active" => m[l].state = "active"
  PROVE  /\ [m EXCEPT ![l] = r] \in Ledgers
         /\ Narrows([m EXCEPT ![l] = r], m)
BY DEF Ledgers, Narrows

\* Dropping a lease narrows the ledger, and so does doing nothing.
LEMMA NarrowNone ==
  ASSUME NEW m \in Ledgers, NEW l \in Leases
  PROVE  /\ [m EXCEPT ![l] = None] \in Ledgers
         /\ Narrows([m EXCEPT ![l] = None], m)
         /\ Narrows(m, m)
BY DEF Ledgers, Narrows

\* A change of state or of due narrows the ledger.
LEMMA NarrowState ==
  ASSUME NEW m \in Ledgers, NEW l \in Leases, m[l] # None, NEW b \in BOOLEAN
  PROVE  /\ [m EXCEPT ![l].due = b] \in Ledgers
         /\ Narrows([m EXCEPT ![l].due = b], m)
         /\ \A state \in {"closing", "cleanup_pending"} :
              /\ [m EXCEPT ![l].state = state] \in Ledgers
              /\ Narrows([m EXCEPT ![l].state = state], m)
         /\ [m EXCEPT ![l].state = "closing", ![l].due = b] \in Ledgers
         /\ Narrows([m EXCEPT ![l].state = "closing", ![l].due = b], m)
<1> DEFINE r == m[l]
<1>1. r \in LeaseRecord
  BY LeaseType
<1>2. /\ [r EXCEPT !.due = b] \in LeaseRecord
      /\ [r EXCEPT !.due = b].targets = r.targets
      /\ [r EXCEPT !.due = b].keep = r.keep
      /\ [r EXCEPT !.due = b].state = r.state
  BY <1>1 DEF LeaseRecord
<1>3. ASSUME NEW state \in {"closing", "cleanup_pending"}
      PROVE  /\ [r EXCEPT !.state = state] \in LeaseRecord
             /\ [r EXCEPT !.state = state].targets = r.targets
             /\ [r EXCEPT !.state = state].keep = r.keep
             /\ [r EXCEPT !.state = state].state = state
  BY <1>1 DEF LeaseRecord
<1>4. /\ [r EXCEPT !.state = "closing", !.due = b] \in LeaseRecord
      /\ [r EXCEPT !.state = "closing", !.due = b].targets = r.targets
      /\ [r EXCEPT !.state = "closing", !.due = b].keep = r.keep
      /\ [r EXCEPT !.state = "closing", !.due = b].state = "closing"
  BY <1>1 DEF LeaseRecord
<1>5. /\ [m EXCEPT ![l].due = b] = [m EXCEPT ![l] = [r EXCEPT !.due = b]]
      /\ \A state \in {"closing", "cleanup_pending"} :
           [m EXCEPT ![l].state = state]
             = [m EXCEPT ![l] = [r EXCEPT !.state = state]]
      /\ [m EXCEPT ![l].state = "closing", ![l].due = b]
           = [m EXCEPT ![l] = [r EXCEPT !.state = "closing", !.due = b]]
  BY DEF Ledgers
<1>6. /\ [m EXCEPT ![l].due = b] \in Ledgers
      /\ Narrows([m EXCEPT ![l].due = b], m)
  BY <1>2, <1>5, NarrowOne
<1>7. ASSUME NEW state \in {"closing", "cleanup_pending"}
      PROVE  /\ [m EXCEPT ![l].state = state] \in Ledgers
             /\ Narrows([m EXCEPT ![l].state = state], m)
  BY <1>3, <1>5, NarrowOne
<1>8. /\ [m EXCEPT ![l].state = "closing", ![l].due = b] \in Ledgers
      /\ Narrows([m EXCEPT ![l].state = "closing", ![l].due = b], m)
  <2> DEFINE q == [r EXCEPT !.state = "closing", !.due = b]
  <2> HIDE DEF q
  <2>1. [m EXCEPT ![l] = q] \in Ledgers /\ Narrows([m EXCEPT ![l] = q], m)
    BY <1>4, NarrowOne DEF q
  <2>2. QED
    BY <1>5, <2>1 DEF q
<1>9. QED
  BY <1>6, <1>7, <1>8

\* Forgetting targets narrows the ledger.
LEMMA NarrowWithout ==
  ASSUME mem \in Ledgers, NEW l \in Leases, mem[l] # None, NEW gone
  PROVE  /\ Without(l, gone) \in Ledgers
         /\ Narrows(Without(l, gone), mem)
<1> DEFINE r == [mem[l] EXCEPT !.targets = @ \ gone, !.keep = @ \ gone]
<1>1. mem[l] \in LeaseRecord
  BY LeaseType
<1>2. /\ r \in LeaseRecord
      /\ r.targets = mem[l].targets \ gone /\ r.keep = mem[l].keep \ gone
      /\ r.state = mem[l].state
  BY <1>1 DEF LeaseRecord
<1>3. Without(l, gone) = [mem EXCEPT ![l] = r]
  BY DEF Without, Ledgers
<1> HIDE DEF r
<1>4. /\ r.targets \subseteq mem[l].targets /\ r.keep \subseteq mem[l].keep
      /\ r.targets \cap mem[l].keep \subseteq r.keep
  BY <1>2
<1>5. [mem EXCEPT ![l] = r] \in Ledgers /\ Narrows([mem EXCEPT ![l] = r], mem)
  BY <1>2, <1>4, NarrowOne
<1>6. QED
  BY <1>3, <1>5

\* So does what a cleanup does to a lease that may have gone.
LEMMA NarrowCleaned ==
  ASSUME mem \in Ledgers, NEW l \in Leases, NEW t
  PROVE  /\ Dropped(l, t) \in Ledgers /\ Narrows(Dropped(l, t), mem)
         /\ Pending(l) \in Ledgers /\ Narrows(Pending(l), mem)
BY NarrowWithout, NarrowState, NarrowNone DEF Dropped, Pending

\* Marking what is due narrows the ledger.
LEMMA NarrowMarked ==
  ASSUME mem \in Ledgers
  PROVE  Marked \in Ledgers /\ Narrows(Marked, mem)
<1>1. ASSUME NEW l \in Leases, mem[l] # None
      PROVE  /\ [mem[l] EXCEPT !.state = "closing"] \in LeaseRecord
             /\ [mem[l] EXCEPT !.state = "closing"].targets = mem[l].targets
             /\ [mem[l] EXCEPT !.state = "closing"].keep = mem[l].keep
             /\ [mem[l] EXCEPT !.state = "closing"].state = "closing"
  BY <1>1, LeaseType DEF LeaseRecord
<1>2. ASSUME NEW l \in Leases
      PROVE  /\ Marked[l] \in LeaseRecord \cup {None}
             /\ Marked[l] # None =>
                  /\ mem[l] # None
                  /\ Marked[l].targets = mem[l].targets
                  /\ Marked[l].keep = mem[l].keep
                  /\ Marked[l].state = "active" => mem[l].state = "active"
  BY <1>1, <1>2, LeaseType DEF Marked, Active, Ledgers
<1>3. Marked \in Ledgers
  BY <1>2 DEF Marked, Ledgers
<1>4. QED
  BY <1>2, <1>3 DEF Narrows

\* A ledger that narrows a true one is true.
LEMMA NarrowTrue ==
  ASSUME NEW m, NEW n, LedgerTrue(m), Narrows(n, m)
  PROVE  LedgerTrue(n)
BY DEF LedgerTrue, Narrows, Has
-----------------------------------------------------------------------------
\* Type correctness.

\* The records that processes keep are typed.
LEMMA RecordTypes ==
  /\ NewLease \in LeaseRecord
  /\ NoRequest \in Requests
  /\ NoCleanup \in Cleanups
  /\ \A l \in Leases, t \in Targets \cup {None},
        pc \in {"create", "list", "close"} :
       [pc |-> pc, lease |-> l, target |-> t, seen |-> {}] \in Requests
  /\ \A todo \in SUBSET Leases :
       [NoCleanup EXCEPT !.pc = "next", !.todo = todo] \in Cleanups
<1>1. NewLease \in LeaseRecord
  BY DEF NewLease, LeaseRecord
<1>2. NoRequest \in Requests
  BY DEF NoRequest, Requests
<1>3. NoCleanup \in Cleanups
  BY DEF NoCleanup, Cleanups
<1>4. \A l \in Leases, t \in Targets \cup {None},
         pc \in {"create", "list", "close"} :
        [pc |-> pc, lease |-> l, target |-> t, seen |-> {}] \in Requests
  BY DEF Requests
<1>5. \A todo \in SUBSET Leases :
        [NoCleanup EXCEPT !.pc = "next", !.todo = todo] \in Cleanups
  BY DEF NoCleanup, Cleanups
<1>6. QED
  BY <1>1, <1>2, <1>3, <1>4, <1>5

\* What steps do to requests and cleanups keeps them typed.
LEMMA UpdateTypes ==
  /\ \A r \in Requests, pc \in {"register", "rollback", "confirm"} :
       [r EXCEPT !.pc = pc] \in Requests
  /\ \A r \in Requests, seen \in SUBSET Targets :
       [r EXCEPT !.pc = "listed", !.seen = seen] \in Requests
  /\ \A c \in Cleanups, l \in Leases : [c EXCEPT !.todo = @ \ {l}] \in Cleanups
  /\ \A c \in Cleanups, t \in Targets : [c EXCEPT !.left = @ \ {t}] \in Cleanups
  /\ \A c \in Cleanups, l \in Leases, r \in LeaseRecord :
       [pc |-> "close", todo |-> c.todo \ {l}, lease |-> l,
        left |-> r.targets, keep |-> r.keep] \in Cleanups
<1>1. /\ \A r \in Requests, pc \in {"register", "rollback", "confirm"} :
           [r EXCEPT !.pc = pc] \in Requests
      /\ \A r \in Requests, seen \in SUBSET Targets :
           [r EXCEPT !.pc = "listed", !.seen = seen] \in Requests
  BY DEF Requests
<1>2. /\ \A c \in Cleanups, l \in Leases :
           [c EXCEPT !.todo = @ \ {l}] \in Cleanups
      /\ \A c \in Cleanups, t \in Targets :
           [c EXCEPT !.left = @ \ {t}] \in Cleanups
  BY DEF Cleanups
<1>3. \A c \in Cleanups, l \in Leases, r \in LeaseRecord :
        [pc |-> "close", todo |-> c.todo \ {l}, lease |-> l,
         left |-> r.targets, keep |-> r.keep] \in Cleanups
  BY DEF Cleanups, LeaseRecord
<1>4. QED
  BY <1>1, <1>2, <1>3

-----------------------------------------------------------------------------
\* What the steps do to the ledger.

\* Most steps narrow the ledger, acknowledge nothing and begin no lease.
NarrowStep ==
  /\ mem' \in Ledgers /\ Narrows(mem', mem)
  /\ disk' \in {mem', disk}
  /\ told' = told
  /\ \A l \in Leases : client[l] # "none" => client'[l] # "none"

\* A step that leaves all of that alone narrows it.
LEMMA IdleNarrow ==
  ASSUME TypeOK, UNCHANGED <<mem, disk, told, client>>
  PROVE  NarrowStep
BY DEF NarrowStep, TypeOK, Narrows

\* Forgetting targets narrows it, also if the lease is nobody's.
LEMMA ForgetNarrow ==
  ASSUME TypeOK, NEW l \in Leases \cup {None}, NEW gone,
         mem[l] # None, Commit(Without(l, gone)), UNCHANGED <<told, client>>
  PROVE  NarrowStep
<1>1. mem' = Without(l, gone) /\ disk' = mem'
  BY DEF Commit
<1>2. CASE l \in Leases
  BY <1>1, <1>2, NarrowWithout DEF NarrowStep, TypeOK
<1>3. CASE l = None
  <2>1. mem' = mem
    BY <1>1, <1>3, LeasesAssumption DEF Without, TypeOK, Ledgers
  <2>2. QED
    BY <1>1, <2>1 DEF NarrowStep, TypeOK, Narrows
<1>4. QED
  BY <1>2, <1>3

\* The steps of a request narrow the ledger, but for the registration.
LEMMA RequestNarrow ==
  ASSUME TypeOK, NEW h \in Handlers, HandlerStep(h)
  PROVE  NarrowStep \/ RegisterTarget(h)
<1>1. ASSUME CallFails(h) \/ CreateReply(h) \/ RollBackCreate(h)
               \/ ListReply(h) \/ CloseReply(h)
      PROVE  NarrowStep
  BY <1>1, IdleNarrow DEF CallFails, CreateReply, RollBackCreate, ListReply,
     CloseReply, ledger
<1>2. req[h].lease \in Leases \cup {None}
  BY DEF TypeOK, Requests
<1>3. ASSUME ReconcileTargetSnapshot(h)
      PROVE  NarrowStep
  BY <1>2, <1>3, ForgetNarrow, IdleNarrow DEF ReconcileTargetSnapshot, ledger
<1>4. ASSUME UnregisterTarget(h)
      PROVE  NarrowStep
  BY <1>2, <1>4, ForgetNarrow, IdleNarrow DEF UnregisterTarget, ledger
<1>5. QED
  BY <1>1, <1>3, <1>4 DEF HandlerStep

\* Serving a request extends its lease, which is there.
LEMMA ServeNarrow ==
  ASSUME TypeOK, NEW h \in Handlers, NEW l \in Leases, NEW pc, NEW t,
         Serve(h, l, pc, t)
  PROVE  NarrowStep
<1>1. mem[l] # None /\ mem' = Touched(l) /\ disk' = mem'
  BY DEF Serve, Active, Commit
<1>2. QED
  BY <1>1, NarrowState DEF Serve, Touched, NarrowStep, TypeOK

\* So do the requests of a client that do not call the browser, but for two.
LEMMA ClientNarrow ==
  ASSUME TypeOK, NEW l \in Leases, Renew(l) \/ End(l) \/ ClientDies(l)
  PROVE  NarrowStep
<1>1. ASSUME Renew(l)
      PROVE  NarrowStep
  <2>1. mem[l] # None /\ mem' = Touched(l) /\ disk' = mem'
    BY <1>1 DEF Renew, Active, Commit
  <2>2. QED
    BY <1>1, <2>1, NarrowState DEF Renew, Touched, NarrowStep, TypeOK
<1>2. ASSUME End(l)
      PROVE  NarrowStep
  <2>1. told' = told /\ \A k \in Leases : client[k] # "none" => client'[k] # "none"
    BY <1>2 DEF End, TypeOK
  <2>2. CASE UNCHANGED ledger
    BY <2>1, <2>2, NarrowNone DEF NarrowStep, ledger, TypeOK, Narrows
  <2>3. ASSUME ~ UNCHANGED ledger
        PROVE  NarrowStep
    <3>1. /\ mem[l] # None /\ disk' = mem'
          /\ mem' = [mem EXCEPT ![l].state = "closing", ![l].due = TRUE]
      BY <1>2, <2>3 DEF End, Commit
    <3>2. QED
      BY <2>1, <3>1, NarrowState DEF NarrowStep, TypeOK
  <2>4. QED
    BY <2>2, <2>3
<1>3. ASSUME ClientDies(l)
      PROVE  NarrowStep
  BY <1>3 DEF ClientDies, NarrowStep, ledger, TypeOK, Narrows
<1>4. QED
  BY <1>1, <1>2, <1>3

\* Cleanup only forgets.
LEMMA CleanNarrow ==
  ASSUME TypeOK, CleanerTrue, CleanStep
  PROVE  NarrowStep
<1>1. ASSUME CleanNext
      PROVE  NarrowStep
  BY <1>1, IdleNarrow DEF CleanNext, ledger
<1>2. ASSUME NEW new \in Ledgers, Narrows(new, mem), Keep(new),
             UNCHANGED <<told, client>>
      PROVE  NarrowStep
  BY <1>2 DEF Keep, NarrowStep
<1>3. ASSUME NEW t \in Targets, CleanTarget(t)
      PROVE  NarrowStep
  <2>1. cleaner.lease \in Leases /\ UNCHANGED <<told, client>>
    BY <1>3 DEF CleanTarget, CleanerTrue
  <2>2. \/ Keep(Dropped(cleaner.lease, t)) \/ Keep(Pending(cleaner.lease))
    BY <1>3 DEF CleanTarget
  <2>3. QED
    BY <1>2, <2>1, <2>2, NarrowCleaned DEF TypeOK
<1>4. ASSUME CleanFinish
      PROVE  NarrowStep
  <2>1. cleaner.lease \in Leases /\ UNCHANGED <<told, client>>
    BY <1>4 DEF CleanFinish, CleanerTrue
  <2>2. \/ UNCHANGED ledger
        \/ Keep([mem EXCEPT ![cleaner.lease] = None])
        \/ Keep(Pending(cleaner.lease))
    BY <1>4 DEF CleanFinish
  <2>3. QED
    BY <1>2, <2>1, <2>2, NarrowCleaned, NarrowNone, IdleNarrow
    DEF TypeOK, ledger
<1>5. QED
  BY <1>1, <1>3, <1>4 DEF CleanStep

\* The sweeper only retires, even if it cannot save.
LEMMA SweepNarrow ==
  ASSUME TypeOK, ReconcileExpired \/ ReconcileFails
  PROVE  NarrowStep
BY NarrowMarked DEF ReconcileExpired, ReconcileFails, Commit, NarrowStep, TypeOK

-----------------------------------------------------------------------------
\* Type correctness, step by step.

\* The ledger and the policies stay typed in the steps that do more to them.
LEMMA BeginType ==
  ASSUME TypeOK, NEW l \in Leases, Begin(l)
  PROVE  TypeOK'
<1>1. mem' \in Ledgers /\ disk' \in Ledgers
  BY RecordTypes DEF Begin, Commit, TypeOK, Ledgers
<1>2. QED
  BY <1>1 DEF Begin, TypeOK, process

\* A promise to keep a target, saved or refused, keeps the state typed.
LEMMA SetTargetPersistentType ==
  ASSUME TypeOK, NEW l \in Leases, NEW t \in Targets, SetTargetPersistent(l, t)
  PROVE  TypeOK'
<1> DEFINE r == [mem[l] EXCEPT !.keep = @ \cup {t}]
<1>1. mem[l] \in LeaseRecord
  BY LeaseType DEF SetTargetPersistent, TypeOK
<1>2. r \in LeaseRecord
  BY <1>1 DEF LeaseRecord
<1>3. mem' = [mem EXCEPT ![l] = r] /\ disk' = mem'
  BY DEF SetTargetPersistent, Commit, TypeOK, Ledgers
<1>4. mem' \in Ledgers /\ disk' \in Ledgers
  BY <1>2, <1>3 DEF TypeOK, Ledgers
<1>5. told' \in [Targets -> {"none", "disposable", "persistent", "late"}]
  BY DEF SetTargetPersistent, TypeOK
<1>6. QED
  BY <1>4, <1>5 DEF SetTargetPersistent, TypeOK, process

\* So does the registration of a created target.
LEMMA RegisterTargetType ==
  ASSUME TypeOK, CreatingTrue, NEW h \in Handlers, RegisterTarget(h)
  PROVE  TypeOK'
<1> DEFINE l == req[h].lease  t == req[h].target
           r == [mem[l] EXCEPT !.targets = @ \cup {t}]
<1>1. l \in Leases /\ t \in Targets
  BY DEF RegisterTarget, At, CreatingTrue, Creating
<1>2. req' \in [Handlers -> Requests]
  <2>1. NoRequest \in Requests /\ [req[h] EXCEPT !.pc = "rollback"] \in Requests
    BY RecordTypes, UpdateTypes DEF TypeOK
  <2>2. Done(h) \/ Goto(h, "rollback")
    BY DEF RegisterTarget
  <2>3. QED
    BY <2>1, <2>2 DEF Done, Goto, TypeOK
<1>3. CASE UNCHANGED <<ledger, told>>
  BY <1>2, <1>3 DEF RegisterTarget, TypeOK, process, ledger
<1>4. ASSUME ~ UNCHANGED <<ledger, told>>
      PROVE  TypeOK'
  <2>1. /\ mem[l] # None
        /\ mem' = [mem EXCEPT ![l].targets = @ \cup {t}] /\ disk' = mem'
        /\ told' = [told EXCEPT ![t] = "disposable"]
    BY <1>4 DEF RegisterTarget, Commit, Active
  <2>2. mem[l] \in LeaseRecord
    BY <1>1, <2>1, LeaseType DEF TypeOK
  <2>3. r \in LeaseRecord
    BY <1>1, <2>2 DEF LeaseRecord
  <2>4. mem' = [mem EXCEPT ![l] = r]
    BY <2>1 DEF TypeOK, Ledgers
  <2>5. mem' \in Ledgers
    BY <1>1, <2>3, <2>4 DEF TypeOK, Ledgers
  <2>6. told' \in [Targets -> {"none", "disposable", "persistent", "late"}]
    BY <2>1 DEF TypeOK
  <2>7. QED
    BY <1>2, <2>1, <2>5, <2>6 DEF RegisterTarget, TypeOK, process
<1>5. QED
  BY <1>3, <1>4

\* So does the passing of a lease's time.
LEMMA LeaseDueType ==
  ASSUME TypeOK, NEW l \in Leases, LeaseDue(l)
  PROVE  TypeOK'
<1>1. \A m \in Ledgers : Due(m, l) \in Ledgers
  BY NarrowState DEF Due
<1>2. QED
  BY <1>1 DEF LeaseDue, TypeOK, process

\* CloseTab keeps the record of tabs typed.
LEMMA CloseTabType ==
  ASSUME TypeOK, NEW t \in Targets, NEW success \in BOOLEAN,
         CloseTab(t, success)
  PROVE  tab' \in [Targets -> {"none", "requested", "open", "gone", "reaped"}]
BY DEF CloseTab, TypeOK

\* Requests that only move on, and call the browser.
LEMMA RequestType ==
  ASSUME TypeOK, CreatingTrue, NEW h \in Handlers, HandlerStep(h),
         ~ RegisterTarget(h)
  PROVE  TypeOK'
<1>1. NarrowStep
  BY RequestNarrow
<1>2. req[h] \in Requests /\ NoRequest \in Requests
  BY RecordTypes DEF TypeOK
<1>3. \A pc \in {"register", "rollback", "confirm"} :
        Goto(h, pc) => req' \in [Handlers -> Requests]
  BY <1>2, UpdateTypes DEF Goto, TypeOK
<1>4. Done(h) => req' \in [Handlers -> Requests]
  BY <1>2 DEF Done, TypeOK
<1>5. ASSUME ListReply(h)
      PROVE  req' \in [Handlers -> Requests]
  BY <1>2, <1>5, UpdateTypes DEF ListReply, TypeOK
<1>6. req' \in [Handlers -> Requests]
  BY <1>3, <1>4, <1>5 DEF HandlerStep, CallFails, CreateReply, RollBackCreate,
     ReconcileTargetSnapshot, CloseReply, UnregisterTarget
<1>7. ASSUME CloseReply(h)
      PROVE  tab' \in [Targets -> {"none", "requested", "open", "gone", "reaped"}]
  BY <1>7 DEF CloseReply, TypeOK
<1>8. ASSUME RollBackCreate(h)
      PROVE  tab' \in [Targets -> {"none", "requested", "open", "gone", "reaped"}]
  BY <1>8, CloseTabType DEF RollBackCreate, At, CreatingTrue, Creating
<1>9. tab' \in [Targets -> {"none", "requested", "open", "gone", "reaped"}]
  BY <1>7, <1>8 DEF HandlerStep, CallFails, CreateReply, ListReply,
     ReconcileTargetSnapshot, UnregisterTarget, TypeOK
<1>10. UNCHANGED <<process, client, cleaner>>
  BY DEF HandlerStep, CallFails, CreateReply, RollBackCreate, ListReply,
     ReconcileTargetSnapshot, CloseReply, UnregisterTarget
<1>11. mem' \in Ledgers /\ disk' \in Ledgers /\ told' = told
  BY <1>1 DEF NarrowStep, TypeOK
<1>12. QED
  BY <1>6, <1>9, <1>10, <1>11 DEF TypeOK, process

\* A request that begins extends its lease and changes at most its tab.
LEMMA ServeType ==
  ASSUME TypeOK, NEW h \in Handlers, NEW l \in Leases,
         NEW pc \in {"create", "list", "close"}, NEW t \in Targets \cup {None},
         Serve(h, l, pc, t),
         tab' \in [Targets -> {"none", "requested", "open", "gone", "reaped"}]
  PROVE  TypeOK'
<1>1. NarrowStep
  BY ServeNarrow
<1>2. req' \in [Handlers -> Requests]
  BY RecordTypes DEF Serve, TypeOK
<1>3. mem' \in Ledgers /\ disk' \in Ledgers /\ told' = told
  BY <1>1 DEF NarrowStep, TypeOK
<1>4. UNCHANGED <<process, client, cleaner>>
  BY DEF Serve
<1>5. QED
  BY <1>2, <1>3, <1>4 DEF TypeOK, process

\* What the clients do keeps the state typed.
LEMMA ClientType ==
  ASSUME TypeOK, NEW l \in Leases, ClientStep(l)
  PROVE  TypeOK'
<1>1. ASSUME NEW h \in Handlers, NEW t \in Targets, CreateTarget(h, l, t)
      PROVE  TypeOK'
  BY <1>1, ServeType DEF CreateTarget, TypeOK
<1>2. ASSUME NEW h \in Handlers, NEW t \in Targets, CloseTarget(h, l, t)
      PROVE  TypeOK'
  BY <1>2, ServeType DEF CloseTarget, TypeOK
<1>3. ASSUME NEW h \in Handlers, GetTargets(h, l)
      PROVE  TypeOK'
  BY <1>3, ServeType DEF GetTargets, TypeOK
<1>4. ASSUME Renew(l) \/ End(l) \/ ClientDies(l)
      PROVE  TypeOK'
  <2>1. mem' \in Ledgers /\ disk' \in Ledgers /\ told' = told
    BY <1>4, ClientNarrow DEF NarrowStep, TypeOK
  <2>2. cleaner' \in Cleanups
    <3>1. [NoCleanup EXCEPT !.pc = "next", !.todo = {l}] \in Cleanups
      BY RecordTypes
    <3>2. cleaner' = cleaner \/ StartCleanup({l})
      BY <1>4 DEF Renew, End, ClientDies
    <3>3. QED
      BY <3>1, <3>2 DEF StartCleanup, TypeOK
  <2>3. client' \in [Leases -> {"none", "live", "dead"}]
    BY <1>4 DEF Renew, End, ClientDies, TypeOK
  <2>4. UNCHANGED <<process, req, tab>>
    BY <1>4 DEF Renew, End, ClientDies
  <2>5. QED
    BY <2>1, <2>2, <2>3, <2>4 DEF TypeOK, process
<1>5. QED
  BY <1>1, <1>2, <1>3, <1>4, BeginType, SetTargetPersistentType DEF ClientStep

\* Cleanup, and the sweeper that starts it.
LEMMA CleanType ==
  ASSUME TypeOK, CleanerTrue, CleanStep \/ ReconcileExpired \/ ReconcileFails
  PROVE  TypeOK'
<1>1. mem' \in Ledgers /\ disk' \in Ledgers /\ told' = told
  BY CleanNarrow, SweepNarrow DEF NarrowStep, TypeOK
<1>2. ASSUME CleanNext
      PROVE  cleaner' \in Cleanups
  <2>1. CASE cleaner.todo = {}
    BY <1>2, <2>1, RecordTypes DEF CleanNext
  <2>2. ASSUME cleaner.todo # {}
        PROVE  cleaner' \in Cleanups
    <3>1. PICK l \in cleaner.todo :
            cleaner' =
              IF mem[l] = None THEN [cleaner EXCEPT !.todo = @ \ {l}]
              ELSE [pc |-> "close", todo |-> cleaner.todo \ {l}, lease |-> l,
                    left |-> mem[l].targets, keep |-> mem[l].keep]
      BY <1>2, <2>2 DEF CleanNext
    <3>2. l \in Leases
      BY <3>1 DEF TypeOK, Cleanups
    <3>3. CASE mem[l] = None
      BY <3>1, <3>2, <3>3, UpdateTypes DEF TypeOK
    <3>4. CASE mem[l] # None
      BY <3>1, <3>2, <3>4, LeaseType, UpdateTypes DEF TypeOK
    <3>5. QED
      BY <3>3, <3>4
  <2>3. QED
    BY <2>1, <2>2
<1>3. ASSUME NEW t \in Targets, CleanTarget(t)
      PROVE  cleaner' \in Cleanups
  BY <1>3, UpdateTypes DEF CleanTarget, TypeOK
<1>4. ASSUME CleanFinish
      PROVE  cleaner' \in Cleanups
  <2>1. cleaner.todo \in SUBSET Leases
    BY DEF TypeOK, Cleanups
  <2>2. QED
    BY <1>4, <2>1, RecordTypes DEF CleanFinish
<1>5. ASSUME ReconcileExpired
      PROVE  cleaner' \in Cleanups
  BY <1>5, RecordTypes DEF ReconcileExpired, StartCleanup, NeedCleanup
<1>6. cleaner' \in Cleanups
  BY <1>2, <1>3, <1>4, <1>5 DEF CleanStep, ReconcileFails, TypeOK
<1>7. ASSUME NEW t \in Targets, CleanTarget(t)
      PROVE  tab' \in [Targets -> {"none", "requested", "open", "gone", "reaped"}]
  BY <1>7, CloseTabType DEF CleanTarget, TypeOK
<1>8. tab' \in [Targets -> {"none", "requested", "open", "gone", "reaped"}]
  BY <1>7 DEF CleanStep, CleanNext, CleanFinish, ReconcileExpired,
     ReconcileFails, TypeOK
<1>9. daemon' \in {"down", "loaded", "reconciling", "up"}
  BY DEF CleanStep, CleanNext, CleanFinish, CleanTarget, ReconcileExpired,
     ReconcileFails, Swept, TypeOK, process
<1>10. UNCHANGED <<restarts, client, req>>
  BY DEF CleanStep, CleanNext, CleanFinish, CleanTarget, ReconcileExpired,
     ReconcileFails, process
<1>11. QED
  BY <1>1, <1>6, <1>8, <1>9, <1>10 DEF TypeOK

\* The environment.
LEMMA EnvironmentType ==
  ASSUME TypeOK,
         \/ \E t \in Targets : TabOpens(t) \/ TabGoes(t)
         \/ Crash \/ Load \/ StartServing
  PROVE  TypeOK'
<1>1. ASSUME NEW t \in Targets, TabOpens(t) \/ TabGoes(t)
      PROVE  TypeOK'
  BY <1>1 DEF TabOpens, TabGoes, TypeOK, process, ledger
<1>2. ASSUME Crash
      PROVE  TypeOK'
  <2>1. mem' \in Ledgers
    BY <1>2 DEF Crash, Ledgers
  <2>2. restarts' \in 0 .. MaxRestarts
    BY <1>2, LeasesAssumption DEF Crash, TypeOK
  <2>3. req' \in [Handlers -> Requests] /\ cleaner' \in Cleanups
    BY <1>2, RecordTypes DEF Crash
  <2>4. QED
    BY <1>2, <2>1, <2>2, <2>3 DEF Crash, TypeOK
<1>3. ASSUME Load \/ StartServing
      PROVE  TypeOK'
  BY <1>3 DEF Load, StartServing, TypeOK, ledger
<1>4. QED
  BY <1>1, <1>2, <1>3

\* Every step keeps the state typed.
LEMMA TypeNext ==
  ASSUME TypeOK, CreatingTrue, CleanerTrue, [Next]_vars
  PROVE  TypeOK'
<1>1. CASE UNCHANGED vars
  BY <1>1 DEF vars, TypeOK
<1>2. CASE Next
  BY <1>2, RegisterTargetType, RequestType, ClientType, LeaseDueType,
     CleanType, EnvironmentType DEF Next
<1>3. QED
  BY <1>1, <1>2

-----------------------------------------------------------------------------
\* The rest of the invariant: what the steps that narrow the ledger keep.

\* No request becomes one that creates a target, and no target is forgotten.
Calm ==
  /\ \A h \in Handlers : Creating(h)' =>
       /\ Creating(h)
       /\ req'[h].target = req[h].target /\ req'[h].lease = req[h].lease
  /\ \A t \in Targets : tab[t] # "none" => tab'[t] # "none"

\* Narrowing keeps both ledgers durable and true.
LEMMA NarrowKeepsLedger ==
  ASSUME KeepInv, NarrowStep
  PROVE  LedgerDurable' /\ LedgerTrue(mem)' /\ LedgerTrue(disk)'
<1>1. LedgerDurable'
  BY DEF KeepInv, LedgerDurable, NarrowStep, Narrows
<1>2. LedgerTrue(mem)'
  BY DEF KeepInv, LedgerTrue, Has, NarrowStep, Narrows
<1>3. CASE disk' = mem'
  BY <1>1, <1>2, <1>3 DEF LedgerTrue, Has
<1>4. CASE disk' = disk
  BY <1>1, <1>2, <1>4 DEF KeepInv, LedgerTrue, Has, NarrowStep
<1>5. QED
  BY <1>1, <1>2, <1>3, <1>4 DEF NarrowStep

\* Calm steps keep what is known of the requests.
LEMMA CalmKeepsCreating ==
  ASSUME CreatingTrue, NarrowStep, Calm
  PROVE  CreatingTrue'
BY DEF CreatingTrue, NarrowStep, Calm

\* A cleanup that does not move is not disturbed.
LEMMA NarrowKeepsCleaner ==
  ASSUME TypeOK, CleanerTrue, NarrowStep, cleaner' = cleaner,
         daemon' = "down" => daemon = "down"
  PROVE  CleanerTrue'
<1>1. cleaner.todo \subseteq Leases
  BY DEF TypeOK, Cleanups
<1>2. \A l \in Leases : Retired(l) => Retired(l)'
  BY DEF Retired, Active, NarrowStep, Narrows
<1>3. \A l \in Leases, t \in Targets : Has(mem, l, t)' => Has(mem, l, t)
  BY DEF Has, NarrowStep, Narrows
<1>4. cleaner.left \subseteq Targets
  BY DEF TypeOK, Cleanups
<1>5. told' = told
  BY DEF NarrowStep
<1>6. daemon' = "down" => cleaner'.pc = "idle"
  BY DEF CleanerTrue
<1>7. cleaner'.pc # "idle" => \A l \in cleaner'.todo : Retired(l)'
  BY <1>1, <1>2 DEF CleanerTrue
<1>8. ASSUME cleaner.pc = "close"
      PROVE  /\ cleaner.lease \in Leases
             /\ \A l \in Leases : l = cleaner.lease => Retired(l)'
             /\ \A t \in cleaner.left :
                  /\ told[t] # "none"
                  /\ told[t] = "persistent" => t \in cleaner.keep
                  /\ \A l \in Leases : Has(mem, l, t)' => l = cleaner.lease
  BY <1>2, <1>3, <1>4, <1>8 DEF CleanerTrue
<1>9. QED
  BY <1>5, <1>6, <1>7, <1>8 DEF CleanerTrue, Retired, Active, Has

\* So a calm step that narrows the ledger and leaves the cleanup alone keeps
\* the invariant.
LEMMA CalmNarrowInv ==
  ASSUME KeepInv, NarrowStep, Calm, TypeOK', cleaner' = cleaner,
         daemon' = "down" => daemon = "down"
  PROVE  KeepInv'
BY NarrowKeepsLedger, CalmKeepsCreating, NarrowKeepsCleaner DEF KeepInv

\* Closing a tab forgets none.
LEMMA CloseTabCalm ==
  ASSUME TypeOK, NEW t \in Targets, NEW success \in BOOLEAN,
         CloseTab(t, success)
  PROVE  \A s \in Targets : tab[s] # "none" => tab'[s] # "none"
BY DEF CloseTab, TypeOK

\* The requests that go on, or end.
LEMMA RequestInv ==
  ASSUME KeepInv, NEW h \in Handlers, HandlerStep(h), ~ RegisterTarget(h)
  PROVE  KeepInv'
<1>1. NarrowStep /\ TypeOK'
  BY RequestNarrow, RequestType DEF KeepInv
<1>2. cleaner' = cleaner /\ daemon' = daemon
  BY DEF HandlerStep, CallFails, CreateReply, RollBackCreate, ListReply,
     ReconcileTargetSnapshot, CloseReply, UnregisterTarget, process
<1>3. ASSUME Done(h) \/ \E pc \in {"register", "confirm"} :
                          Goto(h, pc) /\ (pc = "register" => Creating(h))
      PROVE  \A g \in Handlers : Creating(g)' =>
               /\ Creating(g)
               /\ req'[g].target = req[g].target /\ req'[g].lease = req[g].lease
  <2>1. CASE Done(h)
    BY <2>1 DEF Done, NoRequest, Creating, KeepInv, TypeOK
  <2>2. ASSUME NEW pc \in {"register", "confirm"}, Goto(h, pc),
               pc = "register" => Creating(h)
        PROVE  \A g \in Handlers : Creating(g)' =>
                 /\ Creating(g)
                 /\ req'[g].target = req[g].target
                 /\ req'[g].lease = req[g].lease
    <3>1. req[h] \in Requests
      BY DEF KeepInv, TypeOK
    <3>2. /\ [req[h] EXCEPT !.pc = pc].pc = pc
          /\ [req[h] EXCEPT !.pc = pc].target = req[h].target
          /\ [req[h] EXCEPT !.pc = pc].lease = req[h].lease
      BY <3>1 DEF Requests
    <3>3. req' = [req EXCEPT ![h] = [req[h] EXCEPT !.pc = pc]]
      BY <2>2 DEF Goto, KeepInv, TypeOK
    <3>4. QED
      BY <2>2, <3>2, <3>3 DEF Creating, KeepInv, TypeOK
  <2>3. QED
    BY <1>3, <2>1, <2>2
<1>4. ASSUME ListReply(h)
      PROVE  Calm
  <2>1. req[h] \in Requests
    BY DEF KeepInv, TypeOK
  <2>2. \A g \in Handlers : g # h => req'[g] = req[g]
    BY <1>4 DEF ListReply, KeepInv, TypeOK
  <2>3. req'[h].pc = "listed"
    BY <1>4, <2>1 DEF ListReply, KeepInv, TypeOK, Requests
  <2>4. QED
    BY <1>4, <2>2, <2>3 DEF ListReply, Calm, Creating
<1>5. ASSUME CloseReply(h)
      PROVE  Calm
  <2>1. \A t \in Targets : tab[t] # "none" => tab'[t] # "none"
    BY <1>5 DEF CloseReply, KeepInv, TypeOK
  <2>2. QED
    BY <1>3, <1>5, <2>1 DEF CloseReply, Calm
<1>6. ASSUME RollBackCreate(h)
      PROVE  Calm
  <2>1. req[h].target \in Targets
    BY <1>6 DEF RollBackCreate, At, KeepInv, CreatingTrue, Creating
  <2>2. \A t \in Targets : tab[t] # "none" => tab'[t] # "none"
    BY <1>6, <2>1, CloseTabCalm DEF RollBackCreate, KeepInv
  <2>3. QED
    BY <1>3, <1>6, <2>2 DEF RollBackCreate, Calm
<1>7. ASSUME CallFails(h) \/ ReconcileTargetSnapshot(h) \/ UnregisterTarget(h)
      PROVE  Calm
  BY <1>3, <1>7 DEF CallFails, ReconcileTargetSnapshot, UnregisterTarget, Calm
<1>8. ASSUME CreateReply(h)
      PROVE  Calm
  BY <1>3, <1>8 DEF CreateReply, At, Creating, Calm
<1>9. Calm
  BY <1>4, <1>5, <1>6, <1>7, <1>8 DEF HandlerStep
<1>10. QED
  BY <1>1, <1>2, <1>9, CalmNarrowInv

\* A request that is served creates nothing, or a target that is new.
LEMMA ServeInv ==
  ASSUME KeepInv, NEW h \in Handlers, NEW l \in Leases,
         \/ GetTargets(h, l)
         \/ \E t \in Targets : CreateTarget(h, l, t) \/ CloseTarget(h, l, t)
  PROVE  KeepInv'
<1>1. TypeOK'
  BY ClientType DEF KeepInv, ClientStep
<1>2. ASSUME NEW pc \in {"list", "close"}, NEW t, Serve(h, l, pc, t),
             UNCHANGED tab
      PROVE  KeepInv'
  <2>1. NarrowStep
    BY <1>2, ServeNarrow DEF KeepInv
  <2>2. cleaner' = cleaner /\ daemon' = daemon
    BY <1>2 DEF Serve, process
  <2>3. /\ req'[h].pc = pc
        /\ \A g \in Handlers : g # h => req'[g] = req[g]
    BY <1>2 DEF Serve, KeepInv, TypeOK
  <2>4. Calm
    BY <1>2, <2>3 DEF Calm, Creating
  <2>5. QED
    BY <1>1, <2>1, <2>2, <2>4, CalmNarrowInv
<1>3. ASSUME NEW t \in Targets, CreateTarget(h, l, t)
      PROVE  KeepInv'
  <2>1. Serve(h, l, "create", t) /\ tab[t] = "none" /\ tab'[t] = "requested"
    BY <1>3 DEF CreateTarget, KeepInv, TypeOK
  <2>2. NarrowStep
    BY <2>1, ServeNarrow DEF KeepInv
  <2>3. cleaner' = cleaner /\ daemon' = daemon
    BY <2>1 DEF Serve, process
  <2>4. /\ req'[h].pc = "create" /\ req'[h].target = t /\ req'[h].lease = l
        /\ \A g \in Handlers : g # h => req'[g] = req[g]
        /\ client[l] = "live"
    BY <2>1 DEF Serve, MayCall, KeepInv, TypeOK
  <2>5. \A s \in Targets : s # t => tab'[s] = tab[s]
    BY <1>3 DEF CreateTarget, KeepInv, TypeOK
  <2>6. told[t] = "none"
    BY <2>1 DEF KeepInv, CreatingTrue
  <2>7. \A g \in Handlers : g # h /\ Creating(g)' =>
          /\ Creating(g) /\ req'[g].target # t
          /\ req'[g].target = req[g].target /\ req'[g].lease = req[g].lease
    BY <2>1, <2>4 DEF KeepInv, CreatingTrue, Creating
  <2>8. CreatingTrue'
    BY <2>1, <2>2, <2>4, <2>5, <2>6, <2>7
    DEF KeepInv, CreatingTrue, NarrowStep
  <2>9. QED
    BY <1>1, <2>2, <2>3, <2>8, NarrowKeepsLedger, NarrowKeepsCleaner
    DEF KeepInv
<1>4. QED
  BY <1>2, <1>3 DEF GetTargets, CloseTarget

\* A cleanup starts on retired leases.
LEMMA StartCleanupTrue ==
  ASSUME NEW leases, StartCleanup(leases), daemon' # "down",
         \A l \in leases : Retired(l)'
  PROVE  CleanerTrue'
<1>1. cleaner'.pc = "next" /\ cleaner'.todo = leases
  BY DEF StartCleanup, NoCleanup
<1>2. QED
  BY <1>1 DEF CleanerTrue

\* The requests of a client that do not call the browser.
LEMMA RenewInv ==
  ASSUME KeepInv, NEW l \in Leases, Renew(l) \/ ClientDies(l)
  PROVE  KeepInv'
<1>1. TypeOK' /\ NarrowStep
  BY ClientType, ClientNarrow DEF KeepInv, ClientStep
<1>2. UNCHANGED <<cleaner, daemon, req, tab>>
  BY DEF Renew, ClientDies, process
<1>3. Calm
  BY <1>2 DEF Calm, Creating
<1>4. QED
  BY <1>1, <1>2, <1>3, CalmNarrowInv

\* Ending a lease, and the cleanup that then begins, keep the invariant.
LEMMA EndInv ==
  ASSUME KeepInv, NEW l \in Leases, End(l)
  PROVE  KeepInv'
<1>1. TypeOK' /\ NarrowStep
  BY ClientType, ClientNarrow DEF KeepInv, ClientStep
<1>2. UNCHANGED <<daemon, req, tab>> /\ daemon = "up"
  BY DEF End, MayCall, process
<1>3. Calm
  BY <1>2 DEF Calm, Creating
<1>4. client'[l] # "none" /\ mem' \in Ledgers /\ mem \in Ledgers
  BY <1>1 DEF End, KeepInv, TypeOK
<1>5. mem'[l].state # "active"
  <2>1. \/ mem[l].state = "cleanup_pending" /\ mem' = mem
        \/ mem' = [mem EXCEPT ![l].state = "closing", ![l].due = TRUE]
    BY DEF End, Commit, ledger
  <2>2. mem[l] \in LeaseRecord
    BY <1>4, LeaseType DEF End
  <2>3. QED
    BY <1>4, <2>1, <2>2 DEF Ledgers, LeaseRecord
<1>6. \A k \in {l} : Retired(k)'
  BY <1>4, <1>5 DEF Retired, Active
<1>7. CleanerTrue'
  BY <1>2, <1>6, StartCleanupTrue DEF End
<1>8. QED
  BY <1>1, <1>3, <1>7, NarrowKeepsLedger, CalmKeepsCreating DEF KeepInv

\* The sweeper cleans up what it has retired.
LEMMA SweepInv ==
  ASSUME KeepInv, ReconcileExpired \/ ReconcileFails
  PROVE  KeepInv'
<1>1. TypeOK' /\ NarrowStep
  BY CleanType, SweepNarrow DEF KeepInv
<1>2. UNCHANGED <<client, req, tab>> /\ daemon' # "down"
  BY DEF ReconcileExpired, ReconcileFails, Swept
<1>3. Calm
  BY <1>2 DEF Calm, Creating
<1>4. ASSUME ReconcileFails
      PROVE  KeepInv'
  BY <1>1, <1>2, <1>3, <1>4, CalmNarrowInv DEF ReconcileFails
<1>5. ASSUME ReconcileExpired
      PROVE  KeepInv'
  <2>1. mem' = Marked
    BY <1>5 DEF ReconcileExpired, Commit
  <2>2. ASSUME NEW l \in NeedCleanup(Marked)
        PROVE  l \in Leases /\ mem'[l] # None /\ mem'[l].state # "active"
    BY <2>1, <2>2 DEF NeedCleanup
  <2>3. \A l \in Leases : mem'[l] # None => client'[l] # "none"
    BY <1>1, NarrowKeepsLedger DEF LedgerTrue
  <2>4. \A l \in NeedCleanup(Marked) : Retired(l)'
    BY <2>2, <2>3 DEF Retired, Active
  <2>5. CleanerTrue'
    BY <1>2, <1>5, <2>4, StartCleanupTrue DEF ReconcileExpired
  <2>6. QED
    BY <1>1, <1>3, <2>5, NarrowKeepsLedger, CalmKeepsCreating DEF KeepInv
<1>6. QED
  BY <1>4, <1>5

\* A cleanup goes on to a lease that is retired, and takes a true copy.
LEMMA CleanNextTrue ==
  ASSUME KeepInv, CleanNext
  PROVE  CleanerTrue'
<1>1. daemon' = daemon /\ daemon # "down" /\ UNCHANGED <<mem, client, told>>
  BY DEF CleanNext, process, ledger, KeepInv, CleanerTrue
<1>2. /\ cleaner \in Cleanups
      /\ \A l \in cleaner.todo : l \in Leases /\ Retired(l)
  BY DEF CleanNext, KeepInv, CleanerTrue, TypeOK, Cleanups
<1>3. CASE cleaner.todo = {}
  BY <1>1, <1>3 DEF CleanNext, NoCleanup, CleanerTrue
<1>4. ASSUME NEW l \in cleaner.todo, mem[l] = None,
             cleaner' = [cleaner EXCEPT !.todo = @ \ {l}]
      PROVE  CleanerTrue'
  <2>1. cleaner'.pc = "next" /\ cleaner'.todo \subseteq cleaner.todo
    BY <1>2, <1>4 DEF CleanNext, Cleanups
  <2>2. QED
    BY <1>1, <1>2, <2>1 DEF CleanerTrue, Retired, Active
<1>5. ASSUME NEW l \in cleaner.todo, mem[l] # None,
             cleaner' = [pc |-> "close", todo |-> cleaner.todo \ {l},
                         lease |-> l, left |-> mem[l].targets,
                         keep |-> mem[l].keep]
      PROVE  CleanerTrue'
  <2>1. l \in Leases /\ mem[l] \in LeaseRecord
    BY <1>2, <1>5, LeaseType DEF KeepInv, TypeOK
  <2>2. ASSUME NEW t \in mem[l].targets
        PROVE  /\ told[t] # "none"
               /\ told[t] = "persistent" => t \in mem[l].keep
               /\ \A k \in Leases : Has(mem, k, t) => k = l
    BY <1>5, <2>1 DEF KeepInv, LedgerTrue, Has, LeaseRecord
  <2>3. QED
    BY <1>1, <1>2, <1>5, <2>1, <2>2 DEF CleanerTrue, Retired, Active, Has
<1>6. QED
  BY <1>3, <1>4, <1>5 DEF CleanNext

\* Cleaning one target leaves fewer.
LEMMA CleanTargetTrue ==
  ASSUME KeepInv, NEW t \in Targets, CleanTarget(t)
  PROVE  CleanerTrue'
<1> DEFINE c == [cleaner EXCEPT !.left = @ \ {t}]
<1>1. NarrowStep
  BY CleanNarrow DEF KeepInv, CleanStep
<1>2. cleaner \in Cleanups /\ cleaner' = c /\ daemon' = daemon
  BY DEF CleanTarget, KeepInv, TypeOK, process
<1>3. /\ c.pc = "close" /\ c.todo = cleaner.todo /\ c.lease = cleaner.lease
      /\ c.left \subseteq cleaner.left /\ c.keep = cleaner.keep
  BY <1>2 DEF CleanTarget, Cleanups
<1>4. /\ cleaner.pc = "close" /\ daemon # "down"
      /\ cleaner.todo \subseteq Leases /\ cleaner.left \subseteq Targets
  BY <1>2 DEF CleanTarget, KeepInv, CleanerTrue, Cleanups
<1>5. \A l \in Leases : Retired(l) => Retired(l)'
  BY <1>1 DEF Retired, Active, NarrowStep, Narrows
<1>6. \A l \in Leases, s \in Targets : Has(mem, l, s)' => Has(mem, l, s)
  BY <1>1 DEF Has, NarrowStep, Narrows
<1>7. told' = told
  BY <1>1 DEF NarrowStep
<1>8. /\ \A l \in cleaner.todo : Retired(l)'
      /\ cleaner.lease \in Leases
      /\ \A l \in Leases : l = cleaner.lease => Retired(l)'
  BY <1>4, <1>5 DEF KeepInv, CleanerTrue
<1>9. \A s \in cleaner.left :
        /\ told[s] # "none"
        /\ told[s] = "persistent" => s \in cleaner.keep
        /\ \A l \in Leases : Has(mem, l, s)' => l = cleaner.lease
  BY <1>4, <1>6 DEF KeepInv, CleanerTrue
<1> HIDE DEF c
<1>10. QED
  BY <1>2, <1>3, <1>4, <1>7, <1>8, <1>9 DEF CleanerTrue, Retired, Active, Has

\* A cleanup that is done with a lease goes on to the next.
LEMMA CleanFinishTrue ==
  ASSUME KeepInv, CleanFinish
  PROVE  CleanerTrue'
<1>1. NarrowStep
  BY CleanNarrow DEF KeepInv, CleanStep
<1>2. cleaner'.pc = "next" /\ cleaner'.todo = cleaner.todo
  BY DEF CleanFinish, NoCleanup
<1>3. /\ cleaner.pc = "close" /\ daemon' = daemon /\ daemon # "down"
      /\ cleaner.todo \subseteq Leases
  BY DEF CleanFinish, process, KeepInv, CleanerTrue, TypeOK, Cleanups
<1>4. \A l \in Leases : Retired(l) => Retired(l)'
  BY <1>1 DEF Retired, Active, NarrowStep, Narrows
<1>5. \A l \in cleaner.todo : Retired(l)'
  BY <1>3, <1>4 DEF KeepInv, CleanerTrue
<1>6. QED
  BY <1>2, <1>3, <1>5 DEF CleanerTrue, Retired, Active

\* Cleanup keeps the invariant.
LEMMA CleanInv ==
  ASSUME KeepInv, CleanStep
  PROVE  KeepInv'
<1>1. TypeOK' /\ NarrowStep
  BY CleanType, CleanNarrow DEF KeepInv
<1>2. ASSUME NEW t \in Targets, CleanTarget(t)
      PROVE  \A s \in Targets : tab[s] # "none" => tab'[s] # "none"
  BY <1>2, CloseTabCalm DEF CleanTarget, KeepInv
<1>3. \A s \in Targets : tab[s] # "none" => tab'[s] # "none"
  BY <1>2 DEF CleanStep, CleanNext, CleanFinish
<1>4. req' = req
  BY DEF CleanStep, CleanNext, CleanTarget, CleanFinish
<1>5. Calm
  BY <1>3, <1>4 DEF Calm, Creating
<1>6. CleanerTrue'
  BY CleanNextTrue, CleanTargetTrue, CleanFinishTrue DEF CleanStep
<1>7. QED
  BY <1>1, <1>5, <1>6, NarrowKeepsLedger, CalmKeepsCreating DEF KeepInv

-----------------------------------------------------------------------------
\* The steps that do more to the ledger.

\* A lease that begins is not in a cleanup, and owns nothing.
LEMMA BeginInv ==
  ASSUME KeepInv, NEW l \in Leases, Begin(l)
  PROVE  KeepInv'
<1>1. TypeOK'
  BY BeginType DEF KeepInv
<1>2. /\ mem' = [mem EXCEPT ![l] = NewLease] /\ disk' = mem'
      /\ UNCHANGED <<daemon, req, cleaner, tab, told>> /\ daemon = "up"
      /\ client[l] = "none" /\ client'[l] = "live"
      /\ \A k \in Leases : k # l => client'[k] = client[k]
  BY DEF Begin, Commit, process, KeepInv, TypeOK
<1>3. /\ mem'[l] = NewLease
      /\ \A k \in Leases : k # l => mem'[k] = mem[k]
  BY <1>2 DEF KeepInv, TypeOK, Ledgers
<1>4. \A k \in Leases, t \in Targets : Has(mem, k, t)' => k # l /\ Has(mem, k, t)
  BY <1>3 DEF Has, NewLease
<1>5. LedgerDurable'
  BY <1>2 DEF LedgerDurable
<1>6. LedgerTrue(mem)'
  <2>1. \A k \in Leases : mem'[k] # None => client'[k] # "none"
    BY <1>2, <1>3 DEF KeepInv, LedgerTrue
  <2>2. ASSUME NEW k \in Leases, NEW t \in Targets, Has(mem, k, t)'
        PROVE  /\ told'[t] # "none"
               /\ told'[t] = "persistent" => t \in mem'[k].keep
               /\ \A j \in Leases : Has(mem, j, t)' => j = k
    BY <1>2, <1>3, <1>4, <2>2 DEF KeepInv, LedgerTrue
  <2>3. QED
    BY <2>1, <2>2 DEF LedgerTrue, Has
<1>7. LedgerTrue(disk)'
  BY <1>2, <1>6 DEF LedgerTrue, Has
<1>8. CreatingTrue'
  BY <1>2 DEF KeepInv, CreatingTrue, Creating
<1>9. CleanerTrue'
  <2>1. cleaner.todo \subseteq Leases /\ cleaner.left \subseteq Targets
    BY DEF KeepInv, TypeOK, Cleanups
  <2>2. \A k \in Leases : Retired(k) => Retired(k)'
    BY <1>2, <1>3 DEF Retired, Active
  <2>3. QED
    BY <1>2, <1>4, <2>1, <2>2 DEF KeepInv, CleanerTrue, Retired, Active, Has
<1>10. QED
  BY <1>1, <1>5, <1>6, <1>7, <1>8, <1>9 DEF KeepInv

\* A policy is recorded with the lease that owns the target, which no cleanup
\* has copied if the lease is active.
LEMMA SetTargetPersistentInv ==
  ASSUME KeepInv, NEW l \in Leases, NEW t \in Targets, SetTargetPersistent(l, t)
  PROVE  KeepInv'
<1> DEFINE r == [mem[l] EXCEPT !.keep = @ \cup {t}]
<1>1. TypeOK'
  BY SetTargetPersistentType DEF KeepInv
<1>2. /\ Has(mem, l, t) /\ disk' = mem' /\ mem' = [mem EXCEPT ![l] = r]
      /\ UNCHANGED <<daemon, client, req, cleaner, tab>> /\ daemon = "up"
      /\ told'[t] = IF Active(l) THEN "persistent" ELSE "late"
      /\ \A s \in Targets : s # t => told'[s] = told[s]
  BY DEF SetTargetPersistent, MayCall, Commit, Has, process, KeepInv, TypeOK,
     Ledgers
<1>3. mem[l] \in LeaseRecord
  BY <1>2, LeaseType DEF Has, KeepInv, TypeOK
<1>4. /\ r # None /\ r.targets = mem[l].targets /\ r.keep = mem[l].keep \cup {t}
      /\ r.state = mem[l].state
  <2>1. r \in LeaseRecord
    BY <1>3 DEF LeaseRecord
  <2>2. QED
    BY <1>3, <2>1, LeasesAssumption DEF LeaseRecord
<1>5. mem'[l] = r /\ \A k \in Leases : k # l => mem'[k] = mem[k]
  BY <1>2 DEF KeepInv, TypeOK, Ledgers
<1> HIDE DEF r
<1>6. /\ \A k \in Leases, s \in Targets : Has(mem, k, s)' <=> Has(mem, k, s)
      /\ \A k \in Leases : mem'[k] # None <=> mem[k] # None
      /\ \A k \in Leases : Active(k)' <=> Active(k)
  BY <1>2, <1>4, <1>5 DEF Has, Active
<1>7. \A k \in Leases, s \in Targets : Has(mem, k, s) =>
        /\ told[s] # "none"
        /\ told[s] = "persistent" => s \in mem[k].keep
        /\ \A j \in Leases : Has(mem, j, s) => j = k
  BY DEF KeepInv, LedgerTrue
<1>8. told[t] # "none" /\ told'[t] # "none"
  BY <1>2, <1>7
<1>9. LedgerTrue(mem)'
  <2>1. \A k \in Leases : mem'[k] # None => client'[k] # "none"
    BY <1>2, <1>6 DEF KeepInv, LedgerTrue
  <2>2. ASSUME NEW k \in Leases, NEW s \in Targets, Has(mem, k, s)
        PROVE  /\ told'[s] # "none"
               /\ told'[s] = "persistent" => s \in mem'[k].keep
               /\ \A j \in Leases : Has(mem, j, s)' => j = k
    <3>1. CASE s = t
      BY <1>2, <1>4, <1>5, <1>6, <1>7, <1>8, <2>2, <3>1
    <3>2. CASE s # t
      BY <1>2, <1>4, <1>5, <1>6, <1>7, <2>2, <3>2
    <3>3. QED
      BY <3>1, <3>2
  <2>3. QED
    BY <1>6, <2>1, <2>2 DEF LedgerTrue, Has
<1>10. LedgerTrue(disk)' /\ LedgerDurable'
  BY <1>2, <1>9 DEF LedgerTrue, Has, LedgerDurable
<1>11. CreatingTrue'
  BY <1>2, <1>8 DEF KeepInv, CreatingTrue, Creating
<1>12. CleanerTrue'
  <2>1. cleaner.todo \subseteq Leases /\ cleaner.left \subseteq Targets
    BY DEF KeepInv, TypeOK, Cleanups
  <2>2. \A k \in Leases : Retired(k) => Retired(k)'
    BY <1>2, <1>6 DEF Retired
  <2>3. ASSUME cleaner.pc = "close", t \in cleaner.left
        PROVE  told'[t] = "late"
    <3>1. l = cleaner.lease
      BY <1>2, <2>3 DEF KeepInv, CleanerTrue
    <3>2. Retired(l)
      BY <2>3, <3>1 DEF KeepInv, CleanerTrue
    <3>3. QED
      BY <1>2, <3>2 DEF Retired
  <2>4. ASSUME cleaner.pc = "close"
        PROVE  \A s \in cleaner.left :
                 /\ told'[s] # "none"
                 /\ told'[s] = "persistent" => s \in cleaner.keep
                 /\ \A k \in Leases : Has(mem, k, s)' => k = cleaner.lease
    BY <1>2, <1>6, <1>8, <2>1, <2>3, <2>4 DEF KeepInv, CleanerTrue
  <2>5. QED
    BY <1>2, <2>1, <2>2, <2>4 DEF KeepInv, CleanerTrue, Retired, Active, Has
<1>13. QED
  BY <1>1, <1>9, <1>10, <1>11, <1>12 DEF KeepInv

\* A target is registered while its lease is active, and nobody has it yet.
LEMMA RegisterTargetInv ==
  ASSUME KeepInv, NEW h \in Handlers, RegisterTarget(h)
  PROVE  KeepInv'
<1> DEFINE l == req[h].lease  t == req[h].target
           r == [mem[l] EXCEPT !.targets = @ \cup {t}]
<1>1. TypeOK'
  BY RegisterTargetType DEF KeepInv
<1>2. /\ UNCHANGED <<daemon, client, cleaner, tab>> /\ daemon = "up"
      /\ Creating(h) /\ l \in Leases /\ t \in Targets
      /\ told[t] = "none" /\ tab[t] # "none" /\ client[l] # "none"
  BY DEF RegisterTarget, At, process, KeepInv, CreatingTrue, Creating
<1>3. \A g \in Handlers : Creating(g)' =>
        /\ Creating(g)
        /\ req'[g].target = req[g].target /\ req'[g].lease = req[g].lease
  <2>1. req[h] \in Requests
    BY DEF KeepInv, TypeOK
  <2>2. /\ [req[h] EXCEPT !.pc = "rollback"].target = t
        /\ [req[h] EXCEPT !.pc = "rollback"].lease = l
    BY <2>1 DEF Requests
  <2>3. \/ req' = [req EXCEPT ![h] = [req[h] EXCEPT !.pc = "rollback"]]
        \/ req' = [req EXCEPT ![h] = NoRequest]
    BY DEF RegisterTarget, Done, Goto, KeepInv, TypeOK
  <2>4. /\ \A g \in Handlers : g # h => req'[g] = req[g]
        /\ req'[h].pc = "free" \/ (req'[h].target = t /\ req'[h].lease = l)
    <3>1. req \in [Handlers -> Requests]
      BY DEF KeepInv, TypeOK
    <3>2. CASE req' = [req EXCEPT ![h] = [req[h] EXCEPT !.pc = "rollback"]]
      BY <2>2, <3>1, <3>2
    <3>3. CASE req' = [req EXCEPT ![h] = NoRequest]
      BY <3>1, <3>3 DEF NoRequest
    <3>4. QED
      BY <2>3, <3>2, <3>3
  <2>5. QED
    BY <1>2, <2>4 DEF Creating
<1>4. CASE UNCHANGED <<ledger, told>>
  <2>1. NarrowStep
    BY <1>2, <1>4, IdleNarrow DEF ledger, KeepInv
  <2>2. Calm
    BY <1>2, <1>3 DEF Calm
  <2>3. QED
    BY <1>1, <1>2, <2>1, <2>2, CalmNarrowInv
<1>5. ASSUME ~ UNCHANGED <<ledger, told>>
      PROVE  KeepInv'
  <2>1. /\ Active(l) /\ disk' = mem' /\ mem' = [mem EXCEPT ![l] = r]
        /\ ~ Creating(h)'
        /\ told'[t] = "disposable"
        /\ \A s \in Targets : s # t => told'[s] = told[s]
    BY <1>2, <1>5 DEF RegisterTarget, Commit, Done, NoRequest, Creating,
       KeepInv, TypeOK, Ledgers
  <2>2. mem[l] \in LeaseRecord
    BY <1>2, <2>1, LeaseType DEF Active, KeepInv, TypeOK
  <2>3. /\ r # None /\ r.targets = mem[l].targets \cup {t}
        /\ r.keep = mem[l].keep /\ r.state = mem[l].state
    <3>1. r \in LeaseRecord
      BY <1>2, <2>2 DEF LeaseRecord
    <3>2. QED
      BY <2>2, <3>1, LeasesAssumption DEF LeaseRecord
  <2>4. mem'[l] = r /\ \A k \in Leases : k # l => mem'[k] = mem[k]
    BY <1>2, <2>1 DEF KeepInv, TypeOK, Ledgers
  <2> HIDE DEF r
  <2>5. /\ \A k \in Leases, s \in Targets :
             Has(mem, k, s)' <=> (Has(mem, k, s) \/ (k = l /\ s = t))
        /\ \A k \in Leases : mem'[k] # None <=> mem[k] # None
        /\ \A k \in Leases : Active(k)' <=> Active(k)
        /\ \A k \in Leases : mem[k] # None => mem'[k].keep = mem[k].keep
    BY <2>1, <2>3, <2>4 DEF Has, Active
  <2>6. \A k \in Leases, s \in Targets : Has(mem, k, s) =>
          /\ s # t /\ told[s] # "none"
          /\ told[s] = "persistent" => s \in mem[k].keep
          /\ \A j \in Leases : Has(mem, j, s) => j = k
    BY <1>2 DEF KeepInv, LedgerTrue
  <2>7. LedgerTrue(mem)'
    <3>1. \A k \in Leases : mem'[k] # None => client'[k] # "none"
      BY <1>2, <2>5 DEF KeepInv, LedgerTrue
    <3>2. ASSUME NEW k \in Leases, NEW s \in Targets, Has(mem, k, s)'
          PROVE  /\ told'[s] # "none"
                 /\ told'[s] = "persistent" => s \in mem'[k].keep
                 /\ \A j \in Leases : Has(mem, j, s)' => j = k
      <4>1. CASE s = t
        <5>1. \A j \in Leases : Has(mem, j, s)' => j = l
          BY <1>2, <2>5, <2>6, <4>1
        <5>2. told'[s] = "disposable"
          BY <2>1, <4>1
        <5>3. QED
          BY <3>2, <5>1, <5>2
      <4>2. CASE s # t
        <5>1. Has(mem, k, s) /\ mem[k] # None
          BY <2>5, <3>2, <4>2 DEF Has
        <5>2. QED
          BY <2>1, <2>5, <2>6, <4>2, <5>1
      <4>3. QED
        BY <4>1, <4>2
    <3>3. QED
      BY <3>1, <3>2 DEF LedgerTrue, Has
  <2>8. LedgerTrue(disk)' /\ LedgerDurable'
    BY <2>1, <2>7 DEF LedgerTrue, Has, LedgerDurable
  <2>9. \A g \in Handlers : Creating(g)' => req[g].target # t
    BY <1>2, <1>3, <2>1 DEF KeepInv, CreatingTrue
  <2>10. CreatingTrue'
    BY <1>2, <1>3, <2>1, <2>9 DEF KeepInv, CreatingTrue
  <2>11. CleanerTrue'
    <3>1. cleaner.todo \subseteq Leases /\ cleaner.left \subseteq Targets
      BY DEF KeepInv, TypeOK, Cleanups
    <3>2. \A k \in Leases : Retired(k) => Retired(k)'
      BY <1>2, <2>5 DEF Retired
    <3>3. ASSUME cleaner.pc = "close"
          PROVE  \A s \in cleaner.left :
                   /\ told'[s] # "none"
                   /\ told'[s] = "persistent" => s \in cleaner.keep
                   /\ \A k \in Leases : Has(mem, k, s)' => k = cleaner.lease
      <4>1. t \notin cleaner.left
        BY <1>2, <3>3 DEF KeepInv, CleanerTrue
      <4>2. QED
        BY <2>1, <2>5, <3>1, <3>3, <4>1 DEF KeepInv, CleanerTrue
    <3>4. QED
      BY <1>2, <3>1, <3>2, <3>3 DEF KeepInv, CleanerTrue, Retired, Active, Has
  <2>12. QED
    BY <1>1, <2>7, <2>8, <2>10, <2>11 DEF KeepInv
<1>6. QED
  BY <1>4, <1>5

\* Time only makes leases due, in memory and on disk.
LEMMA DueEffect ==
  ASSUME NEW m \in Ledgers, NEW l \in Leases
  PROVE  \A k \in Leases :
           /\ Due(m, l)[k] # None <=> m[k] # None
           /\ m[k] # None => /\ Due(m, l)[k].targets = m[k].targets
                             /\ Due(m, l)[k].keep = m[k].keep
                             /\ Due(m, l)[k].state = m[k].state
<1>1. CASE m[l] = None
  BY <1>1 DEF Due
<1>2. ASSUME m[l] # None
      PROVE  \A k \in Leases :
               /\ Due(m, l)[k] # None <=> m[k] # None
               /\ m[k] # None => /\ Due(m, l)[k].targets = m[k].targets
                                 /\ Due(m, l)[k].keep = m[k].keep
                                 /\ Due(m, l)[k].state = m[k].state
  <2> DEFINE r == [m[l] EXCEPT !.due = TRUE]
  <2>1. m[l] \in LeaseRecord
    BY <1>2, LeaseType
  <2>2. r \in LeaseRecord
    BY <2>1 DEF LeaseRecord
  <2>3. /\ r # None /\ r.targets = m[l].targets /\ r.keep = m[l].keep
        /\ r.state = m[l].state
    BY <2>1, <2>2, LeasesAssumption DEF LeaseRecord
  <2>4. Due(m, l) = [m EXCEPT ![l] = r]
    BY <1>2 DEF Due, Ledgers
  <2> HIDE DEF r
  <2>5. QED
    BY <1>2, <2>3, <2>4 DEF Ledgers
<1>3. QED
  BY <1>1, <1>2

\* Time changes no more than what is due.
LEMMA LeaseDueInv ==
  ASSUME KeepInv, NEW l \in Leases, LeaseDue(l)
  PROVE  KeepInv'
<1>1. TypeOK'
  BY LeaseDueType DEF KeepInv
<1>2. /\ mem' = Due(mem, l) /\ disk' = Due(disk, l)
      /\ mem \in Ledgers /\ disk \in Ledgers
      /\ UNCHANGED <<daemon, client, req, cleaner, tab, told>>
  BY DEF LeaseDue, process, KeepInv, TypeOK
<1>3. /\ \A k \in Leases : mem'[k] # None <=> mem[k] # None
      /\ \A k \in Leases : disk'[k] # None <=> disk[k] # None
      /\ \A k \in Leases : mem[k] # None =>
           /\ mem'[k].targets = mem[k].targets /\ mem'[k].keep = mem[k].keep
           /\ mem'[k].state = mem[k].state
      /\ \A k \in Leases : disk[k] # None =>
           disk'[k].targets = disk[k].targets /\ disk'[k].keep = disk[k].keep
  BY <1>2, DueEffect
<1>4. LedgerDurable'
  BY <1>3 DEF KeepInv, LedgerDurable
<1>5. LedgerTrue(mem)' /\ LedgerTrue(disk)'
  BY <1>2, <1>3 DEF KeepInv, LedgerTrue, Has
<1>6. CreatingTrue'
  BY <1>2 DEF KeepInv, CreatingTrue, Creating
<1>7. CleanerTrue'
  <2>1. cleaner.todo \subseteq Leases
    BY DEF KeepInv, TypeOK, Cleanups
  <2>2. \A k \in Leases : Retired(k) => Retired(k)'
    BY <1>2, <1>3 DEF Retired, Active
  <2>3. \A k \in Leases, s \in Targets : Has(mem, k, s)' => Has(mem, k, s)
    BY <1>3 DEF Has
  <2>4. cleaner.left \subseteq Targets
    BY DEF KeepInv, TypeOK, Cleanups
  <2>5. QED
    BY <1>2, <2>1, <2>2, <2>3, <2>4
    DEF KeepInv, CleanerTrue, Retired, Active, Has
<1>8. QED
  BY <1>1, <1>4, <1>5, <1>6, <1>7 DEF KeepInv

\* The browser and the life of the daemon: a crash leaves what was saved.
LEMMA EnvironmentInv ==
  ASSUME KeepInv,
         \/ \E t \in Targets : TabOpens(t) \/ TabGoes(t)
         \/ Crash \/ Load \/ StartServing
  PROVE  KeepInv'
<1>1. TypeOK'
  BY EnvironmentType DEF KeepInv
<1>2. ASSUME \/ \E t \in Targets : TabOpens(t) \/ TabGoes(t)
             \/ StartServing
      PROVE  KeepInv'
  <2>1. UNCHANGED <<mem, disk, told, client, cleaner, req>>
    BY <1>2 DEF TabOpens, TabGoes, StartServing, ledger
  <2>2. daemon' = "down" => daemon = "down"
    BY <1>2 DEF TabOpens, TabGoes, StartServing, process
  <2>3. \A t \in Targets : tab[t] # "none" => tab'[t] # "none"
    BY <1>2 DEF TabOpens, TabGoes, StartServing, KeepInv, TypeOK
  <2>4. Calm
    BY <2>1, <2>3 DEF Calm, Creating
  <2>5. NarrowStep
    BY <2>1, IdleNarrow DEF KeepInv
  <2>6. QED
    BY <1>1, <2>1, <2>2, <2>4, <2>5, CalmNarrowInv
<1>3. ASSUME Crash
      PROVE  KeepInv'
  <2>1. /\ \A l \in Leases : mem'[l] = None
        /\ \A h \in Handlers : req'[h] = NoRequest
        /\ cleaner' = NoCleanup
        /\ UNCHANGED <<disk, client, tab, told>>
    BY <1>3 DEF Crash
  <2>2. LedgerDurable' /\ LedgerTrue(mem)' /\ LedgerTrue(disk)'
    BY <2>1 DEF KeepInv, LedgerDurable, LedgerTrue, Has
  <2>3. CreatingTrue' /\ CleanerTrue'
    BY <2>1 DEF KeepInv, CreatingTrue, CleanerTrue, Creating, NoRequest,
       NoCleanup
  <2>4. QED
    BY <1>1, <2>2, <2>3 DEF KeepInv
<1>4. ASSUME Load
      PROVE  KeepInv'
  <2>1. /\ mem' = disk /\ daemon = "down" /\ cleaner.pc = "idle"
        /\ UNCHANGED <<disk, client, req, cleaner, tab, told>>
    BY <1>4 DEF Load, KeepInv, CleanerTrue
  <2>2. LedgerDurable' /\ LedgerTrue(mem)' /\ LedgerTrue(disk)'
    BY <2>1 DEF KeepInv, LedgerDurable, LedgerTrue, Has
  <2>3. CreatingTrue' /\ CleanerTrue'
    BY <2>1 DEF KeepInv, CreatingTrue, CleanerTrue, Creating
  <2>4. QED
    BY <1>1, <2>2, <2>3 DEF KeepInv
<1>5. QED
  BY <1>2, <1>3, <1>4

-----------------------------------------------------------------------------
\* Theorems.

\* The invariant holds when nothing has happened.
LEMMA KeepInvInit ==
  ASSUME Init
  PROVE  KeepInv
<1>1. TypeOK
  <2>1. mem \in Ledgers /\ disk \in Ledgers
    BY DEF Init, Ledgers
  <2>2. req \in [Handlers -> Requests] /\ cleaner \in Cleanups
    BY RecordTypes DEF Init
  <2>3. restarts \in 0 .. MaxRestarts
    BY LeasesAssumption DEF Init
  <2>4. QED
    BY <2>1, <2>2, <2>3 DEF Init, TypeOK
<1>2. LedgerDurable /\ LedgerTrue(mem) /\ LedgerTrue(disk)
  BY DEF Init, LedgerDurable, LedgerTrue, Has
<1>3. CreatingTrue /\ CleanerTrue
  BY DEF Init, CreatingTrue, CleanerTrue, Creating, NoRequest, NoCleanup
<1>4. QED
  BY <1>1, <1>2, <1>3 DEF KeepInv

\* Every step keeps it.
LEMMA KeepInvNext ==
  ASSUME KeepInv, [Next]_vars
  PROVE  KeepInv'
<1>1. CASE UNCHANGED vars
  BY <1>1 DEF vars, KeepInv, TypeOK, LedgerDurable, LedgerTrue, Has,
     CreatingTrue, CleanerTrue, Creating, Retired, Active
<1>2. ASSUME NEW l \in Leases, ClientStep(l)
      PROVE  KeepInv'
  BY <1>2, BeginInv, RenewInv, EndInv, SetTargetPersistentInv, ServeInv
  DEF ClientStep
<1>3. ASSUME NEW h \in Handlers, HandlerStep(h)
      PROVE  KeepInv'
  BY <1>3, RequestInv, RegisterTargetInv
<1>4. CASE Next
  BY <1>2, <1>3, <1>4, LeaseDueInv, SweepInv, CleanInv, EnvironmentInv DEF Next
<1>5. QED
  BY <1>1, <1>4

\* The state stays typed, and memory never knows of a lease, a target or a
\* promise to keep it that a crash would forget, for any leases, targets and
\* handlers and with requests overlapping as they like (leases.go).
THEOREM Durable == Spec => [](TypeOK /\ LedgerDurable)
<1>1. Init => KeepInv
  BY KeepInvInit
<1>2. KeepInv /\ [Next]_vars => KeepInv'
  BY KeepInvNext
<1>3. KeepInv => TypeOK /\ LedgerDurable
  BY DEF KeepInv
<1>4. QED
  BY <1>1, <1>2, <1>3, PTL DEF Spec

\* A step that closes a tab for the daemon closes one it did not agree to keep.
LEMMA ReapsOnlyDisposable ==
  ASSUME KeepInv, [Next]_vars, NEW t \in Targets,
         told[t] = "persistent", tab[t] = "open"
  PROVE  tab'[t] # "reaped"
<1>1. ASSUME NEW s \in Targets, NEW success \in BOOLEAN, CloseTab(s, success),
             s # t
      PROVE  tab'[t] = "open"
  BY <1>1 DEF CloseTab, KeepInv, TypeOK
<1>2. ASSUME NEW h \in Handlers, RollBackCreate(h)
      PROVE  tab'[t] = "open"
  <2>1. req[h].target \in Targets /\ told[req[h].target] = "none"
    BY <1>2 DEF RollBackCreate, At, KeepInv, CreatingTrue, Creating
  <2>2. QED
    BY <1>1, <1>2, <2>1 DEF RollBackCreate
<1>3. ASSUME NEW s \in Targets, CleanTarget(s)
      PROVE  tab'[t] = "open"
  <2>1. s = t => t \in cleaner.keep
    BY <1>3 DEF CleanTarget, KeepInv, CleanerTrue
  <2>2. CASE s \in cleaner.keep
    BY <1>3, <2>2 DEF CleanTarget
  <2>3. CASE s \notin cleaner.keep
    BY <1>1, <1>3, <2>1, <2>3 DEF CleanTarget
  <2>4. QED
    BY <2>2, <2>3
<1>4. ASSUME NEW h \in Handlers, HandlerStep(h)
      PROVE  tab'[t] # "reaped"
  <2>1. ASSUME CloseReply(h)
        PROVE  tab'[t] # "reaped"
    BY <2>1 DEF CloseReply, KeepInv, TypeOK
  <2>2. ASSUME tab' = tab
        PROVE  tab'[t] # "reaped"
    BY <2>2
  <2>3. QED
    BY <1>2, <1>4, <2>1, <2>2 DEF HandlerStep, CallFails, CreateReply,
       RegisterTarget, ListReply, ReconcileTargetSnapshot, UnregisterTarget
<1>5. ASSUME NEW l \in Leases, ClientStep(l)
      PROVE  tab'[t] # "reaped"
  <2>1. ASSUME NEW h \in Handlers, NEW s \in Targets, CreateTarget(h, l, s)
        PROVE  tab'[t] # "reaped"
    BY <2>1 DEF CreateTarget, KeepInv, TypeOK
  <2>2. QED
    BY <1>5, <2>1 DEF ClientStep, Begin, Renew, End, ClientDies,
       SetTargetPersistent, GetTargets, CloseTarget
<1>6. ASSUME NEW s \in Targets, TabOpens(s) \/ TabGoes(s)
      PROVE  tab'[t] # "reaped"
  BY <1>6 DEF TabOpens, TabGoes, KeepInv, TypeOK
<1>7. ASSUME \/ \E l \in Leases : LeaseDue(l)
             \/ ReconcileExpired \/ ReconcileFails \/ CleanNext \/ CleanFinish
             \/ Crash \/ Load \/ StartServing \/ UNCHANGED vars
      PROVE  tab'[t] # "reaped"
  BY <1>7 DEF LeaseDue, ReconcileExpired, ReconcileFails, CleanNext,
     CleanFinish, Crash, Load, StartServing, vars
<1>8. QED
  BY <1>3, <1>4, <1>5, <1>6, <1>7 DEF Next, CleanStep

\* The daemon never closes a tab that it agreed to keep while its lease was
\* active, for any leases, targets and handlers, any number of restarts and
\* any overlap of requests, cleanup and expiry (SetTargetDisposable,
\* cleanupLease).
THEOREM KeepsOpen == Spec => KeptOpen
<1>1. Init => KeepInv
  BY KeepInvInit
<1>2. KeepInv /\ [Next]_vars => KeepInv'
  BY KeepInvNext
<1>3. KeepInv /\ [Next]_vars =>
        [\A t \in Targets : told[t] = "persistent" /\ tab[t] = "open"
           => tab'[t] # "reaped"]_vars
  BY ReapsOnlyDisposable
<1>4. QED
  BY <1>1, <1>2, <1>3, PTL DEF Spec, KeptOpen

-----------------------------------------------------------------------------
\* What is answered stays tracked, when the requests of a lease come one by one.

OneByOne == ~Overlap \/ \A g, h \in Handlers : g = h

Promised(t) == told[t] \in {"persistent", "late"}

\* What a ledger, or the copy of a cleanup, keeps was promised to be kept.
KeepTold(m) == \A l \in Leases : m[l] # None => \A t \in m[l].keep : Promised(t)
CleanerTold == \A t \in cleaner.keep : Promised(t)

\* A request that is served belongs to a lease, and is its only one.
ServedApart ==
  /\ daemon = "down" => \A h \in Handlers : req[h] = NoRequest
  /\ \A h \in Handlers : req[h].lease = None => req[h].pc = "free"
  /\ \A g, h \in Handlers :
       req[g].lease # None /\ req[g].lease = req[h].lease => g = h

\* A target is acknowledged only once its tab has opened.
OpenedFirst ==
  /\ \A t \in Targets : tab[t] = "requested" => told[t] = "none"
  /\ \A h \in Handlers : req[h].pc \in {"register", "rollback"} =>
       tab[req[h].target] \notin {"none", "requested"}

\* A snapshot shows every open tab of the lease it was taken for.
ListedAll ==
  \A h \in Handlers : req[h].pc = "listed" =>
    \A t \in Targets :
      Has(mem, req[h].lease, t) /\ tab[t] = "open" => t \in req[h].seen

Awaited(t) == told[t] = "disposable" /\ tab[t] = "open"

\* The ledger that the daemon has, or the next one will load, lists what was
\* acknowledged and is open.
Tracked ==
  \A t \in Targets : Awaited(t) =>
    \E l \in Leases : Has(IF daemon = "down" THEN disk ELSE mem, l, t)

TrackInv ==
  /\ KeepInv
  /\ KeepTold(mem) /\ KeepTold(disk) /\ CleanerTold
  /\ ServedApart
  /\ OpenedFirst
  /\ ListedAll
  /\ Tracked

\* What a handler may do to its request: nothing, end it, or go on with it.
Advances(h) ==
  \/ req'[h] = req[h]
  \/ req'[h] = NoRequest
  \/ /\ req[h].pc # "free" /\ req'[h].pc # "free"
     /\ req'[h].lease = req[h].lease /\ req'[h].target = req[h].target

\* A request that is served advances, and no other changes.
LEMMA RequestAdvances ==
  ASSUME TypeOK, NEW h \in Handlers, HandlerStep(h)
  PROVE  /\ \A g \in Handlers : g # h => req'[g] = req[g]
         /\ Advances(h)
<1>1. req[h] \in Requests /\ req \in [Handlers -> Requests]
  BY DEF TypeOK
<1>2. ASSUME Done(h)
      PROVE  Advances(h) /\ \A g \in Handlers : g # h => req'[g] = req[g]
  BY <1>1, <1>2 DEF Done, Advances
<1>3. ASSUME NEW pc \in {"register", "rollback", "confirm"}, Goto(h, pc),
             req[h].pc # "free"
      PROVE  Advances(h) /\ \A g \in Handlers : g # h => req'[g] = req[g]
  <2>1. /\ [req[h] EXCEPT !.pc = pc].pc = pc
        /\ [req[h] EXCEPT !.pc = pc].target = req[h].target
        /\ [req[h] EXCEPT !.pc = pc].lease = req[h].lease
    BY <1>1 DEF Requests
  <2>2. req' = [req EXCEPT ![h] = [req[h] EXCEPT !.pc = pc]]
    BY <1>1, <1>3 DEF Goto
  <2>3. QED
    BY <1>1, <1>3, <2>1, <2>2 DEF Advances
<1>4. ASSUME ListReply(h)
      PROVE  Advances(h) /\ \A g \in Handlers : g # h => req'[g] = req[g]
  <2> DEFINE r == [req[h] EXCEPT !.pc = "listed",
                                 !.seen = {t \in Targets : tab[t] = "open"}]
  <2>1. r.pc = "listed" /\ r.target = req[h].target /\ r.lease = req[h].lease
    BY <1>1 DEF Requests
  <2>2. req' = [req EXCEPT ![h] = r]
    BY <1>1, <1>4 DEF ListReply
  <2> HIDE DEF r
  <2>3. QED
    BY <1>1, <1>4, <2>1, <2>2 DEF ListReply, At, Advances
<1>5. QED
  BY <1>2, <1>3, <1>4 DEF HandlerStep, CallFails, CreateReply, RegisterTarget,
     RollBackCreate, ReconcileTargetSnapshot, CloseReply, UnregisterTarget, At

\* A request begins for a lease that has none, if they come one by one.
LEMMA ServeApart ==
  ASSUME OneByOne, TypeOK, ServedApart, NEW h \in Handlers, NEW l \in Leases,
         NEW pc \in {"create", "list", "close"}, NEW t, Serve(h, l, pc, t)
  PROVE  /\ \A g \in Handlers : g # h => req'[g] = req[g] /\ req[g].lease # l
         /\ req'[h].pc = pc /\ req'[h].lease = l /\ req'[h].target = t
         /\ daemon = "up" /\ daemon' = daemon
<1>1. \A g \in Handlers : g # h => req[g].lease # l
  BY DEF OneByOne, Serve, MayCall, Quiet
<1>2. QED
  BY <1>1 DEF Serve, MayCall, TypeOK, process

\* The steps that leave all requests alone.
Elsewhere ==
  \/ \E l \in Leases : \/ Begin(l) \/ Renew(l) \/ End(l) \/ ClientDies(l)
                       \/ \E t \in Targets : SetTargetPersistent(l, t)
                       \/ LeaseDue(l)
  \/ ReconcileExpired \/ ReconcileFails \/ CleanStep
  \/ \E t \in Targets : TabOpens(t) \/ TabGoes(t)
  \/ Load \/ StartServing \/ UNCHANGED vars

LEMMA NextCases ==
  ASSUME [Next]_vars
  PROVE  \/ Elsewhere
         \/ Crash
         \/ \E h \in Handlers : HandlerStep(h)
         \/ \E h \in Handlers, l \in Leases :
              \/ GetTargets(h, l)
              \/ \E t \in Targets : CreateTarget(h, l, t) \/ CloseTarget(h, l, t)
BY DEF Next, ClientStep, Elsewhere

\* They leave the daemon where it was, or further on.
LEMMA ElsewhereRequests ==
  ASSUME Elsewhere
  PROVE  req' = req /\ (daemon' = "down" => daemon = "down")
BY DEF Elsewhere, Begin, Renew, End, ClientDies, SetTargetPersistent,
   LeaseDue, ReconcileExpired, ReconcileFails, CleanStep, CleanNext,
   CleanFinish, CleanTarget, TabOpens, TabGoes, Load, StartServing, vars,
   process, Swept

\* Requests stay apart.
LEMMA ApartNext ==
  ASSUME OneByOne, TypeOK, ServedApart, [Next]_vars
  PROVE  ServedApart'
<1>1. CASE Elsewhere
  BY <1>1, ElsewhereRequests DEF ServedApart
<1>2. CASE Crash
  BY <1>2 DEF Crash, ServedApart, NoRequest
<1>3. ASSUME NEW h \in Handlers, HandlerStep(h)
      PROVE  ServedApart'
  <2>1. daemon = "up" /\ daemon' = daemon
    BY <1>3 DEF HandlerStep, CallFails, CreateReply, RegisterTarget,
       RollBackCreate, ListReply, ReconcileTargetSnapshot, CloseReply,
       UnregisterTarget, At, process
  <2>2. \A g \in Handlers : Advances(g)
    BY <1>3, RequestAdvances DEF Advances
  <2>3. QED
    BY <2>1, <2>2 DEF ServedApart, Advances, NoRequest
<1>4. ASSUME NEW h \in Handlers, NEW l \in Leases,
             NEW pc \in {"create", "list", "close"}, NEW t, Serve(h, l, pc, t)
      PROVE  ServedApart'
  <2>1. /\ \A g \in Handlers : g # h => req'[g] = req[g] /\ req[g].lease # l
        /\ req'[h].lease = l /\ daemon' = "up"
    BY <1>4, ServeApart
  <2>2. l # None
    BY LeasesAssumption
  <2>3. QED
    BY <2>1, <2>2 DEF ServedApart
<1>5. QED
  BY <1>1, <1>2, <1>3, <1>4, NextCases DEF GetTargets, CreateTarget, CloseTarget

\* A step that narrows the ledger promises nothing and keeps nothing more.
LEMMA NarrowTold ==
  ASSUME KeepTold(mem), KeepTold(disk), NarrowStep
  PROVE  KeepTold(mem)' /\ KeepTold(disk)'
<1>1. told' = told /\ disk' \in {mem', disk} /\ Narrows(mem', mem)
  BY DEF NarrowStep
<1>2. KeepTold(mem)'
  BY <1>1 DEF KeepTold, Narrows, Promised
<1>3. CASE disk' = mem'
  BY <1>2, <1>3 DEF KeepTold, Promised
<1>4. ASSUME disk' = disk
      PROVE  KeepTold(disk)'
  <2>1. \A t : Promised(t)' <=> Promised(t)
    BY <1>1 DEF Promised
  <2>2. \A l \in Leases : disk'[l] # None =>
          \A t \in disk'[l].keep : Promised(t)'
    BY <1>4, <2>1 DEF KeepTold
  <2>3. QED
    BY <2>2 DEF KeepTold, Promised
<1>5. QED
  BY <1>1, <1>2, <1>3, <1>4

\* What SetTargetPersistent does to the ledger: it keeps one target more.
LEMMA PersistentEffect ==
  ASSUME KeepInv, NEW l \in Leases, NEW t \in Targets, SetTargetPersistent(l, t)
  PROVE  /\ disk' = mem' /\ mem[l] # None /\ t \in mem[l].targets
         /\ \A k \in Leases : mem'[k] # None <=> mem[k] # None
         /\ \A k \in Leases : mem[k] # None =>
              /\ mem'[k].targets = mem[k].targets
              /\ mem'[k].keep \subseteq mem[k].keep \cup {t}
         /\ Promised(t)' /\ \A s \in Targets : s # t => told'[s] = told[s]
         /\ UNCHANGED <<daemon, req, cleaner, tab>>
<1> DEFINE r == [mem[l] EXCEPT !.keep = @ \cup {t}]
<1>1. /\ mem[l] # None /\ t \in mem[l].targets
      /\ disk' = mem' /\ mem' = [mem EXCEPT ![l] = r]
      /\ mem \in Ledgers
      /\ UNCHANGED <<daemon, req, cleaner, tab>>
  BY DEF SetTargetPersistent, Commit, process, KeepInv, TypeOK, Ledgers
<1>2. mem[l] \in LeaseRecord
  BY <1>1, LeaseType
<1>3. /\ r \in LeaseRecord
      /\ r.targets = mem[l].targets /\ r.keep = mem[l].keep \cup {t}
  BY <1>2 DEF LeaseRecord
<1>4. r # None
  BY <1>3, LeasesAssumption
<1>5. Promised(t)' /\ \A s \in Targets : s # t => told'[s] = told[s]
  BY DEF SetTargetPersistent, Promised, KeepInv, TypeOK
<1> HIDE DEF r
<1>6. mem'[l] = r /\ \A k \in Leases : k # l => mem'[k] = mem[k]
  BY <1>1 DEF Ledgers
<1>7. QED
  BY <1>1, <1>3, <1>4, <1>5, <1>6

\* What a registration does to the ledger: one target more of one lease.
LEMMA RegisterEffect ==
  ASSUME KeepInv, NEW h \in Handlers, RegisterTarget(h),
         ~ UNCHANGED <<ledger, told>>
  PROVE  /\ disk' = mem' /\ req'[h] = NoRequest
         /\ req[h].pc = "register"
         /\ req[h].lease \in Leases /\ req[h].target \in Targets
         /\ \A k \in Leases : mem'[k] # None <=> mem[k] # None
         /\ \A k \in Leases : mem[k] # None =>
              /\ mem'[k].keep = mem[k].keep
              /\ mem'[k].targets = IF k = req[h].lease
                                   THEN mem[k].targets \cup {req[h].target}
                                   ELSE mem[k].targets
         /\ mem[req[h].lease] # None
         /\ told[req[h].target] = "none"
         /\ told'[req[h].target] = "disposable"
         /\ \A s \in Targets : s # req[h].target => told'[s] = told[s]
         /\ daemon = "up" /\ UNCHANGED <<daemon, cleaner, tab>>
<1> DEFINE l == req[h].lease  t == req[h].target
           r == [mem[l] EXCEPT !.targets = @ \cup {t}]
<1>1. /\ req[h].pc = "register" /\ l \in Leases /\ t \in Targets
      /\ told[t] = "none" /\ daemon = "up"
  BY DEF RegisterTarget, At, KeepInv, CreatingTrue, Creating
<1>2. /\ mem[l] # None /\ disk' = mem' /\ mem' = [mem EXCEPT ![l] = r]
      /\ told' = [told EXCEPT ![t] = "disposable"]
      /\ req' = [req EXCEPT ![h] = NoRequest]
      /\ UNCHANGED <<daemon, cleaner, tab>>
      /\ mem \in Ledgers
  BY DEF RegisterTarget, Commit, Active, Done, process, KeepInv, TypeOK,
     Ledgers
<1>3. mem[l] \in LeaseRecord
  BY <1>1, <1>2, LeaseType
<1>4. /\ r \in LeaseRecord
      /\ r.targets = mem[l].targets \cup {t} /\ r.keep = mem[l].keep
  BY <1>1, <1>3 DEF LeaseRecord
<1>5. r # None
  BY <1>4, LeasesAssumption
<1>6. told'[t] = "disposable" /\ \A s \in Targets : s # t => told'[s] = told[s]
  BY <1>1, <1>2 DEF KeepInv, TypeOK
<1>7. req'[h] = NoRequest
  BY <1>2 DEF KeepInv, TypeOK
<1> HIDE DEF r
<1>8. mem'[l] = r /\ \A k \in Leases : k # l => mem'[k] = mem[k]
  BY <1>1, <1>2 DEF Ledgers
<1> HIDE DEF l, t
<1>9. /\ \A k \in Leases : mem'[k] # None <=> mem[k] # None
      /\ \A k \in Leases : mem[k] # None =>
           /\ mem'[k].keep = mem[k].keep
           /\ mem'[k].targets = IF k = l THEN mem[k].targets \cup {t}
                                ELSE mem[k].targets
  BY <1>2, <1>4, <1>5, <1>8
<1>10. QED
  BY <1>1, <1>2, <1>6, <1>7, <1>9 DEF l, t

\* Most steps narrow the ledger; these do something else to it.
LEMMA LedgerCases ==
  ASSUME KeepInv, [Next]_vars
  PROVE  \/ NarrowStep
         \/ \E l \in Leases : \/ Begin(l) \/ LeaseDue(l)
                              \/ \E t \in Targets : SetTargetPersistent(l, t)
         \/ \E h \in Handlers : RegisterTarget(h) /\ ~ UNCHANGED <<ledger, told>>
         \/ Crash \/ Load
<1>1. TypeOK
  BY DEF KeepInv
<1>2. CASE UNCHANGED vars
  BY <1>1, <1>2, IdleNarrow DEF vars
<1>3. ASSUME NEW h \in Handlers, HandlerStep(h)
      PROVE  NarrowStep \/ (RegisterTarget(h) /\ ~ UNCHANGED <<ledger, told>>)
  BY <1>1, <1>3, RequestNarrow, IdleNarrow DEF RegisterTarget, ledger
<1>4. ASSUME NEW l \in Leases, ClientStep(l)
      PROVE  \/ NarrowStep \/ Begin(l)
             \/ \E t \in Targets : SetTargetPersistent(l, t)
  BY <1>1, <1>4, ServeNarrow, ClientNarrow DEF ClientStep, GetTargets,
     CreateTarget, CloseTarget
<1>5. ASSUME ReconcileExpired \/ ReconcileFails \/ CleanStep
      PROVE  NarrowStep
  BY <1>5, SweepNarrow, CleanNarrow DEF KeepInv
<1>6. ASSUME \/ \E t \in Targets : TabOpens(t) \/ TabGoes(t)
             \/ StartServing
      PROVE  NarrowStep
  BY <1>1, <1>6, IdleNarrow DEF TabOpens, TabGoes, StartServing, ledger
<1>7. QED
  BY <1>2, <1>3, <1>4, <1>5, <1>6 DEF Next

\* What is kept in a ledger was promised, whatever the step.
LEMMA ToldNext ==
  ASSUME TrackInv, [Next]_vars
  PROVE  KeepTold(mem)' /\ KeepTold(disk)'
<1>1. KeepInv /\ KeepTold(mem) /\ KeepTold(disk)
  BY DEF TrackInv
<1>2. CASE NarrowStep
  BY <1>1, <1>2, NarrowTold
<1>3. ASSUME NEW l \in Leases, Begin(l)
      PROVE  KeepTold(mem)' /\ KeepTold(disk)'
  <2>1. /\ disk' = mem' /\ told' = told
        /\ mem'[l] = NewLease /\ \A k \in Leases : k # l => mem'[k] = mem[k]
    BY <1>1, <1>3 DEF Begin, Commit, KeepInv, TypeOK, Ledgers
  <2>2. NewLease.keep = {}
    BY DEF NewLease
  <2>3. \A k \in Leases : mem'[k] # None => \A t \in mem'[k].keep : Promised(t)
    BY <1>1, <2>1, <2>2 DEF KeepTold
  <2>4. QED
    BY <2>1, <2>3 DEF KeepTold, Promised
<1>4. ASSUME NEW l \in Leases, LeaseDue(l)
      PROVE  KeepTold(mem)' /\ KeepTold(disk)'
  <2>1. /\ mem' = Due(mem, l) /\ disk' = Due(disk, l) /\ told' = told
        /\ mem \in Ledgers /\ disk \in Ledgers
    BY <1>1, <1>4 DEF LeaseDue, KeepInv, TypeOK
  <2>2. /\ \A k \in Leases : mem'[k] # None => mem[k] # None /\ mem'[k].keep = mem[k].keep
        /\ \A k \in Leases : disk'[k] # None => disk[k] # None /\ disk'[k].keep = disk[k].keep
    BY <2>1, DueEffect
  <2>3. /\ \A k \in Leases : mem'[k] # None => \A t \in mem'[k].keep : Promised(t)
        /\ \A k \in Leases : disk'[k] # None => \A t \in disk'[k].keep : Promised(t)
    BY <1>1, <2>2 DEF KeepTold
  <2>4. QED
    BY <2>1, <2>3 DEF KeepTold, Promised
<1>5. ASSUME disk' = mem',
             \A l \in Leases : mem'[l] # None =>
               \A t \in mem'[l].keep : Promised(t)'
      PROVE  KeepTold(mem)' /\ KeepTold(disk)'
  BY <1>5 DEF KeepTold, Promised
<1>6. ASSUME NEW l \in Leases, NEW t \in Targets, SetTargetPersistent(l, t)
      PROVE  KeepTold(mem)' /\ KeepTold(disk)'
  <2>1. /\ disk' = mem' /\ Promised(t)'
        /\ \A s \in Targets : s # t => told'[s] = told[s]
        /\ \A k \in Leases : mem'[k] # None =>
             mem[k] # None /\ mem'[k].keep \subseteq mem[k].keep \cup {t}
    BY <1>1, <1>6, PersistentEffect
  <2>2. \A k \in Leases : mem'[k] # None => mem'[k].keep \subseteq Targets
    BY <1>6, ClientType, <1>1, LeaseType DEF ClientStep, KeepInv, TypeOK, Ledgers, LeaseRecord
  <2>3. ASSUME NEW k \in Leases, mem'[k] # None, NEW s \in mem'[k].keep
        PROVE  Promised(s)'
    <3>1. CASE s = t
      BY <2>1, <3>1
    <3>2. ASSUME s # t
          PROVE  Promised(s)'
      <4>1. Promised(s) /\ s \in Targets
        BY <1>1, <2>1, <2>2, <2>3, <3>2 DEF KeepTold
      <4>2. QED
        BY <2>1, <3>2, <4>1 DEF Promised
    <3>3. QED
      BY <3>1, <3>2
  <2>4. QED
    BY <1>5, <2>1, <2>3
<1>7. ASSUME NEW h \in Handlers, RegisterTarget(h), ~ UNCHANGED <<ledger, told>>
      PROVE  KeepTold(mem)' /\ KeepTold(disk)'
  <2>1. /\ disk' = mem' /\ told[req[h].target] = "none"
        /\ \A s \in Targets : s # req[h].target => told'[s] = told[s]
        /\ \A k \in Leases : mem'[k] # None =>
             mem[k] # None /\ mem'[k].keep = mem[k].keep
    BY <1>1, <1>7, RegisterEffect
  <2>2. \A k \in Leases : mem[k] # None => mem[k].keep \subseteq Targets
    BY <1>1, LeaseType DEF KeepInv, TypeOK, LeaseRecord
  <2>3. ASSUME NEW k \in Leases, mem'[k] # None, NEW s \in mem'[k].keep
        PROVE  Promised(s)'
    <3>1. Promised(s) /\ s \in Targets
      BY <1>1, <2>1, <2>2, <2>3 DEF KeepTold
    <3>2. s # req[h].target
      BY <2>1, <3>1 DEF Promised
    <3>3. QED
      BY <2>1, <3>1, <3>2 DEF Promised
  <2>4. QED
    BY <1>5, <2>1, <2>3
<1>8. CASE Crash
  <2>1. /\ \A l \in Leases : mem'[l] = None
        /\ disk' = disk /\ told' = told
    BY <1>8 DEF Crash
  <2>2. \A l \in Leases : disk'[l] # None => \A t \in disk'[l].keep : Promised(t)
    BY <1>1, <2>1 DEF KeepTold
  <2>3. QED
    BY <2>1, <2>2 DEF KeepTold, Promised
<1>9. CASE Load
  <2>1. mem' = disk /\ disk' = disk /\ told' = told
    BY <1>9 DEF Load
  <2>2. \A l \in Leases : mem'[l] # None => \A t \in mem'[l].keep : Promised(t)'
    BY <1>1, <2>1 DEF KeepTold, Promised
  <2>3. QED
    BY <1>5, <2>1, <2>2
<1>10. QED
  BY <1>1, <1>2, <1>3, <1>4, <1>6, <1>7, <1>8, <1>9, LedgerCases

\* A promise is never taken back, and what is promised was not new.
LEMMA PromiseStands ==
  ASSUME KeepInv, [Next]_vars, NEW t \in Targets, Promised(t)
  PROVE  Promised(t)'
<1>1. ASSUME told' = told
      PROVE  Promised(t)'
  BY <1>1 DEF Promised
<1>2. ASSUME NEW l \in Leases, NEW s \in Targets, SetTargetPersistent(l, s)
      PROVE  Promised(t)'
  BY <1>2, PersistentEffect DEF Promised
<1>3. ASSUME NEW h \in Handlers, RegisterTarget(h), ~ UNCHANGED <<ledger, told>>
      PROVE  Promised(t)'
  BY <1>3, RegisterEffect DEF Promised
<1>4. QED
  BY <1>1, <1>2, <1>3, LedgerCases DEF NarrowStep, Begin, LeaseDue, Crash, Load

\* A cleanup copies what is kept from the ledger.
LEMMA CleanerToldNext ==
  ASSUME TrackInv, [Next]_vars
  PROVE  CleanerTold'
<1>1. KeepInv /\ KeepTold(mem) /\ CleanerTold /\ cleaner \in Cleanups
  BY DEF TrackInv, KeepInv, TypeOK
<1>2. ASSUME cleaner'.keep \subseteq Targets,
             \A t \in cleaner'.keep : Promised(t)
      PROVE  CleanerTold'
  <2>1. \A t \in cleaner'.keep : Promised(t)'
    BY <1>1, <1>2, PromiseStands
  <2>2. QED
    BY <2>1 DEF CleanerTold, Promised
<1>3. cleaner.keep \subseteq Targets
  BY <1>1 DEF Cleanups
<1>4. ASSUME cleaner'.keep = cleaner.keep \/ cleaner'.keep = {}
      PROVE  CleanerTold'
  BY <1>1, <1>2, <1>3, <1>4 DEF CleanerTold
<1>5. ASSUME CleanNext
      PROVE  CleanerTold'
  <2>1. CASE cleaner.todo = {}
    BY <1>4, <1>5, <2>1 DEF CleanNext, NoCleanup
  <2>2. ASSUME NEW l \in cleaner.todo,
               cleaner' = [cleaner EXCEPT !.todo = @ \ {l}]
        PROVE  CleanerTold'
    BY <1>1, <1>4, <2>2 DEF Cleanups
  <2>3. ASSUME NEW l \in cleaner.todo, mem[l] # None,
               cleaner' = [pc |-> "close", todo |-> cleaner.todo \ {l},
                           lease |-> l, left |-> mem[l].targets,
                           keep |-> mem[l].keep]
        PROVE  CleanerTold'
    <3>1. l \in Leases /\ mem[l] \in LeaseRecord
      BY <1>1, <2>3, LeaseType DEF Cleanups, KeepInv, TypeOK
    <3>2. cleaner'.keep = mem[l].keep /\ mem[l].keep \subseteq Targets
      BY <2>3, <3>1 DEF LeaseRecord
    <3>3. QED
      BY <1>1, <1>2, <2>3, <3>1, <3>2 DEF KeepTold
  <2>4. QED
    BY <1>5, <2>1, <2>2, <2>3 DEF CleanNext
<1>6. ASSUME NEW t \in Targets, CleanTarget(t)
      PROVE  cleaner'.keep = cleaner.keep
  BY <1>1, <1>6 DEF CleanTarget, Cleanups
<1>7. ASSUME NEW leases, StartCleanup(leases)
      PROVE  cleaner'.keep = {}
  BY <1>7 DEF StartCleanup, NoCleanup
<1>8. CASE CleanFinish
  BY <1>4, <1>8 DEF CleanFinish, NoCleanup
<1>9. CASE Crash
  BY <1>4, <1>9 DEF Crash, NoCleanup
<1>10. ASSUME NEW h \in Handlers, HandlerStep(h)
       PROVE  cleaner' = cleaner
  BY <1>10 DEF HandlerStep, CallFails, CreateReply, RegisterTarget,
     RollBackCreate, ListReply, ReconcileTargetSnapshot, CloseReply,
     UnregisterTarget
<1>11. ASSUME NEW l \in Leases, ClientStep(l)
       PROVE  cleaner' = cleaner \/ cleaner'.keep = {}
  BY <1>7, <1>11 DEF ClientStep, Begin, Renew, End, ClientDies,
     SetTargetPersistent, GetTargets, CreateTarget, CloseTarget, Serve
<1>12. ASSUME \/ UNCHANGED vars \/ Load \/ StartServing \/ ReconcileFails
              \/ \E l \in Leases : LeaseDue(l)
              \/ \E t \in Targets : TabOpens(t) \/ TabGoes(t)
       PROVE  cleaner' = cleaner
  BY <1>12 DEF vars, Load, StartServing, ReconcileFails, LeaseDue, TabOpens,
     TabGoes
<1>13. CASE ReconcileExpired
  BY <1>4, <1>7, <1>13 DEF ReconcileExpired
<1>14. QED
  BY <1>4, <1>5, <1>6, <1>8, <1>9, <1>10, <1>11, <1>12, <1>13
  DEF Next, CleanStep

\* What the steps do to a tab: it is asked for, it opens, it goes.
TabMoves ==
  \A t \in Targets :
    /\ tab'[t] = "requested" => tab[t] \in {"none", "requested"}
    /\ tab'[t] = "open" => tab[t] \in {"requested", "open"}
    /\ tab[t] \notin {"none", "requested"} => tab'[t] \notin {"none", "requested"}

LEMMA CloseTabMoves ==
  ASSUME TypeOK, NEW t \in Targets, NEW success \in BOOLEAN,
         CloseTab(t, success)
  PROVE  TabMoves /\ (success => tab'[t] # "open")
BY DEF CloseTab, TypeOK, TabMoves

LEMMA TabNext ==
  ASSUME KeepInv, [Next]_vars
  PROVE  TabMoves
<1>1. TypeOK
  BY DEF KeepInv
<1>2. ASSUME tab' = tab
      PROVE  TabMoves
  BY <1>2 DEF TabMoves
<1>3. ASSUME NEW h \in Handlers, HandlerStep(h)
      PROVE  TabMoves
  <2>1. CASE RollBackCreate(h)
    <3>1. req[h].target \in Targets
      BY <2>1 DEF RollBackCreate, At, KeepInv, CreatingTrue, Creating
    <3>2. QED
      BY <1>1, <2>1, <3>1, CloseTabMoves DEF RollBackCreate
  <2>2. CASE CloseReply(h)
    BY <1>1, <2>2 DEF CloseReply, TypeOK, TabMoves
  <2>3. QED
    BY <1>2, <1>3, <2>1, <2>2 DEF HandlerStep, CallFails, CreateReply,
       RegisterTarget, ListReply, ReconcileTargetSnapshot, UnregisterTarget
<1>4. ASSUME NEW l \in Leases, ClientStep(l)
      PROVE  TabMoves
  <2>1. ASSUME NEW h \in Handlers, NEW t \in Targets, CreateTarget(h, l, t)
        PROVE  TabMoves
    BY <1>1, <2>1 DEF CreateTarget, TypeOK, TabMoves
  <2>2. QED
    BY <1>2, <1>4, <2>1 DEF ClientStep, Begin, Renew, End, ClientDies,
       SetTargetPersistent, GetTargets, CloseTarget
<1>5. ASSUME NEW t \in Targets, CleanTarget(t)
      PROVE  TabMoves
  BY <1>1, <1>2, <1>5, CloseTabMoves DEF CleanTarget
<1>6. ASSUME NEW t \in Targets, TabOpens(t) \/ TabGoes(t)
      PROVE  TabMoves
  BY <1>1, <1>6 DEF TabOpens, TabGoes, TypeOK, TabMoves
<1>7. ASSUME \/ UNCHANGED vars \/ Load \/ StartServing \/ Crash \/ CleanNext
             \/ ReconcileFails \/ ReconcileExpired \/ CleanFinish
             \/ \E l \in Leases : LeaseDue(l)
      PROVE  TabMoves
  BY <1>2, <1>7 DEF vars, Load, StartServing, Crash, CleanNext, CleanFinish,
     ReconcileFails, ReconcileExpired, LeaseDue
<1>8. QED
  BY <1>3, <1>4, <1>5, <1>6, <1>7 DEF Next, CleanStep

\* A target is registered after its tab has opened.
LEMMA OpenedNext ==
  ASSUME TrackInv, [Next]_vars
  PROVE  OpenedFirst'
<1>1. KeepInv /\ OpenedFirst /\ TypeOK /\ TabMoves
  BY TabNext DEF TrackInv, KeepInv
<1>2. ASSUME NEW t \in Targets, tab'[t] = "requested"
      PROVE  told'[t] = "none"
  <2>1. told[t] = "none"
    BY <1>1, <1>2 DEF TabMoves, OpenedFirst, KeepInv, CreatingTrue
  <2>2. ASSUME NEW l \in Leases, NEW s \in Targets, SetTargetPersistent(l, s)
        PROVE  told'[t] = "none"
    <3>1. Has(mem, l, s) /\ \A u \in Targets : u # s => told'[u] = told[u]
      BY <1>1, <2>2, PersistentEffect DEF Has
    <3>2. told[s] # "none"
      BY <1>1, <3>1 DEF KeepInv, LedgerTrue
    <3>3. QED
      BY <2>1, <3>1, <3>2
  <2>3. ASSUME NEW h \in Handlers, RegisterTarget(h),
               ~ UNCHANGED <<ledger, told>>
        PROVE  told'[t] = "none"
    <3>1. /\ req[h].pc = "register" /\ tab' = tab
          /\ \A u \in Targets : u # req[h].target => told'[u] = told[u]
      BY <1>1, <2>3, RegisterEffect
    <3>2. t # req[h].target
      BY <1>1, <1>2, <3>1 DEF OpenedFirst
    <3>3. QED
      BY <2>1, <3>1, <3>2
  <2>4. QED
    BY <1>1, <2>1, <2>2, <2>3, LedgerCases DEF NarrowStep, Begin, LeaseDue, Crash, Load
<1>3. ASSUME NEW h \in Handlers, req'[h].pc \in {"register", "rollback"}
      PROVE  /\ req'[h].target = req[h].target /\ req[h].target \in Targets
             /\ tab[req[h].target] \notin {"none", "requested"}
  <2>1. ASSUME req'[h] = req[h]
        PROVE  /\ req[h].target \in Targets
               /\ tab[req[h].target] \notin {"none", "requested"}
    BY <1>1, <1>3, <2>1 DEF OpenedFirst, KeepInv, CreatingTrue, Creating
  <2>2. ASSUME HandlerStep(h), req'[h] # req[h]
        PROVE  /\ req'[h].target = req[h].target /\ req[h].target \in Targets
               /\ tab[req[h].target] \notin {"none", "requested"}
    <3>1. /\ req'[h].target = req[h].target
          /\ req[h].pc # "free"
      BY <1>1, <1>3, <2>2, RequestAdvances DEF Advances, NoRequest
    <3>2. req[h] \in Requests /\ req \in [Handlers -> Requests]
      BY <1>1 DEF TypeOK
    <3>3. ASSUME Done(h)
          PROVE  FALSE
      BY <1>3, <3>2, <3>3 DEF Done, NoRequest
    <3>4. ASSUME ListReply(h) \/ Goto(h, "confirm")
          PROVE  FALSE
      BY <1>3, <3>2, <3>4 DEF ListReply, Goto, Requests
    <3>5. CreateReply(h) \/ (RegisterTarget(h) /\ req[h].pc = "register")
      BY <2>2, <3>3, <3>4 DEF HandlerStep, CallFails, RegisterTarget, At,
         RollBackCreate, ReconcileTargetSnapshot, CloseReply, UnregisterTarget
    <3>6. req[h].target \in Targets
      BY <1>1, <3>5 DEF CreateReply, At, KeepInv, CreatingTrue, Creating
    <3>7. tab[req[h].target] \notin {"none", "requested"}
      BY <1>1, <3>5 DEF CreateReply, OpenedFirst
    <3>8. QED
      BY <3>1, <3>6, <3>7
  <2>3. ASSUME NEW g \in Handlers, NEW l \in Leases,
               NEW pc \in {"create", "list", "close"}, NEW t,
               Serve(g, l, pc, t)
        PROVE  req'[h] = req[h]
    BY <1>1, <1>3, <2>3 DEF Serve, TypeOK
  <2>4. CASE Elsewhere
    BY <2>1, <2>4, ElsewhereRequests
  <2>5. CASE Crash
    BY <1>3, <2>5 DEF Crash, NoRequest
  <2>6. ASSUME NEW g \in Handlers, HandlerStep(g), req'[h] # req[h]
        PROVE  HandlerStep(h)
    BY <1>1, <2>6, RequestAdvances
  <2>7. QED
    BY <2>1, <2>2, <2>3, <2>4, <2>5, <2>6, NextCases
    DEF GetTargets, CreateTarget, CloseTarget
<1>4. \A h \in Handlers : req'[h].pc \in {"register", "rollback"} =>
        tab'[req'[h].target] \notin {"none", "requested"}
  BY <1>1, <1>3 DEF TabMoves
<1>5. QED
  BY <1>2, <1>4 DEF OpenedFirst

\* Only a registration adds to the ledger, or a daemon that loads it.
LEMMA HasNext ==
  ASSUME KeepInv, [Next]_vars, ~ Load, NEW l \in Leases, NEW t \in Targets,
         Has(mem, l, t)'
  PROVE  \/ Has(mem, l, t)
         \/ \E h \in Handlers : RegisterTarget(h) /\ req[h].lease = l
<1>1. mem'[l] # None /\ t \in mem'[l].targets
  BY DEF Has
<1>2. CASE NarrowStep
  BY <1>1, <1>2 DEF NarrowStep, Narrows, Has
<1>3. ASSUME NEW k \in Leases, Begin(k)
      PROVE  Has(mem, l, t)
  <2>1. mem'[k] = NewLease /\ (k # l => mem'[l] = mem[l])
    BY <1>3 DEF Begin, Commit, KeepInv, TypeOK, Ledgers
  <2>2. QED
    BY <1>1, <2>1 DEF NewLease, Has
<1>4. ASSUME NEW k \in Leases, LeaseDue(k)
      PROVE  Has(mem, l, t)
  <2>1. mem' = Due(mem, k) /\ mem \in Ledgers
    BY <1>4 DEF LeaseDue, KeepInv, TypeOK
  <2>2. QED
    BY <1>1, <2>1, DueEffect DEF Has
<1>5. ASSUME NEW k \in Leases, NEW s \in Targets, SetTargetPersistent(k, s)
      PROVE  Has(mem, l, t)
  BY <1>1, <1>5, PersistentEffect DEF Has
<1>6. ASSUME NEW h \in Handlers, RegisterTarget(h),
             ~ UNCHANGED <<ledger, told>>, req[h].lease # l
      PROVE  Has(mem, l, t)
  BY <1>1, <1>6, RegisterEffect DEF Has
<1>7. CASE Crash
  BY <1>1, <1>7 DEF Crash
<1>8. QED
  BY <1>2, <1>3, <1>4, <1>5, <1>6, <1>7, LedgerCases

\* What is in the ledger and open after a step was so before, unless it has
\* just been registered.
LEMMA OpenStood ==
  ASSUME TrackInv, [Next]_vars, ~ Load, NEW l \in Leases, NEW t \in Targets,
         Has(mem, l, t)', tab'[t] = "open"
  PROVE  \/ Has(mem, l, t) /\ tab[t] = "open"
         \/ \E h \in Handlers : RegisterTarget(h) /\ req[h].lease = l
<1>1. tab[t] \in {"requested", "open"}
  BY TabNext DEF TrackInv, TabMoves
<1>2. ASSUME Has(mem, l, t)
      PROVE  tab[t] # "requested"
  BY <1>2 DEF TrackInv, KeepInv, LedgerTrue, OpenedFirst
<1>3. QED
  BY <1>1, <1>2, HasNext DEF TrackInv

\* A snapshot goes on to show what is open.
LEMMA ListedNext ==
  ASSUME TrackInv, [Next]_vars
  PROVE  ListedAll'
<1>1. KeepInv /\ TypeOK /\ ServedApart /\ ListedAll
  BY DEF TrackInv, KeepInv
<1>2. SUFFICES ASSUME NEW h \in Handlers, req'[h].pc = "listed",
                      NEW t \in Targets, Has(mem', req'[h].lease, t),
                      tab'[t] = "open"
               PROVE  t \in req'[h].seen
  BY DEF ListedAll, Has
<1>3. req'[h] \in Requests
  BY <1>1, TypeNext DEF KeepInv, TypeOK
<1>4. ~ Load
  <2>1. ASSUME Load
        PROVE  req'[h] = NoRequest
    BY <1>1, <2>1 DEF Load, ServedApart
  <2>2. QED
    BY <1>2, <2>1 DEF NoRequest
<1>5. ASSUME req'[h] = req[h],
             ~ \E g \in Handlers : RegisterTarget(g) /\ req[g].lease = req[h].lease
      PROVE  t \in req'[h].seen
  <2>1. req[h].lease \in Leases
    BY <1>1, <1>2, <1>3, <1>5 DEF ServedApart, Requests
  <2>2. Has(mem, req[h].lease, t)' 
    BY <1>2, <1>5 DEF Has
  <2>3. Has(mem, req[h].lease, t) /\ tab[t] = "open"
    BY <1>2, <1>4, <1>5, <2>1, <2>2, OpenStood
  <2>4. QED
    BY <1>1, <1>2, <1>5, <2>3 DEF ListedAll
<1>6. ASSUME NEW g \in Handlers, RegisterTarget(g), req[g].lease = req[h].lease,
             req'[h] = req[h]
      PROVE  FALSE
  <2>1. req[g].lease # None /\ req[g].pc = "register"
    BY <1>1, <1>6, LeasesAssumption
    DEF RegisterTarget, At, KeepInv, CreatingTrue, Creating
  <2>2. g = h
    BY <1>1, <1>6, <2>1 DEF ServedApart
  <2>3. QED
    BY <1>2, <1>6, <2>1, <2>2
<1>7. ASSUME HandlerStep(h)
      PROVE  t \in req'[h].seen
  <2>1. req[h] \in Requests /\ req \in [Handlers -> Requests]
    BY <1>1 DEF TypeOK
  <2>2. ASSUME Done(h)
        PROVE  FALSE
    BY <1>2, <2>1, <2>2 DEF Done, NoRequest
  <2>3. ASSUME NEW pc \in {"register", "rollback", "confirm"}, Goto(h, pc)
        PROVE  FALSE
    BY <1>2, <2>1, <2>3 DEF Goto, Requests
  <2>4. ListReply(h)
    BY <1>7, <2>2, <2>3 DEF HandlerStep, CallFails, CreateReply,
       RegisterTarget, RollBackCreate, ReconcileTargetSnapshot, CloseReply,
       UnregisterTarget
  <2>5. req'[h].seen = {s \in Targets : tab[s] = "open"} /\ tab' = tab
    BY <2>1, <2>4 DEF ListReply, Requests
  <2>6. QED
    BY <1>2, <2>5
<1>8. ASSUME NEW g \in Handlers, HandlerStep(g), g # h
      PROVE  t \in req'[h].seen
  <2>1. req'[h] = req[h]
    BY <1>1, <1>8, RequestAdvances
  <2>2. QED
    BY <1>5, <1>6, <2>1
<1>9. ASSUME NEW g \in Handlers, NEW l \in Leases,
             NEW pc \in {"create", "list", "close"}, NEW s, Serve(g, l, pc, s)
      PROVE  t \in req'[h].seen
  <2>1. req'[h] = req[h]
    BY <1>1, <1>2, <1>9 DEF Serve, TypeOK
  <2>2. QED
    BY <1>5, <1>6, <2>1
<1>10. CASE Elsewhere
  BY <1>5, <1>6, <1>10, ElsewhereRequests
<1>11. CASE Crash
  BY <1>2, <1>11 DEF Crash, NoRequest
<1>12. QED
  BY <1>7, <1>8, <1>9, <1>10, <1>11, NextCases
  DEF GetTargets, CreateTarget, CloseTarget

\* n knows every lease of m, and lists all it listed but for what lease l
\* has lost.
Retains(n, m, l, gone) ==
  \A k \in Leases : m[k] # None =>
    /\ n[k] # None
    /\ \A t \in m[k].targets : t \in n[k].targets \/ (k = l /\ t \in gone)

\* The lease that is replaced is the only one to lose something.
LEMMA RetainOne ==
  ASSUME NEW m \in Ledgers, NEW l \in Leases, NEW r \in LeaseRecord, NEW gone,
         \A t \in m[l].targets : t \in r.targets \/ t \in gone
  PROVE  Retains([m EXCEPT ![l] = r], m, l, gone)
<1>1. r # None
  BY LeasesAssumption
<1>2. QED
  BY <1>1 DEF Ledgers, Retains

\* A change of state or of due loses nothing, and forgetting no more than that.
LEMMA RetainUpdates ==
  ASSUME mem \in Ledgers, NEW l \in Leases, mem[l] # None
  PROVE  /\ Retains(Touched(l), mem, l, {})
         /\ Retains([mem EXCEPT ![l].state = "closing", ![l].due = TRUE],
                    mem, l, {})
         /\ Retains(Pending(l), mem, l, {})
         /\ \A gone : Retains(Without(l, gone), mem, l, gone)
<1> DEFINE r == mem[l]
<1>1. r \in LeaseRecord
  BY LeaseType
<1>2. Retains(Touched(l), mem, l, {})
  <2> DEFINE q == [r EXCEPT !.due = FALSE]
  <2>1. q \in LeaseRecord /\ q.targets = r.targets
    BY <1>1 DEF LeaseRecord
  <2>2. Touched(l) = [mem EXCEPT ![l] = q]
    BY DEF Touched, Ledgers
  <2> HIDE DEF q
  <2>3. QED
    BY <2>1, <2>2, RetainOne
<1>3. Retains([mem EXCEPT ![l].state = "closing", ![l].due = TRUE], mem, l, {})
  <2> DEFINE q == [r EXCEPT !.state = "closing", !.due = TRUE]
  <2>1. q \in LeaseRecord /\ q.targets = r.targets
    BY <1>1 DEF LeaseRecord
  <2>2. [mem EXCEPT ![l].state = "closing", ![l].due = TRUE]
          = [mem EXCEPT ![l] = q]
    BY DEF Ledgers
  <2> HIDE DEF q
  <2>3. QED
    BY <2>1, <2>2, RetainOne
<1>4. Retains(Pending(l), mem, l, {})
  <2> DEFINE q == [r EXCEPT !.state = "cleanup_pending"]
  <2>1. q \in LeaseRecord /\ q.targets = r.targets
    BY <1>1 DEF LeaseRecord
  <2>2. Pending(l) = [mem EXCEPT ![l] = q]
    BY DEF Pending, Ledgers
  <2> HIDE DEF q
  <2>3. QED
    BY <2>1, <2>2, RetainOne
<1>5. ASSUME NEW gone
      PROVE  Retains(Without(l, gone), mem, l, gone)
  <2> DEFINE q == [r EXCEPT !.targets = @ \ gone, !.keep = @ \ gone]
  <2>1. q \in LeaseRecord /\ q.targets = r.targets \ gone
    BY <1>1 DEF LeaseRecord
  <2>2. Without(l, gone) = [mem EXCEPT ![l] = q]
    BY DEF Without, Ledgers
  <2>3. \A t \in mem[l].targets : t \in q.targets \/ t \in gone
    BY <2>1
  <2> HIDE DEF q
  <2>4. Retains([mem EXCEPT ![l] = q], mem, l, gone)
    BY <2>1, <2>3, RetainOne
  <2>5. QED
    BY <2>2, <2>4
<1>6. QED
  BY <1>2, <1>3, <1>4, <1>5

\* What no step may do to a target that is acknowledged, disposable and open.
Remembers ==
  \A l \in Leases, t \in Targets :
    Has(mem, l, t) /\ Awaited(t) /\ tab'[t] = "open" => Has(mem, l, t)'

\* A step that loses only what has gone remembers the rest.
LEMMA RetainRemembers ==
  ASSUME TypeOK, NEW l, NEW gone,
         mem' = mem \/ Retains(mem', mem, l, gone),
         \A t \in Targets :
           t \in gone /\ Awaited(t) /\ tab'[t] = "open" => ~ Has(mem, l, t)
  PROVE  Remembers
<1>1. CASE mem' = mem
  BY <1>1 DEF Remembers, Has
<1>2. ASSUME Retains(mem', mem, l, gone)
      PROVE  Remembers
  BY <1>2 DEF Retains, Remembers, Has
<1>3. QED
  BY <1>1, <1>2

\* Handlers forget what their snapshot does not show, or what they saw gone.
LEMMA HandlerRemembers ==
  ASSUME TrackInv, NEW h \in Handlers, HandlerStep(h)
  PROVE  Remembers
<1>1. TypeOK /\ ListedAll /\ KeepInv /\ mem \in Ledgers
  BY DEF TrackInv, KeepInv, TypeOK
<1>2. ASSUME UNCHANGED ledger
      PROVE  Remembers
  BY <1>1, <1>2 DEF ledger, Remembers, Has
<1>3. ASSUME NEW l, l = req[h].lease, NEW gone, mem[l] # None,
             mem' = Without(l, gone)
      PROVE  mem' = mem \/ Retains(mem', mem, l, gone)
  <2>1. l \in Leases \cup {None}
    BY <1>1, <1>3 DEF TypeOK, Requests
  <2>2. CASE l = None
    BY <1>1, <1>3, <2>2, LeasesAssumption DEF Without, Ledgers
  <2>3. CASE l \in Leases
    BY <1>1, <1>3, <2>3, RetainUpdates
  <2>4. QED
    BY <2>1, <2>2, <2>3
<1>4. ASSUME ReconcileTargetSnapshot(h), ~ UNCHANGED ledger
      PROVE  Remembers
  <2> DEFINE l == req[h].lease  gone == Targets \ req[h].seen
  <2>1. /\ mem[l] # None /\ mem' = Without(l, gone) /\ tab' = tab
        /\ req[h].pc = "listed"
    BY <1>4 DEF ReconcileTargetSnapshot, At, Commit
  <2>2. mem' = mem \/ Retains(mem', mem, l, gone)
    BY <1>3, <2>1
  <2>3. \A t \in Targets :
          t \in gone /\ Awaited(t) /\ tab'[t] = "open" => ~ Has(mem, l, t)
    BY <1>1, <2>1 DEF ListedAll
  <2> HIDE DEF l, gone
  <2>4. QED
    BY <1>1, <2>2, <2>3, RetainRemembers
<1>5. ASSUME UnregisterTarget(h), ~ UNCHANGED ledger
      PROVE  Remembers
  <2> DEFINE l == req[h].lease  gone == {req[h].target}
  <2>1. /\ mem[l] # None /\ mem' = Without(l, gone) /\ tab' = tab
        /\ tab[req[h].target] \in {"gone", "reaped"}
    BY <1>5 DEF UnregisterTarget, Commit
  <2>2. mem' = mem \/ Retains(mem', mem, l, gone)
    BY <1>3, <2>1
  <2>3. \A t \in Targets :
          t \in gone /\ Awaited(t) /\ tab'[t] = "open" => ~ Has(mem, l, t)
    BY <2>1
  <2> HIDE DEF l, gone
  <2>4. QED
    BY <1>1, <2>2, <2>3, RetainRemembers
<1>6. ASSUME RegisterTarget(h), ~ UNCHANGED <<ledger, told>>
      PROVE  Remembers
  BY <1>1, <1>6, RegisterEffect DEF Remembers, Has
<1>7. QED
  BY <1>2, <1>4, <1>5, <1>6 DEF HandlerStep, CallFails, CreateReply,
     RegisterTarget, RollBackCreate, ListReply, CloseReply,
     ReconcileTargetSnapshot, UnregisterTarget, ledger

\* A cleanup forgets what it closed and what it keeps, which is not disposable.
LEMMA CleanRemembers ==
  ASSUME TrackInv, CleanStep
  PROVE  Remembers
<1>1. TypeOK /\ KeepInv /\ CleanerTold /\ mem \in Ledgers
  BY DEF TrackInv, KeepInv, TypeOK
<1>2. CASE CleanNext
  BY <1>2 DEF CleanNext, ledger, Remembers, Has
<1>3. ASSUME NEW t \in Targets, CleanTarget(t)
      PROVE  Remembers
  <2> DEFINE l == cleaner.lease
  <2>1. l \in Leases
    BY <1>1, <1>3 DEF CleanTarget, KeepInv, CleanerTrue
  <2>2. ASSUME mem' = Dropped(l, t), Awaited(t) => tab'[t] # "open"
        PROVE  Remembers
    <3>1. mem' = mem \/ Retains(mem', mem, l, {t})
      BY <1>1, <2>1, <2>2, RetainUpdates DEF Dropped
    <3>2. \A s \in Targets :
            s \in {t} /\ Awaited(s) /\ tab'[s] = "open" => ~ Has(mem, l, s)
      BY <2>2
    <3>3. QED
      BY <1>1, <3>1, <3>2, RetainRemembers
  <2>3. ASSUME mem' = Pending(l)
        PROVE  Remembers
    <3>1. mem' = mem \/ Retains(mem', mem, l, {})
      BY <1>1, <2>1, <2>3, RetainUpdates DEF Pending
    <3>2. QED
      BY <1>1, <3>1, RetainRemembers
  <2>4. CASE t \in cleaner.keep
    <3>1. mem' = Dropped(l, t) /\ Promised(t)
      BY <1>1, <1>3, <2>4 DEF CleanTarget, Keep, CleanerTold
    <3>2. QED
      BY <2>2, <3>1 DEF Promised, Awaited
  <2>5. CASE t \notin cleaner.keep
    <3>1. PICK success \in BOOLEAN :
            /\ CloseTab(t, success)
            /\ mem' = IF success THEN Dropped(l, t) ELSE Pending(l)
      BY <1>3, <2>5 DEF CleanTarget, Keep
    <3>2. success => tab'[t] # "open"
      BY <1>1, <3>1, CloseTabMoves
    <3>3. QED
      BY <2>2, <2>3, <3>1, <3>2
  <2>6. QED
    BY <2>4, <2>5
<1>4. CASE CleanFinish
  <2> DEFINE l == cleaner.lease
  <2>1. l \in Leases
    BY <1>1, <1>4 DEF CleanFinish, KeepInv, CleanerTrue
  <2>2. CASE mem[l] = None
    BY <1>4, <2>2 DEF CleanFinish, ledger, Remembers, Has
  <2>3. CASE mem[l] # None /\ mem[l].targets = {}
    <3>1. mem' = [mem EXCEPT ![l] = None]
      BY <1>4, <2>3 DEF CleanFinish, Keep
    <3>2. QED
      BY <1>1, <2>1, <2>3, <3>1 DEF Remembers, Has, Ledgers
  <2>4. CASE mem[l] # None /\ mem[l].targets # {}
    <3>1. mem' = Pending(l)
      BY <1>4, <2>4 DEF CleanFinish, Keep
    <3>2. Retains(mem', mem, l, {})
      BY <1>1, <2>1, <2>4, <3>1, RetainUpdates
    <3>3. QED
      BY <1>1, <3>2, RetainRemembers
  <2>5. QED
    BY <2>2, <2>3, <2>4
<1>5. QED
  BY <1>2, <1>3, <1>4 DEF CleanStep

\* So does every step, but for a crash and what follows it.
LEMMA RemembersNext ==
  ASSUME TrackInv, [Next]_vars
  PROVE  Remembers \/ Crash \/ Load
<1>1. TypeOK /\ KeepInv /\ mem \in Ledgers
  BY DEF TrackInv, KeepInv, TypeOK
<1>2. ASSUME mem' = mem
      PROVE  Remembers
  BY <1>2 DEF Remembers, Has
<1>3. ASSUME NEW l \in Leases, mem[l] # None, mem' = Touched(l)
      PROVE  Remembers
  <2>1. Retains(mem', mem, l, {})
    BY <1>1, <1>3, RetainUpdates
  <2>2. QED
    BY <1>1, <2>1, RetainRemembers
<1>4. ASSUME NEW l \in Leases,
             Renew(l) \/ \E h \in Handlers : \E pc, t : Serve(h, l, pc, t)
      PROVE  Remembers
  BY <1>3, <1>4 DEF Renew, Serve, Active, Commit
<1>5. ASSUME NEW l \in Leases, Begin(l)
      PROVE  Remembers
  <2>1. mem[l] = None
    BY <1>1, <1>5 DEF Begin, KeepInv, LedgerTrue
  <2>2. \A k \in Leases : k # l => mem'[k] = mem[k]
    BY <1>1, <1>5 DEF Begin, Commit, Ledgers
  <2>3. QED
    BY <2>1, <2>2 DEF Remembers, Has
<1>6. ASSUME NEW l \in Leases, End(l)
      PROVE  Remembers
  <2>1. CASE UNCHANGED ledger
    BY <1>2, <2>1 DEF ledger
  <2>2. ASSUME ~ UNCHANGED ledger
        PROVE  Remembers
    <3>1. /\ mem[l] # None
          /\ mem' = [mem EXCEPT ![l].state = "closing", ![l].due = TRUE]
      BY <1>6, <2>2 DEF End, Commit
    <3>2. Retains(mem', mem, l, {})
      BY <1>1, <3>1, RetainUpdates
    <3>3. QED
      BY <1>1, <3>2, RetainRemembers
  <2>3. QED
    BY <2>1, <2>2
<1>7. ASSUME NEW l \in Leases, NEW t \in Targets, SetTargetPersistent(l, t)
      PROVE  Remembers
  BY <1>1, <1>7, PersistentEffect DEF Remembers, Has
<1>8. ASSUME NEW l \in Leases, LeaseDue(l)
      PROVE  Remembers
  <2>1. mem' = Due(mem, l)
    BY <1>8 DEF LeaseDue
  <2>2. QED
    BY <1>1, <2>1, DueEffect DEF Remembers, Has
<1>9. ASSUME ReconcileExpired \/ ReconcileFails
      PROVE  Remembers
  <2>1. mem' = Marked
    BY <1>9 DEF ReconcileExpired, ReconcileFails, Commit
  <2>2. ASSUME NEW l \in Leases, mem[l] # None
        PROVE  mem'[l] # None /\ mem'[l].targets = mem[l].targets
    <3> DEFINE r == [mem[l] EXCEPT !.state = "closing"]
    <3>1. mem[l] \in LeaseRecord
      BY <1>1, <2>2, LeaseType
    <3>2. r \in LeaseRecord /\ r.targets = mem[l].targets
      BY <3>1 DEF LeaseRecord
    <3>3. mem'[l] = r \/ mem'[l] = mem[l]
      BY <2>1 DEF Marked
    <3> HIDE DEF r
    <3>4. QED
      BY <2>2, <3>2, <3>3, LeasesAssumption
  <2>3. QED
    BY <2>2 DEF Remembers, Has
<1>10. ASSUME \/ \E t \in Targets : TabOpens(t) \/ TabGoes(t)
              \/ \E l \in Leases : ClientDies(l)
              \/ StartServing \/ UNCHANGED vars
       PROVE  Remembers
  BY <1>2, <1>10 DEF TabOpens, TabGoes, ClientDies, StartServing, vars, ledger
<1>11. ASSUME NEW l \in Leases, ClientStep(l)
       PROVE  Remembers
  BY <1>4, <1>5, <1>6, <1>7, <1>10, <1>11 DEF ClientStep, GetTargets,
     CreateTarget, CloseTarget
<1>12. QED
  BY <1>8, <1>9, <1>10, <1>11, HandlerRemembers, CleanRemembers DEF Next

\* While the daemon is down, nothing happens to what was saved.
LEMMA DownKeepsDisk ==
  ASSUME TrackInv, [Next]_vars, daemon = "down", daemon' = "down",
         NEW l \in Leases, NEW t \in Targets, Has(disk, l, t)
  PROVE  Has(disk, l, t)' /\ told' = told
<1>1. KeepInv /\ ServedApart /\ disk \in Ledgers
  BY DEF TrackInv, KeepInv, TypeOK
<1>2. cleaner.pc = "idle" /\ \A h \in Handlers : req[h] = NoRequest
  BY <1>1 DEF KeepInv, CleanerTrue, ServedApart
<1>3. ASSUME NEW k \in Leases, LeaseDue(k)
      PROVE  Has(disk, l, t)' /\ told' = told
  <2>1. disk' = Due(disk, k) /\ told' = told
    BY <1>3 DEF LeaseDue
  <2>2. QED
    BY <1>1, <2>1, DueEffect DEF Has
<1>4. ASSUME disk' = disk, told' = told
      PROVE  Has(disk, l, t)' /\ told' = told
  BY <1>4 DEF Has
<1>5. ASSUME NEW h \in Handlers, HandlerStep(h)
      PROVE  FALSE
  BY <1>5 DEF HandlerStep, CallFails, CreateReply, RegisterTarget,
     RollBackCreate, ListReply, ReconcileTargetSnapshot, CloseReply,
     UnregisterTarget, At
<1>6. ASSUME NEW k \in Leases, ClientStep(k)
      PROVE  disk' = disk /\ told' = told
  BY <1>6 DEF ClientStep, Begin, Renew, End, ClientDies, SetTargetPersistent,
     GetTargets, CreateTarget, CloseTarget, Serve, MayCall, ledger
<1>7. ASSUME CleanStep \/ ReconcileExpired \/ ReconcileFails \/ Load \/ Crash
      PROVE  FALSE
  BY <1>2, <1>7 DEF CleanStep, CleanNext, CleanFinish, CleanTarget,
     ReconcileExpired, ReconcileFails, Load, Crash
<1>8. ASSUME \/ \E s \in Targets : TabOpens(s) \/ TabGoes(s)
             \/ StartServing \/ UNCHANGED vars
      PROVE  disk' = disk /\ told' = told
  BY <1>8 DEF TabOpens, TabGoes, StartServing, vars, ledger
<1>9. QED
  BY <1>3, <1>4, <1>5, <1>6, <1>7, <1>8 DEF Next

\* A target that is disposable after a step was so before, or is in the ledger.
LEMMA AwaitedStood ==
  ASSUME TrackInv, [Next]_vars, NEW t \in Targets, Awaited(t)'
  PROVE  Awaited(t) \/ (daemon' = "up" /\ \E l \in Leases : Has(mem, l, t)')
<1>1. KeepInv /\ TypeOK /\ TabMoves
  BY TabNext DEF TrackInv, KeepInv
<1>2. ASSUME told[t] = "disposable"
      PROVE  Awaited(t)
  BY <1>1, <1>2 DEF TrackInv, OpenedFirst, TabMoves, Awaited
<1>3. ASSUME NEW h \in Handlers, RegisterTarget(h),
             ~ UNCHANGED <<ledger, told>>
      PROVE  \/ told[t] = "disposable"
             \/ daemon' = "up" /\ \E l \in Leases : Has(mem, l, t)'
  <2>1. ASSUME NEW k \in Leases, k = req[h].lease, t = req[h].target
        PROVE  daemon' = "up" /\ Has(mem, k, t)'
    <3>1. /\ mem[k] # None /\ mem'[k] # None
          /\ mem'[k].targets = mem[k].targets \cup {t}
          /\ daemon' = "up"
      BY <1>1, <1>3, <2>1, RegisterEffect
    <3>2. QED
      BY <3>1 DEF Has
  <2>2. t # req[h].target => told[t] = "disposable"
    BY <1>1, <1>3, RegisterEffect DEF Awaited
  <2>3. req[h].lease \in Leases
    BY <1>1, <1>3, RegisterEffect
  <2>4. QED
    BY <2>1, <2>2, <2>3
<1>4. ASSUME NEW l \in Leases, NEW s \in Targets, SetTargetPersistent(l, s)
      PROVE  told[t] = "disposable"
  BY <1>1, <1>4, PersistentEffect DEF Awaited, Promised
<1>5. QED
  BY <1>1, <1>2, <1>3, <1>4, LedgerCases
  DEF NarrowStep, Begin, LeaseDue, Crash, Load, Awaited

\* What is acknowledged, disposable and open stays in the ledger.
LEMMA TrackedNext ==
  ASSUME TrackInv, [Next]_vars
  PROVE  Tracked'
<1>1. KeepInv /\ Tracked /\ LedgerDurable
  BY DEF TrackInv, KeepInv
<1>2. SUFFICES ASSUME NEW t \in Targets, Awaited(t)'
               PROVE  \E l \in Leases :
                        Has(IF daemon' = "down" THEN disk' ELSE mem', l, t)
  BY DEF Tracked, Has
<1>3. CASE daemon' = "up" /\ \E l \in Leases : Has(mem, l, t)'
  BY <1>3 DEF Has
<1>4. ASSUME Awaited(t)
      PROVE  \E l \in Leases :
               Has(IF daemon' = "down" THEN disk' ELSE mem', l, t)
  <2>1. PICK l \in Leases : Has(IF daemon = "down" THEN disk ELSE mem, l, t)
    BY <1>1, <1>4 DEF Tracked
  <2>2. CASE Crash
    <3>1. daemon # "down" /\ daemon' = "down" /\ disk' = disk
      BY <2>2 DEF Crash
    <3>2. Has(mem, l, t)
      BY <2>1, <3>1
    <3>3. Has(disk, l, t)
      BY <1>1, <3>2 DEF LedgerDurable, Has
    <3>4. QED
      BY <3>1, <3>3 DEF Has
  <2>3. CASE Load
    <3>1. daemon = "down" /\ daemon' = "loaded" /\ mem' = disk
      BY <2>3 DEF Load
    <3>2. QED
      BY <2>1, <3>1 DEF Has
  <2>4. ASSUME ~ Crash, ~ Load
        PROVE  \E k \in Leases :
                 Has(IF daemon' = "down" THEN disk' ELSE mem', k, t)
    <3>1. daemon' = "down" <=> daemon = "down"
      BY <2>4 DEF Next, HandlerStep, CallFails, CreateReply, RegisterTarget,
         RollBackCreate, ListReply, ReconcileTargetSnapshot, CloseReply,
         UnregisterTarget, ClientStep, Begin, Renew, End, ClientDies,
         SetTargetPersistent, GetTargets, CreateTarget, CloseTarget, Serve,
         LeaseDue, ReconcileExpired, ReconcileFails, Swept, CleanStep,
         CleanNext, CleanTarget, CleanFinish, TabOpens, TabGoes,
         StartServing, process, vars
    <3>2. CASE daemon = "down"
      <4>1. Has(disk, l, t)'
        BY <2>1, <3>1, <3>2, DownKeepsDisk
      <4>2. QED
        BY <3>1, <3>2, <4>1 DEF Has
    <3>3. CASE daemon # "down"
      <4>1. Has(mem, l, t) /\ tab'[t] = "open"
        BY <1>2, <2>1, <3>3 DEF Awaited
      <4>2. Has(mem, l, t)'
        BY <1>4, <2>4, <4>1, RemembersNext DEF Remembers
      <4>3. QED
        BY <3>1, <3>3, <4>2 DEF Has
    <3>4. QED
      BY <3>2, <3>3
  <2>5. QED
    BY <2>2, <2>3, <2>4
<1>5. QED
  BY <1>2, <1>3, <1>4, AwaitedStood

LEMMA TrackInvInit ==
  ASSUME Init
  PROVE  TrackInv
<1>1. KeepInv
  BY KeepInvInit
<1>2. KeepTold(mem) /\ KeepTold(disk) /\ CleanerTold
  BY DEF Init, KeepTold, CleanerTold, NoCleanup
<1>3. ServedApart /\ OpenedFirst /\ ListedAll /\ Tracked
  BY DEF Init, ServedApart, OpenedFirst, ListedAll, Tracked, Awaited, NoRequest
<1>4. QED
  BY <1>1, <1>2, <1>3 DEF TrackInv

LEMMA TrackInvNext ==
  ASSUME OneByOne, TrackInv, [Next]_vars
  PROVE  TrackInv'
<1>1. KeepInv' /\ ServedApart'
  BY KeepInvNext, ApartNext DEF TrackInv, KeepInv
<1>2. KeepTold(mem)' /\ KeepTold(disk)' /\ CleanerTold'
  BY ToldNext, CleanerToldNext
<1>3. OpenedFirst' /\ ListedAll' /\ Tracked'
  BY OpenedNext, ListedNext, TrackedNext
<1>4. QED
  BY <1>1, <1>2, <1>3 DEF TrackInv

\* The invariant says what is claimed: what is listed is not kept.
LEMMA TrackedIsReapable ==
  ASSUME TrackInv
  PROVE  AnsweredTracked
<1>1. /\ KeepTold(mem) /\ KeepTold(disk) /\ Tracked /\ LedgerDurable
  BY DEF TrackInv, KeepInv
<1>2. SUFFICES ASSUME NEW t \in Targets, Awaited(t)
               PROVE  /\ Reapable(disk, t)
                      /\ daemon # "down" => Reapable(mem, t)
  BY DEF AnsweredTracked, Awaited
<1>3. ~ Promised(t)
  BY <1>2 DEF Awaited, Promised
<1>4. ASSUME NEW l \in Leases, Has(disk, l, t)
      PROVE  Reapable(disk, t)
  BY <1>1, <1>3, <1>4 DEF KeepTold, Has, Reapable
<1>5. ASSUME NEW l \in Leases, Has(mem, l, t)
      PROVE  Reapable(mem, t) /\ Has(disk, l, t)
  BY <1>1, <1>3, <1>5 DEF KeepTold, Has, Reapable, LedgerDurable
<1>6. PICK l \in Leases : Has(IF daemon = "down" THEN disk ELSE mem, l, t)
  BY <1>1, <1>2 DEF Tracked
<1>7. QED
  BY <1>4, <1>5, <1>6

\* A tab whose creation was acknowledged and that nobody asked to keep is in
\* the ledger for as long as it is open, in memory and on disk, over any
\* restart, for any leases and targets, provided that the requests of one lease
\* do not overlap (a CLI process sends one at a time) or the daemon has a single
\* handler; a snapshot taken before another request registers its target would
\* drop it (ReconcileTargetSnapshot).
THEOREM StaysTracked ==
  ASSUME OneByOne
  PROVE  Spec => []AnsweredTracked
<1>1. Init => TrackInv
  BY TrackInvInit
<1>2. TrackInv /\ [Next]_vars => TrackInv'
  BY OneByOne, TrackInvNext
<1>3. TrackInv => AnsweredTracked
  BY TrackedIsReapable
<1>4. QED
  BY <1>1, <1>2, <1>3, PTL DEF Spec
=============================================================================
