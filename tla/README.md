# A verification of cdp-cli

`cdp` drives Chrome over the DevTools protocol.  A daemon keeps one approved
connection to the browser; short-lived commands reach the browser through it,
create and own tabs, and long-running provider workflows send prompts through
pages with a journal that survives crashes.  The same repository starts and
stops a Chrome of its own, and serves a transcription API.  This directory holds
TLA+ models of the parts of the program where several processes, goroutines and
crashes meet, TLC configurations that check them on small instances, and proofs
of the main theorems for every instance.

    tlc -workers 2 -config Ask.cfg MCChatGPTAsk
    tlapm InvocationLeasesProofs.tla

## 1. Inventory

Paths are relative to `src/internal/`.

| Component | State | Operations | Interacts with |
|---|---|---|---|
| `browserflow/` run engine | the journal of a run on disk (phase, target, cleanup, dispatch, raw input count, archived slots), the lease's copy of it, a headed-input lock | `Acquire`, `Recover`, `Lease.{BindInputFingerprint, MarkPrepared, Dispatch, Acknowledge, ConfirmPostcondition, BeginNextAction, Mark*, ReleaseInput, Close}` | the browser through the daemon; `artifacts` for the lock and atomic files; called by the web agents |
| `daemon/leases.go` | the ledger: lease -> state, expiry, targets, keep policy; in memory under a mutex, and in a file | `Begin, Renew, Touch, RegisterTarget, UnregisterTarget, ReconcileTargetSnapshot, SetTargetDisposable, End, ReconcileExpired` | `handleRPC` before and after each browser call; the sweeper `Run` |
| `daemon/lock.go` | one JSON file per named lock | `AcquireLockWithLease, Update, Release, RemoveStaleLocks` | commands that repair the browser, cron, maintenance |
| `cdp/client.go` | pending commands, write gate, event queue, handlers, terminal error | `CallSession, ReadSessionEvent, ReadEvent, Drain*, SubscribeEvent, Close`, the read loop | every RPC handler of the daemon, the heartbeat, the window marker |
| `daemon/runtime.go` | runtime file, unix socket, the hold process and its connection cycles | start, stop, hold, reconnect, serve RPC, heartbeat | leases, cdp client, window marker; started and stopped by commands |
| `daemon/hold_reconcile.go` | none (reads the process table) | find and signal orphaned holds | runtime file |
| `daemon/window_marker.go` | enabled configuration on disk, attached sessions | enable, disable, rehydrate, attach and detach events | cdp client's handlers |
| `browser/managed.go` | registry of managed Chromes with its lock file, metadata, port file, profiles | ensure and start with retries, reuse, sweep, stop, copy a profile | operating system, daemon |
| `artifacts/` | owner-only files and locks; retention plan | flock, atomic write, plan and apply retention | browserflow, availability, transcription |
| `availability/`, `authreadiness/`, `resilience/` | back-off state; attempt counters | check, observe and reload, retry | web agents, transcription |
| `transcriptionapi/` | request records, session reducer, audio store with its roots, probe state | serve uploads and realtime streams; apply events; persist, append, repair, remove, prune, close; probe rounds | providers, HTTP server |
| `state/`, `config/` | connection and configuration files | load, modify, save | commands |
| `webagent/chatgpt` ask | the lease's journal, the result, the page of its tab | prepare, type, send once, acknowledge, read, close or keep | browserflow; the page, which acts by itself |
| rest of `webagent/`, `sourcecollect/`, `cli/` | page automation, parsing, command wiring | one process per command | everything above |

How they interact: a command opens the daemon's unix socket once per request;
`handleRPC` renews the command's lease, forwards the request with
`cdp.Client.CallSession`, then registers or forgets targets in the ledger, and
answers.  All requests of all commands share one client, hence one write gate
and one event queue.  A web agent's run goes through the same daemon, but its
targets are made persistent, so that the daemon does not reap them, and its own
journal is then the only trace of its tab.  The daemon of a mode is found
through its runtime file and its socket path; the keepalive command that cron
runs starts, replaces and repairs it, under a lock of `daemon/lock.go`, and in
the managed mode first ensures a Chrome through `browser/managed.go`.  The
transcription server shares nothing with these but the provider pages.

What is hard: a crash between the effect in the browser and the record of it
(journal and ledger); saves that fail before or after the rename; requests that
end while the browser still works on them; cleaners that work on copies; files
and sockets that are checked by path and then acted on by path; one read loop
that must never wait; a queue that overflows; a process that is replaced while
it still runs; process ids that are given away again; an audio directory that is
lost while a stream writes to it; provider events in any order; a page that
restores, submits and moves by itself between two looks at it.  `PROJECT.json`
lists each of these at its line.

What makes each component correct:

* browserflow: no action slot sends input twice; the journal shows input that
  may have been sent; `closed` is the truth; a persistent tab is never beyond
  the reach of `Recover`; no input after cleanup; the lock comes back.
* leases: an acknowledged disposable tab is in the ledger while it is open;
  memory never knows more than the disk; a kept tab is not closed; an abandoned
  one is closed at last.
* lock: it is an exclusive lock; nobody touches the holder's file; a dead owner
  does not keep others out.
* cdp client: no entry outlives its call; the read loop never waits; a broken
  connection ends every call; the gate is passed on; the queue is a feed that
  loses only the oldest and gives each event once, in order, and wakes who waits.
* runtime: the file names a hold that serves; without reconnects there is one
  hold, and nobody takes its files; the daemon comes back; a superseded hold
  retires.
* managed Chrome: no more Chromes than starts on one profile; what was returned
  is not forgotten; a stop does not take a foreign process for the root.
* transcription: a stream's file holds what was accepted; no audio is left when
  its request has ended, and none is taken while it is read; records settle;
  final items stand; the saved health is the latest.
* ChatGPT ask: a prompt is submitted once, however often it is retried as the
  results allow; no draft it could have seen is destroyed; the answer is the
  prompt's own; a tab is closed only when nothing is lost with it.
* window marker, retention, availability gate, readiness, input lock: section 5.

## 2. Modules

| Module | Models | Extends or uses |
|---|---|---|
| `BrowserflowRecord` | the journal's record and the validation of its transitions (`record.go`) | |
| `Browserflow` | one run: its owner, processes that recover it, the journal, the browser | `BrowserflowRecord` |
| `InvocationLeases` | the ledger, the handlers, the sweeper, daemon restarts | |
| `ExclusiveLock` | abstract: what a lock promises | |
| `DaemonLock` | one lock file and the processes that want it | implements `ExclusiveLock` |
| `EventFeed` | abstract: what the event queue promises its readers | |
| `CdpClient` | callers, write gate, read loop, event queue and readers | implements `EventFeed` |
| `DaemonRuntime` | hold processes, runtime file, socket path, the commands that start, stop, repair and reap | |
| `ManagedChrome` | commands that start, sweep and stop the managed Chrome; registry, metadata, port file, processes | |
| `SessionReducer` | a transcription session and what an event does to it (`reducer.go`) | |
| `ProbeHealth` | the health of a provider, its saves and the prober (`probe.go`, `probe_state.go`) | |
| `TranscriptionServer` | uploads and streams over the audio store (`server.go`, `store.go`) | `SessionReducer`, `ProbeHealth` |
| `ChatGPTAsk` | asks, their pages, the conversations they make (`webagent/chatgpt`) | |
| `MC*` | instances for TLC and their symmetry | the above |
| `*Proofs` | theorems and proofs, one module for each of `Browserflow`, `InvocationLeases`, `DaemonLock`, `CdpClient`, `DaemonRuntime`, `ManagedChrome`, `TranscriptionServer`, `ChatGPTAsk` | the above, `TLAPS` |

Names of actions are the names of the Go functions where a function is one
step; a function that calls the browser or saves in between is one action per
stretch, in the order of the code.  Definitions whose comment begins with
"Variant" are mistakes a change of the code could make; nothing uses them, and
`PROJECT.json` "mutants" says which property each would break.

### Browserflow

`file` is the journal, `rec[p]` and `pc[p]` the copy and the position of each
process, `target` the one tab of the run, `persistent` the daemon's promise not
to reap it, `sends` a ghost count of raw inputs per action slot.  `Acquire` is
`Create`, `CheckBudget`, `AcquireInputLock`, `SaveCreateIntent`, `SendCreate`,
`CreateReturns`, `MarkTargetPersistent`, `SaveOwned`, `Attach`, `SaveAttached`,
`Navigate`, with their failures; `settleExactCleanup` is `SettlePending`,
`CloseTarget`, `SettleClose`, `SettleResult`, shared by owner and recoverers.  A
record keeps what the validation reads: phase, target, session, cleanup,
dispatch, raw count, pending, fingerprint and postcondition, and the archived
slots.  `Save` is the whole of `FileJournal.Save`: it may fail before the
rename, it refuses what `validateRecordTransition` refuses, and it may report
failure after the rename.

Abstractions: dispatchers are honest when they claim `not_performed`;
timestamps are left out (a save that the monotonic-time check would refuse is a
save that fails); a direct client, for which marking persistent does nothing,
is a call that succeeds; `Recover` runs only after the owner is gone or has
failed to acquire (its callers in `webagent/*`), unless `RecoverWhileOwned`.

### InvocationLeases

`mem` and `disk` are the ledger; `Commit` is `saveLocked` with the roll-back of
each method; `req[h]` is the request a handler serves, from the renewal of the
lease, through the browser call, to registration or its roll-back; `cleaner` is
the cleanup under `reconcileMu`, with the copy of the targets it works on
(`left`, `keep`); `told` is a ghost: the last answer a client got about a tab.
`Crash`, `Load` and `StartServing` are the restart in `holdConnection`.

Abstractions: each method is atomic (it holds the mutex); time is `LeaseDue`;
requests of one lease do not overlap unless `Overlap` (a command waits for each
answer, and its requests are shorter than the lease's life); clients only move a
tab from disposable to persistent; one hold process at a time.  Left out: the
unsynchronised sharing of a slice between `cleanupLease` (leases.go:502) and
the in-place filter (559); requests of an ended connection cycle that save
through the previous `LeaseManager` (runtime.go:1290).

### DaemonLock and ExclusiveLock

`file` is what the path names: inode, named owner (`None` when empty or
truncated) and whether it is older than `staleAfter`.  A check (inspection,
ownership) and the act on the path after it (remove, truncate, write) are
separate actions, and anything may come between the two.  `seen[p]` is the inode
that `p` checked, and the history `raced` says whether somebody has acted on
another file than the one it had checked.  Until then the file is a lock: that
is what `ImplementsLock` (each step up to then is one of `ExclusiveLock`)
and `HolderKeepsFile` say.  After it there may be two owners, which
is the finding.

`ExclusiveLock` has one variable, the set of those that work under the lock: who
takes it found it empty.  The mapping is `holders <- {p \in Procs : Holds(p)}`,
where `Holds` is a live process past its acquisition whose lease has not run
out.  A death or an expiry maps to `Leave`.

Abstractions: reading and statting the file in one inspection is one step; a
contender acquires once and updates at most once; a file does not reach
`staleAfter` (ten minutes) while a live process is in the middle of writing it.

### CdpClient and EventFeed

`pc[c]` follows `CallSession`: register, gate, write, wait, remove; `respCh[i]`
is the one-place channel of command `i`; `readLoop` is between two reads, about
to deliver an answer, about to dispatch an event, or done.  Events are their
numbers in order of arrival, `arrived[n]` is the session of event `n`, and
`got[r]` what reader `r` took.  Readers are the daemon's handlers of the event
RPCs; `Unscoped` ones use `ReadEvent` and `DrainEvents`.  A context may end at
every point where the code looks at it, and at none has it to.

`EventFeed` promises, without channels, locks and wake-ups: an event is handled
as it comes or waits, the oldest gives way when more than `Cap` wait, and a
reader is given the oldest of those that wait for it, each event at most once.
The mapping: `events` is `arrived` without the event that is being dispatched,
`waiting` the contents of `eventBuf`, `given` is `got`, `handled` is `consumed`.
The loop of the two drains, which goes through the queue once, takes what matches
and keeps the rest in order, is `Pick`: of a queue and a set of its places, the
events at those places, by `Nth`, the k-th place of a set.

Abstractions: one handler for all methods; a handler may run once more after it
was unsubscribed, as in the code, which copies the handlers; a queue that is
asked by a request whose client is gone still hands the event out (the loss
between daemon and stream is not modelled).

### DaemonRuntime

`file` and `socket` are the holds that the runtime file and the socket path
name; `pc[h]` follows `holdWithOptions` and `holdConnection` from the loop's top
through dialling, unlinking and binding the path, saving, serving, and giving
everything back; `cmd[c]` follows a command through status, start, stop, launch
and the reaping of orphans.  A system call on the path or the file is one step:
`ClearIfCurrent` reads the file and `ClearFile` removes whatever is there by then.

`setting` says what a behaviour allows: holds that reconnect (`reconnect`),
commands that overlap, commands that are killed (`deaths`).  A behaviour with
none of them is `Calm`: that is the default of `daemon start`, `restart` and
`keepalive` (no `--reconnect`).  The entries that `cdp` writes for cron ask for
`--reconnect 30s`; what holds for them too is `FileNamesServer` and
`SupersededRetires`, and what does not is the subject of `runtime_stuck`.

A save or a removal of the runtime file may fail.  `holdWithOptions` ignores the
latter (runtime.go:887), and the history `kept` has the holds to which it
happened: their file may name them while they have no connection.  A hold that
ends removes its file once more (`End`, position `leaving`).

Abstractions: a browser is the number of its endpoint, and a hold that was given
an older one can no longer connect; a hold process number is reused only when
nothing remembers it; identities that cannot be verified and files that cannot
be read end the command (`GiveUp`); three missed heartbeats are a connection
that ends; a launch whose browser lives gets its socket within the minute it is
waited for (`OnItsWay`), or that is a fault; the removal of the socket path and
the close of the listener unlink it in either order.  What goes wrong costs one
of `MaxFaults`, and so do a user's start and stop, so that the liveness
properties speak of what follows.  Only the repair path of a headless or
selected connection is modelled, not the headed one, which waits for a person,
and not `keepalive --repair --force` (`cli/daemon_commands.go:1979-1996`), which
clears the runtime file whomever it names and may so take that of a live hold.

### ManagedChrome

A launch is a number: its process id and the start identity recorded with it.
`proc[l]` is what the id belongs to (nothing yet, a Chrome that starts or is
ready, nothing any more, a foreign process, a foreign process that was
signalled); `metadata`, `registry`, `port` and `lock` are the files; `cmd[p]` is
a command's position, what it wants the registry's lock for (`task`), its
attempt, its launch and what it has read.  `CreateLock` to `Unlock` are
`withManagedRegistryLock`; `Look`, `Reap`, `SaveReconciled` the reconciliation
under it; `Load` and `Save` registration and the marking of stopped launches;
`Ensure` to `Clear` the start with its retries and the forced stop between two
attempts; `Stop` to `Stopped` the stop that was asked for.

A foreign process may take an id as soon as its Chrome has gone, between any two
steps.  The recheck of the root compares the identity recorded at the launch; a
launch in `weak` is one whose identity could not be read (managed.go:2462), and
any process matches it.  Descendants are signalled with what the listing found,
and in the second round whatever has a tracked id by then
(managed.go:1898, 2152): nothing compares identities there, so a
foreign process may be hit, which the repository's README leaves to the policy
for descendants (README.md:1092-1095).  What is checked is therefore the root:
`struck` has the launches whose id was foreign when a stop signalled it as the
root, and these must be weak.

Abstractions: the recheck of the root and the signal that follows it are one
step ("immediately before"); so are the second look at a stale lock file and its
removal (managed.go:762-769), so that a file which replaces it in between is not
modelled; the process tree of a Chrome is one process; the registry is the set
of launches it has, without the state of each record, and may drop any that is
not live.  Which commands run together is `Crowds`: each has a bound on launches
and on faults.

### TranscriptionServer, SessionReducer, ProbeHealth

`root`, `retired` and `disk` are the audio directories of the ephemeral mode,
`audio[d][i]` the chunks of request `i` in directory `d`; `record` is the phase
in each request's `record.json`, `active` the claimed ids.  `upload[u]` follows
`handleFile` and `PersistAudio`, with the store's one repair and the provider's
retries; `stream[s]` follows `handleRealtime`, with its session
(`SessionReducer`) and `AppendAudio`.  `ProbeHealth` is the coordinator's round
and the saves it shares with the handlers.

Abstractions: `AppendAudio` is atomic (it holds `realtimeMu`); a stream's
request context outlives its client, since the connection was hijacked, so its
saves only fail when writing does, while an upload's saves end with its client;
an id in use is refused before anything happens, which is no action; a removal
of audio may fail for any of the directories, which the code returns or logs and
does not repeat (`left` has what it left), and a write of the health file may
fail, which the code ignores (`behind`); `health` keeps whether a probe ever
succeeded and the reason, not the times that freshness is computed from; text of
hypotheses is left out; when `MaxRoots` directories have been made, a repair
fails.  Left out: the retain mode with its pruning, the storage probe behind the
health report's `storage_ready`, authentication, the realtime health path. Who
takes part together is `Mixes`.

### ChatGPTAsk

`ask[r]` is an ask of `webagent/chatgpt/ask.go`: its position, prompt, kind, the
journal fields it decides on (`bound`, `phase`, `dispatch`, `conv`), what it has
seen, and its result.  `tab[r]` is its page: where it is, the text in its
composer and whether the ask typed it (`own`), its files, and an Enter that was
pressed and has not acted yet.  A conversation is named by the ask whose tab
made it; `conv` counts its messages and has the answer to the first.  `typed`
are the prompts that a composer has held, and may show again; `sends` is a ghost
count of submissions.  `Prepares` goes from `runOwned` to `MarkPrepared`,
`SendsAndReads` from `verifyBeforeSend` to the deferred end of `runOwned`.

Between any two actions of an ask its page may act (`PageStep`): it submits the
prompt while it is typed or at any later time, acts on an Enter late or never,
shows a draft in an empty composer at any time up to the return of the ask (one
that was cleared, another ask's or a person's), moves to another conversation,
and the provider answers in parts.  A draft is `unseen` if it came up after the
last look for one, and `late` has the asks whose prompt the page submitted
between the look that follows the typing and the Enter: what a draft or a
submission that the code does not look for destroys or doubles is the subject of
`ask_draft` and `ask_retried`, and `SeenDraftsKept` and `SeenNeverDoubles` are
about all others. Which conversation an ask was given is proved to it only by
what the page, or one read of the detail, shows.

Abstractions: two prompts with one fingerprint are one prompt; a look at the
page is one step; callers ask a prompt again only when every earlier result for
it says `retry_safe` (`MayAsk`); other people's conversations and texts are
`Foreign`; the journal saves that the ask ignores when they fail may fail; a
process that dies is Browserflow's subject.  Left out: the states of the model,
tool and account selection (they only delay or end the preparation), waiting
times, the report that research yields later, deletion and export, and the
validation and rendering of results (disagreements below).

## 3. Runs

| Run | Checks | Bounds | States |
|---|---|---|---|
| `browserflow` | AtMostOneRawInput, JournalShowsInput, ClosedMeansGone, NoStrandedTarget, NoInputAfterCleanup, InputLockReleased | two recoverers, two attempts, two slots, one fingerprint, one proof | 560 k |
| `leases` | LedgerDurable, AnsweredTracked, KeptOpen, AbandonedReclaimed | one lease that may end or expire within its requests (`Overlap`), two tabs, one handler, one crash | 250 k |
| `lock_file` | ImplementsLock, HolderKeepsFile, DeadLockReclaimed | two contenders, two cleaners, leases | 172 k |
| `lock_two_owners` | finding: MutualExclusion fails | three contenders | |
| `cdp` | TypeOK, NothingLeaks, ReadLoopNeverBlocks, NoLostWakeup, ImplementsFeed, BrokenEndsCalls, GateIsPassedOn | two callers with four commands, or a scoped and an unscoped reader with four events and a queue of three | 152 k |
| `runtime_repair` | FileNamesServer, OneHold, ServerKeepsFiles, Settles, SupersededRetires | three holds, one command at a time, two browsers, two faults; calm, and with reconnects and killed commands | 159 k |
| `runtime_stuck` | finding: RepairHeals fails with reconnects | the same | |
| `managed` | NoMoreThanStarts, ReturnedIsRegistered, RootSpared | two starts, three launches; a start and a sweep, three launches, two faults; a start and a stop, two launches, two faults, with and without a weak identity; two attempts each | 2.1 M |
| `transcription` | TypeOK, StreamKeepsBytes, NothingLeft, AudioWhileRunning, RecordSettles, SavedCurrent, ItemsStand | two uploads of one id with health checks, or with the prober; an upload and a stream; a stream with two provider events; three directories, two chunks, two faults | 3.1 M |
| `ask` | TypeOK, AnswerIsOwn, SeenNeverDoubles, ClosedIsRecoverable, SeenDraftsKept | two asks, two prompts, at most one ask that is not plain text, at most one tab that wanders; pages submit by themselves while they are typed into, and asks of one prompt meet pages that do so at any time up to the return of the ask | 2.3 M |
| `ask_retried` | finding: RetryNeverDoubles fails | two text asks of one prompt | |
| `ask_draft` | finding: DraftsKept fails | one text ask | |

Every `TypeOK` is a theorem (section 4); no run repeats those of `Browserflow`,
`InvocationLeases`, `DaemonLock`, `DaemonRuntime` and `ManagedChrome`.

Calls and events of the cdp client meet only in the read loop, which the run
exercises with one kind at a time (`MCCdpClient`); together (two callers, four
commands, a reader, two events) they have 3.4 million states, in which the
invariants hold too.

Why the bounds are enough to be interesting: a slot is retried, archived and
followed by another; two recoverers overlap, and one may crash and come back;
a lease ends or expires while its request creates a tab, its save fails, and the
daemon crashes in each of these states (two leases without overlap, in which one
is ended while another expires, have 640 k states, in which `LedgerDurable` and
`KeptOpen` hold too); two contenders and two cleaners are one that works, one
that tries and two that hold stale looks at its file, and three contenders, one
of which has replaced the file, are what the finding needs (the safety
properties hold for three and a cleaner, too, in 696 k states); the queue of
three overflows;
two callers compete for the gate while a third and fourth command begin; of
three holds one is superseded, one serves and one is launched, and a browser is
replaced while one of them dials; two starts both find no Chrome and both
launch, the first fails and its forced stop meets the other's browser; a third
launch follows; a directory is lost, replaced and lost again while a stream has
a file in the first; two events suffice for a late one after a final, and for a
final that conflicts; a second ask retries the first, takes its receipt, finds
its draft or wanders into its conversation.

Two requests of one lease at a time (two handlers), which no command makes, are
left to the theorems: `LedgerDurable` and `KeptOpen` hold with them, while
`AnsweredTracked` fails (disagreements below), and `StaysTracked` excludes them.

Deadlock checking is off because each system may stop: a run ends, the processes
of a lock are done or dead, a connection is over and its callers have used up
their commands, requests have been served, launches and faults are used up, asks
are done.

### What the failing runs show

* `lock_two_owners`: the window between check and act (lock.go:181) lets two
  contenders hold the lock: one inspects the file of a holder whose lease has run
  out, the holder releases it, another creates its own, and the first removes
  that one as the stale one.
* `runtime_stuck`: a hold whose socket path another hold has unlinked lives on
  under the runtime file, and the repair, which stops only a runtime that is
  `running` (`cli/daemon_commands.go:1965`), waits for its socket for ever.
* `ask_retried`: a page that submits the prompt after the look that follows the
  typing makes the verification of the selection and the Send control fail; the
  loop ends at its deadline without a last look (ask.go:2097), the result says
  not performed and safe to retry, and the retry submits the prompt again.  The
  comment at ask.go:1968 says that this must not happen.
* `ask_draft`: a draft that comes up after the composer was found blank is
  selected and replaced by the typing (ask.go:1797): the look before it
  (ask.go:1974) does not ask for a draft.  The comment at ask.go:516 says why
  one must not be replaced.

### Other disagreements

Found while modelling, present in the models as the code's behaviour, and not
the subject of a run:

* `validateRecordTransition` (record.go:218) refuses any change of a recorded
  postcondition, and `BeginNextAction` clears it: a slot confirmed by
  `ConfirmPostcondition` cannot be followed by another, though engine.go:704
  says that a completed slot is archived.
* The result of a preparation that may have submitted the prompt (ask.go:776,
  `continue.go` likewise) says `not_performed` and not retry-safe, which
  `ActionEvidence.Validate` (validate.go:172) refuses; the caller gets
  `invalid_webagent_result` in its place, and is not told (ask.go:1910).
* A request cancelled after the browser created its tab leaves it open and
  unknown to the ledger (runtime.go:1617; docs/FORMAL_INVARIANTS.md:32).
* A mark-persistent answered with success while its lease is being cleaned up
  does not keep the tab (leases.go:366, 502).
* With overlapping requests of one lease, a snapshot of the targets drops the
  one registered since it was taken (leases.go:333).
* A lock owner whose lease ran out may rewrite or remove the file of the one
  that replaced it (lock.go:224).
* `ReadEvent` and `DrainEvents` on the shared client take the events of other
  sessions, which commands then drop (client.go:422, `cli/console_helpers.go:83`).
* A registry lock file whose creator died before writing it is never stale
  (managed.go:755; docs/FORMAL_INVARIANTS.md:117, README.md:1086).
* The forced stop after a failed attempt ends a browser that an overlapping
  start has launched (`cli/daemon_commands.go:2282`;
  docs/FORMAL_INVARIANTS.md:78); overlapping starts may both count no live
  process and both clear the profile's singleton lock (managed.go:578).
* After a crash between launch and metadata, reuse may return the older metadata
  with the endpoint of the newer Chrome (managed.go:2608); the record of a live
  launch that the metadata supersedes may be dropped.
* A probe attempt replaces an observed failure by a pending one, which counts as
  ready while the last success is fresh (probe.go:93 and 255; the comment at
  probe.go:341 says otherwise), and the success of a probe under way replaces a
  failure observed meanwhile.
* A client that disconnects leaves its upload's record `persisted` or
  `dispatched`; `RecordSettles` therefore counts such a disconnection as a fault.
* `sendEvents` tells the client `completed` for a final that `Apply` ignored
  (server.go:1221); `AllCompleted` takes a session with a failed item as complete.
* A `session.update` after a completed commit starts a new record, which the end
  of the stream then cancels; initializing again does not end the provider
  session before (server.go:1013).
* An upload that runs while the store closes may make its directory again
  (store.go:237); what docs/TRANSCRIPTION_API.md:487 says of kept audio is not
  true of the default ephemeral mode; in the retain mode, pruning may remove the
  file of another stream that is live (store.go:627).
* After a reconnect, requests of the ended cycle may save the ledger through the
  previous `LeaseManager` (runtime.go:1290); an event taken from the daemon's
  queue for a stream request that has ended is lost (`cli/events_stream.go:409`).
* The look at the page just before Enter may see that the prompt has been
  submitted meanwhile, and the result still calls the action not performed and a
  retry safe (ask.go:837), another way to the violation of `ask_retried`.
* A text that the conversation shows may become the terminal answer of an ask for
  an image when it is recovered after a failed read (rendered_detail.go:68).
* A restored draft that has only attachments is not seen (ask.go:1449).
* The second round of a stop's signals goes to whatever has the id of a tracked
  descendant (managed.go:1898, 2152), and a weak identity fits every process
  (managed.go:1112): the stop of such a launch may signal a foreign root.
* A removal of audio that fails is not repeated, since later removals are of
  other requests (store.go:324).
* `replaceFailure` calls a retry safe when there is no action evidence
  (base.go:389), whatever the result before said.
* docs/AUTHENTICATED_PROVIDERS.md:216 describes a lifecycle gap that the code no
  longer has.

### Fairness

* browserflow: the steps of a process that runs are taken (every browser call
  is bounded by a timeout), and a provider closes its lease.  Nobody has to
  call `Recover`.
* leases: the daemon is restarted when it is down (the next command does so),
  its goroutines run, requests have deadlines, an unused lease falls due, and
  neither the save of the ledger nor the close of a tab fails every time (SF).
* lock: processes that live run, and files grow old; nobody has to give up.
* cdp: the read loop runs; a write ends within `cdpWriteTimeout` (its context
  is independent of the caller's); those who wait for the gate are served in
  turn (SF: Go's channels queue their receivers); a call returns when it can.
  No context has to end.
* runtime: processes run, a hold that cannot connect and a launch that cannot
  succeed run into their deadlines, and cron runs the repair again and again.
  Faults, users' commands and kills need not happen.
* managed, transcription, ask: only safety is checked.  Their commands give up
  after a bounded number of tries or time, and may do so each time.

## 4. Theorems

Checked by TLAPS for all values of the constants that satisfy the modules'
assumptions: every invariant and every action property that a run checks, and
both refinements.  Where a theorem has an assumption of its own, that is named.

### Browserflow

* `TypeCorrect`, `AtMostOnce`: `[]TypeOK` and `[]AtMostOneRawInput`.  At most one
  input is not inductive: it needs to know that the owner's copy of the record
  counts what was sent (`OwnerRemembersInput`), that an owner that has not reached
  its lease has a record without input (`OwnerStartsClean`), and that a dispatch
  that is about to be made has not been counted (`DispatchIsUncounted`).  Nothing
  is assumed of the journal: the owner's memory alone prevents a second input, so
  the theorem holds with `RecoverWhileOwned` too.
* `ClosedRight`: `[]ClosedMeansGone`, in every setting.  `GoneInv` adds that who
  is past finding the target knows it (`HoldersKnowTarget`), that a target a
  record names was made (`KnownTargetMade`), that a copy says `closed` only of a
  target that is gone (`ClosedCopyGone`), and that none is made before it is asked
  for (`NotAskedYet`).
* `JournalShows`, `CleanupEndsInput`: `[]JournalShowsInput` and
  `NoInputAfterCleanup`, assuming `~RecoverWhileOwned`.  `JournalInv` adds that
  recoverers wait for the owner to be over (`Alone`), that the file is the owner's
  copy and pending while it dispatches (`Pending`), and that a recoverer has the
  input it has read in its copy, or is about to report it as ambiguous
  (`RecoverersShowInput`).  The assumption is needed: a recoverer that overlaps
  the owner writes an older copy over what the owner has counted.
* `NeverStranded`: `[]NoStrandedTarget`, with the same assumption.  `StrandInv` is
  `JournalInv`, `GoneInv` and: the intent is in the file before the browser is
  asked for a tab (`IntentJournaled`), a tab is made persistent only after that
  (`NotKeptYet`, `KeptMade`), its identity is in the file before it is attached
  to or navigated (`OwnedJournaled`, `NavigatedJournaled`), the file names a live
  persistent tab or asks for a search of its marker (`Led`), and a recoverer that
  did not find it does not take that lead away (`SearchersKeepLead`).

`BrowserflowAssumption` says of `None` that it is no record, so that an absent
journal is told from a present one.

### InvocationLeases

* `Durable`, `KeepsOpen`: `[](TypeOK /\ LedgerDurable)` and `KeptOpen`.  The
  invariant `KeepInv` adds that both ledgers are *true* of the answers given (a
  tab that was promised to be kept is nowhere listed as disposable:
  `LedgerTrue(mem)`, `LedgerTrue(disk)`), and the same of a target that is being
  created and of the copy the cleaner works on (`CreatingTrue`, `CleanerTrue`).
  Most steps only *narrow* the ledger; lemmas about narrowing carry them, and
  registration and promises are proved apart.  Both hold with `Overlap`.
* `StaysTracked`: `[]AnsweredTracked`, assuming `OneByOne`: requests of one lease
  do not overlap, or there is one handler.  `TrackInv` is `KeepInv` and the
  converse of what it says: what a ledger, or the cleaner's copy, keeps was
  promised (`KeepTold`, `CleanerTold`), so that nothing else is left out of a
  cleanup; at most one request of a lease is served (`ServedApart`), a target is
  registered after it was opened (`OpenedFirst`), a snapshot that is about to be
  applied lists every open target that was answered (`ListedAll`), and such a
  target is in the ledger, or in the file when no daemon runs (`Tracked`).

### DaemonLock, which implements ExclusiveLock

* `Excludes`, `KeepsFile`, `IsALock`: as long as nobody has acted on another
  file than the one it had checked (`~raced`), mutual exclusion,
  `HolderKeepsFile`, and that the lock file implements `ExclusiveLock` (initial
  states map to initial states, every step to a `Take`, a `Leave` or a stutter).
  Nothing is assumed of the order in which processes run: every other
  interleaving of checks and acts is covered.  `LockInv` says whose the path is
  at each point of the protocol: the file names its maker or nobody
  (`FileOfMaker`), a creator and an updater own the file they write
  (`WriterOwnsFile`, `UpdaterOwnsFile`), a holder has the path and is named
  there (`HolderHasFile`), what was found to be one's own is (`CheckedIsOwn`),
  and the maker of a file that was found stale is past its turn
  (`StaleIsSpent`): so a stale look can do harm only to a file of another maker,
  which is a race.  Without the condition exclusion is false: `lock_two_owners`.

### CdpClient, which implements EventFeed

* `CallsLeakNothing`, `ReadLoopRuns`: `[]NothingLeaks` and
  `[]ReadLoopNeverBlocks`.  `CallsInv` adds that an id not yet given out has
  neither entry nor answer (`FreshIds`), that an answer in a channel is the only
  one (`AnsweredOnce`) and that what is about to be delivered has lost its entry
  (`DeliveredOnce`).  The events share the read loop; lemmas show that they leave
  the calls alone.
* `Typed`, `WakesReaders`, `IsAFeed`: `[]TypeOK`, `[]NoLostWakeup`, and
  `Spec => ImplementsFeed`.  `EventsInv` adds that the queue is an increasing
  sequence of events that were dispatched, of at most `Cap` (`Queue`).  The
  refinement is proved step by step: an event is read into `events` when its
  dispatch is over, `Trim` leaves the newest `Cap` (`BufferIsQueue`, the feed's
  `Newest`), a drain by `Pick` hands out the wanted events in order and leaves the
  others in order, and a read hands out the oldest one wanted; everything else
  stutters.  The lemmas on which this rests are about ranks in finite sets of
  numbers (`Nth`, `Pick`) and do not depend on the client.

### DaemonRuntime

* `Typed`, `NamesServer`: `[]TypeOK` and `[]FileNamesServer`, in every setting,
  with saves and removals of the file that fail.
  `NamesInv` adds that a number which the file names is not given to a new process
  (`UnbornUnnamed`), and that a command interrupts a hold that it has loaded.
* `One`, `KeepsFiles`: `[]OneHold` and `ServerKeepsFiles`.  `CalmInv` speaks of
  calm behaviours only: a live hold is in the file or is watched by its launcher
  (`AliveIsKnown`), one command runs (`OneCommand`), a command that is about to
  replace or clear has seen every hold end (`ReplacesTheDead`), one that has loaded
  a hold knows the only live one (`KnowsTheOnlyOne`), and so there is no orphan
  (`NothingToReap`).

### ManagedChrome

* `Typed`, `KeepsRegistered`: `[]TypeOK` and `[]ReturnedIsRegistered`, for any
  crowd.  `ManagedInv` adds that the lock excludes (`LockOwned`), that what is
  about to be saved is what the file has (`KnownCurrent`), that a launch belongs
  to one start and is not returned before (`OneStarter`, `StarterFirst`), that it
  is registered from its publication on (`Registered`), and that a sweep which has
  looked keeps it (`SweepKeeps`).  Most steps change one command and let processes
  fade (`CalmInv`); the writes of metadata and registry, the look, the launch and
  the return are proved apart.
* `SparesForeign`: `[]RootSpared`, for any set of weak identities and ids that are
  given away at any time.  It rests on the recheck alone.
* `NeverMoreChromes`: `[]NoMoreThanStarts`, assuming that the starts are finitely
  many (a cardinality says nothing otherwise).  `CountInv` adds that the live
  Chromes and the starts that are about to launch (`Opening`) are together no more
  than the starts (`Counted`), and that who ends several Chromes spares one
  (`Spares`).  A start opens only by a look that shows no Chrome, where nothing
  but starts is counted; a launch moves one from one set to the other; no other
  step adds to either.

### TranscriptionServer, SessionReducer, ProbeHealth

* `TypeCorrect`, `ChunksKept`, `AudioRemoved`: `[]TypeOK`, `[]StreamKeepsBytes`,
  `[]NothingLeft`.  `ServerInv` adds who has what (`PlaceInv`): an upload or a
  stream at work holds its id (`UploadsHold`, `StreamsHold`), two uploads at
  work have different ids (`UploadsDiffer`), nothing is in a directory before it
  is made (`RootsMade`), a stream that has accepted a chunk has a file while the
  store is open (`AcceptedSomewhere`), what was removed does not come back
  before the request ends, and what was not is in `left` (`Gone`, `Removed`);
  and that there is one save of the health at a time, for which its writer waits
  (`WritersWait`).
* `FileCurrent`: `[]SavedCurrent`.  `HealthInv` adds that the copy which a save
  is about to write is the latest health, or someone else is about to save
  (`CopiesCurrent`).  A write that failed (`behind`) excuses the file until the
  next one.
* `TranscriptsStand`: `ItemsStand`.  An item that is completed or failed is not
  changed by any event (`ApplyStands`), for any items, texts and sequence numbers.
* `AudioRead`, `RecordsSettle`: `[]AudioWhileRunning` and `[]RecordSettles`.
  Both speak of behaviours without faults; `Calm` says for each position of an
  upload and a stream what its record and its audio are then.

### ChatGPTAsk

None of these has an assumption about when pages submit or restore drafts.

* `OwnAnswer`, `KeepsDrafts`: `[]AnswerIsOwn` and `SeenDraftsKept`.  `KeepInv` adds
  that an ask that persists or reads knows an ask's conversation (`Names`), that
  up to its typing the composer of an ask is blank, holds what it typed, or a draft
  that came up after its look (`Blank`), that a receipt is that of an ask that is
  done and whose Enter was performed (`HasReceipt`), that only an idle ask has no
  prompt (`Asked`), and that a terminal result holds what was read, of a
  conversation that began with the ask's prompt, from the reading on (`OwnRead`);
  a finished answer does not change.
* `Typed`: `[]TypeOK`.  `TypedInv` is `KeepInv` and the types; what a read takes for
  an answer has the type of one only because the ask knows its conversation.
* `NeverDoubles`: `[]SeenNeverDoubles`.  `SendInv` adds that of two asks for one
  prompt one is over and called a retry safe (`OneAtWork`), and that an ask from
  whose tab the prompt was submitted where it looks, or by its Enter, never
  calls a retry safe and submits once (`Once`).  For submissions that it does
  not look for the statement is false: `ask_retried`.
* `ClosesRecoverable`: `[]ClosedIsRecoverable`, late submissions included.
  `CloseInv` adds to both that a conversation which an ask sees or names has a
  message, and that the one its tab made has it from a submission (`Shown`), that
  before its input is bound an ask has put nothing on its page (`Untouched`), and
  that once it has left the fresh page nothing of its own is in its tab (`Left`).
  An ask whose terminal answer came from a conversation of the same prompt made
  that conversation itself, or it is one that an earlier ask's page submitted late.

### What is only model-checked

Each invariant was first checked by TLC on the runs' instances.  What stays with
TLC is all liveness, since fairness and ENABLED are out of the prover's reach:
`InputLockReleased`, `AbandonedReclaimed`, `DeadLockReclaimed`, `BrokenEndsCalls`,
`GateIsPassedOn`, `Settles`, `SupersededRetires`; and the four findings, which are
violations.  No module uses a recursive operator.

## 5. Not modelled, and the plan

Not modelled for good: page automation and parsing (`webagent/*` but for its use
of the engine and the ChatGPT ask, `sourcecollect/*`), command wiring and
formatting (`cli/*`, `output`), generated protocol data, static tables
(`providerpolicy`), operating system adapters (`processgroup`, headed windows),
text redaction, HTTP details of the transcription server, unit files.  These are
most of the repository's lines, and hold little state that several actors share.

Left out so far, with the reason:

* `keepalive --repair --force`: see `DaemonRuntime` above.
* The headed input lock among several runs (`artifacts/owner_file.go`): a flock
  that waiters poll; a waiter may be passed over for ever, which no code
  prevents.  `Browserflow` models its use by one run.
* The window marker: attach events start goroutines of their own; its state is
  per page session and no modelled part reads it.
* The availability gate: a back-off file that every check loads and saves
  without a lock; the last writer wins, and a lost update costs one check.
* `state/` and `config/`: load, modify and save without a lock; two commands may
  lose one another's change.
* The event stream's RPCs (`cli/events_stream.go`): an event taken from the
  daemon's queue for a request that has ended is lost.
* Two `LeaseManager`s over one ledger after a reconnect: `DaemonRuntime` has the
  reconnect and `InvocationLeases` the ledger; their composition is to come.
* Retention, retry delays and readiness: sequential, bounded by their own
  counters.

In order:

1. Continuing a conversation, which differs from an ask in what it may type into
   and in its baseline.
2. `DaemonRuntime` composed with the ledger on disk: what `InvocationLeases` and
   `DaemonRuntime` say of one hold, said of the holds that follow one another.
3. An abstract journal that `Browserflow` implements: an action is not begun,
   pending, performed or unknown, and recovery only reads it.
4. The input lock among several runs, the window marker.
