# Verification of OpenAFS: replicated databases, file server processes, callbacks

OpenAFS is a distributed file system. This project models, in TLA+, five mechanisms on
which its correctness rests, and which tests hardly reach because they depend on
interleavings, clocks, crashes and lost messages. The first three are Ubik, the
replicated database (`src/src/ubik/`) that holds volume locations, protection data and
backups of a cell: every database server has a copy, one of them, the *sync site*, makes
all changes, and the others follow it.

1. Ubik's election by timed promises, which must never give two sync sites;
2. Ubik's local transactional store (buffers, redo log, replay), which must survive a
   crash at any point;
3. Ubik's replication (transactions sent to a quorum, versions, recovery of stale
   copies), which must not lose what a client was told is committed;
4. callbacks: the promise of a file server to tell its clients of changes, which must
   survive clients that cannot be reached (`src/src/viced/callback.c`);
5. the bos server, which starts, stops, restarts and salvages a file server
   (`src/src/bozo/`), and must neither corrupt partitions nor get stuck.

The models are checked with TLC on small instances. Every safety property that TLC finds to
hold is also proved with TLAPS, for any number of servers, clients, files, pages,
transactions, crashes and calls; one of them, that a reported transaction survives, only until
a second sync site is elected. Five properties that comments of the code claim are refuted,
among them that equal versions of a replicated database mean equal contents, which is proved
for the first term. `PROJECT.json` lists runs, mutants, the map from definitions to source lines,
hazards, findings and theorems.

## 1. Inventory

| component | source | state | operations | hard behaviour | what makes it correct |
|---|---|---|---|---|---|
| voter | `ubik/vote.c` | last yes vote (host, time, claim, state), lowest host and sync site heard of, version the sync site told of | `SVOTE_Beacon`, `uvote_ShouldIRun`, `uvote_GetSyncSite`, `uvote_Init` | clocks that differ, beacons that are late, forgotten promises after a restart | promises are kept; at most one candidate can rely on a voter |
| beacon thread | `ubik/beacon.c` | `amSyncSite`, `syncSiteUntil`, `syncSiteAdvertised`, epoch, servers up or down | `ubeacon_Interact` (a collection of votes), `amSyncSite`, `InitServerList` | answers in any order, timeouts, a term that ends in the middle of a collection, the wait for the database lock | one sync site, epochs that grow |
| local storage | `ubik/disk.c`, `ubik/phys.c` | page buffers, log, file, label, pending truncation | `udisk_begin/read/write/truncate/commit/abort` | crash between any two system calls, stdio and file system buffering, a pool full of dirty buffers, readers beside a writer | a commit is atomic, a reader sees committed data only |
| log replay | `ubik/recovery.c` 200-420 | log, file | `ReplayLog`, `InitializeDB` | a crash of the replay, logs that come back after truncation, torn records | replay completes a committed transaction and nothing else |
| recovery thread | `ubik/recovery.c` 420-980 | `urecovery_state`, versions and `currentDB` of every server | probe, find the best database, fetch, relabel, send | everything may change between these steps; a transfer may stop half way | the newest committed database wins |
| transactions, remote disk calls | `ubik/ubik.c`, `ubik/remote.c` | active transactions, tid counters, version, flags `DBWRITING` ... | `ubik_BeginTrans/Write/EndTrans/AbortTrans`, `SDISK_*`, `ContactQuorum_*` | calls that fail on some servers, lost answers, lock given up during calls, a new sync site in the middle | a committed transaction survives; equal versions mean equal contents |
| locks | `ubik/lock.c` | one lock per database | `ulock_getLock`, `ulock_relLock` | transactions ended while they wait | readers and writers exclude each other |
| client | `ubik/ubikclient.c` | which server is the sync site | `ubik_Call`, retries | stale knowledge, retries of calls already done | finds a sync site if there is one |
| volume server | `volser/voltrans.c` | volume transactions with reference counts and timers | new, find, put, delete, garbage collection | deletion while in use, timeouts | no transaction is freed in use |
| bos server | `bozo/bnode.c`, `*ops.c` | goal and state of each server process | start, stop, timeout, exit, salvage | exits that race with timers | the process reaches its goal, a salvage precedes a restart |
| file server callbacks, hosts | `viced/callback.c`, `viced/host.c` | callback promises, host structures | add, break, delay, time out; find, hold, release | a break that races with a new promise, a host that goes down | a client that holds a promise is told of a change |
| volume package | `vol/volume.c`, `vol/fssync-server.c` | volume states, attachments | attach, offline, exclusive use | utilities and the file server at once | one owner of a volume |
| locks and threads | `lwp/lock.c` | readers, writer, shared and boosted holders | obtain, release, boost | wakeups, fairness | exclusion |
| Rx | `rx/rx.c` | connections, calls, packet windows | send, receive, acknowledge, time out | reordering, duplicates | at most one execution of a call |

Applications of Ubik (`vlserver`, `ptserver`), the cache manager, the salvager and
tools, and platform code are listed in `PROJECT.json` with the reason why they are
left out.

How the Ubik parts interact: the beacon thread of a candidate calls `VOTE_Beacon` on
every server; a server that wins takes the database lock and becomes sync site with a
new epoch. Its recovery thread then looks for the best database, fetches it, and sends
it to servers that lack it; until then no transaction may start. A transaction changes
the local store and sends each call to the other servers (`DISK_*`), whose handlers
change theirs; a majority must agree. A beacon also carries the sync site's version and
transaction id, by which voters end transactions of an older sync site. All of a
server's threads share its database under one lock, given up around remote calls.

The bos server runs the file server, the volume server, the salvager, the salvageserver
and (for MR-AFS) a scanner as one *bnode*; one thread, `bproc`, sees exits and runs
timeouts, and calls of administrators change the goal. In the file server, every call of a
client passes `CallPreamble`, which must first deliver what that client was not told;
a fetch adds a callback, an update breaks the callbacks of the others, and a thread of its
own breaks the callbacks of a volume that came back with other contents. All of them share
the flags and locks of host structures under `H_LOCK`, which is given up around RPCs
and whenever the lock of a host is taken.

## 2. Plan

1. **`UbikElection`**, **`UbikSite`** (what it promises to the replication) and
   `UbikElectionProofs`: done, proved, the refinement included.
2. **`UbikStore`** (what local storage promises) and **`UbikDisk`** (how it does it),
   `UbikDiskProofs` and `UbikStoreProofs`: done, proved, the refinement included.
3. **`UbikReplication`**: transactions, remote calls and the recovery thread, over one
   sync site at a time, as `UbikElection` proves it, and over stores with atomic
   commits, as `UbikStoreProofs` proves them: done, model-checked, and proved in part, for
   any number of terms (`UbikReplicationProofs`) or for the first one (`UbikTermProofs`).
4. **`BosFs`** and `BosFsProofs`: the bnode of a file server; safety proved, liveness
   model-checked.
5. **`Callbacks`** and `CallbacksProofs`: callback promises; safety proved, liveness of an
   update model-checked.
6. Theorems still open: what holds of labels and contents of `UbikReplication` in later
   terms, under hypotheses that exclude the behaviours of section 6 (`CommittedSurvives` with
   no election in a commit; `VersionsNameContents` is false of the code).
7. Still to be modelled: `ubik/lock.c` beside transactions that are ended while they
   wait; beacons whose version is as old as their collection; the life of hosts
   (`viced/host.c`); `volser/voltrans.c`; `lwp/lock.c`; FSSYNC.

## 3. The modules

### UbikElection (vote.c, beacon.c)

*State.* `lastYes*`, `lowest*`, `sync*` are the `vote_globals` of each server,
`amSyncSite`, `syncSiteUntil`, `advertised` its `beacon_globals`; `round` is what
`ubeacon_Interact` keeps on its stack during a collection; `net` holds the
`VOTE_Beacon` requests under way. `time` and `skew` give each server its clock.
`promised` and `lastEpoch` are history variables, which no action reads.

*Actions.* `StartCollection`, `OwnVote`, `Decide`, `BecomeSyncSite` are the parts of
`ubeacon_Interact` between which other threads or servers may act: the multi-call, the
own vote, the count, and, for a new sync site only, the part behind the wait for the
database lock. `DeliverBeacon` is `SVOTE_Beacon` on the voter together with the return
of the answer, which may be lost; `BeaconTimeout` is a failed call, after which the
beacon may still be delivered. `NoticeExpiry` is the side effect of `amSyncSite()`.
`Crash` and `Restart` lose the memory of a process and run `uvote_Init` and
`ubeacon_InitServerListCommon`; `Tick` advances time.

*Abstractions.* The set of servers that are marked up depends on address exchange,
probes and timeouts; a collection may ask any set. Addresses are numbers in host order.
Clocks run at one speed, offset by at most `MAXSKEW`. A beacon's version and transaction
id belong to `UbikReplication`.

*What it implements.* `UbikSite` is two actions over the acting site, the holder of the
newest epoch and that epoch: a site takes over, with a later epoch or with the newest one if
that is its own, and a site leaves. `ElectsSite` says that `UbikElection` implements it, with
`ActingSite` (whoever `amSyncSite()` says yes to) and `EpochHolder`. It says more than one
site at a time and ordered epochs: `ubeacon_Interact` takes a new epoch only if
`ubik_amSyncSite` is off, so that a site whose term ran out while it counted votes goes on
with the epoch it has. That is safe only because nobody else has been sync site meanwhile.

### UbikStore and UbikDisk (disk.c, phys.c, recovery.c)

`UbikStore` is five actions over a committed database and a private copy: begin,
change, commit, relabel, abort.

*State of UbikDisk.* `disk` is the database file as the server reads it, `stable` what of
it is synced; `log` includes the stdio buffer, `synced` counts the records on disk, and
`oldLog` is a truncated log that may come back; `buffers` is the pool, a slot for every
buffer in LRU order, in which a buffer that was dropped is free (`FreeBuffer`);
`trunc` is `activeTruncs`, `version` is `dbase->version`; `pc` says which step of a
commit, abort or replay the process is at. `work` is a history variable: what the
transaction has asked for.

*Actions.* `Read`, `Begin`, `Write`, `Truncate` are the `udisk_` functions. `udisk_commit`
is one action for each call after which a crash leaves something different:
`StartCommit` (with the new label of a new sync site), `WriteLogEnd`, `SyncLog`,
`Flush`, `Sync`, `DoTruncs`, `SetLabel`, `SyncLabel`, `CutLog`; `udisk_abort` is
`WriteLogAbort` and `Abort`. `Crash` leaves of every block and of the label the synced or
the newer value, independently, and any prefix of the unsynced log records or the log
before its truncation. `StartReplay`, `ReplayRecord`, `ReplayEnd`, `ReplayFails`,
`SyncReplay` and `InitializeDB` are the restart.

*Assumptions on the file system* (external): `fsync` makes a file permanent; an `fsync`
after a truncation of the log makes that truncation permanent, also if it is of the
other file, as with an ordered metadata journal. Without the latter the replay of a log
that came back could undo a later transaction.

*Abstractions.* A position is a block that is written as a whole. While `udisk_commit`
gives up the database lock for `DISK_SetVersion`, readers run; an abort by another thread
in that window (`SDISK_SendFile` of a new sync site) is left to `UbikReplication`.
The runs truncate at a page boundary, with no gap between the new end and a later write:
otherwise `udisk_write` raises the pending truncation and `DoTruncs` keeps what a replay
would clear. Of the repository's programs only the test server calls `ubik_Truncate`
(`utst_server.c:208`), and only to length 0. A write that fails, because all buffers are
dirty, sets `broken`: `ubik_Write` ends the transaction (`ubik.c:1094-1095`), and
`udisk_commit` refuses one that has ended (`disk.c:839`); `Write` and `StartCommit` stand for
both. Without it TLC finds `CommitsAreAtomic` violated.
Errors of the files are left out except for syncs of the log: a read error of `DRead`
(`disk.c:349`), which fails a read and which `udisk_write` answers with a new, empty page
(`disk.c:773-776`), and a label that cannot be written before the commit (`disk.c:859-863`).

### UbikReplication (ubik.c, remote.c, recovery.c)

*State.* `db` is the database of each server: the label of the file, `dbase->version`,
the contents (the sequence of transactions in them), `told`, which is
`vote_globals.ubik_dbVersion`, and `remote`, which is `ubik_currentTrans`. `view` is what
`struct ubik_server` keeps of the others: `up`, `currentDB`, `beaconSinceDown` (`heard`) and
`version` (`known`). `rec` is `urecovery_state`, `task` is where the recovery thread stands,
`trans` the write transaction of a server with its phase and the servers still to be
called. `site`, `adv`, `epoch` and `sync` are what the election contributes: the one site
for which `amSyncSite()` holds, whether it is advertised, `ubik_epochTime`, and whom
`uvote_GetSyncSite` names. `acked` is a history variable: what was reported as committed.

*Actions.* A transaction is `BeginTrans`, `Write` (which stands for `ubik_Write` and
`ubik_Flush`), `AbortTrans`, `EndTrans` and `udisk_commit`; each starts a round of calls in
which `Call` is one call to one server with its handler (`Handle`), and which `BeginEnds`,
`WriteEnds`, `UndoEnds`, `AbortEnds`, `SetVersionEnds`, `CommitEnds` and `ReleaseEnds` end.
`CommitWait` is the wait of `ubik_EndTrans` for servers that are down. `Probe`, `StartFind`,
`FinishFind`, `Turn`, `Fetch`, `StartSend`, `Send` and `FinishSend` are the recovery thread
(`urecovery_Interact`), split where it gives up the database lock. `Elect`, `Expire`,
`Forget` and `Beacon` are the election and the effects of a vote on a database; a beacon
includes the vote of the site for itself at the end of the collection. `Crash` is a crash
with a restart, including the `DISK_UpdateInterfaceAddr` calls it makes.

*The database lock.* `Unlocked` says when other threads of a server get in: not while the
recovery thread transfers a database, and not while a transaction runs between two calls.
It is free during calls and in the commit wait. Every handler and every vote waits for it.

*Abstractions.* A call and its handler are one step, and so is a transfer; the answer may
be slow, since the round goes on only with a later step. `StartFind` asks all servers for
their versions at one instant, the code one after the other (`recovery.c:545-566`); what
changes between the answers and their use is part of the model. `BeginTrans` makes its tests
at once, the code waits for `DBWRITING` behind the test of `AllBetter`. A transaction flushes
its writes once. `SDISK_Commit` leaves out the relabelling of `udisk_commit`
(`disk.c:867-875`), which is for a sync site: a server that carries out the commit of another
one is none itself (checked with TLC from the start states of `replication`, with
`CommitsOutlive` too). A transfer that fails leaves either
nothing or a label with epoch 0 and an arbitrary counter (`tversion.counter` is
uninitialized). Beacons carry the version of the moment. `CommitWait` waits until a server
that was not heard no longer names the site, which is what waiting for `BIGTIME` achieves.
A site's belief in itself lasts as long as its term. The number of servers is odd, where the
extra vote of the magic host makes no difference. Not modelled: votes of no, clones,
`DISK_Lock`, the escape of the commit wait after `10*BIGTIME` and that of the wait for
`DBWRITING` after 500 rounds, local I/O errors.

*Assumptions.* `NoTrans`, which stands for a null pointer, is no transaction
(`NoTransAssumption`). With `CommitsOutlive = FALSE` no site is elected between the test for the
sync site in `ubik_EndTrans` and the last answer to `DISK_Commit`. The code does not
enforce this: `replication_outlive` shows what happens otherwise. `SendInv` of the proofs
rests on the wait for `DBWRITING` having no end (500 rounds in the code, `recovery.c:791`).

### BosFs (fsbnodeops.c, bnode.c, bosoprocs.c)

*State.* `b` is the `struct fsbnode`: the sets `running`, `sdw` and `kill` stand for the
flags `xxxRunning`, `xxxSDW` and `xxxKillSent` of the five processes; `timer` is
`BNODE_NEEDTIMEOUT`, `waited` the timeouts since `timeSDStarted`; `salFile` is the file
`SALVAGE.<instance>`, the only part that survives a reboot. `proc` is what the operating
system knows: a process that has ended stays until `bproc` has seen it. `rpc` is the
thread of `SBOZO_Restart`. History variables are `wanted` (the goal last asked for),
`crossed` (that was a stop, and it came while `SBOZO_Restart` was waiting), `dirty` (a file
server was killed and not salvaged since) and `spawnFailed`.

*Actions.* The bos server's threads are LWPs that switch only where they wait, so one
action is one whole handler: `Timeout` and `ProcExit` are the two halves of `bproc`'s loop
with `fs_timeout` and `fs_procexit`, which end in `NudgeProcs` and `SetNeedsClock`; `Call`
is `SBOZO_SetStatus` and `SBOZO_SetTStatus`; `Restart` and `WaitStatus` are
`SBOZO_Restart` before and in its wait. `ProcEnds`, `ProcFails` are the processes
(external), `Reboot` a reboot with `ReadBozoFile`. A spawn may fail in every action that
starts a process.

*Abstractions.* Time is counted in timeouts of the bnode; the window of 30 seconds in which
restarts are counted ends at any exit (`fresh`). A process that ignores its signal is
*stubborn*; SIGKILL always works. Core files, the notifier, authorization and the
creation and deletion of bnodes by calls are left out, and so are children that outlive a
bos server which ends without a reboot. The branch of `NudgeProcs` that kills a salvager
beside a file server is left out, too: `SalvagerAlone` is proved, so it is never taken.

### Callbacks (callback.c, host.c, afsfileprocs.c, the cache manager's side)

*State.* `cbs` are the `CallBack` entries (`BREAKING` is `CBFLAG_BREAKING`, `LATER` a
delayed entry on a file entry with `FE_LATER`), `flags` the `hostFlags`, `lock` the locks of
the hosts, `thread` what the threads of calls and the fsync thread keep on their stacks,
`promise` what each client believes of each file: nothing, a current or a stale version.

*Actions.* A step runs from one place where `H_LOCK` is dropped to the next. `CallPreamble`,
`InitReply` and `BulkReply` are the admission of a call with `BreakDelayedCallBacks_r`;
`Fetch`, `AddCallBack1`, `GetSomeSpace`, `ClearReply` and `Reply` a fetch, with the reclaim of
callbacks when the table is full; `Update`, `BreakCallBack`, `MultiReply`, `MultiEnd` an update;
`GiveUpCallBacks`, `GiveUpAllCallBacks` the client's own calls; `BreakVolumeCallBacksLater`,
`BreakLaterCallBacks`, `MultiBreakVolumeCallBack`, `DeleteAllCallBacks`, `NextHosts` and
`LeftOvers` the break of a volume; `CheckHost` and `CleanupTimedOutCallBacks` the periodic
checks. An RPC succeeds, is lost, or is carried out with its reply lost. On the client,
`ClearCallBack` drops promises, and a promise in a reply is refused if a break came since
the call (`afs_allCBs`).

*Abstractions.* One volume. A read lock on a vnode is held by an update until its breaks are
done, so a fetch may share it and another update may not (`Holders`). Alternate addresses of
a host are one more try of the same RPC. Time is left out: a callback may time out at
the server once the client's promise is gone (`ServerBias`). Hosts are neither created nor
deleted; `Init` has hosts that were reset, and hosts whose first reset failed. Files keep a
name: the update that removes the last one ends in `DeleteFileCallBacks`
(`afsfileprocs.c:3318-3350`, `callback.c:955-984`), which drops all entries, delayed ones too,
without a break, and is not modelled; `StaleIsRemembered` is about files that exist. A break
of the volume makes a client refuse every reply under way (`Raced`), the code those of files
that it has cached. An entry that is being broken and becomes delayed loses
`CBFLAG_BREAKING`, so that the code may tell its host once more. The fsync thread may look
again at the host that did not fit into a batch, if space had to be made meanwhile. `CheckHost` may find a call in progress, since the time
of the last call is tested before the lock is taken. Clients are assumed to give up a callback
only without a promise or a call on the file (the server does not check it).

### Composition

`UbikDisk!Database`, the database that the files stand for, maps `UbikDisk` onto
`UbikStore` (`INSTANCE ... WITH db <- Database`). `UbikReplication` rests on both others by
what they promise: a server's store commits and relabels in one step, and survives a
crash so, as `UbikStore`; there is one site at a time, with the newest epoch, as
`UbikSite`, onto which `ActingSite` and `EpochHolder` map `UbikElection`. `Elect` of
`UbikReplication` always takes a later epoch; a site that is elected twice within
one second, or that goes on after its term had run out, keeps the same one in
`UbikElection`, and the former is not part of `UbikReplication`.

## 4. The runs

| run | checks | result |
|---|---|---|
| `election` | `TypeOK`, `AtMostOneSyncSite`, `PromisesBackTerms`, `EpochsOrdered`, `AdvertisedWhenTold`, `ElectsSite` (refinement of `UbikSite`) with three servers, one clock behind, lost and late beacons, a crash and a restart | holds |
| `disk` | `TypeOK`, `ReadersSeeCommitted`, `WriterSeesOwnWrites`, `CommitsAreAtomic` (refinement of `UbikStore`) | holds |
| `disk_errors` | `ReadersSeeCommitted` with failing syncs and torn records | holds |
| `disk_torn` | `ReplayedLogIsWhole`, what `recovery.c:265` says | violated (finding) |
| `replication` | `TypeOK`, `CommittedSurvives`, `CommitsAreWhole`: a third election and a second transaction, with one crash, lost call, lost answer or interrupted transfer, or with a server that lags behind; no election in a commit | holds |
| `replication_outlive` | `CommittedSurvives`, what `ubik.c:873` says, when an election falls into a commit | violated (finding) |
| `replication_versions` | `VersionsNameContents`, what `remote.c:779` and `recovery.c:41` say, without an election in a commit | violated (finding) |
| `bos` | `TypeOK`, `SalvagerAlone`, `KilledIsSalvaged`, `GoalIsWanted`; `StopsInTheEnd`, `RestartReturns`, `ServesInTheEnd` under fairness | holds |
| `bos_hang` | `HangingIsKilled`, what `fsbnodeops.c:699` says | violated (finding) |
| `callbacks` | `TypeOK`, `StaleIsRemembered`: a client with outdated data is being told, or there is a record that it must be | holds |
| `callbacks_return` | `UpdatesReturn` under fairness: `BreakCallBack` ends although clients go on fetching | holds |
| `callbacks_volume` | `CallersAreTold`, what `callback.c:73-78` says | violated (finding) |

**Bounds.** *Election*: three servers are the least with a majority that excludes
someone, and the magic vote matters for two of them only if one is missing, which
happens whenever one is not asked. `BIGTIME = SMALLTIME = 2` with `MAXSKEW = 1` is the
tightest setting that `TimeAssumption` allows, so that an error of one second in any
comparison shows; three ticks (the clock runs from 3 to 6) let a promise be made, used, run
out and be given to another candidate. Two collections are the least in which two sites compete; the proofs lift all
of these bounds.
*Disk*: three blocks on two pages give a page with two blocks and a shared page; one or
two buffers make the pool full; two changes a transaction cover overwriting and both
pages; two transactions and two crashes cover a crash of the replay and a log that comes
back during the next transaction.

*Replication*: three servers again. The runs do not start from the initial state, but from
states that it leads to and that most behaviours pass through: `SettledInit`, the second term
of the first site, with everyone on its database; `LaggingInit`, the first term of a second
site, with a transaction that the first one missed; `InterruptedInit`, after a second site has
crashed in its first commit. That they are reachable was checked with TLC by the invariants
`NotSettled`, `NotLagging` and `NotInterrupted`, which it refutes (the last two from the
settled first term, itself reached from `Init`). `SettledInit` leaves one fault, one election
and one transaction: a crash, a lost call or an interrupted transfer at every place of two
terms. In `LaggingInit` the fault has happened; one more election and transaction let a site
with an old database win, and the old site's threads and transactions meet the new ones.
`InterruptedInit` also has its fault behind it; the violation needs two more transactions and
no further fault. Two faults, and three transactions with faults, are beyond what TLC
finishes in minutes; simulations of `CommittedSurvives` with five elections, four
transactions and three faults found no violation. The last term within the bound ends by a
crash only. Symmetry is over servers that the start state does not tell apart.

*Bos*: both kinds of bnode, one fault (a process that fails or a spawn), two calls of
administrators and one reboot, in any order; the second exit counts as too many, so that
error stops and retries happen; one timeout is enough to kill a volume server and two to
kill a file server, which keeps both orders. There is no scanner: it is treated like the
volume server in every line. `bos_hang` allows two faults and no calls.

*Callbacks*: two clients (one updates, one is to be told) and two calls at once beside the
fsync thread; batches of one host and one fid make every loop over batches go round;
two callback entries make the table full in `callbacks`; the volume changes once. One file
is enough, since a fid matters only by being the same, another one, or the volume. In
`callbacks_return` there is space for all entries and no volume change, so that the loop
of `BreakCallBack` is what is looked at. Neither run bounds the number of calls, fetches,
updates or failures: their state spaces are complete for these constants.

**Deadlock** is checked in the callback runs, where it would be a set of threads waiting for
each other's host locks. It is not checked in the election and the replication runs, where
the bounds on time, elections and transactions end behaviours, nor in the bos runs, where
a bnode with nothing to do and no timer really stops.

**Fairness.** `BosFs!Fairness`: `bproc` runs its timers and collects children in an endless
loop, and a thread that was woken runs (LWP scheduling); a process that was sent SIGKILL
ends, one that was asked to end does so unless it is stubborn, and a salvage finishes.
Weak fairness suffices, as none of these is disabled by others for ever. No fairness for
calls, faults and reboots. `ServesInTheEnd` also assumes that the goal stays 1, that no
spawn failed (a failed spawn is not retried by the code) and that no process hangs
(`bos_hang` shows why). `Callbacks!FairSpec`: a thread in `BreakCallBack` is scheduled and
its RPCs return, at the latest by the dead time of Rx; the lock of a host whose RPC failed
becomes free since its holder waits for an RPC only. Nothing makes clients call. The other
runs check safety only; liveness of the election is not checked.

Every property of a passing run has a mutant in `PROJECT.json`: a definition with a
plausible bug (`Free_Early`, `Dedup_Keeps`, ...) under which TLC finds the property
violated.

## 5. The proofs

### The election: UbikElectionProofs

`UbikElectionProofs` proves, for every set of servers and clones, every number of
crashes, collections and messages and all timers that satisfy the assumptions:

* `TypeCorrect`: `Spec => []TypeOK`;
* `PromisesBackTermsCorrect`: `Spec => []PromisesBackTerms`;
* `AtMostOneSyncSiteCorrect`: `Spec => []AtMostOneSyncSite`;
* `EpochsOrderedCorrect`: `Spec => EpochsOrdered`;
* `AdvertisedWhenToldCorrect`: `Spec => AdvertisedWhenTold`;
* `ElectsSiteCorrect`: `Spec => ElectsSite`, the refinement of `UbikSite`.

*Assumptions.* `ServerAssumption` (a finite set of addresses, at least one voter) and
`TimeAssumption`, of which the essential part is `BIGTIME + 1 >= SMALLTIME + MAXSKEW`;
`ubik.p.h` asks for `BIGTIME - SMALLTIME > MAXSKEW`, so the proof shows two seconds to
spare. TLC evaluates both on every run.

*Argument.* `AtMostOneSyncSite` is not inductive: it says nothing of votes. The inductive
invariant is `TypeOK /\ PromisesBackTerms`. It says that (1) a voter remembers a promise
at least as late as any it made, even after a crash, when it may forget to whom; (2)
every vote that a candidate has counted, and (3) every vote behind a term, is *kept*:
since then the voter has promised nothing to anybody else, or did so only after
`BIGTIME` by its own clock; (4) the same of the last epoch. Two majorities share a voter
(lemma `QuorumsMeet`, from the weights of the votes, the magic one included). If two
sites acted at once, this voter's vote for one of them was followed by a promise to the
other more than `BIGTIME` later by its clock, which is past the end of the first one's
term by that one's clock (lemma `LostVoteExpired`, the only place where the timers
matter). Each action keeps each part; crashes keep (1) because `uvote_Init` pretends to
have just voted.

*The refinement* needs `SiteInv` besides: who claims to be sync site has the newest epoch. It
is not inductive for acting sites alone, since a term may run out and be prolonged by the
votes that are counted afterwards; so a site *claims* (`Claims`) also while it still has
`ubik_amSyncSite` set and a majority of votes young enough to act upon (`GoesOn`). By the
argument above at most one server claims (`OneClaim`), a step that elects nobody makes nobody
claim anew (`ClaimStep`, one step per action; here it matters that `amSyncSite()` clears the
flag of a term that has run out before the site votes for itself), and an election gives its
winner the newest epoch. The acting site then never changes directly from one server to another.

### Local storage: UbikDiskProofs and UbikStoreProofs

For any number of positions, page and pool sizes, values, transactions and crashes:

* `TypeCorrect`: `Spec => []TypeOK`;
* `ReadersSeeCommittedCorrect` and `WriterSeesOwnWritesCorrect`, if `NoGaps`;
* `CommitsAreAtomicCorrect`, if `NoGaps`, `~TornWrites` and `~SyncErrors`: `UbikDisk`
  implements `UbikStore` under the mapping `Database`.

*Assumptions.* `NoGaps` says that a truncation cuts off at most the last position, and with
it its whole page, so that no later write leaves a gap. It is needed: `udisk_write` raises a
pending truncation to the end of the new data without clearing what lies between, and
`DTrunc` keeps a page that is cut in half, so that file and replay differ. Only the test
server calls `ubik_Truncate` (`utst_server.c:208`). `~TornWrites` and `~SyncErrors` leave out a log that is
cut inside `LOGEND` and a sync of the log that fails and is done later anyhow; with either
of them alone TLC finds the refinement violated, which is the finding `disk_torn` and the
remark on `LOGABORT` below. The two properties of readers and writers do not need them.

*Argument.* What a transaction reads rests on `PoolInv`: a page has at most one dirty buffer
(`OneDirty`; the copies that readers make are clean), a clean buffer holds what the file
holds, except between the write of the pages and `DSync`, which drops such copies; and what
the transaction has asked for is in the dirty buffer of a page or else in the file. Four
lemmas about the pool (which buffer is found, evicted, renewed and dropped) carry it. The
refinement needs `FileInv` besides, which says for each step of a commit, an abort or a
replay how the log ends (`LogInv`), which of the three labels agree (`LabelInv`), where the
file may differ from what a crash leaves of it, namely only where the log has a change
(`StableInv`), and that the log redone on the file gives what was asked for (`DataInv`). Redoing
a log is idempotent and forgets what it overwrites: `Redone` is defined by the last record that
changes a position, so the lemmas on it need no induction, only that a set of records has a
last one (`LastExists`, from `WFMin`). One lemma per action then shows that `FileInv` is
kept and that the step is one of `UbikStore` or changes nothing that it sees (`Simulates`): a
commit happens at the sync of `LOGEND`, everything after it, crashes of the commit and of the
replay included, leaves `Database` as it is.

### Replication: UbikReplicationProofs

For any odd number of servers, any number of elections, transactions, crashes and lost
calls, elections in the middle of a commit included (`CommitsOutlive` is free), and from
`ReplicationAssumption` alone:

* `TypeCorrect`: `Spec => []TypeOK`;
* `CommitsAreWholeCorrect`: `Spec => []CommitsAreWhole`. A server that carries out
  `DISK_Commit` of a site commits the transaction of that site, and all of its writes.

*Argument.* The types need `BestInv` besides: whenever the recovery thread fetches, now or in
a later turn, `bestServer` names a server, since only a version that is newer than its own
makes a thread fetch, and a failed transfer, which leaves `UBIK_RECFOUNDDB` without
`UBIK_RECHAVEDB`, keeps `bestServer`. `CommitsAreWhole` says nothing of the calls before the commit; the invariant
`TransInv` does. `EpochInv`: the sync site has the newest epoch, and no two servers have
transactions of the same epoch, so that a tid has one owner although old sites go on.
`TidInv`: a remote transaction is never one that its owner begins later. Together with
`urecovery_CheckTid`, which ends what is older or of another epoch, a remote transaction that
a call finds is that of the caller. `WroteInv`: a server that is still taken for current and
to which the writes have gone has them, if it has the transaction; a server whose call failed
is marked, and one that was passed over is taken out at the end of the round. No server becomes
current again during the transaction, since the recovery thread sends databases only while
there is none (`SendInv`). Steps that leave transactions alone are covered by two lemmas
(`KeptInv`, `FrameInv`): all of recovery, elections and crashes goes through them, and only
`BeginTrans`, the rounds and the calls need an argument of their own.

### The first term: UbikTermProofs

For any odd number of servers, any number of transactions, crashes, restarts, lost calls and
answers and interrupted transfers, from `ReplicationAssumption` and `NoTransAssumption`:

* `VersionsNameContentsFirstTerm`: `Spec => [](elections <= 1 => VersionsNameContents)`;
* `CommittedSurvivesFirstTerm`: `Spec => [](elections <= 1 => CommittedSurvives)`.

`elections <= 1` holds before the first election, during the first term, and after its end
for as long as no other site is elected, while transactions, commit waits and recovery of the
old site run on. The hypothesis is needed: in later terms both properties are refuted, by the
runs `replication_versions` and `replication_outlive`. Within it nothing is assumed of timing
or of faults.

*Argument.* The inductive invariant adds `TermInv` to that of `UbikReplicationProofs`. Before the
election all is as at the start (`Fresh`). After it there is one server `c` (`Led`) such that the
others have no transaction and do not recover (`OnlySite`); no version in a file, in a view or
in the recovery thread is newer than that of `c`, so that `c` never fetches (`NoneNewer`); and
what was, or may still be, reported is in the database of `c` (`AckedKept`). The core is
`Copies`: the counter of a label that is not the mark of an interrupted transfer is the length
of the database it names, and that database is a prefix of the one of `c` (`Copy`), which
gives `VersionsNameContents` at once. `Copy` is kept by a commit only if the server that
carries it out has the database just before it: servers that `c` takes for current have its
version, or, if a call of the commit to them is still to come, the one before
(`CurrentAgree`, `Pending`, `Before`); and it is kept by the first label of the term only
if nobody that lacks the database is taken for current before it (`Unlabelled`,
`LabelsHold`). That the transaction on both sides is the same one is `CommitsAreWhole`. Most
steps leave databases, views and transactions of `c` alone and go through `TermStep`;
a database that grows goes through `GrowStep`.

### The bos server: BosFsProofs

For both kinds of bnode, any numbers of faults, calls, reboots and timeouts:

* `TypeCorrect`, `SalvagerAloneCorrect`, `GoalIsWantedCorrect`: without hypotheses;
* `KilledIsSalvagedCorrect`, if `"salv" \notin Fallible`: no salvager ends unasked before
  its work is done. It is needed: `fs_procexit` (`fsbnodeops.c:842`) takes any end of a
  salvager that was not asked for as a salvage done. The `bos` run has it as well.

*Argument.* The inductive invariant `Inv` adds to `TypeOK` that the flags of the bnode agree
(`Sound`): a file server that runs has `needsSalvage` set, the file `SALVAGE.<instance>`
says the same, and the salvager runs only with the flag and alone; and that an error
stop, whose retry sets the goal to 1, is one of a bnode that was asked to run or whose stop a
restart has undone, and a restart that waits has been asked for last or is crossed by a stop
(`Goals`). `GoalIsWanted` allows what `SBOZO_Restart` does to such a stop, and nothing else. `NudgeProcs` keeps `Sound` from any state
that satisfies it, which is the core of the proof, since every handler ends in it. A killed
file server is followed by no other one because `Salvaged` ties `dirty` to `needsSalvage`,
until a salvager ends that nobody stopped.

### Callbacks: CallbacksProofs

For any sets of hosts, files and threads, any size of the table and of batches, and without
hypotheses: `TypeCorrect` and `StaleIsRememberedCorrect`.

*Argument.* `StaleIsRemembered` looks only at stale promises; the inductive part `Remembered`
is about all of them: a client with a promise, or with a reply under way that
carries one, has an entry, or is *covered*: a thread is telling it, a break is
delayed, or the flags of the host ask for a reset. A stale one is covered, or has an entry
that a thread is about to break. `OneEntry` (a host has one entry for a file that is not
delayed) makes sure that what is taken out of the table is what was promised, `ThreadsOK`
says what threads keep on their stacks between two places where they give up `H_LOCK`.
Most steps change one thread and one host; lemmas on what such a step leaves alone are
shared by all actions.

### Only model-checked

* `CommittedSurvives` of `UbikReplication` after a second election. It holds within the bounds
  of the run `replication`, if no site is elected in a commit, and is refuted without that
  condition. Until a second site is elected it is proved.
* Liveness: `StopsInTheEnd`, `RestartReturns`, `ServesInTheEnd`, `UpdatesReturn`. Fairness is out
  of the prover's reach.

## 6. Findings

* `disk_torn`: pass 1 of `ReplayLog` takes the opcode of `LOGEND` for the whole record; a
  log cut inside it is applied to the database and then rejected.
* `replication_outlive`: `ubik_EndTrans` asks once whether it is sync site. If its calls
  last until another site has been elected and has asked a majority for their versions,
  `DISK_Commit` may still be carried out by a member of that majority, and the old site
  reports a transaction as committed that the new one does not have. The same timing also
  lets two servers hold different databases under one version: a commit that is aborted by
  `DISK_SendFile` of the new site while it has given up the lock (`disk.c:875`) goes on and
  counts up a version that is not its own.
* `replication_versions`: equal versions do not mean equal databases, even if no site is elected
  in a commit. The second site has committed its first transaction, version (4,2), and crashes
  before its calls of `DISK_Commit`; the third server only has the label (4,1) that announced
  the commit. The first server is elected with the vote of the third, finds (4,1) there,
  fetches it, and goes to work with the third server as current. Then the second server is
  back: the recovery thread finds (4,2) on it and fetches that, while a transaction has begun
  with the third server, so that nothing is sent for now. Nothing resets `currentDB` of the
  third server (`recovery.c:877` and `893` only set it). The next beacon tells it (4,2); and
  `SDISK_SetVersion` compares the old version of the call with what the beacon told, not with
  the version of its own database (`remote.c:784`). So the new label, which at the sync site
  names the database of (4,2), is put on the old one. The comment above that test says "Set
  the label if our version matches the sync-site's".
* `bos_hang`: the branch of `NudgeProcs` for a file server that must be salvaged asks the
  volume server to end and returns without `SetNeedsClock`. The timer was off while all
  ran normally, so that a volume server that ignores SIGTERM is never killed, and neither
  a salvage nor a file server is started.
* `callbacks_volume`: `MultiBreakVolumeCallBack_r` sees `VENUSDOWN` and waits for the lock of
  the host. If a call of the host is let in meanwhile, which clears `VENUSDOWN`, it then
  clears `RESETDONE` of a host that is up. The volume break is not sent, and the reset
  that should replace it is not done until the host is next taken to be down.

Further disagreements that were seen while modelling and have no run of their own:

* A stop of an administrator that comes while `SBOZO_Restart` waits for the same bnode to shut
  down is undone: the restart goes on to set the goal to 1 (`bosoprocs.c:1056`), although the
  stop was answered with success. `bos_shutdown.pod:42-45` says: "Once stopped with this
  command, a process does not run again until an administrator starts it by using the bos
  start, bos startup, or bos restart command". `GoalIsWanted` exempts this case (`crossed`);
  TLC refutes it without the exemption.
* `CallersAreTold` is violated without a volume change, too (`MaxChanges = 0`), by a longer
  behaviour: a bulk break fails and turns `RESETDONE` off; a call of that host that was
  already admitted adds a callback; an update delays it; the next call resets the client and
  leaves the delayed entry (`callback.c:1066-1071`); the next fetch returns a promise, but
  keeps the entry delayed (`callback.c:609`), and `BreakCallBack` skips delayed entries.
* `fs_timeout` resets the error delay while processes of an error-stopped bnode are still
  ending; when they have ended, `SetNeedsClock` turns the timer off, and the start
  is never retried (`fsbnodeops.c:761`, against "halted for errors, retry later", line 889).
* A `LOGABORT` behind a `LOGEND` whose sync failed does not prevent the replay
  (`disk.c:936-937` says that it does).
* `uvote_GetSyncSite` may name an old sync site while a new one acts, since a claim counts
  for `SMALLTIME` even if its collection failed elsewhere (`vote.c:72-75`).
* A server that was passed over when a transaction began may hand out old data after the
  transaction was reported as committed, until the next beacon (`ubik.c:221-224`).

## 7. Not modelled

*Ubik*: locks (`lock.c`, `DISK_Lock`) and read transactions beyond the test that admits
them; truncations that leave a gap behind a later write (only the test server calls
`ubik_Truncate`); read errors, and other file system errors than those of a sync of the log; the waits that give up after a
long time; a `BeginTrans` that waits between its tests; address exchange, debug calls,
security objects, the application cache and the file descriptor cache.

*File server*: the life of host structures (creation, deletion, addresses, UUIDs), the file
entries of callbacks, `DeleteFileCallBacks` and the removal of a file's last name, the callback state that a demand attach file server saves at a
shutdown, volumes and vnodes except for the lock that orders updates and fetches.

*Bos server*: simple and cron bnodes, the notifier, authorization, binaries.

*Everything else* in the inventory: FSSYNC, volume transactions and LWP locks are in the plan.
Rx, of which the models use only that a call may be lost or its reply be lost, the cache
manager beyond its side of callbacks, and the Windows client are far larger than what is
modelled here: kernel and protocol code whose state (packets, windows, pages, vnode locks)
would need models of its own. The location, protection and backup servers are sequential
applications of Ubik; the salvager and tools are batch programs over file formats.
