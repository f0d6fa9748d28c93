------------------------------ MODULE UbikDisk ------------------------------
(***************************************************************************)
(* The local storage of a Ubik server: the page buffers and the log of     *)
(* disk.c, the files of phys.c and the replay of the log in recovery.c.    *)
(*                                                                         *)
(* A write transaction appends its changes to the log and makes them in    *)
(* dirty buffers.  udisk_commit appends LOGEND and syncs the log, and only *)
(* then writes the buffers to the database file, labels it and cuts the    *)
(* log.  After a crash the log is replayed, if it holds a LOGEND.          *)
(*                                                                         *)
(* Every operation runs under the database lock, except that udisk_commit  *)
(* gives the lock up while it tells the other servers of a new label.      *)
(* A position of this module stands for a block of bytes that reaches the  *)
(* disk as a whole; a position after the end of the file reads as zero.    *)
(* Once LOGEND is synced, an error of the database file makes the server   *)
(* panic, which is a crash.  Errors before that are left out, except for   *)
(* those of the log: a page that cannot be read (DRead), and a label that  *)
(* cannot be written when a commit starts an epoch.                        *)
(***************************************************************************)
EXTENDS Integers, Sequences

CONSTANTS
    Size,          \* number of positions of the database file
    PageSize,      \* UBIK_PAGESIZE, in positions
    Val,           \* what a position may hold
    NoTrans,       \* no write transaction is active
    NoTrunc,       \* the transaction truncates nothing
    BufferCounts,  \* the values ubik_nBuffers may have
    TruncTo,       \* lengths the transactions truncate the file to
    TornWrites,    \* may a crash cut a log record in two?
    SyncErrors,    \* may fsync of the log report an error?
    MaxOps,        \* bound on the changes of a transaction
    MaxTrans,      \* bound on the number of transactions
    MaxEpoch,      \* bound on the epochs of the labels
    MaxCrashes     \* bound on the number of crashes

Pos == 0..(Size - 1)
Page == {p \div PageSize : p \in Pos}
PagePos(page) == {p \in Pos : p \div PageSize = page}

ASSUME SizeAssumption ==
    /\ Size \in Nat \ {0} /\ PageSize \in Nat \ {0}
    /\ 0 \in Val
    /\ NoTrans \notin [Pos -> Val] /\ NoTrunc \notin 0..Size
    /\ BufferCounts \subseteq Nat \ {0}
    /\ TruncTo \subseteq 0..Size
    /\ TornWrites \in BOOLEAN /\ SyncErrors \in BOOLEAN
    /\ MaxOps \in Nat /\ MaxTrans \in Nat /\ MaxEpoch \in Nat /\ MaxCrashes \in Nat

VARIABLES
    pc,        \* what the process is doing
    nbuffers,  \* ubik_nBuffers
    \* the files
    disk,      \* the database file and its label, as the server reads them
    stable,    \* what of them a crash certainly leaves
    log,       \* the records of the log, those in the stdio buffer included
    synced,    \* the number of records that a crash certainly leaves
    oldLog,    \* what the log held before it was cut, while that may be undone
    \* the process
    version,   \* dbase->version
    buffers,   \* the buffers of the pool, least recently used first
    trunc,     \* activeTruncs: the length the file is to be truncated to
    broken,    \* a write or the sync of the log failed: the caller aborts at once (TRDONE)
    pos,       \* how far the replay has got in the log
    work,      \* history: the contents the active transaction has asked for
    begun, crashes

fileVars == <<disk, stable, log, synced, oldLog>>
transVars == <<trunc, broken, work>>
vars == <<pc, nbuffers, fileVars, version, buffers, transVars, pos, begun, crashes>>

NoVersion == [epoch |-> 0, counter |-> 0]

-----------------------------------------------------------------------------
(* The log: begin, data, truncation, commit and abort records.             *)

LogNew == [op |-> "new"]
LogData(p, v) == [op |-> "data", pos |-> p, val |-> v]
LogTruncate(len) == [op |-> "truncate", len |-> len]
LogEnd(ver) == [op |-> "end", version |-> ver]
LogAbort == [op |-> "abort"]
\* The opcode of a LOGEND without the version that follows it.
LogTorn == [op |-> "torn"]

\* buffered_append: the records may stay in the stdio buffer.
LogAppend(r) == log' = Append(log, r) /\ UNCHANGED <<synced, oldLog>>

\* Mutant: an fsync that does nothing.
SyncLogFile_Lazy == UNCHANGED <<synced, oldLog, log>>

\* fsync of the log; it also makes an earlier truncation of the log permanent.
SyncLogFile == synced' = Len(log) /\ oldLog' = <<>> /\ UNCHANGED log

\* fsync of the database file.
SyncFile(d) == stable' = d /\ disk' = d /\ oldLog' = <<>>

\* ftruncate of the log, which the disk may learn of much later.
CutLogFile(l) == log' = <<>> /\ synced' = 0 /\ oldLog' = l

\* Pass 1 of ReplayLog: the log holds a LOGEND, and no LOGABORT before it.
LogIsGood(l) ==
    \E i \in 1..Len(l) :
        /\ l[i].op \in {"end", "torn"}
        /\ \A j \in 1..(i - 1) : l[j].op # "abort"

\* Where a record changes the database file, and into what.
Changes(r, p) == (r.op = "data" /\ r.pos = p) \/ (r.op = "truncate" /\ r.len <= p)
NewValue(r) == IF r.op = "data" THEN r.val ELSE 0

\* ftruncate of the database file, for what a reader sees.
Truncated(d, len) == [p \in Pos |-> IF p >= len THEN 0 ELSE d[p]]

-----------------------------------------------------------------------------
(* The buffer pool.                                                        *)

Buffer(page, dirty, data) == [page |-> page, dirty |-> dirty, data |-> data]

\* A buffer of no file (BADFID).
FreeBuffer == Buffer(-1, FALSE, <<>>)

Slots == 1..nbuffers

FromDisk(page) == [p \in PagePos(page) |-> disk.data[p]]

MatchBuffer(b, page, writer) == b.page = page /\ (writer \/ ~b.dirty)

\* Mutant: a writer takes any matching buffer.
Found_Any(page, writer) == {i \in Slots : MatchBuffer(buffers[i], page, writer)}

(***************************************************************************)
(* The buffers DRead may return: a matching one, of which a writer prefers *)
(* the dirty one.                                                          *)
(***************************************************************************)
Found(page, writer) ==
    LET match == {i \in Slots : MatchBuffer(buffers[i], page, writer)}
        dirty == {i \in match : buffers[i].dirty}
    IN  IF dirty # {} THEN dirty ELSE match

\* Dmru: the pool after buffer i was filled with b and became the most recent one.
MostRecent(i, b) ==
    [j \in Slots |-> IF j = nbuffers THEN b
                     ELSE IF j < i THEN buffers[j] ELSE buffers[j + 1]]

Clean == {i \in Slots : ~buffers[i].dirty}

\* Only a pool full of dirty buffers has no slot for another page.
HasSlot == Clean # {}

\* Mutant: the pool may grow.
NewSlot_Grows(b) == HasSlot /\ buffers' = Append(buffers, b)

\* newslot: a free buffer (which Dlru has put first), or else the least recently used
\* clean one, is taken for b.
NewSlot(b) ==
    LET free == {i \in Clean : buffers[i] = FreeBuffer}
        slots == IF free # {} THEN free ELSE Clean
    IN  \E i \in slots : (\A j \in slots : i <= j) /\ buffers' = MostRecent(i, b)

\* The pool without the buffers in S; Dlru will make newslot prefer their slots.
Without(S) == [i \in Slots |-> IF i \in S THEN FreeBuffer ELSE buffers[i]]

\* Mutant: DSync leaves the copies that read transactions have made.
Dedup_Keeps == [i \in Slots |-> [buffers[i] EXCEPT !.dirty = FALSE]]

\* DSync: dirty buffers become clean, and DedupBuffer drops their older copies.
Dedup ==
    LET copies == {i \in Clean : \E j \in Slots \ Clean : buffers[j].page = buffers[i].page}
    IN  [i \in Slots |-> [Without(copies)[i] EXCEPT !.dirty = FALSE]]

\* DTrunc drops the pages that lie behind the new end of the file as a whole.
Zapped(len) ==
    Without({i \in Slots : buffers[i].page >= (len + PageSize - 1) \div PageSize})

\* Mutant: the buffers keep what the aborted transaction wrote.
DAbort_Keeps == Dedup

\* DAbort drops the dirty buffers.
DAbort == Without(Slots \ Clean)

-----------------------------------------------------------------------------
(* Transactions.                                                           *)

Active == work # NoTrans

\* The database lock is free.
Unlocked == pc \in {"up", "commit"}

\* DRead of a whole page by a read transaction, which may be of any kind.  It fails, and
\* changes nothing, when the pool is full of dirty buffers.
Read(page) ==
    /\ Unlocked
    /\ \/ \E i \in Found(page, FALSE) : buffers' = MostRecent(i, buffers[i])
       \/ /\ Found(page, FALSE) = {}
          /\ NewSlot(Buffer(page, FALSE, FromDisk(page)))
    /\ UNCHANGED <<pc, nbuffers, fileVars, version, transVars, pos, begun, crashes>>

\* udisk_begin of a write transaction.
Begin ==
    /\ pc = "up" /\ ~Active
    /\ begun < MaxTrans /\ begun' = begun + 1
    /\ LogAppend(LogNew)
    /\ work' = disk.data
    /\ UNCHANGED <<pc, nbuffers, disk, stable, version, buffers, trunc, broken, pos, crashes>>

\* "expand any truncations of this file"
Expand(len, p) == IF len # NoTrunc /\ len < p + 1 THEN p + 1 ELSE len

(***************************************************************************)
(* udisk_write: first the log, then the buffer.  The write fails if there  *)
(* is no buffer for the page, although its record is in the log; then      *)
(* ubik_Write calls udisk_abort, and a transaction that is done can be     *)
(* neither written nor committed (UTWOENDS).                               *)
(***************************************************************************)
Write(p, v) ==
    LET page == p \div PageSize
    IN  /\ pc = "up" /\ Active /\ ~broken
        /\ Len(log) <= MaxOps
        /\ LogAppend(LogData(p, v))
        /\ trunc' = Expand(trunc, p)
        /\ \/ \E i \in Found(page, TRUE) :
                 /\ buffers' = MostRecent(i, Buffer(page, TRUE, [buffers[i].data EXCEPT ![p] = v]))
                 /\ work' = [work EXCEPT ![p] = v]
                 /\ UNCHANGED broken
           \/ /\ Found(page, TRUE) = {}
              /\ NewSlot(Buffer(page, TRUE, [FromDisk(page) EXCEPT ![p] = v]))
              /\ work' = [work EXCEPT ![p] = v]
              /\ UNCHANGED broken
           \/ /\ Found(page, TRUE) = {} /\ ~HasSlot
              /\ broken' = TRUE
              /\ UNCHANGED <<buffers, work>>
        /\ UNCHANGED <<pc, nbuffers, disk, stable, version, pos, begun, crashes>>

\* udisk_truncate: the file itself is truncated at commit time.
Truncate(len) ==
    /\ pc = "up" /\ Active /\ ~broken
    /\ Len(log) <= MaxOps
    /\ LogAppend(LogTruncate(len))
    /\ trunc' = IF trunc = NoTrunc \/ len < trunc THEN len ELSE trunc
    /\ work' = Truncated(work, len)
    /\ UNCHANGED <<pc, nbuffers, disk, stable, version, buffers, broken, pos, begun, crashes>>

-----------------------------------------------------------------------------
(* udisk_commit, one step for each call after which the server may crash.  *)

\* The sync site's first commit labels the database with its own epoch, before
\* it tells the other servers and goes on; any other commit goes on at once.  A broken
\* transaction is not committed: ubik_Write and ubik_EndTrans abort it.
StartCommit ==
    /\ pc = "up" /\ Active /\ ~broken
    /\ \/ \E e \in (version.epoch + 1)..MaxEpoch :
             /\ version' = [epoch |-> e, counter |-> 1]
             /\ SyncFile([disk EXCEPT !.label = version'])
             /\ pc' = "commit"
             /\ UNCHANGED <<log, synced>>
       \/ /\ pc' = "logend"
          /\ UNCHANGED <<version, fileVars>>
    /\ UNCHANGED <<nbuffers, buffers, transVars, pos, begun, crashes>>

\* udisk_LogEnd, before its sync.
WriteLogEnd ==
    /\ pc \in {"commit", "logend"}
    /\ version' = [version EXCEPT !.counter = @ + 1]
    /\ LogAppend(LogEnd(version'))
    /\ pc' = "sync log"
    /\ UNCHANGED <<nbuffers, disk, stable, buffers, transVars, pos, begun, crashes>>

\* The sync of udisk_LogEnd commits the transaction.
SyncLog ==
    /\ pc = "sync log"
    /\ SyncLogFile
    /\ work' = NoTrans
    /\ pc' = "flush"
    /\ UNCHANGED <<nbuffers, disk, stable, version, buffers, trunc, broken, pos, begun, crashes>>

\* The sync reports an error: the caller will abort the transaction.
SyncLogFails ==
    /\ SyncErrors
    /\ pc = "sync log"
    /\ version' = [version EXCEPT !.counter = @ - 1]
    /\ broken' = TRUE
    /\ pc' = "up"
    /\ UNCHANGED <<nbuffers, fileVars, buffers, trunc, work, pos, begun, crashes>>

\* DFlush: the dirty buffers are written to the file.
Flush ==
    /\ pc = "flush"
    /\ disk' = [disk EXCEPT !.data = [p \in Pos |->
          LET dirty == {i \in Slots \ Clean : p \in PagePos(buffers[i].page)}
          IN  IF dirty = {} THEN disk.data[p] ELSE buffers[CHOOSE i \in dirty : TRUE].data[p]]]
    /\ pc' = "sync"
    /\ UNCHANGED <<nbuffers, stable, log, synced, oldLog, version, buffers, transVars,
                   pos, begun, crashes>>

\* DSync
Sync ==
    /\ pc = "sync"
    /\ SyncFile(disk)
    /\ buffers' = Dedup
    /\ pc' = "truncate"
    /\ UNCHANGED <<nbuffers, log, synced, version, transVars, pos, begun, crashes>>

\* DoTruncs
DoTruncs ==
    /\ pc = "truncate"
    /\ \/ /\ trunc = NoTrunc
          /\ UNCHANGED <<disk, buffers>>
       \/ /\ trunc # NoTrunc
          /\ disk' = [disk EXCEPT !.data = Truncated(@, trunc)]
          /\ buffers' = Zapped(trunc)
    /\ trunc' = NoTrunc
    /\ pc' = "label"
    /\ UNCHANGED <<nbuffers, stable, log, synced, oldLog, version, broken, work,
                   pos, begun, crashes>>

\* setlabel, before its fsync.
SetLabel ==
    /\ pc = "label"
    /\ disk' = [disk EXCEPT !.label = version]
    /\ pc' = "sync label"
    /\ UNCHANGED <<nbuffers, stable, log, synced, oldLog, version, buffers, transVars,
                   pos, begun, crashes>>

SyncLabel ==
    /\ pc = "sync label"
    /\ SyncFile(disk)
    /\ pc' = "cut"
    /\ UNCHANGED <<nbuffers, log, synced, version, buffers, transVars, pos, begun, crashes>>

\* "discard log (optional)", and the end of the transaction.
CutLog ==
    /\ pc = "cut"
    /\ CutLogFile(log)
    /\ pc' = "up"
    /\ UNCHANGED <<nbuffers, disk, stable, version, buffers, transVars, pos, begun, crashes>>

(***************************************************************************)
(* udisk_abort: the abort is logged, then the log is cut and the dirty     *)
(* buffers are dropped.  An error of the sync is ignored.                  *)
(***************************************************************************)
WriteLogAbort ==
    /\ pc = "up" /\ Active
    /\ log' = Append(log, LogAbort)
    /\ \/ synced' = Len(log') /\ oldLog' = <<>>
       \/ SyncErrors /\ UNCHANGED <<synced, oldLog>>
    /\ pc' = "abort"
    /\ UNCHANGED <<nbuffers, disk, stable, version, buffers, transVars, pos, begun, crashes>>

Abort ==
    /\ pc = "abort"
    /\ CutLogFile(log)
    /\ buffers' = DAbort
    /\ trunc' = NoTrunc /\ broken' = FALSE /\ work' = NoTrans
    /\ pc' = "up"
    /\ UNCHANGED <<nbuffers, disk, stable, version, pos, begun, crashes>>

-----------------------------------------------------------------------------
(* Crashes and the replay of the log.                                      *)

\* What may be left of the log: the synced records and any number of those
\* after them, or what the log held before it was cut.
CrashedLogs ==
    {SubSeq(log, 1, n) : n \in synced..Len(log)}
        \cup (IF oldLog = <<>> THEN {} ELSE {oldLog})
        \cup {Append(SubSeq(log, 1, n), LogTorn) :
                n \in {m \in synced..(Len(log) - 1) : TornWrites /\ log[m + 1].op = "end"}}

\* What may be left of the database file: of each block the old or the new.
CrashedDisks ==
    {[data |-> d, label |-> l] :
        d \in {f \in [Pos -> Val] : \A p \in Pos : f[p] \in {disk.data[p], stable.data[p]}},
        l \in {disk.label, stable.label}}

Crash ==
    /\ pc # "down"
    /\ crashes < MaxCrashes /\ crashes' = crashes + 1
    /\ pc' = "down"
    /\ log' \in CrashedLogs /\ synced' = Len(log') /\ oldLog' = <<>>
    /\ disk' \in CrashedDisks /\ stable' = disk'
    /\ buffers' = [i \in Slots |-> FreeBuffer] /\ version' = NoVersion
    /\ trunc' = NoTrunc /\ broken' = FALSE /\ work' = NoTrans /\ pos' = 0
    /\ UNCHANGED <<nbuffers, begun>>

\* ReplayLog, pass 1: is there anything to replay?
StartReplay ==
    /\ pc = "down"
    /\ IF LogIsGood(log) THEN pc' = "replay" /\ pos' = 1
                         ELSE pc' = "cut log" /\ pos' = 0
    /\ UNCHANGED <<nbuffers, fileVars, version, buffers, transVars, begun, crashes>>

\* ReplayLog, pass 2: one record before the LOGEND.
ReplayRecord ==
    /\ pc = "replay" /\ log[pos].op \in {"new", "data", "truncate"}
    /\ disk' = [disk EXCEPT !.data = [p \in Pos |->
                    IF Changes(log[pos], p) THEN NewValue(log[pos]) ELSE @[p]]]
    /\ pos' = pos + 1
    /\ UNCHANGED <<pc, nbuffers, stable, log, synced, oldLog, version, buffers, transVars,
                   begun, crashes>>

\* Pass 2 reaches the LOGEND: the label is written, but not yet synced.
ReplayEnd ==
    /\ pc = "replay" /\ log[pos].op = "end"
    /\ disk' = [disk EXCEPT !.label = log[pos].version]
    /\ pc' = "sync replay"
    /\ UNCHANGED <<nbuffers, stable, log, synced, oldLog, version, buffers, transVars, pos,
                   begun, crashes>>

\* Pass 2 finds no version in the LOGEND: UBADLOG, and the server does not start.
ReplayFails ==
    /\ pc = "replay" /\ log[pos].op = "torn"
    /\ pc' = "down" /\ pos' = 0
    /\ UNCHANGED <<nbuffers, fileVars, version, buffers, transVars, begun, crashes>>

\* The fsync of setlabel and the sync at the end of the replay.
SyncReplay ==
    /\ pc = "sync replay"
    /\ SyncFile(disk)
    /\ pc' = "cut log" /\ pos' = 0
    /\ UNCHANGED <<nbuffers, log, synced, version, buffers, transVars, begun, crashes>>

\* The log is cut and InitializeDB reads the label; a new file gets one.
InitializeDB ==
    /\ pc = "cut log"
    /\ \/ /\ disk.label # NoVersion
          /\ CutLogFile(log)
          /\ version' = disk.label
          /\ UNCHANGED <<disk, stable>>
       \/ /\ disk.label = NoVersion
          /\ version' = [epoch |-> 1, counter |-> 1]
          /\ log' = <<>> /\ synced' = 0
          /\ SyncFile([disk EXCEPT !.label = version'])
    /\ pc' = "up"
    /\ UNCHANGED <<nbuffers, buffers, transVars, pos, begun, crashes>>

-----------------------------------------------------------------------------
Init ==
    /\ pc = "down"
    /\ nbuffers \in BufferCounts
    /\ disk = [data |-> [p \in Pos |-> 0], label |-> NoVersion]
    /\ stable = disk
    /\ log = <<>> /\ synced = 0 /\ oldLog = <<>>
    /\ version = NoVersion
    /\ buffers = [i \in Slots |-> FreeBuffer]
    /\ trunc = NoTrunc /\ broken = FALSE /\ work = NoTrans
    /\ pos = 0 /\ begun = 0 /\ crashes = 0

Commit ==
    \/ StartCommit \/ WriteLogEnd \/ SyncLog \/ SyncLogFails \/ Flush \/ Sync
    \/ DoTruncs \/ SetLabel \/ SyncLabel \/ CutLog

Recover ==
    \/ StartReplay \/ ReplayRecord \/ ReplayEnd \/ ReplayFails \/ SyncReplay
    \/ InitializeDB

Next ==
    \/ \E page \in Page : Read(page)
    \/ Begin
    \/ \E p \in Pos, v \in Val : Write(p, v)
    \/ \E len \in TruncTo : Truncate(len)
    \/ Commit
    \/ WriteLogAbort \/ Abort
    \/ Crash
    \/ Recover

Spec == Init /\ [][Next]_vars

-----------------------------------------------------------------------------
(* What the storage promises.                                              *)

Version == [epoch : Nat, counter : Nat]
File == [data : [Pos -> Val], label : Version]
Record ==
    [op : {"new", "abort", "torn"}] \cup [op : {"data"}, pos : Pos, val : Val]
        \cup [op : {"truncate"}, len : TruncTo] \cup [op : {"end"}, version : Version]
Buffers ==
    {FreeBuffer} \cup
        UNION {[page : {page}, dirty : BOOLEAN, data : [PagePos(page) -> Val]] : page \in Page}

TypeOK ==
    /\ pc \in {"down", "replay", "sync replay", "cut log", "up", "commit", "logend",
               "sync log", "flush", "sync", "truncate", "label", "sync label", "cut",
               "abort"}
    /\ nbuffers \in BufferCounts
    /\ disk \in File /\ stable \in File
    /\ log \in Seq(Record) /\ oldLog \in Seq(Record)
    /\ synced \in 0..Len(log) /\ pos \in 0..Len(log)
    /\ version \in Version
    /\ buffers \in [Slots -> Buffers]
    /\ trunc \in 0..Size \cup {NoTrunc} /\ broken \in BOOLEAN
    /\ work \in [Pos -> Val] \cup {NoTrans}

\* The contents d after the first n records of the log l, of which the last one about
\* a position wins.
Redone(l, n, d) ==
    [p \in Pos |->
        LET about == {i \in 1..n : Changes(l[i], p)}
        IN  IF about = {} THEN d[p]
            ELSE NewValue(l[CHOOSE i \in about : \A j \in about : j <= i])]

\* The database that the files hold now: once a LOGEND is safe, the file as the
\* log will change it.
Database ==
    IF ~\E i \in 1..synced : log[i].op = "end" THEN disk
    ELSE [data |-> Redone(log, synced, disk.data),
          label |-> log[CHOOSE i \in 1..synced : log[i].op = "end"].version]

Store == INSTANCE UbikStore WITH db <- Database

\* The storage implements UbikStore: at every instant, with all crashes before,
\* during and after a commit or a replay, the files hold exactly the committed
\* database or, from the sync of LOGEND on, its successor (udisk_commit, ReplayLog).
CommitsAreAtomic == Store!StoreSpec

\* The contents of page that a transaction would be given by DRead.
View(page, writer) ==
    IF Found(page, writer) = {} THEN {FromDisk(page)}
    ELSE {buffers[i].data : i \in Found(page, writer)}

\* Whenever a read transaction can run, it gets the committed contents, whatever
\* an active write transaction has in its buffers (MatchBuffer, DedupBuffer, DAbort).
ReadersSeeCommitted ==
    Unlocked => \A page \in Page :
        View(page, FALSE) = {[p \in PagePos(page) |-> Database.data[p]]}

\* A write transaction reads what it has written, even when buffers are short and
\* read transactions have made clean copies of its pages (DRead).
WriterSeesOwnWrites ==
    Unlocked /\ Active /\ trunc = NoTrunc => \A page \in Page :
        View(page, TRUE) = {[p \in PagePos(page) |-> work[p]]}

\* What the comment in ReplayLog says of its second pass: "log should go all the
\* way through the commit record, since we just read it above".
ReplayedLogIsWhole ==
    pc = "replay" => \E i \in 1..Len(log) : log[i].op = "end"

=============================================================================
