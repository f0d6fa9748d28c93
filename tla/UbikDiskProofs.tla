--------------------------- MODULE UbikDiskProofs ---------------------------
(***************************************************************************)
(* Proofs about UbikDisk: its types and what its transactions read, for    *)
(* every size of the file and of its pages, every number of buffers,       *)
(* transactions and crashes.                                               *)
(***************************************************************************)
EXTENDS UbikDisk, TLAPS

(***************************************************************************)
(* Truncations cut off the last position only, and with it its whole page. *)
(* Others are out of the code's reach: DTrunc keeps the buffer of a page   *)
(* that is cut in two, and a write behind the new end makes DoTruncs keep  *)
(* what lies before it.                                                    *)
(***************************************************************************)
CutsOff(len) ==
    \A p \in Pos : p >= len =>
        p + 1 = Size /\ p \div PageSize >= (len + PageSize - 1) \div PageSize

NoGaps == \A len \in TruncTo : CutsOff(len)

-----------------------------------------------------------------------------
(* The inductive invariants.                                               *)

\* The types, and what keeps the replay within the log and the counter positive.
TypeInv ==
    /\ TypeOK
    /\ pc \notin {"replay", "sync replay"} => pos = 0
    /\ pc = "replay" => pos >= 1 /\ \E i \in pos..Len(log) : log[i].op \in {"end", "torn"}
    /\ pc = "sync log" => version.counter >= 1

\* Slot i holds a change of page.
Dirty(i, page) == buffers[i].dirty /\ buffers[i].page = page

\* A page has one dirty buffer at most.
OneDirty ==
    \A page \in Page : \A i, j \in Slots : Dirty(i, page) /\ Dirty(j, page) => i = j

\* Only an active transaction and the commit of one need dirty buffers.
DirtyInv ==
    /\ OneDirty
    /\ \/ pc \in {"up", "commit", "logend", "sync log", "abort"} /\ Active
       \/ pc \in {"flush", "sync"} /\ ~Active
       \/ ~Active /\ \A i \in Slots : ~buffers[i].dirty
    /\ pc \in {"commit", "logend", "sync log"} => Active

\* A clean buffer holds what the file holds, but for the copies that DSync will drop;
\* and there is none while the log is replayed.
CleanInv ==
    /\ \A page \in Page : \A i \in Slots :
          buffers[i].page = page /\ (buffers[i].dirty => pc = "sync") =>
            \/ buffers[i].data = FromDisk(page)
            \/ pc = "sync" /\ ~buffers[i].dirty /\ \E j \in Slots : Dirty(j, page)
    /\ pc \in {"down", "replay", "sync replay", "cut log"} =>
          \A i \in Slots : buffers[i] = FreeBuffer

\* A dirty buffer of its page shows v at p, or else the file does.
Shows(p, v) ==
    /\ \A i \in Slots : Dirty(i, p \div PageSize) => buffers[i].data[p] = v
    /\ (\A i \in Slots : ~Dirty(i, p \div PageSize)) => disk.data[p] = v

Behind(p) == trunc # NoTrunc /\ p >= trunc

\* What the transaction has asked for is in the buffers and the file, up to the
\* truncation it is waiting for (unless a write behind that has failed).
WorkInv ==
    Active /\ (broken => trunc = NoTrunc) =>
        \A p \in Pos : IF Behind(p) THEN work[p] = 0 ELSE Shows(p, work[p])

\* A truncation waits only for the transaction that asked for it.
TruncInv ==
    trunc # NoTrunc => CutsOff(trunc) /\ (Active \/ pc \in {"flush", "sync", "truncate"})

\* No LOGEND is safe before the sync that commits.
NoEndInv ==
    pc \in {"up", "commit", "logend", "sync log"} => \A i \in 1..synced : log[i].op # "end"

PoolInv == DirtyInv /\ CleanInv /\ WorkInv /\ TruncInv /\ NoEndInv

-----------------------------------------------------------------------------
(* The buffer pool.                                                        *)

\* The page of a position is a page, and no page has the number of a free buffer.
LEMMA PageFacts ==
    /\ \A p \in Pos : p \div PageSize \in Page /\ p \in PagePos(p \div PageSize)
    /\ \A page \in Page : page \in Int /\ page # -1
<1>1. ASSUME NEW p \in Pos PROVE p \div PageSize \in Nat
    BY SizeAssumption DEF Pos
<1>2. ASSUME NEW page \in Page PROVE page \in Int /\ page # -1
    BY <1>1 DEF Page
<1> QED
    BY <1>2 DEF Page, PagePos

\* A buffer is free or holds contents of one page.
LEMMA BufferFacts ==
    /\ \A b \in Buffers :
          /\ b.dirty \in BOOLEAN
          /\ \/ b = FreeBuffer /\ b.page = -1 /\ b.dirty = FALSE
             \/ b.page \in Page /\ b.data \in [PagePos(b.page) -> Val]
    /\ FreeBuffer \in Buffers /\ FreeBuffer.page = -1 /\ FreeBuffer.dirty = FALSE
<1> DEFINE Holding(page) == [page : {page}, dirty : BOOLEAN, data : [PagePos(page) -> Val]]
<1>1. Buffers = {FreeBuffer} \cup UNION {Holding(page) : page \in Page}
    BY DEF Buffers
<1>2. FreeBuffer \in Buffers /\ FreeBuffer.page = -1 /\ FreeBuffer.dirty = FALSE
    BY <1>1 DEF FreeBuffer, Buffer
<1>3. ASSUME NEW b \in Buffers, b # FreeBuffer
      PROVE  b.dirty \in BOOLEAN /\ b.page \in Page /\ b.data \in [PagePos(b.page) -> Val]
    <2>1. PICK page \in Page : b \in Holding(page)
        BY <1>1, <1>3
    <2> QED
        BY <2>1
<1> QED
    BY <1>2, <1>3

\* The buffers of a page.
LEMMA HoldingFacts ==
    ASSUME NEW page \in Page, NEW dirty \in BOOLEAN, NEW data \in [PagePos(page) -> Val]
    PROVE  LET b == Buffer(page, dirty, data)
           IN  b \in Buffers /\ b.page = page /\ b.dirty = dirty /\ b.data = data
<1>1. Buffer(page, dirty, data) \in
          [page : {page}, dirty : BOOLEAN, data : [PagePos(page) -> Val]]
    BY DEF Buffer
<1> QED
    BY <1>1 DEF Buffer, Buffers

\* The pool m is the old one in another order, with b in the slot that was i, and last.
Moved(m, from, i, b) ==
    /\ from \in [Slots -> Slots] /\ from[nbuffers] = i
    /\ \A j \in Slots : m[j] = IF j = nbuffers THEN b ELSE buffers[from[j]]
    /\ \A j, k \in Slots : from[j] = from[k] => j = k
    /\ \A k \in Slots : \E j \in Slots : from[j] = k

\* Dmru moves a slot to the end.
LEMMA MostRecentFacts ==
    ASSUME TypeOK, NEW i \in Slots, NEW b \in Buffers
    PROVE  /\ MostRecent(i, b) \in [Slots -> Buffers]
           /\ nbuffers \in Slots
           /\ \E from : Moved(MostRecent(i, b), from, i, b)
<1> DEFINE from == [j \in Slots |-> IF j = nbuffers THEN i ELSE IF j < i THEN j ELSE j + 1]
           m == MostRecent(i, b)
<1>1. nbuffers \in Nat \ {0} /\ buffers \in [Slots -> Buffers]
    BY SizeAssumption DEF TypeOK
<1>2. nbuffers \in Slots /\ from \in [Slots -> Slots] /\ from[nbuffers] = i
    BY <1>1 DEF Slots
<1>3. \A j \in Slots : m[j] = IF j = nbuffers THEN b ELSE buffers[from[j]]
    BY <1>1 DEF MostRecent, Slots
<1>4. \A j, k \in Slots : from[j] = from[k] => j = k
    BY <1>1 DEF Slots
<1>5. ASSUME NEW k \in Slots PROVE \E j \in Slots : from[j] = k
    <2>1. CASE k = i
        BY <1>2, <2>1
    <2>2. CASE k < i
        <3>1. k # nbuffers
            BY <1>1, <2>2 DEF Slots
        <3>2. from[k] = k
            BY <2>2, <3>1
        <3> QED
            BY <3>2
    <2>3. CASE k > i
        <3>1. k - 1 \in Slots /\ from[k - 1] = k
            BY <1>1, <2>3 DEF Slots
        <3> QED
            BY <3>1
    <2> QED
        BY <1>1, <2>1, <2>2, <2>3 DEF Slots
<1>6. m \in [Slots -> Buffers]
    <2>1. m = [j \in Slots |-> m[j]]
        BY DEF MostRecent
    <2>2. \A j \in Slots : m[j] \in Buffers
        BY <1>1, <1>2, <1>3
    <2> QED
        BY <2>1, <2>2
<1> HIDE DEF from, m
<1>7. Moved(m, from, i, b)
    BY <1>2, <1>3, <1>4, <1>5 DEF Moved
<1> QED
    BY <1>2, <1>6, <1>7 DEF m

\* newslot fills a clean slot.
LEMMA NewSlotFacts ==
    ASSUME NEW b, NewSlot(b)
    PROVE  \E i \in Clean : buffers' = MostRecent(i, b)
<1> DEFINE free == {i \in Clean : buffers[i] = FreeBuffer}
           slots == IF free # {} THEN free ELSE Clean
<1>1. slots \subseteq Clean
    OBVIOUS
<1>2. PICK i \in slots : buffers' = MostRecent(i, b)
    BY DEF NewSlot
<1> QED
    BY <1>1, <1>2

\* The other operations clean and drop buffers in place.
LEMMA InPlaceFacts ==
    ASSUME TypeOK
    PROVE  /\ Clean = {i \in Slots : ~buffers[i].dirty}
           /\ \A S : /\ Without(S) \in [Slots -> Buffers]
                     /\ \A i \in Slots : Without(S)[i] = IF i \in S THEN FreeBuffer ELSE buffers[i]
           /\ DAbort \in [Slots -> Buffers]
           /\ \A i \in Slots : DAbort[i] = IF buffers[i].dirty THEN FreeBuffer ELSE buffers[i]
           /\ Dedup \in [Slots -> Buffers]
           /\ \A i \in Slots : ~Dedup[i].dirty
           /\ \A i \in Slots : Dedup[i].page # -1 =>
                 /\ Dedup[i].page = buffers[i].page /\ Dedup[i].data = buffers[i].data
                 /\ ~buffers[i].dirty => \A j \in Slots : ~Dirty(j, buffers[i].page)
<1> DEFINE copies == {i \in Clean : \E j \in Slots \ Clean : buffers[j].page = buffers[i].page}
<1>1. buffers \in [Slots -> Buffers]
    BY DEF TypeOK
<1>2. ASSUME NEW S
      PROVE  /\ Without(S) \in [Slots -> Buffers]
             /\ \A i \in Slots : Without(S)[i] = IF i \in S THEN FreeBuffer ELSE buffers[i]
    BY <1>1, BufferFacts DEF Without
<1>3. \A i \in Slots : DAbort[i] = IF buffers[i].dirty THEN FreeBuffer ELSE buffers[i]
    BY <1>2 DEF DAbort, Clean
<1>4. ASSUME NEW i \in Slots
      PROVE  /\ Dedup[i] \in Buffers /\ ~Dedup[i].dirty
             /\ Dedup[i].page # -1 =>
                 /\ Dedup[i].page = buffers[i].page /\ Dedup[i].data = buffers[i].data
                 /\ ~buffers[i].dirty => \A j \in Slots : ~Dirty(j, buffers[i].page)
    <2> DEFINE x == Without(copies)[i]
    <2>1. x \in Buffers /\ x = IF i \in copies THEN FreeBuffer ELSE buffers[i]
        BY <1>2
    <2>2. Dedup[i] = [x EXCEPT !.dirty = FALSE]
        BY DEF Dedup
    <2> HIDE DEF x
    <2>3. CASE x = FreeBuffer
        BY <2>2, <2>3, BufferFacts DEF FreeBuffer, Buffer
    <2>4. CASE x # FreeBuffer
        <3>1. x = buffers[i] /\ i \notin copies
            BY <2>1, <2>4
        <3>2. x.page \in Page /\ x.data \in [PagePos(x.page) -> Val] /\ x.page # -1
            BY <2>1, <2>4, BufferFacts, PageFacts
        <3>3. Dedup[i] = Buffer(x.page, FALSE, x.data)
            <4>1. PICK page \in Page : x \in [page : {page}, dirty : BOOLEAN, data : [PagePos(page) -> Val]]
                BY <2>1, <2>4 DEF Buffers
            <4> QED
                BY <2>2, <4>1 DEF Buffer
        <3>4. /\ Dedup[i] \in Buffers /\ ~Dedup[i].dirty
              /\ Dedup[i].page = x.page /\ Dedup[i].data = x.data
            <4> DEFINE b == Buffer(x.page, FALSE, x.data)
            <4>1. b \in Buffers /\ b.page = x.page /\ b.dirty = FALSE /\ b.data = x.data
                BY <3>2, HoldingFacts
            <4> QED
                BY <3>3, <4>1
        <3>5. ASSUME ~buffers[i].dirty, NEW j \in Slots PROVE ~Dirty(j, buffers[i].page)
            BY <3>1, <3>5 DEF Dirty, Clean
        <3> QED
            BY <3>1, <3>4, <3>5
    <2> QED
        BY <2>3, <2>4
<1>5. Dedup \in [Slots -> Buffers]
    <2>1. Dedup = [i \in Slots |-> Dedup[i]]
        BY DEF Dedup
    <2> QED
        BY <1>4, <2>1
<1> QED
    BY <1>2, <1>3, <1>4, <1>5 DEF DAbort, Clean

-----------------------------------------------------------------------------
(* Types.                                                                  *)

\* The records of the log are records.
LEMMA RecordFacts ==
    /\ LogNew \in Record /\ LogAbort \in Record /\ LogTorn \in Record
    /\ \A p \in Pos, v \in Val : LogData(p, v) \in Record
    /\ \A len \in TruncTo : LogTruncate(len) \in Record
    /\ \A ver \in Version : LogEnd(ver) \in Record
BY DEF LogNew, LogAbort, LogTorn, LogData, LogTruncate, LogEnd, Record

\* What a record is made of.
LEMMA RecordFields ==
    ASSUME NEW r \in Record
    PROVE  /\ r.op \in {"new", "abort", "torn", "data", "truncate", "end"}
           /\ r.op = "data" => r.pos \in Pos /\ r.val \in Val
           /\ r.op = "truncate" => r.len \in TruncTo
           /\ r.op = "end" => r.version \in Version
BY DEF Record

\* What a record writes is a value.
LEMMA NewValueType ==
    ASSUME NEW r \in Record PROVE NewValue(r) \in Val
BY RecordFields, SizeAssumption DEF NewValue

\* An append leaves the earlier records alone.
LEMMA AppendFacts ==
    ASSUME NEW l \in Seq(Record), NEW r \in Record
    PROVE  /\ Append(l, r) \in Seq(Record)
           /\ Len(l) \in Nat /\ Len(Append(l, r)) = Len(l) + 1
           /\ \A i \in 1..Len(l) : Append(l, r)[i] = l[i]
           /\ Append(l, r)[Len(l) + 1] = r
OBVIOUS

\* A log that was cut.
LEMMA EmptyLog == <<>> \in Seq(Record) /\ Len(<<>>) = 0
OBVIOUS

\* A log cut short is a log.
LEMMA PrefixFacts ==
    ASSUME NEW l \in Seq(Record), NEW n \in 0..Len(l)
    PROVE  /\ SubSeq(l, 1, n) \in Seq(Record) /\ Len(SubSeq(l, 1, n)) = n
           /\ \A i \in 1..n : SubSeq(l, 1, n)[i] = l[i]
OBVIOUS

\* The variables that most actions leave alone.
LEMMA FileType ==
    ASSUME NEW d \in File, NEW data \in [Pos -> Val], NEW label \in Version
    PROVE  /\ [d EXCEPT !.data = data] \in File /\ [d EXCEPT !.label = label] \in File
           /\ [data |-> data, label |-> label] \in File
           /\ d.data \in [Pos -> Val] /\ d.label \in Version
BY DEF File

\* The type invariant holds initially.
LEMMA InitType == Init => TypeInv
<1> SUFFICES ASSUME Init PROVE TypeInv
    OBVIOUS
<1>1. NoVersion \in Version
    BY DEF NoVersion, Version
<1>2. disk \in File
    BY <1>1, SizeAssumption DEF Init, File
<1>3. buffers \in [Slots -> Buffers]
    BY BufferFacts DEF Init
<1>4. log \in Seq(Record) /\ oldLog \in Seq(Record) /\ Len(log) = 0
    BY DEF Init
<1>5. /\ pc = "down" /\ nbuffers \in BufferCounts /\ stable = disk /\ version = NoVersion
      /\ synced = 0 /\ pos = 0 /\ trunc = NoTrunc /\ broken = FALSE /\ work = NoTrans
    BY DEF Init
<1>6. synced \in 0..Len(log) /\ pos \in 0..Len(log)
    <2>1. 0 \in 0..Len(log)
        BY <1>4
    <2> QED
        BY <1>5, <2>1
<1>7. TypeOK
    BY <1>1, <1>2, <1>3, <1>4, <1>5, <1>6 DEF TypeOK
<1> QED
    BY <1>5, <1>7 DEF TypeInv

\* A page read from the file is contents of that page.
LEMMA FromDiskType ==
    ASSUME TypeOK, NEW page \in Page
    PROVE  FromDisk(page) \in [PagePos(page) -> Val]
BY DEF TypeOK, File, FromDisk, PagePos

\* Reads keep the types.
LEMMA ReadType ==
    ASSUME TypeInv, NEW page \in Page, Read(page)
    PROVE  TypeInv'
<1>1. TypeOK
    BY DEF TypeInv
<1>2. buffers' \in [Slots -> Buffers]
    <2>1. CASE \E i \in Found(page, FALSE) : buffers' = MostRecent(i, buffers[i])
        <3>1. PICK i \in Found(page, FALSE) : buffers' = MostRecent(i, buffers[i])
            BY <2>1
        <3>2. i \in Slots /\ buffers[i] \in Buffers
            BY <1>1 DEF Found, TypeOK
        <3> QED
            BY <1>1, <3>1, <3>2, MostRecentFacts
    <2>2. CASE NewSlot(Buffer(page, FALSE, FromDisk(page)))
        <3>1. Buffer(page, FALSE, FromDisk(page)) \in Buffers
            BY <1>1, FromDiskType, HoldingFacts
        <3>2. PICK i \in Clean : buffers' = MostRecent(i, Buffer(page, FALSE, FromDisk(page)))
            BY <2>2, NewSlotFacts
        <3> QED
            BY <1>1, <3>1, <3>2, MostRecentFacts DEF Clean
    <2> QED
        BY <2>1, <2>2 DEF Read
<1>3. TypeOK'
    BY <1>1, <1>2 DEF TypeOK, Read, fileVars, transVars, Slots
<1> QED
    BY <1>3 DEF TypeInv, Read, fileVars

\* Changes of a transaction keep the types.
LEMMA BeginType ==
    ASSUME TypeInv, Begin
    PROVE  TypeInv'
<1>1. log' \in Seq(Record) /\ Len(log') = Len(log) + 1 /\ Len(log) \in Nat
    BY RecordFacts, AppendFacts DEF TypeInv, TypeOK, Begin, LogAppend
<1>2. work' \in [Pos -> Val]
    BY DEF TypeInv, TypeOK, File, Begin
<1>3. TypeOK'
    BY <1>1, <1>2 DEF TypeInv, TypeOK, Begin, LogAppend, Slots
<1> QED
    BY <1>3 DEF TypeInv, Begin

\* udisk_write: the log gets a record, the page of the write is put into the pool.
LEMMA WriteType ==
    ASSUME TypeInv, NEW p \in Pos, NEW v \in Val, Write(p, v)
    PROVE  TypeInv'
<1> DEFINE page == p \div PageSize
<1>1. TypeOK /\ page \in Page /\ p \in PagePos(page)
    BY PageFacts DEF TypeInv
<1>2. log' \in Seq(Record) /\ Len(log') = Len(log) + 1 /\ Len(log) \in Nat
    BY <1>1, RecordFacts, AppendFacts DEF TypeOK, Write, LogAppend
<1>3. trunc' \in 0..Size \cup {NoTrunc}
    BY <1>1, SizeAssumption DEF TypeOK, Write, Expand, Pos
<1>4. work \in [Pos -> Val]
    BY <1>1 DEF TypeOK, Write, Active
<1>5. ASSUME NEW i \in Found(page, TRUE)
      PROVE  /\ i \in Slots /\ buffers[i] \in Buffers /\ buffers[i].page = page
             /\ buffers[i].data \in [PagePos(page) -> Val]
    <2>1. i \in Slots /\ buffers[i] \in Buffers /\ buffers[i].page = page
        BY <1>1 DEF Found, MatchBuffer, TypeOK
    <2> QED
        BY <1>1, <2>1, BufferFacts, PageFacts
<1>6. ASSUME NEW data \in [PagePos(page) -> Val]
      PROVE  Buffer(page, TRUE, [data EXCEPT ![p] = v]) \in Buffers
    BY <1>1, <1>6, HoldingFacts
<1>7. buffers' \in [Slots -> Buffers] /\ work' \in [Pos -> Val] /\ broken' \in BOOLEAN
    <2>1. ASSUME NEW i \in Found(page, TRUE),
                 buffers' = MostRecent(i, Buffer(page, TRUE, [buffers[i].data EXCEPT ![p] = v]))
          PROVE  buffers' \in [Slots -> Buffers]
        BY <1>1, <1>5, <1>6, <2>1, MostRecentFacts
    <2>2. ASSUME NewSlot(Buffer(page, TRUE, [FromDisk(page) EXCEPT ![p] = v]))
          PROVE  buffers' \in [Slots -> Buffers]
        <3>1. Buffer(page, TRUE, [FromDisk(page) EXCEPT ![p] = v]) \in Buffers
            BY <1>1, <1>6, FromDiskType
        <3>2. PICK i \in Clean :
                  buffers' = MostRecent(i, Buffer(page, TRUE, [FromDisk(page) EXCEPT ![p] = v]))
            BY <2>2, NewSlotFacts
        <3> QED
            BY <1>1, <3>1, <3>2, MostRecentFacts DEF Clean
    <2>3. [work EXCEPT ![p] = v] \in [Pos -> Val] /\ broken \in BOOLEAN /\ buffers \in [Slots -> Buffers]
        BY <1>1, <1>4 DEF TypeOK
    <2> QED
        BY <2>1, <2>2, <2>3, <1>4 DEF Write
<1>8. TypeOK'
    <2>1. /\ pc' = pc /\ nbuffers' = nbuffers /\ disk' = disk /\ stable' = stable
          /\ version' = version /\ pos' = pos /\ synced' = synced /\ oldLog' = oldLog
        BY DEF Write, LogAppend
    <2>2. Slots' = Slots
        BY <2>1 DEF Slots
    <2>3. synced' \in 0..Len(log') /\ pos' \in 0..Len(log')
        <3>1. synced \in 0..Len(log) /\ pos \in 0..Len(log)
            BY <1>1 DEF TypeOK
        <3>2. synced \in 0..(Len(log) + 1) /\ pos \in 0..(Len(log) + 1)
            BY <1>2, <3>1
        <3> QED
            BY <1>2, <3>2, <2>1
    <2> QED
        BY <1>1, <1>2, <1>3, <1>7, <2>1, <2>2, <2>3 DEF TypeOK
<1> QED
    BY <1>8 DEF TypeInv, Write

\* udisk_truncate: the log gets a record, the pending truncation goes down.
LEMMA TruncateType ==
    ASSUME TypeInv, NEW len \in TruncTo, Truncate(len)
    PROVE  TypeInv'
<1>1. log' \in Seq(Record) /\ Len(log') = Len(log) + 1 /\ Len(log) \in Nat
    BY RecordFacts, AppendFacts DEF TypeInv, TypeOK, Truncate, LogAppend
<1>2. work' \in [Pos -> Val]
    BY SizeAssumption DEF TypeInv, TypeOK, Truncate, Truncated, Active
<1>3. trunc' \in 0..Size \cup {NoTrunc}
    BY SizeAssumption DEF TypeInv, TypeOK, Truncate
<1>4. TypeOK'
    BY <1>1, <1>2, <1>3 DEF TypeInv, TypeOK, Truncate, LogAppend, Slots
<1> QED
    BY <1>4 DEF TypeInv, Truncate

\* The steps of a commit keep the types.
LEMMA StartCommitType ==
    ASSUME TypeInv, StartCommit
    PROVE  TypeInv'
<1>1. TypeOK /\ disk \in File /\ version \in Version
    BY DEF TypeInv, TypeOK
<1>2. CASE pc' = "logend" /\ UNCHANGED <<version, fileVars>>
    <2>1. TypeOK'
        BY <1>1, <1>2 DEF TypeOK, StartCommit, fileVars, transVars, Slots
    <2> QED
        BY <1>2, <2>1 DEF TypeInv, StartCommit, fileVars
<1>3. CASE /\ \E e \in (version.epoch + 1)..MaxEpoch : version' = [epoch |-> e, counter |-> 1]
           /\ SyncFile([disk EXCEPT !.label = version'])
           /\ pc' = "commit"
           /\ UNCHANGED <<log, synced>>
    <2>1. version' \in Version
        BY <1>1, <1>3, SizeAssumption DEF Version
    <2>2. disk' \in File /\ stable' \in File /\ oldLog' \in Seq(Record)
        <3>1. disk' = [disk EXCEPT !.label = version'] /\ stable' = disk' /\ oldLog' = <<>>
            BY <1>3 DEF SyncFile
        <3>2. [disk EXCEPT !.label = version'] \in File
            BY <1>1, <2>1 DEF File
        <3> QED
            BY <3>1, <3>2
    <2>3. TypeOK'
        BY <1>1, <1>3, <2>1, <2>2 DEF TypeOK, StartCommit, transVars, Slots
    <2> QED
        BY <1>3, <2>3 DEF TypeInv, StartCommit
<1> QED
    BY <1>2, <1>3 DEF StartCommit

\* udisk_commit: LOGEND is written behind the records of the transaction.
LEMMA WriteLogEndType ==
    ASSUME TypeInv, WriteLogEnd
    PROVE  TypeInv'
<1>1. version' \in Version /\ version'.counter >= 1
    <2>1. version \in Version /\ version' = [version EXCEPT !.counter = version.counter + 1]
        BY DEF TypeInv, TypeOK, WriteLogEnd
    <2> QED
        BY <2>1 DEF Version
<1>2. log' \in Seq(Record) /\ Len(log') = Len(log) + 1 /\ Len(log) \in Nat
    BY <1>1, RecordFacts, AppendFacts DEF TypeInv, TypeOK, WriteLogEnd, LogAppend
<1>3. synced' \in 0..Len(log') /\ pos' \in 0..Len(log')
    <2>1. /\ synced' = synced /\ synced \in 0..Len(log)
          /\ pos' = pos /\ pos \in 0..Len(log)
        BY DEF TypeInv, TypeOK, WriteLogEnd, LogAppend
    <2> QED
        BY <1>2, <2>1
<1>4. TypeOK'
    BY <1>1, <1>2, <1>3 DEF TypeInv, TypeOK, WriteLogEnd, LogAppend, transVars, Slots
<1> QED
    BY <1>1, <1>4 DEF TypeInv, WriteLogEnd

\* udisk_commit: the sync of the log succeeds.
LEMMA SyncLogType ==
    ASSUME TypeInv, SyncLog
    PROVE  TypeInv'
<1>1. oldLog' \in Seq(Record) /\ synced' \in 0..Len(log')
    <2>1. log \in Seq(Record) /\ log' = log /\ synced' = Len(log) /\ oldLog' = <<>>
        BY DEF TypeInv, TypeOK, SyncLog, SyncLogFile
    <2> QED
        BY <2>1
<1>2. TypeOK'
    BY <1>1 DEF TypeInv, TypeOK, SyncLog, SyncLogFile, Slots
<1> QED
    BY <1>2 DEF TypeInv, SyncLog

\* udisk_commit: the sync of the log fails and the transaction is given up.
LEMMA SyncLogFailsType ==
    ASSUME TypeInv, SyncLogFails
    PROVE  TypeInv'
<1>1. version' \in Version
    <2>1. /\ version \in Version /\ version.counter >= 1
          /\ version' = [version EXCEPT !.counter = version.counter - 1]
        BY DEF TypeInv, TypeOK, SyncLogFails
    <2> QED
        BY <2>1 DEF Version
<1>2. broken' \in BOOLEAN
    BY DEF SyncLogFails
<1>3. TypeOK'
    BY <1>1, <1>2 DEF TypeInv, TypeOK, SyncLogFails, fileVars, Slots
<1> QED
    BY <1>3 DEF TypeInv, SyncLogFails

\* udisk_commit: DFlush writes the dirty pages into the file.
LEMMA FlushType ==
    ASSUME TypeInv, Flush
    PROVE  TypeInv'
<1> DEFINE dirty(p) == {i \in Slots \ Clean : p \in PagePos(buffers[i].page)}
           new == [p \in Pos |-> IF dirty(p) = {} THEN disk.data[p]
                                 ELSE buffers[CHOOSE i \in dirty(p) : TRUE].data[p]]
<1>1. TypeOK /\ disk \in File
    BY DEF TypeInv, TypeOK
<1>2. ASSUME NEW p \in Pos PROVE new[p] \in Val
    <2>1. CASE dirty(p) = {}
        BY <1>1, <2>1 DEF File
    <2>2. CASE dirty(p) # {}
        <3>1. PICK i \in dirty(p) : i = CHOOSE j \in dirty(p) : TRUE
            BY <2>2
        <3>2. i \in Slots /\ i \notin Clean /\ p \in PagePos(buffers[i].page)
            OBVIOUS
        <3>3. buffers[i] \in Buffers /\ buffers[i].dirty
            BY <1>1, <3>2 DEF TypeOK, Clean
        <3>4. buffers[i].data \in [PagePos(buffers[i].page) -> Val]
            BY <3>3, BufferFacts
        <3>5. buffers[i].data[p] \in Val
            BY <3>2, <3>4
        <3>6. new[p] = buffers[i].data[p]
            BY <2>2, <3>1
        <3> QED
            BY <3>5, <3>6
    <2> QED
        BY <2>1, <2>2
<1>3. disk' = [disk EXCEPT !.data = new]
    BY DEF Flush
<1>4. new \in [Pos -> Val]
    BY <1>2
<1> HIDE DEF new
<1>5. disk' \in File
    BY <1>1, <1>3, <1>4 DEF File
<1>6. TypeOK'
    BY <1>1, <1>5 DEF TypeOK, Flush, transVars, Slots
<1> QED
    BY <1>6 DEF TypeInv, Flush

\* udisk_commit: DSync, after which the file is what stays after a crash.
LEMMA SyncType ==
    ASSUME TypeInv, Sync
    PROVE  TypeInv'
<1>1. oldLog' \in Seq(Record) /\ buffers' \in [Slots -> Buffers]
    BY InPlaceFacts DEF TypeInv, Sync, SyncFile
<1>2. TypeOK'
    BY <1>1 DEF TypeInv, TypeOK, Sync, SyncFile, transVars, Slots
<1> QED
    BY <1>2 DEF TypeInv, Sync

\* udisk_commit: the pending truncation is carried out.
LEMMA DoTruncsType ==
    ASSUME TypeInv, DoTruncs
    PROVE  TypeInv'
<1>1. TypeOK /\ disk \in File
    BY DEF TypeInv, TypeOK
<1>2. disk' \in File
    <2>1. Truncated(disk.data, trunc) \in [Pos -> Val]
        BY <1>1, SizeAssumption DEF Truncated, File
    <2>2. [disk EXCEPT !.data = Truncated(@, trunc)] = [disk EXCEPT !.data = Truncated(disk.data, trunc)]
        BY <1>1 DEF File
    <2> QED
        BY <1>1, <2>1, <2>2 DEF DoTruncs, File
<1>3. buffers' \in [Slots -> Buffers]
    BY <1>1, InPlaceFacts DEF DoTruncs, Zapped, TypeOK
<1>4. TypeOK'
    BY <1>1, <1>2, <1>3 DEF TypeOK, DoTruncs, Slots
<1> QED
    BY <1>4 DEF TypeInv, DoTruncs

\* udisk_commit and relabelling: the label is written and synced.
LEMMA LabelType ==
    ASSUME TypeInv, SetLabel \/ SyncLabel \/ CutLog
    PROVE  TypeInv'
<1>1. TypeOK /\ disk \in File /\ version \in Version
    BY DEF TypeInv, TypeOK
<1>2. CASE SetLabel
    <2>1. disk' \in File
        BY <1>1, <1>2 DEF SetLabel, File
    <2>2. TypeOK'
        BY <1>1, <1>2, <2>1 DEF TypeOK, SetLabel, transVars, Slots
    <2> QED
        BY <1>2, <2>2 DEF TypeInv, SetLabel
<1>3. CASE SyncLabel
    <2>1. TypeOK'
        <3>1. disk' = disk /\ stable' = disk /\ oldLog' = <<>>
            BY <1>3 DEF SyncLabel, SyncFile
        <3> QED
            BY <1>1, <1>3, <3>1, EmptyLog DEF TypeOK, SyncLabel, transVars, Slots
    <2> QED
        BY <1>3, <2>1 DEF TypeInv, SyncLabel
<1>4. CASE CutLog
    <2>1. log' \in Seq(Record) /\ Len(log') = 0 /\ pos' = 0 /\ synced' = 0
        BY <1>4 DEF CutLog, CutLogFile, TypeInv
    <2>2. TypeOK'
        BY <1>1, <1>4, <2>1 DEF TypeOK, CutLog, CutLogFile, transVars, Slots
    <2> QED
        BY <1>4, <2>1, <2>2 DEF TypeInv, CutLog
<1> QED
    BY <1>2, <1>3, <1>4

\* Aborts keep the types.
LEMMA AbortType ==
    ASSUME TypeInv, WriteLogAbort \/ Abort
    PROVE  TypeInv'
<1>1. TypeOK
    BY DEF TypeInv
<1>2. CASE WriteLogAbort
    <2>1. log' \in Seq(Record) /\ Len(log') = Len(log) + 1 /\ Len(log) \in Nat
        BY <1>1, <1>2, RecordFacts, AppendFacts DEF TypeOK, WriteLogAbort
    <2>2. oldLog' \in Seq(Record) /\ synced' \in 0..Len(log') /\ pos' \in 0..Len(log')
        <3>1. /\ synced \in 0..Len(log) /\ pos \in 0..Len(log) /\ pos' = pos
              /\ oldLog \in Seq(Record)
            BY <1>1, <1>2 DEF TypeOK, WriteLogAbort
        <3>2. \/ synced' = Len(log') /\ oldLog' = <<>>
              \/ synced' = synced /\ oldLog' = oldLog
            BY <1>2 DEF WriteLogAbort
        <3>3. pos \in 0..Len(log') /\ synced \in 0..Len(log') /\ Len(log') \in 0..Len(log')
            BY <2>1, <3>1
        <3> QED
            BY <3>1, <3>2, <3>3, EmptyLog
    <2>3. TypeOK'
        BY <1>1, <1>2, <2>1, <2>2 DEF TypeOK, WriteLogAbort, transVars, Slots
    <2> QED
        BY <1>2, <2>3 DEF TypeInv, WriteLogAbort
<1>3. CASE Abort
    <2>1. log' = <<>> /\ synced' = 0 /\ pos' = 0 /\ oldLog' = log
        BY <1>3 DEF Abort, CutLogFile, TypeInv
    <2>2. buffers' \in [Slots -> Buffers]
        BY <1>1, <1>3, InPlaceFacts DEF Abort
    <2>3. trunc' \in 0..Size \cup {NoTrunc} /\ work' \in [Pos -> Val] \cup {NoTrans}
        BY <1>3 DEF Abort
    <2>4. broken' \in BOOLEAN
        BY <1>3 DEF Abort
    <2>5. synced' \in 0..Len(log') /\ pos' \in 0..Len(log')
        BY <2>1, EmptyLog
    <2>6. TypeOK'
        BY <1>1, <1>3, <2>1, <2>2, <2>3, <2>4, <2>5, EmptyLog DEF TypeOK, Abort, Slots
    <2> QED
        BY <1>3, <2>1, <2>6 DEF TypeInv, Abort
<1> QED
    BY <1>2, <1>3

\* What a crash leaves of the log is a log, and of the file is a file.
LEMMA CrashedTypes ==
    ASSUME TypeOK
    PROVE  CrashedLogs \subseteq Seq(Record) /\ CrashedDisks \subseteq File
<1>1. /\ log \in Seq(Record) /\ oldLog \in Seq(Record) /\ synced \in 0..Len(log)
      /\ disk \in File /\ stable \in File
    BY DEF TypeOK
<1>2. ASSUME NEW n \in synced..Len(log) PROVE SubSeq(log, 1, n) \in Seq(Record)
    <2>1. n \in 0..Len(log)
        BY <1>1
    <2> QED
        BY <1>1, <2>1, PrefixFacts
<1>3. ASSUME NEW n \in synced..Len(log) PROVE Append(SubSeq(log, 1, n), LogTorn) \in Seq(Record)
    BY <1>2, RecordFacts, AppendFacts
<1>4. {m \in synced..(Len(log) - 1) : TornWrites /\ log[m + 1].op = "end"} \subseteq synced..Len(log)
    BY <1>1
<1>5. CrashedLogs \subseteq Seq(Record)
    BY <1>1, <1>2, <1>3, <1>4 DEF CrashedLogs
<1>6. CrashedDisks \subseteq File
    BY <1>1 DEF CrashedDisks, File
<1> QED
    BY <1>5, <1>6

\* A crash: every block is the old or the new one, the log a prefix or the log before.
LEMMA CrashType ==
    ASSUME TypeInv, Crash
    PROVE  TypeInv'
<1>1. TypeOK
    BY DEF TypeInv
<1>2. log' \in Seq(Record) /\ disk' \in File /\ stable' \in File
    <2>1. log' \in CrashedLogs /\ disk' \in CrashedDisks /\ stable' = disk'
        BY DEF Crash
    <2> QED
        BY <1>1, <2>1, CrashedTypes
<1>3. synced' = Len(log') /\ pos' = 0 /\ oldLog' = <<>>
    BY DEF Crash
<1>4. synced' \in 0..Len(log') /\ pos' \in 0..Len(log')
    BY <1>2, <1>3
<1>5. buffers' \in [Slots -> Buffers]
    BY BufferFacts DEF Crash
<1>6. version' \in Version
    BY DEF Crash, NoVersion, Version
<1>7. trunc' \in 0..Size \cup {NoTrunc} /\ work' \in [Pos -> Val] \cup {NoTrans}
    BY DEF Crash
<1>8. broken' \in BOOLEAN
    BY DEF Crash
<1>9. TypeOK'
    BY <1>1, <1>2, <1>3, <1>4, <1>5, <1>6, <1>7, <1>8, EmptyLog DEF TypeOK, Crash, Slots
<1> QED
    BY <1>3, <1>9 DEF TypeInv, Crash

\* The replay keeps the types, and stays within the log.
LEMMA ReplayRecordType ==
    ASSUME TypeInv, ReplayRecord
    PROVE  TypeInv'
<1> DEFINE new == [p \in Pos |-> IF Changes(log[pos], p) THEN NewValue(log[pos]) ELSE disk.data[p]]
<1>1. TypeOK /\ disk \in File /\ log \in Seq(Record) /\ pos \in 0..Len(log) /\ pos >= 1
    BY DEF TypeInv, TypeOK, ReplayRecord
<1>2. PICK i \in pos..Len(log) : log[i].op \in {"end", "torn"}
    BY DEF TypeInv, ReplayRecord
<1>3. pos + 1 <= i /\ pos + 1 \in 0..Len(log) /\ i \in (pos + 1)..Len(log)
    <2>1. i # pos
        BY <1>2 DEF ReplayRecord
    <2> QED
        BY <1>1, <2>1
<1>4. new \in [Pos -> Val]
    <2>1. NewValue(log[pos]) \in Val
        BY <1>1, NewValueType
    <2> QED
        BY <1>1, <2>1 DEF File
<1>5. disk' \in File
    <2>1. disk' = [disk EXCEPT !.data = new]
        BY <1>1 DEF ReplayRecord, File
    <2> HIDE DEF new
    <2> QED
        BY <1>1, <1>4, <2>1 DEF File
<1>6. pos' = pos + 1 /\ log' = log /\ pc' = pc /\ pc = "replay"
    BY DEF ReplayRecord
<1>7. TypeOK'
    BY <1>1, <1>3, <1>5, <1>6 DEF TypeOK, ReplayRecord, transVars, Slots
<1>8. pos' >= 1 /\ \E j \in pos'..Len(log') : log'[j].op \in {"end", "torn"}
    BY <1>1, <1>2, <1>3, <1>6
<1> QED
    BY <1>6, <1>7, <1>8 DEF TypeInv

\* The restart: every step of ReplayLog and InitializeDB.
LEMMA RecoverType ==
    ASSUME TypeInv, StartReplay \/ ReplayEnd \/ ReplayFails \/ SyncReplay \/ InitializeDB
    PROVE  TypeInv'
<1>1. /\ TypeOK /\ disk \in File /\ log \in Seq(Record) /\ oldLog \in Seq(Record)
      /\ Len(log) \in Nat
    <2>1. TypeOK /\ disk \in File /\ log \in Seq(Record) /\ oldLog \in Seq(Record)
        BY DEF TypeInv, TypeOK
    <2> QED
        BY <2>1
<1>2. CASE StartReplay
    <2>1. CASE LogIsGood(log)
        <3>1. pc' = "replay" /\ pos' = 1 /\ log' = log
            BY <1>2, <2>1 DEF StartReplay, fileVars
        <3>2. PICK i \in 1..Len(log) : log[i].op \in {"end", "torn"}
            BY <2>1 DEF LogIsGood
        <3>3. 1 \in 0..Len(log)
            BY <1>1, <3>2
        <3>4. TypeOK'
            BY <1>1, <1>2, <3>1, <3>3 DEF TypeOK, StartReplay, fileVars, transVars, Slots
        <3>5. pos' >= 1 /\ \E j \in pos'..Len(log') : log'[j].op \in {"end", "torn"}
            BY <3>1, <3>2
        <3> QED
            BY <3>1, <3>4, <3>5 DEF TypeInv
    <2>2. CASE ~LogIsGood(log)
        <3>1. pc' = "cut log" /\ pos' = 0
            BY <1>2, <2>2 DEF StartReplay
        <3>2. 0 \in 0..Len(log)
            BY <1>1
        <3>3. TypeOK'
            BY <1>1, <1>2, <3>1, <3>2 DEF TypeOK, StartReplay, fileVars, transVars, Slots
        <3> QED
            BY <3>1, <3>3 DEF TypeInv
    <2> QED
        BY <2>1, <2>2
<1>3. CASE ReplayEnd
    <2>1. disk' = [disk EXCEPT !.label = log[pos].version]
        BY <1>3 DEF ReplayEnd
    <2>2. log[pos].version \in Version
        <3>1. log[pos].op = "end" /\ pos \in 0..Len(log) /\ pos >= 1
            BY <1>1, <1>3 DEF ReplayEnd, TypeInv, TypeOK
        <3> QED
            BY <1>1, <3>1, RecordFields
    <2>3. disk' \in File
        BY <1>1, <2>1, <2>2 DEF File
    <2>4. TypeOK'
        BY <1>1, <1>3, <2>3 DEF TypeOK, ReplayEnd, transVars, Slots
    <2> QED
        BY <1>3, <2>4 DEF TypeInv, ReplayEnd
<1>4. CASE ReplayFails
    <2>1. pos' = 0 /\ pc' = "down" /\ 0 \in 0..Len(log)
        BY <1>1, <1>4 DEF ReplayFails
    <2>2. TypeOK'
        BY <1>1, <1>4, <2>1 DEF TypeOK, ReplayFails, fileVars, transVars, Slots
    <2> QED
        BY <2>1, <2>2 DEF TypeInv
<1>5. CASE SyncReplay
    <2>1. pos' = 0 /\ pc' = "cut log" /\ disk' = disk /\ stable' = disk /\ oldLog' = <<>>
        BY <1>5 DEF SyncReplay, SyncFile
    <2>2. 0 \in 0..Len(log)
        BY <1>1
    <2>3. TypeOK'
        BY <1>1, <1>5, <2>1, <2>2, EmptyLog DEF TypeOK, SyncReplay, transVars, Slots
    <2> QED
        BY <2>1, <2>3 DEF TypeInv
<1>6. CASE InitializeDB
    <2>1. log' = <<>> /\ synced' = 0 /\ pos' = 0 /\ pc' = "up"
        BY <1>6 DEF InitializeDB, CutLogFile, TypeInv
    <2>2. disk' \in File /\ stable' \in File /\ version' \in Version /\ oldLog' \in Seq(Record)
        <3>1. CASE disk.label = NoVersion
            <4>1. version' \in Version
                <5>1. version' = [epoch |-> 1, counter |-> 1]
                    BY <1>6, <3>1 DEF InitializeDB
                <5> QED
                    BY <5>1 DEF Version
            <4>2. disk' = [disk EXCEPT !.label = version'] /\ stable' = disk' /\ oldLog' = <<>>
                BY <1>6, <3>1 DEF InitializeDB, SyncFile
            <4>3. [disk EXCEPT !.label = version'] \in File
                BY <1>1, <4>1 DEF File
            <4> QED
                BY <4>1, <4>2, <4>3, EmptyLog
        <3>2. CASE disk.label # NoVersion
            <4>1. version' = disk.label /\ disk' = disk /\ stable' = stable /\ oldLog' = log
                BY <1>6, <3>2 DEF InitializeDB, CutLogFile
            <4> QED
                BY <1>1, <4>1 DEF TypeOK, File
        <3> QED
            BY <3>1, <3>2
    <2>3. synced' \in 0..Len(log') /\ pos' \in 0..Len(log') /\ log' \in Seq(Record)
        BY <2>1, EmptyLog
    <2>4. TypeOK'
        BY <1>1, <1>6, <2>1, <2>2, <2>3 DEF TypeOK, InitializeDB, transVars, Slots
    <2> QED
        BY <2>1, <2>4 DEF TypeInv
<1> QED
    BY <1>2, <1>3, <1>4, <1>5, <1>6

\* Every step keeps the types.
LEMMA NextType == TypeInv /\ [Next]_vars => TypeInv'
<1> SUFFICES ASSUME TypeInv, [Next]_vars PROVE TypeInv'
    OBVIOUS
<1>1. CASE UNCHANGED vars
    BY <1>1 DEF vars, fileVars, transVars, TypeInv, TypeOK, Slots
<1>2. CASE Next
    BY <1>2, ReadType, BeginType, WriteType, TruncateType, StartCommitType, WriteLogEndType,
       SyncLogType, SyncLogFailsType, FlushType, SyncType, DoTruncsType, LabelType, AbortType,
       CrashType, ReplayRecordType, RecoverType
       DEF Next, Commit, Recover
<1> QED
    BY <1>1, <1>2

\* Every variable of the storage keeps its type, whatever crashes and fails.
THEOREM TypeCorrect == Spec => []TypeOK
<1>1. TypeInv => TypeOK
    BY DEF TypeInv
<1> QED
    BY <1>1, InitType, NextType, PTL DEF Spec

-----------------------------------------------------------------------------
(* What the transactions read.                                             *)

\* The pool invariant holds initially.
LEMMA InitPool == Init => PoolInv
<1> SUFFICES ASSUME Init PROVE PoolInv
    OBVIOUS
<1>1. \A i \in Slots : buffers[i] = FreeBuffer
    BY DEF Init
<1>2. \A i \in Slots : ~buffers[i].dirty /\ buffers[i].page = -1
    BY <1>1, BufferFacts
<1>3. pc = "down" /\ work = NoTrans /\ trunc = NoTrunc
    BY DEF Init
<1>4. DirtyInv
    BY <1>2, <1>3 DEF DirtyInv, OneDirty, Dirty, Active
<1>5. CleanInv
    BY <1>1, <1>2, PageFacts DEF CleanInv
<1> QED
    BY <1>3, <1>4, <1>5 DEF PoolInv, WorkInv, TruncInv, NoEndInv, Active

\* A slot that is filled anew leaves at most one dirty buffer of a page, if it is the
\* only one to become dirty.
LEMMA RefillDirty ==
    ASSUME TypeOK, OneDirty, NEW i \in Slots, NEW b \in Buffers,
           buffers' = MostRecent(i, b), nbuffers' = nbuffers,
           b.dirty => \A j \in Slots : Dirty(j, b.page) => j = i
    PROVE  OneDirty'
<1>1. PICK from : Moved(buffers', from, i, b)
    BY MostRecentFacts
<1>2. nbuffers \in Slots /\ Slots' = Slots
    BY MostRecentFacts DEF Slots
<1>3. SUFFICES ASSUME NEW page \in Page, NEW j \in Slots, NEW k \in Slots,
                      Dirty(j, page)', Dirty(k, page)'
               PROVE  j = k
    BY <1>2 DEF OneDirty
<1>4. ASSUME NEW m \in Slots, m # nbuffers, Dirty(m, page)'
      PROVE  from[m] \in Slots /\ from[m] # i /\ Dirty(from[m], page)
    BY <1>1, <1>2, <1>4 DEF Dirty, Moved
<1>5. ASSUME NEW m \in Slots, m = nbuffers, Dirty(m, page)' PROVE b.dirty /\ b.page = page
    BY <1>1, <1>2, <1>5 DEF Dirty, Moved
<1>6. CASE j # nbuffers /\ k # nbuffers
    <2>1. from[j] = from[k]
        BY <1>3, <1>4, <1>6 DEF OneDirty
    <2> QED
        BY <1>1, <2>1 DEF Moved
<1>7. CASE j = nbuffers /\ k # nbuffers
    BY <1>3, <1>4, <1>5, <1>7
<1>8. CASE j # nbuffers /\ k = nbuffers
    BY <1>3, <1>4, <1>5, <1>8
<1> QED
    BY <1>6, <1>7, <1>8

\* A slot that is filled from the file, or by a writer, leaves clean buffers right.
LEMMA RefillClean ==
    ASSUME TypeOK, CleanInv, NEW i \in Slots, NEW b \in Buffers,
           buffers' = MostRecent(i, b), nbuffers' = nbuffers, disk' = disk, pc' = pc,
           pc \in {"up", "commit"},
           b.dirty \/ b.data = FromDisk(b.page)
    PROVE  CleanInv'
<1>1. PICK from : Moved(buffers', from, i, b)
    BY MostRecentFacts
<1>2. nbuffers \in Slots /\ Slots' = Slots
    BY MostRecentFacts DEF Slots
<1>3. ASSUME NEW page \in Page, NEW j \in Slots,
             buffers'[j].page = page, ~buffers'[j].dirty
      PROVE  buffers'[j].data = FromDisk(page)'
    <2>1. FromDisk(page)' = FromDisk(page)
        BY DEF FromDisk
    <2>2. CASE j = nbuffers
        BY <1>1, <1>3, <2>1, <2>2 DEF Moved
    <2>3. CASE j # nbuffers
        <3>1. from[j] \in Slots /\ buffers'[j] = buffers[from[j]]
            BY <1>1, <2>3 DEF Moved
        <3> QED
            BY <1>3, <2>1, <3>1 DEF CleanInv
    <2> QED
        BY <2>2, <2>3
<1> QED
    BY <1>2, <1>3 DEF CleanInv

\* What a page shows does not depend on clean buffers, nor on other pages.
LEMMA RefillShows ==
    ASSUME TypeOK, NEW i \in Slots, NEW b \in Buffers,
           buffers' = MostRecent(i, b), nbuffers' = nbuffers, disk' = disk,
           NEW q \in Pos, NEW x, Shows(q, x),
           ~Dirty(i, q \div PageSize),
           b.dirty => b.page # q \div PageSize
    PROVE  Shows(q, x)'
<1> DEFINE page == q \div PageSize
<1>1. PICK from : Moved(buffers', from, i, b)
    BY MostRecentFacts
<1>2. nbuffers \in Slots /\ Slots' = Slots
    BY MostRecentFacts DEF Slots
<1>3. ASSUME NEW j \in Slots, Dirty(j, page)'
      PROVE  Dirty(from[j], page) /\ buffers'[j] = buffers[from[j]] /\ from[j] \in Slots
    BY <1>1, <1>3 DEF Dirty, Moved
<1>4. ASSUME NEW k \in Slots, Dirty(k, page) PROVE \E j \in Slots : Dirty(j, page)'
    <2>1. PICK j \in Slots : from[j] = k
        BY <1>1 DEF Moved
    <2>2. j # nbuffers
        BY <1>1, <1>4, <2>1 DEF Moved
    <2> QED
        BY <1>1, <1>4, <2>1, <2>2 DEF Dirty, Moved
<1> QED
    BY <1>2, <1>3, <1>4 DEF Shows

\* An append changes none of the records that are safe.
LEMMA AppendSafe ==
    ASSUME TypeOK, NEW r \in Record, log' = Append(log, r), synced' = synced
    PROVE  \A i \in 1..synced' : log'[i] = log[i]
<1>1. log \in Seq(Record) /\ synced \in 0..Len(log)
    BY DEF TypeOK
<1> QED
    BY <1>1, AppendFacts

\* Most actions leave the pool, the contents and the transaction alone.
LEMMA PoolFrame ==
    ASSUME CleanInv, WorkInv, OneDirty,
           UNCHANGED <<nbuffers, buffers, work, trunc>>, disk'.data = disk.data,
           pc # "sync", pc' # "sync", broken => broken'
    PROVE  /\ OneDirty' /\ WorkInv'
           /\ \A page \in Page : \A i \in Slots :
                 buffers'[i].page = page /\ ~buffers'[i].dirty => buffers'[i].data = FromDisk(page)'
           /\ Slots' = Slots
<1>1. Slots' = Slots
    BY DEF Slots
<1>2. \A page : FromDisk(page)' = FromDisk(page)
    BY DEF FromDisk
<1>3. OneDirty'
    BY <1>1 DEF OneDirty, Dirty
<1>4. WorkInv'
    BY <1>1 DEF WorkInv, Active, Behind, Shows, Dirty
<1>5. ASSUME NEW page \in Page, NEW i \in Slots, buffers'[i].page = page, ~buffers'[i].dirty
      PROVE  buffers'[i].data = FromDisk(page)'
    BY <1>2, <1>5 DEF CleanInv
<1> QED
    BY <1>1, <1>3, <1>4, <1>5

\* Reads keep the pool right.
LEMMA ReadPool ==
    ASSUME TypeInv, PoolInv, NEW page \in Page, Read(page)
    PROVE  PoolInv'
<1>1. /\ TypeOK /\ OneDirty /\ pc \in {"up", "commit"} /\ pc' = pc /\ disk' = disk
      /\ nbuffers' = nbuffers /\ work' = work /\ trunc' = trunc /\ broken' = broken
      /\ log' = log /\ synced' = synced
    BY DEF TypeInv, PoolInv, DirtyInv, Read, Unlocked, fileVars, transVars
<1>2. PICK i \in Slots, b \in Buffers :
          /\ buffers' = MostRecent(i, b) /\ ~buffers[i].dirty
          /\ ~b.dirty /\ b.data = FromDisk(b.page)
    <2>1. CASE \E i \in Found(page, FALSE) : buffers' = MostRecent(i, buffers[i])
        <3>1. PICK i \in Found(page, FALSE) : buffers' = MostRecent(i, buffers[i])
            BY <2>1
        <3>2. i \in Slots /\ buffers[i] \in Buffers /\ buffers[i].page = page /\ ~buffers[i].dirty
            BY <1>1, <3>1 DEF Found, MatchBuffer, TypeOK
        <3>3. buffers[i].data = FromDisk(page)
            BY <1>1, <3>2 DEF PoolInv, CleanInv
        <3> QED
            BY <3>1, <3>2, <3>3
    <2>2. CASE NewSlot(Buffer(page, FALSE, FromDisk(page)))
        <3> DEFINE b == Buffer(page, FALSE, FromDisk(page))
        <3>1. b \in Buffers /\ b.page = page /\ b.dirty = FALSE /\ b.data = FromDisk(page)
            BY <1>1, FromDiskType, HoldingFacts
        <3>2. PICK i \in Clean : buffers' = MostRecent(i, b)
            BY <2>2, NewSlotFacts
        <3>3. i \in Slots /\ ~buffers[i].dirty
            BY DEF Clean
        <3> HIDE DEF b
        <3> QED
            BY <3>1, <3>2, <3>3
    <2> QED
        BY <2>1, <2>2 DEF Read
<1>3. OneDirty'
    BY <1>1, <1>2, RefillDirty
<1>4. CleanInv'
    BY <1>1, <1>2, RefillClean DEF PoolInv
<1>5. WorkInv'
    <2>1. ASSUME NEW q \in Pos, NEW x, Shows(q, x) PROVE Shows(q, x)'
        <3>1. ~Dirty(i, q \div PageSize) /\ (b.dirty => b.page # q \div PageSize)
            BY <1>2 DEF Dirty
        <3> QED
            BY <1>1, <1>2, <2>1, <3>1, RefillShows
    <2>2. ASSUME NEW q \in Pos, Shows(q, work[q]) PROVE Shows(q, work[q])'
        <3>1. PICK x : x = work[q]
            OBVIOUS
        <3>2. Shows(q, x)'
            BY <2>1, <2>2, <3>1
        <3> QED
            BY <1>1, <3>1, <3>2 DEF Shows
    <2> QED
        BY <1>1, <2>2 DEF PoolInv, WorkInv, Active, Behind
<1>6. DirtyInv'
    <2>1. (\A j \in Slots : ~buffers[j].dirty) => \A j \in Slots : ~buffers'[j].dirty
        <3>1. PICK from : Moved(buffers', from, i, b)
            BY <1>1, <1>2, MostRecentFacts
        <3> QED
            BY <1>2, <3>1 DEF Moved
    <2>2. Slots' = Slots
        BY <1>1 DEF Slots
    <2> QED
        BY <1>1, <1>3, <2>1, <2>2 DEF PoolInv, DirtyInv, Active
<1> QED
    BY <1>1, <1>4, <1>5, <1>6 DEF PoolInv, TruncInv, NoEndInv, Active

\* A transaction begins with what the file holds.
LEMMA BeginPool ==
    ASSUME TypeInv, PoolInv, Begin
    PROVE  PoolInv'
<1>1. /\ pc = "up" /\ pc' = pc /\ ~Active /\ work' = disk.data /\ disk' = disk
      /\ UNCHANGED <<nbuffers, buffers, trunc, broken, synced>>
      /\ log' = Append(log, LogNew)
    BY DEF Begin, LogAppend
<1>2. Slots' = Slots /\ Active'
    <2>1. work' \in [Pos -> Val]
        BY <1>1 DEF TypeInv, TypeOK, File
    <2> QED
        BY <1>1, <2>1, SizeAssumption DEF Slots, Active
<1>3. \A i \in Slots : ~buffers[i].dirty
    BY <1>1 DEF PoolInv, DirtyInv
<1>4. DirtyInv'
    BY <1>1, <1>2, <1>3 DEF DirtyInv, OneDirty, Dirty
<1>5. CleanInv'
    BY <1>1, <1>2 DEF PoolInv, CleanInv, FromDisk
<1>6. trunc = NoTrunc
    BY <1>1 DEF PoolInv, TruncInv
<1>7. WorkInv'
    BY <1>1, <1>2, <1>3, <1>6 DEF WorkInv, Behind, Shows, Dirty
<1>8. NoEndInv'
    BY <1>1, RecordFacts, AppendSafe DEF TypeInv, TypeOK, PoolInv, NoEndInv
<1> QED
    BY <1>1, <1>4, <1>5, <1>6, <1>7, <1>8 DEF PoolInv, TruncInv

\* A write goes to the one dirty buffer of its page, or makes one out of a clean copy or
\* of the file: base is what the buffer held before.
LEMMA WriteFills ==
    ASSUME TypeInv, PoolInv, NEW p \in Pos, NEW v \in Val, Write(p, v), ~broken'
    PROVE  LET page == p \div PageSize IN
           \E i \in Slots : \E base \in [PagePos(page) -> Val] :
              /\ buffers' = MostRecent(i, Buffer(page, TRUE, [base EXCEPT ![p] = v]))
              /\ buffers[i].dirty => Dirty(i, page)
              /\ \A j \in Slots : Dirty(j, page) => j = i
              /\ \A q \in PagePos(page) : \A x : Shows(q, x) => base[q] = x
              /\ work' = [work EXCEPT ![p] = v]
<1> DEFINE page == p \div PageSize
           bf(data) == Buffer(page, TRUE, [data EXCEPT ![p] = v])
<1>1. TypeOK /\ OneDirty /\ pc = "up" /\ page \in Page /\ ~broken
    BY PageFacts DEF TypeInv, PoolInv, DirtyInv, Write
<1>2. \A q \in PagePos(page) : q \in Pos /\ q \div PageSize = page
    BY DEF PagePos
<1>3. CASE \E i \in Found(page, TRUE) :
              buffers' = MostRecent(i, bf(buffers[i].data)) /\ work' = [work EXCEPT ![p] = v]
    <2>1. PICK i \in Found(page, TRUE) :
              buffers' = MostRecent(i, bf(buffers[i].data)) /\ work' = [work EXCEPT ![p] = v]
        BY <1>3
    <2>2. i \in Slots /\ buffers[i] \in Buffers /\ buffers[i].page = page
        BY <1>1 DEF Found, MatchBuffer, TypeOK
    <2>3. buffers[i].data \in [PagePos(page) -> Val]
        BY <1>1, <2>2, BufferFacts, PageFacts
    <2>4. ASSUME NEW j \in Slots, Dirty(j, page) PROVE j = i
        <3>1. j \in {k \in Slots : MatchBuffer(buffers[k], page, TRUE) /\ buffers[k].dirty}
            BY <2>4 DEF Dirty, MatchBuffer
        <3>2. buffers[i].dirty
            BY <3>1 DEF Found
        <3> QED
            BY <1>1, <2>2, <2>4, <3>2 DEF OneDirty, Dirty
    <2>5. ASSUME NEW q \in PagePos(page), NEW x, Shows(q, x) PROVE buffers[i].data[q] = x
        <3>1. q \in Pos /\ q \div PageSize = page
            BY <1>2
        <3>2. CASE buffers[i].dirty
            BY <2>2, <2>5, <3>1, <3>2 DEF Shows, Dirty
        <3>3. CASE ~buffers[i].dirty
            <4>1. \A j \in Slots : ~Dirty(j, page)
                BY <2>4, <3>3 DEF Dirty
            <4>2. disk.data[q] = x
                BY <2>5, <3>1, <4>1 DEF Shows
            <4>3. buffers[i].data = FromDisk(page)
                BY <1>1, <2>2, <3>3 DEF PoolInv, CleanInv
            <4> QED
                BY <4>2, <4>3 DEF FromDisk
        <3> QED
            BY <3>2, <3>3
    <2>6. buffers[i].dirty => Dirty(i, page)
        BY <2>2 DEF Dirty
    <2> QED
        BY <2>1, <2>2, <2>3, <2>4, <2>5, <2>6
<1>4. CASE /\ Found(page, TRUE) = {}
           /\ NewSlot(bf(FromDisk(page))) /\ work' = [work EXCEPT ![p] = v]
    <2>1. PICK i \in Clean : buffers' = MostRecent(i, bf(FromDisk(page)))
        BY <1>4, NewSlotFacts
    <2>2. i \in Slots /\ ~buffers[i].dirty
        BY DEF Clean
    <2>3. FromDisk(page) \in [PagePos(page) -> Val]
        BY <1>1, FromDiskType
    <2>4. \A j \in Slots : ~Dirty(j, page)
        BY <1>4 DEF Found, MatchBuffer, Dirty
    <2>5. ASSUME NEW q \in PagePos(page), NEW x, Shows(q, x) PROVE FromDisk(page)[q] = x
        BY <1>2, <2>4, <2>5 DEF Shows, FromDisk
    <2> QED
        BY <1>4, <2>1, <2>2, <2>3, <2>4, <2>5
<1> QED
    BY <1>1, <1>3, <1>4 DEF Write

\* A write behind a truncation that is waiting makes it void.
LEMMA ExpandFacts ==
    ASSUME TypeOK, NEW p \in Pos, trunc # NoTrunc => CutsOff(trunc), trunc' = Expand(trunc, p)
    PROVE  /\ trunc = NoTrunc <=> trunc' = NoTrunc
           /\ trunc' # NoTrunc => CutsOff(trunc')
           /\ ~Behind(p)'
           /\ \A q \in Pos \ {p} : Behind(q)' <=> Behind(q)
<1>1. trunc \in 0..Size \cup {NoTrunc} /\ p \in 0..(Size - 1) /\ Size \in Nat
    BY SizeAssumption DEF TypeOK, Pos
<1>2. CASE trunc # NoTrunc /\ trunc < p + 1
    <2>1. p >= trunc /\ trunc \in Nat
        BY <1>1, <1>2
    <2>2. p + 1 = Size /\ trunc' = p + 1
        BY <1>2, <2>1 DEF CutsOff, Expand
    <2>3. Size # NoTrunc
        BY <1>1, SizeAssumption
    <2>4. CutsOff(Size)
        BY <1>1 DEF CutsOff, Pos
    <2>5. \A q \in Pos : ~(q >= Size)
        BY <1>1 DEF Pos
    <2>6. \A q \in Pos \ {p} : ~(q >= trunc)
        BY <1>1, <1>2, <2>1, <2>2 DEF CutsOff, Pos
    <2> QED
        BY <1>2, <2>2, <2>3, <2>4, <2>5, <2>6 DEF Behind
<1>3. CASE trunc # NoTrunc /\ ~(trunc < p + 1)
    <2>1. trunc' = trunc /\ ~(p >= trunc)
        BY <1>1, <1>3 DEF Expand
    <2> QED
        BY <2>1 DEF Behind
<1>4. CASE trunc = NoTrunc
    BY <1>4 DEF Expand, Behind
<1> QED
    BY <1>2, <1>3, <1>4

\* Writes keep the pool right.
LEMMA WritePool ==
    ASSUME TypeInv, TypeInv', PoolInv, NoGaps, NEW p \in Pos, NEW v \in Val, Write(p, v)
    PROVE  PoolInv'
<1> DEFINE page == p \div PageSize
<1>1. /\ TypeOK /\ OneDirty /\ pc = "up" /\ pc' = pc /\ disk' = disk /\ Active /\ ~broken
      /\ nbuffers' = nbuffers /\ trunc' = Expand(trunc, p)
      /\ synced' = synced /\ log' = Append(log, LogData(p, v)) /\ broken' \in BOOLEAN
    BY DEF TypeInv, TypeOK, PoolInv, DirtyInv, Write, LogAppend
<1>2. Slots' = Slots /\ page \in Page /\ p \in PagePos(page)
    BY <1>1, PageFacts DEF Slots
<1>3. NoEndInv'
    BY <1>1, RecordFacts, AppendSafe DEF PoolInv, NoEndInv
<1>4. trunc \in 0..Size \cup {NoTrunc} /\ work \in [Pos -> Val]
    BY <1>1 DEF TypeOK, Active
<1>5. trunc # NoTrunc => CutsOff(trunc)
    BY DEF PoolInv, TruncInv
<1>6. CASE broken'
    <2>1. buffers' = buffers /\ work' = work
        BY <1>1, <1>6 DEF Write
    <2>2. Active'
        BY <1>1, <2>1 DEF Active
    <2>3. trunc = NoTrunc <=> trunc' = NoTrunc
        BY <1>1, <1>5, ExpandFacts
    <2>4. trunc' # NoTrunc => CutsOff(trunc')
        BY <1>1, <1>5, ExpandFacts
    <2>5. DirtyInv' /\ CleanInv'
        BY <1>1, <1>2, <2>1 DEF PoolInv, DirtyInv, OneDirty, Dirty, CleanInv, FromDisk, Active
    <2>6. WorkInv'
        BY <1>1, <1>2, <1>6, <2>1, <2>3 DEF PoolInv, WorkInv, Active, Behind, Shows, Dirty, Expand
    <2> QED
        BY <1>3, <2>2, <2>4, <2>5, <2>6 DEF PoolInv, TruncInv
<1>7. CASE ~broken'
    <2>1. PICK i \in Slots, base \in [PagePos(page) -> Val] :
              /\ buffers' = MostRecent(i, Buffer(page, TRUE, [base EXCEPT ![p] = v]))
              /\ buffers[i].dirty => Dirty(i, page)
              /\ \A j \in Slots : Dirty(j, page) => j = i
              /\ \A q \in PagePos(page) : \A x : Shows(q, x) => base[q] = x
              /\ work' = [work EXCEPT ![p] = v]
        BY <1>7, WriteFills
    <2> DEFINE b == Buffer(page, TRUE, [base EXCEPT ![p] = v])
    <2>2. [base EXCEPT ![p] = v] \in [PagePos(page) -> Val]
        OBVIOUS
    <2>3. b \in Buffers /\ b.page = page /\ b.dirty = TRUE /\ b.data = [base EXCEPT ![p] = v]
        BY <1>2, <2>2, HoldingFacts
    <2>4. buffers' = MostRecent(i, b)
        BY <2>1
    <2> HIDE DEF b
    <2>5. OneDirty'
        BY <1>1, <2>1, <2>3, <2>4, RefillDirty
    <2>6. CleanInv'
        BY <1>1, <2>3, <2>4, RefillClean DEF PoolInv
    <2>7. Active' /\ work' \in [Pos -> Val]
        BY <1>4, <2>1, SizeAssumption DEF Active
    <2>8. DirtyInv'
        BY <1>1, <2>5, <2>7 DEF DirtyInv
    <2>8a. PICK n \in Slots : Dirty(n, page)' /\ buffers'[n] = b
        BY <1>1, <2>3, <2>4, MostRecentFacts DEF Dirty, MostRecent, Slots
    <2>9. ASSUME NEW q \in Pos, NEW x, Shows(q, x), q # p PROVE Shows(q, x)'
        <3>1. CASE q \div PageSize # page
            <4>1. ~Dirty(i, q \div PageSize)
                BY <2>1, <3>1 DEF Dirty
            <4> QED
                BY <1>1, <2>3, <2>4, <2>9, <3>1, <4>1, RefillShows
        <3>2. CASE q \div PageSize = page
            <4>1. q \in PagePos(page) /\ b.data[q] = x
                BY <2>1, <2>3, <2>9, <3>2 DEF PagePos
            <4>2. ASSUME NEW j \in Slots, Dirty(j, page)' PROVE buffers'[j].data[q] = x
                BY <1>2, <2>5, <2>8a, <4>1, <4>2 DEF OneDirty
            <4> QED
                BY <1>2, <3>2, <2>8a, <4>2 DEF Shows
        <3> QED
            BY <3>1, <3>2
    <2>10. ASSUME NEW x, x = v PROVE Shows(p, x)'
        <3>1. b.data[p] = x
            BY <1>2, <2>3, <2>10
        <3>2. ASSUME NEW j \in Slots, Dirty(j, page)' PROVE buffers'[j].data[p] = x
            BY <1>2, <2>5, <2>8a, <3>1, <3>2 DEF OneDirty
        <3> QED
            BY <1>2, <2>8a, <3>2 DEF Shows
    <2>11. ASSUME NEW q \in Pos, q # p PROVE Behind(q)' <=> Behind(q)
        BY <1>1, <1>5, <2>11, ExpandFacts
    <2>12. ~Behind(p)'
        BY <1>1, <1>5, ExpandFacts
    <2>13. ASSUME NEW q \in Pos
           PROVE  IF Behind(q)' THEN work'[q] = 0 ELSE \E x : x = work'[q] /\ Shows(q, x)'
        <3>1. CASE q = p
            <4>1. work'[q] = v
                BY <1>4, <2>1, <3>1
            <4> QED
                BY <2>10, <2>12, <3>1, <4>1
        <3>2. CASE q # p
            <4>1. work'[q] = work[q]
                BY <1>4, <2>1, <3>2
            <4>2. IF Behind(q) THEN work[q] = 0 ELSE Shows(q, work[q])
                BY <1>1 DEF PoolInv, WorkInv
            <4> QED
                BY <2>9, <2>11, <3>2, <4>1, <4>2
        <3> QED
            BY <3>1, <3>2
    <2>14. ASSUME NEW q \in Pos, ~Behind(q)' PROVE Shows(q, work[q])'
        <3>1. PICK x : x = work'[q] /\ Shows(q, x)'
            BY <2>13, <2>14
        <3> QED
            BY <3>1 DEF Shows
    <2>15. WorkInv'
        BY <2>13, <2>14 DEF WorkInv
    <2>16. trunc' # NoTrunc => CutsOff(trunc')
        BY <1>1, <1>5, ExpandFacts
    <2> QED
        BY <1>3, <2>6, <2>7, <2>8, <2>15, <2>16 DEF PoolInv, TruncInv
<1> QED
    BY <1>6, <1>7

\* Truncations keep the pool right.
LEMMA TruncatePool ==
    ASSUME TypeInv, PoolInv, NoGaps, NEW len \in TruncTo, Truncate(len)
    PROVE  PoolInv'
<1>1. /\ TypeOK /\ pc = "up" /\ pc' = pc /\ disk' = disk /\ Active /\ ~broken /\ broken' = broken
      /\ nbuffers' = nbuffers /\ buffers' = buffers
      /\ trunc' = IF trunc = NoTrunc \/ len < trunc THEN len ELSE trunc
      /\ work' = Truncated(work, len)
      /\ synced' = synced /\ log' = Append(log, LogTruncate(len))
    BY DEF TypeInv, Truncate, LogAppend
<1>2. Slots' = Slots
    BY <1>1 DEF Slots
<1>3. NoEndInv'
    BY <1>1, RecordFacts, AppendSafe DEF PoolInv, NoEndInv
<1>4. /\ trunc \in 0..Size \cup {NoTrunc} /\ work \in [Pos -> Val] /\ len \in 0..Size
      /\ len # NoTrunc
    BY <1>1, SizeAssumption DEF TypeOK, Active
<1>5. Active'
    <2>1. work' \in [Pos -> Val]
        BY <1>1, <1>4, SizeAssumption DEF Truncated
    <2> QED
        BY <2>1, SizeAssumption DEF Active
<1>6. TruncInv'
    BY <1>1, <1>4, <1>5 DEF PoolInv, TruncInv, NoGaps, CutsOff
<1>7. DirtyInv' /\ CleanInv'
    BY <1>1, <1>2, <1>5 DEF PoolInv, DirtyInv, OneDirty, Dirty, CleanInv, FromDisk
<1>8. ASSUME NEW q \in Pos, q >= len PROVE Behind(q)' /\ work'[q] = 0
    BY <1>1, <1>4, <1>8, SizeAssumption DEF Behind, Truncated, Pos
<1>9. ASSUME NEW q \in Pos, ~(q >= len) PROVE (Behind(q)' <=> Behind(q)) /\ work'[q] = work[q]
    BY <1>1, <1>4, <1>9, SizeAssumption DEF Behind, Truncated, Pos
<1>10. ASSUME NEW q \in Pos, ~Behind(q)' PROVE Shows(q, work[q])'
    <2>1. ~(q >= len) /\ ~Behind(q) /\ work'[q] = work[q]
        BY <1>8, <1>9, <1>10
    <2>2. Shows(q, work[q])
        BY <1>1, <2>1 DEF PoolInv, WorkInv
    <2> QED
        BY <1>1, <1>2, <2>1, <2>2 DEF Shows, Dirty
<1>11. ASSUME NEW q \in Pos, Behind(q)' PROVE work'[q] = 0
    BY <1>1, <1>8, <1>9, <1>11 DEF PoolInv, WorkInv
<1>12. WorkInv'
    BY <1>10, <1>11 DEF WorkInv
<1> QED
    BY <1>3, <1>6, <1>7, <1>12 DEF PoolInv

\* The first steps of a commit, its error and the abort record leave the pool alone.
LEMMA LogPool ==
    ASSUME TypeInv, PoolInv, StartCommit \/ WriteLogEnd \/ SyncLogFails \/ WriteLogAbort
    PROVE  PoolInv'
<1>1. /\ TypeOK /\ Active /\ disk'.data = disk.data /\ UNCHANGED <<nbuffers, buffers, work, trunc>>
      /\ pc \in {"up", "commit", "logend", "sync log"}
      /\ pc' \in {"up", "commit", "logend", "sync log", "abort"}
    BY DEF TypeInv, TypeOK, File, PoolInv, DirtyInv, StartCommit, WriteLogEnd, SyncLogFails,
           WriteLogAbort, SyncFile, LogAppend, transVars, fileVars
<1>2. broken => broken'
    BY DEF StartCommit, WriteLogEnd, SyncLogFails, WriteLogAbort, transVars
<1>3. /\ OneDirty' /\ WorkInv' /\ Slots' = Slots
      /\ \A page \in Page : \A i \in Slots :
            buffers'[i].page = page /\ ~buffers'[i].dirty => buffers'[i].data = FromDisk(page)'
    BY <1>1, <1>2, PoolFrame DEF PoolInv, DirtyInv
<1>4. Active'
    BY <1>1 DEF Active
<1>5. DirtyInv' /\ CleanInv' /\ TruncInv'
    BY <1>1, <1>3, <1>4 DEF PoolInv, DirtyInv, CleanInv, TruncInv, CutsOff
<1>6. NoEndInv'
    <2>1. CASE StartCommit
        BY <2>1 DEF StartCommit, PoolInv, NoEndInv, fileVars
    <2>2. CASE WriteLogEnd
        <3>1. version' \in Version
            BY <2>2, WriteLogEndType DEF TypeInv, TypeOK
        <3> QED
            BY <1>1, <2>2, <3>1, RecordFacts, AppendSafe DEF WriteLogEnd, LogAppend, PoolInv, NoEndInv
    <2>3. CASE SyncLogFails
        BY <2>3 DEF SyncLogFails, PoolInv, NoEndInv, fileVars
    <2>4. CASE WriteLogAbort
        BY <2>4 DEF WriteLogAbort, NoEndInv
    <2> QED
        BY <2>1, <2>2, <2>3, <2>4
<1> QED
    BY <1>3, <1>5, <1>6 DEF PoolInv

\* The sync of the log ends the transaction, not its buffers.
LEMMA SyncLogPool ==
    ASSUME TypeInv, PoolInv, SyncLog
    PROVE  PoolInv'
<1>1. /\ pc = "sync log" /\ pc' = "flush" /\ disk' = disk /\ work' = NoTrans
      /\ UNCHANGED <<nbuffers, buffers, trunc>>
    BY DEF SyncLog
<1>2. Slots' = Slots /\ ~Active'
    BY <1>1 DEF Slots, Active
<1>3. DirtyInv'
    BY <1>1, <1>2 DEF PoolInv, DirtyInv, OneDirty, Dirty
<1>4. CleanInv'
    BY <1>1, <1>2 DEF PoolInv, CleanInv, FromDisk
<1> QED
    BY <1>1, <1>2, <1>3, <1>4 DEF PoolInv, WorkInv, TruncInv, CutsOff, NoEndInv

\* DFlush writes each dirty buffer to its page.
LEMMA FlushFacts ==
    ASSUME TypeInv, PoolInv, Flush
    PROVE  /\ \A p \in Pos : \A i \in Slots : Dirty(i, p \div PageSize) => disk'.data[p] = buffers[i].data[p]
           /\ \A p \in Pos : (\A i \in Slots : ~Dirty(i, p \div PageSize)) => disk'.data[p] = disk.data[p]
<1> DEFINE dirty(p) == {i \in Slots \ Clean : p \in PagePos(buffers[i].page)}
           new == [p \in Pos |-> IF dirty(p) = {} THEN disk.data[p]
                                 ELSE buffers[CHOOSE i \in dirty(p) : TRUE].data[p]]
<1>1. disk'.data = new
    <2>1. disk \in File
        BY DEF TypeInv, TypeOK
    <2>2. disk' = [disk EXCEPT !.data = new]
        BY DEF Flush
    <2> HIDE DEF new
    <2> QED
        BY <2>1, <2>2 DEF File
<1>2. ASSUME NEW p \in Pos PROVE dirty(p) = {i \in Slots : Dirty(i, p \div PageSize)}
    BY DEF Clean, Dirty, PagePos
<1>3. ASSUME NEW p \in Pos, NEW i \in Slots, Dirty(i, p \div PageSize)
      PROVE  new[p] = buffers[i].data[p]
    <2>1. i \in dirty(p)
        BY <1>2, <1>3
    <2>2. \A j \in dirty(p) : j = i
        BY <1>2, <1>3, PageFacts DEF PoolInv, DirtyInv, OneDirty
    <2>3. (CHOOSE j \in dirty(p) : TRUE) \in dirty(p)
        BY <2>1
    <2>4. (CHOOSE j \in dirty(p) : TRUE) = i
        BY <2>2, <2>3
    <2> QED
        BY <2>1, <2>4
<1>4. ASSUME NEW p \in Pos, \A i \in Slots : ~Dirty(i, p \div PageSize)
      PROVE  new[p] = disk.data[p]
    BY <1>2, <1>4
<1> QED
    BY <1>1, <1>3, <1>4

\* DFlush: no dirty page is left, and the clean ones agree with the file.
LEMMA FlushPool ==
    ASSUME TypeInv, PoolInv, Flush
    PROVE  PoolInv'
<1>1. /\ TypeOK /\ pc = "flush" /\ pc' = "sync" /\ UNCHANGED <<nbuffers, buffers, trunc, work>>
    BY DEF TypeInv, Flush, transVars
<1>2. Slots' = Slots /\ ~Active /\ ~Active'
    BY <1>1 DEF Slots, Active, PoolInv, DirtyInv
<1>3. DirtyInv'
    BY <1>1, <1>2 DEF PoolInv, DirtyInv, OneDirty, Dirty
<1>4. ASSUME NEW page \in Page, NEW i \in Slots, buffers[i].page = page
      PROVE  \/ buffers[i].data = FromDisk(page)'
             \/ ~buffers[i].dirty /\ \E j \in Slots : Dirty(j, page)
    <2>1. buffers[i].data \in [PagePos(page) -> Val]
        BY <1>1, <1>4, BufferFacts, PageFacts DEF TypeOK
    <2>2. FromDisk(page)' = [q \in PagePos(page) |-> disk'.data[q]]
        BY DEF FromDisk
    <2>3. \A q \in PagePos(page) : q \in Pos /\ q \div PageSize = page
        BY DEF PagePos
    <2>4. CASE buffers[i].dirty
        <3>1. \A q \in PagePos(page) : disk'.data[q] = buffers[i].data[q]
            BY <1>4, <2>3, <2>4, FlushFacts DEF Dirty
        <3> QED
            BY <2>1, <2>2, <3>1
    <2>5. CASE ~buffers[i].dirty /\ \A j \in Slots : ~Dirty(j, page)
        <3>1. \A q \in PagePos(page) : disk'.data[q] = disk.data[q]
            BY <2>3, <2>5, FlushFacts
        <3>2. buffers[i].data = FromDisk(page)
            BY <1>1, <1>4, <2>5 DEF PoolInv, CleanInv
        <3> QED
            BY <2>2, <3>1, <3>2 DEF FromDisk
    <2> QED
        BY <2>4, <2>5
<1>5. CleanInv'
    BY <1>1, <1>2, <1>4 DEF CleanInv, Dirty
<1> QED
    BY <1>1, <1>2, <1>3, <1>5 DEF PoolInv, WorkInv, TruncInv, CutsOff, NoEndInv

\* DSync changes only what stays after a crash.
LEMMA SyncPool ==
    ASSUME TypeInv, PoolInv, Sync
    PROVE  PoolInv'
<1>1. /\ TypeOK /\ pc = "sync" /\ pc' = "truncate" /\ disk' = disk
      /\ UNCHANGED <<nbuffers, trunc, work>> /\ buffers' = Dedup
    BY DEF TypeInv, Sync, SyncFile, transVars
<1>2. Slots' = Slots /\ ~Active /\ ~Active'
    BY <1>1 DEF Slots, Active, PoolInv, DirtyInv
<1>3. \A i \in Slots : ~buffers'[i].dirty
    BY <1>1, InPlaceFacts
<1>4. DirtyInv'
    BY <1>1, <1>2, <1>3 DEF DirtyInv, OneDirty, Dirty
<1>5. ASSUME NEW page \in Page, NEW i \in Slots, buffers'[i].page = page
      PROVE  buffers'[i].data = FromDisk(page)
    <2>1. /\ buffers[i].page = page /\ buffers'[i].data = buffers[i].data
          /\ ~buffers[i].dirty => \A j \in Slots : ~Dirty(j, page)
        BY <1>1, <1>5, InPlaceFacts, PageFacts
    <2> QED
        BY <1>1, <2>1 DEF PoolInv, CleanInv
<1>6. CleanInv'
    BY <1>1, <1>2, <1>5 DEF CleanInv, FromDisk
<1> QED
    BY <1>1, <1>2, <1>4, <1>6 DEF PoolInv, WorkInv, TruncInv, CutsOff, NoEndInv

\* DTrunc and the truncation of the file: the pages behind the end are dropped.
LEMMA DoTruncsPool ==
    ASSUME TypeInv, PoolInv, DoTruncs
    PROVE  PoolInv'
<1>1. /\ TypeOK /\ pc = "truncate" /\ pc' = "label" /\ UNCHANGED <<nbuffers, work>>
      /\ trunc' = NoTrunc
    BY DEF TypeInv, DoTruncs
<1>2. Slots' = Slots /\ ~Active /\ ~Active' /\ \A i \in Slots : ~buffers[i].dirty
    BY <1>1 DEF Slots, Active, PoolInv, DirtyInv
<1>3. ASSUME NEW i \in Slots
      PROVE  /\ ~buffers'[i].dirty
             /\ \A page \in Page : buffers'[i].page = page => buffers'[i].data = FromDisk(page)'
    <2>1. CASE trunc = NoTrunc
        <3>1. disk' = disk /\ buffers' = buffers
            BY <2>1 DEF DoTruncs
        <3> QED
            BY <1>1, <1>2, <3>1 DEF PoolInv, CleanInv, FromDisk
    <2>2. CASE trunc # NoTrunc
        <3> DEFINE maxPage == (trunc + PageSize - 1) \div PageSize
        <3>1. buffers' = Zapped(trunc) /\ disk' = [disk EXCEPT !.data = Truncated(disk.data, trunc)]
            <4>1. disk \in File
                BY <1>1 DEF TypeOK
            <4> QED
                BY <2>2, <4>1 DEF DoTruncs, File
        <3>2. disk'.data = Truncated(disk.data, trunc)
            BY <1>1, <3>1 DEF TypeOK, File
        <3>3. buffers'[i] = IF buffers[i].page >= maxPage THEN FreeBuffer ELSE buffers[i]
            BY <1>1, <3>1, InPlaceFacts DEF Zapped
        <3>4. ~buffers'[i].dirty
            BY <1>2, <3>3, BufferFacts
        <3>5. ASSUME NEW page \in Page, buffers'[i].page = page
              PROVE  buffers'[i].data = FromDisk(page)'
            <4>1. buffers'[i] = buffers[i] /\ ~(page >= maxPage)
                BY <3>3, <3>5, BufferFacts, PageFacts
            <4>2. buffers[i].data = FromDisk(page)
                BY <1>1, <1>2, <3>5, <4>1 DEF PoolInv, CleanInv
            <4>3. ASSUME NEW q \in PagePos(page) PROVE disk'.data[q] = disk.data[q]
                <5>1. q \in Pos /\ q \div PageSize = page
                    BY DEF PagePos
                <5>2. CutsOff(trunc)
                    BY <2>2 DEF PoolInv, TruncInv
                <5>3. ~(q >= trunc)
                    BY <4>1, <5>1, <5>2 DEF CutsOff
                <5> QED
                    BY <3>2, <5>1, <5>3 DEF Truncated
            <4> QED
                BY <4>1, <4>2, <4>3 DEF FromDisk
        <3> QED
            BY <3>4, <3>5
    <2> QED
        BY <2>1, <2>2
<1>4. DirtyInv'
    BY <1>1, <1>2, <1>3 DEF DirtyInv, OneDirty, Dirty
<1>5. CleanInv'
    BY <1>1, <1>2, <1>3 DEF CleanInv
<1> QED
    BY <1>1, <1>2, <1>4, <1>5 DEF PoolInv, WorkInv, TruncInv, NoEndInv

\* The end of a commit leaves the pool alone.
LEMMA LabelPool ==
    ASSUME TypeInv, PoolInv, SetLabel \/ SyncLabel \/ CutLog
    PROVE  PoolInv'
<1>1. /\ TypeOK /\ disk'.data = disk.data /\ UNCHANGED <<nbuffers, buffers, work, trunc, broken>>
      /\ pc \in {"label", "sync label", "cut"} /\ pc' \in {"sync label", "cut", "up"}
    BY DEF TypeInv, TypeOK, File, SetLabel, SyncLabel, CutLog, SyncFile, transVars
<1>2. /\ OneDirty' /\ WorkInv' /\ Slots' = Slots
      /\ \A page \in Page : \A i \in Slots :
            buffers'[i].page = page /\ ~buffers'[i].dirty => buffers'[i].data = FromDisk(page)'
    BY <1>1, PoolFrame DEF PoolInv, DirtyInv
<1>3. ~Active /\ ~Active' /\ trunc = NoTrunc /\ \A i \in Slots : ~buffers[i].dirty
    BY <1>1 DEF PoolInv, DirtyInv, TruncInv, Active
<1>4. DirtyInv' /\ CleanInv' /\ TruncInv'
    BY <1>1, <1>2, <1>3 DEF DirtyInv, CleanInv, TruncInv
<1>5. NoEndInv'
    <2>1. pc' \in {"sync label", "cut"} \/ synced' = 0
        BY DEF SetLabel, SyncLabel, CutLog, CutLogFile
    <2>2. synced' = 0 => 1..synced' = {}
        OBVIOUS
    <2> QED
        BY <2>1, <2>2 DEF NoEndInv
<1> QED
    BY <1>2, <1>4, <1>5 DEF PoolInv

\* An abort drops what the transaction has changed.
LEMMA AbortPool ==
    ASSUME TypeInv, PoolInv, Abort
    PROVE  PoolInv'
<1>1. /\ TypeOK /\ pc = "abort" /\ pc' = "up" /\ disk' = disk /\ nbuffers' = nbuffers
      /\ buffers' = DAbort /\ trunc' = NoTrunc /\ work' = NoTrans /\ synced' = 0
    BY DEF TypeInv, Abort, CutLogFile
<1>2. Slots' = Slots /\ ~Active'
    BY <1>1 DEF Slots, Active
<1>3. \A i \in Slots : buffers'[i] = FreeBuffer \/ (buffers'[i] = buffers[i] /\ ~buffers[i].dirty)
    BY <1>1, InPlaceFacts
<1>4. \A i \in Slots : ~buffers'[i].dirty
    BY <1>3, BufferFacts
<1>5. DirtyInv'
    BY <1>1, <1>2, <1>4 DEF DirtyInv, OneDirty, Dirty
<1>6. ASSUME NEW page \in Page, NEW i \in Slots, buffers'[i].page = page
      PROVE  buffers'[i].data = FromDisk(page)
    <2>1. buffers'[i] = buffers[i] /\ ~buffers[i].dirty
        BY <1>3, <1>6, BufferFacts, PageFacts
    <2> QED
        BY <1>1, <1>6, <2>1 DEF PoolInv, CleanInv
<1>7. CleanInv'
    BY <1>1, <1>2, <1>6 DEF CleanInv, FromDisk
<1> QED
    BY <1>1, <1>2, <1>5, <1>7 DEF PoolInv, WorkInv, TruncInv, NoEndInv

\* There is nothing in an empty log.
LEMMA NoRecords == 1..0 = {}
OBVIOUS

\* An empty pool is right whatever the file holds.
LEMMA EmptyPool ==
    ASSUME Slots' = Slots, \A i \in Slots : buffers'[i] = FreeBuffer,
           work' = NoTrans, trunc' = NoTrunc,
           pc' \in {"down", "replay", "sync replay", "cut log"} \/ (pc' = "up" /\ synced' = 0)
    PROVE  PoolInv'
<1>1. ~Active' /\ \A i \in Slots : ~buffers'[i].dirty /\ buffers'[i].page = -1
    BY BufferFacts DEF Active
<1>2. DirtyInv'
    BY <1>1 DEF DirtyInv, OneDirty, Dirty
<1>3. CleanInv'
    BY <1>1, PageFacts DEF CleanInv
<1>4. NoEndInv'
    <2>1. pc' \in {"down", "replay", "sync replay", "cut log"} \/ 1..synced' = {}
        BY NoRecords
    <2> QED
        BY <2>1 DEF NoEndInv
<1> QED
    BY <1>1, <1>2, <1>3, <1>4 DEF PoolInv, WorkInv, TruncInv

\* A crash empties the pool, and the restart goes around it.
LEMMA CrashPool ==
    ASSUME TypeInv, PoolInv, Crash \/ Recover
    PROVE  PoolInv'
<1>1. CASE Crash
    <2>1. Slots' = Slots /\ buffers' = [i \in Slots |-> FreeBuffer]
        BY <1>1 DEF Crash, Slots
    <2> QED
        BY <1>1, <2>1, EmptyPool DEF Crash
<1>2. CASE Recover
    <2>1. /\ pc \in {"down", "replay", "sync replay", "cut log"}
          /\ UNCHANGED <<nbuffers, buffers, work, trunc>>
          /\ pc' \in {"down", "replay", "sync replay", "cut log"} \/ (pc' = "up" /\ synced' = 0)
        BY <1>2 DEF Recover, StartReplay, ReplayRecord, ReplayEnd, ReplayFails, SyncReplay,
                    InitializeDB, CutLogFile, transVars
    <2>2. work = NoTrans /\ trunc = NoTrunc /\ \A i \in Slots : buffers[i] = FreeBuffer
        BY <2>1 DEF PoolInv, DirtyInv, TruncInv, CleanInv, Active
    <2>3. Slots' = Slots
        BY <2>1 DEF Slots
    <2> QED
        BY <2>1, <2>2, <2>3, EmptyPool
<1> QED
    BY <1>1, <1>2

\* Every step keeps the pool right.
LEMMA NextPool ==
    ASSUME NoGaps
    PROVE  TypeInv /\ TypeInv' /\ PoolInv /\ [Next]_vars => PoolInv'
<1> SUFFICES ASSUME TypeInv, TypeInv', PoolInv, [Next]_vars PROVE PoolInv'
    OBVIOUS
<1>1. CASE UNCHANGED vars
    BY <1>1 DEF vars, fileVars, transVars, PoolInv, DirtyInv, OneDirty, Dirty, CleanInv, FromDisk,
                WorkInv, Behind, Shows, TruncInv, CutsOff, NoEndInv, Active, Slots
<1>2. CASE Next
    BY <1>2, ReadPool, BeginPool, WritePool, TruncatePool, LogPool, SyncLogPool, FlushPool,
       SyncPool, DoTruncsPool, LabelPool, AbortPool, CrashPool
       DEF Next, Commit
<1> QED
    BY <1>1, <1>2

\* While no LOGEND is safe, a page is read as it is in a buffer that matches, or in the file.
LEMMA ReadersView ==
    ASSUME TypeInv, PoolInv
    PROVE  ReadersSeeCommitted
<1> SUFFICES ASSUME Unlocked, NEW page \in Page
             PROVE  View(page, FALSE) = {[p \in PagePos(page) |-> Database.data[p]]}
    BY DEF ReadersSeeCommitted
<1>1. pc \in {"up", "commit"}
    BY DEF Unlocked
<1>2. Database = disk
    BY <1>1 DEF Database, PoolInv, NoEndInv
<1>3. ASSUME NEW i \in Found(page, FALSE) PROVE buffers[i].data = FromDisk(page)
    <2>1. i \in Slots /\ buffers[i].page = page /\ ~buffers[i].dirty
        BY DEF Found, MatchBuffer
    <2> QED
        BY <1>1, <2>1 DEF PoolInv, CleanInv
<1>4. View(page, FALSE) = {FromDisk(page)}
    BY <1>3 DEF View
<1> QED
    BY <1>2, <1>4 DEF FromDisk

\* What a transaction reads through the pool is what it has written.
LEMMA WritersView ==
    ASSUME TypeInv, PoolInv
    PROVE  WriterSeesOwnWrites
<1> SUFFICES ASSUME Unlocked, Active, trunc = NoTrunc, NEW page \in Page
             PROVE  View(page, TRUE) = {[p \in PagePos(page) |-> work[p]]}
    BY DEF WriterSeesOwnWrites
<1>1. TypeOK /\ pc \in {"up", "commit"}
    BY DEF TypeInv, Unlocked
<1>2. \A p \in Pos : Shows(p, work[p])
    BY DEF PoolInv, WorkInv, Behind
<1>3. \A p \in PagePos(page) : p \in Pos /\ p \div PageSize = page
    BY DEF PagePos
<1>4. CASE \E j \in Slots : Dirty(j, page)
    <2>1. Found(page, TRUE) = {i \in Slots : Dirty(i, page)}
        BY <1>1, <1>4 DEF Found, MatchBuffer, Dirty
    <2>2. ASSUME NEW i \in Found(page, TRUE) PROVE buffers[i].data = [p \in PagePos(page) |-> work[p]]
        <3>1. i \in Slots /\ Dirty(i, page)
            BY <2>1
        <3>2. buffers[i].data \in [PagePos(page) -> Val]
            BY <1>1, <3>1, BufferFacts, PageFacts DEF TypeOK, Dirty
        <3>3. \A p \in PagePos(page) : buffers[i].data[p] = work[p]
            BY <1>2, <1>3, <3>1 DEF Shows
        <3> QED
            BY <3>2, <3>3
    <2>3. Found(page, TRUE) # {}
        BY <1>4, <2>1
    <2> QED
        BY <2>2, <2>3 DEF View
<1>5. CASE \A j \in Slots : ~Dirty(j, page)
    <2>1. FromDisk(page) = [p \in PagePos(page) |-> work[p]]
        BY <1>2, <1>3, <1>5 DEF Shows, FromDisk
    <2>2. ASSUME NEW i \in Found(page, TRUE) PROVE buffers[i].data = FromDisk(page)
        <3>1. i \in Slots /\ buffers[i].page = page
            BY DEF Found, MatchBuffer
        <3>2. ~buffers[i].dirty
            BY <1>5, <3>1 DEF Dirty
        <3> QED
            BY <1>1, <3>1, <3>2 DEF PoolInv, CleanInv
    <2> QED
        BY <2>1, <2>2 DEF View
<1> QED
    BY <1>4, <1>5

\* TypeInv and PoolInv are invariants.
LEMMA PoolCorrect ==
    ASSUME NoGaps
    PROVE  Spec => [](TypeInv /\ PoolInv)
<1>1. Init => TypeInv /\ PoolInv
    BY InitType, InitPool
<1>2. TypeInv /\ PoolInv /\ [Next]_vars => (TypeInv /\ PoolInv)'
    BY NextType, NextPool
<1> QED
    BY <1>1, <1>2, PTL DEF Spec

\* Whatever a write transaction has in its buffers, and whatever fails or crashes, a
\* read transaction is given the committed contents (MatchBuffer, DedupBuffer, DAbort).
THEOREM ReadersSeeCommittedCorrect ==
    ASSUME NoGaps
    PROVE  Spec => []ReadersSeeCommitted
<1>1. TypeInv /\ PoolInv => ReadersSeeCommitted
    BY ReadersView
<1> QED
    BY <1>1, PoolCorrect, PTL

\* A write transaction reads what it has written, however short the buffers are and
\* whatever copies read transactions have made (DRead).
THEOREM WriterSeesOwnWritesCorrect ==
    ASSUME NoGaps
    PROVE  Spec => []WriterSeesOwnWrites
<1>1. TypeInv /\ PoolInv => WriterSeesOwnWrites
    BY WritersView
<1> QED
    BY <1>1, PoolCorrect, PTL

=============================================================================
