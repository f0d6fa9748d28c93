-------------------------- MODULE UbikStoreProofs ---------------------------
(***************************************************************************)
(* The proof that the files of UbikDisk implement UbikStore.               *)
(***************************************************************************)
EXTENDS UbikDiskProofs, WellFoundedInduction

-----------------------------------------------------------------------------
(* The inductive invariant.                                                *)

\* The log holds a commit record.
Ended(l) == Len(l) # 0 /\ l[Len(l)].op = "end"

EndLabel(l) == l[Len(l)].version

Changed(l, p) == \E i \in 1..Len(l) : Changes(l[i], p)

\* The file after a replay of l.
Redo(l) == Redone(l, Len(l), disk.data)

\* Commit and abort records come last, and none is torn.
WellFormed(l) ==
    \A i \in 1..Len(l) : /\ l[i].op # "torn"
                         /\ l[i].op \in {"end", "abort"} => i = Len(l)

\* The transaction of the log is neither committed nor aborted.
Open(l) == \A i \in 1..Len(l) : l[i].op \in {"new", "data", "truncate"}

\* The parts of a commit after the sync of the log.
Finishing == {"flush", "sync", "truncate", "label", "sync label", "cut"}

\* The log of each phase.
LogInv ==
    /\ WellFormed(log) /\ WellFormed(oldLog)
    /\ pc \in {"up", "commit", "logend"} => Open(log)
    /\ pc = "sync log" => Ended(log) /\ synced < Len(log)
    /\ pc = "abort" => ~Ended(log)
    /\ pc \in Finishing \cup {"replay", "sync replay"} => Ended(log)
    /\ pc \in Finishing \cup {"replay", "sync replay", "down", "cut log"} =>
          synced = Len(log) /\ oldLog = <<>>
    /\ pc = "up" /\ ~Active => log = <<>>
    /\ broken => Active /\ pc \in {"up", "abort"}

\* The labels of each phase.
LabelInv ==
    /\ pc \in {"up", "commit", "logend", "abort"} => version = disk.label
    /\ pc = "sync log" => version = [disk.label EXCEPT !.counter = @ + 1]
    /\ pc \in Finishing \cup {"sync log"} => EndLabel(log) = version
    /\ pc \in {"sync label", "cut"} => disk.label = version
    /\ pc = "sync replay" => disk.label = EndLabel(log)
    /\ pc = "cut log" /\ Ended(log) => disk.label = EndLabel(log)

\* Where the file and what a crash leaves of it differ, the log will say what holds.
StableInv ==
    /\ \A p \in Pos : Changed(log, p) \/ disk.data[p] = stable.data[p]
    /\ pc \in {"down", "cut log", "up", "commit", "logend", "sync log", "abort",
               "flush", "truncate", "cut"} => disk = stable

\* The contents of each phase.
DataInv ==
    /\ Active /\ ~broken => work = Redo(log)
    /\ Active \/ pc \in {"flush", "sync", "truncate"} =>
          \A p \in Pos : Behind(p) => Changed(log, p)
    /\ pc = "flush" =>
          \A p \in Pos : IF Behind(p) THEN Redo(log)[p] = 0 ELSE Shows(p, Redo(log)[p])
    /\ pc \in {"sync", "truncate"} =>
          \A p \in Pos : Redo(log)[p] = IF Behind(p) THEN 0 ELSE disk.data[p]
    /\ pc \in {"label", "sync label", "cut", "sync replay"} => Redo(log) = disk.data
    /\ pc = "cut log" /\ Ended(log) => Redo(log) = disk.data
    /\ pc = "replay" => Redone(log, pos - 1, disk.data) = disk.data
    /\ Ended(oldLog) => Redo(oldLog) = disk.data /\ EndLabel(oldLog) = disk.label

FileInv == LogInv /\ LabelInv /\ StableInv /\ DataInv

-----------------------------------------------------------------------------
(* What a replay makes of a file.                                          *)

\* A set of records of a log has a last one.
LEMMA LastExists ==
    ASSUME NEW n \in Nat, NEW S, S \subseteq 1..n, S # {}
    PROVE  \E i \in S : \A j \in S : j <= i
<1> DEFINE R == OpToRel(<, Nat)
           T == {n - i : i \in S}
<1>1. T \subseteq Nat /\ T # {}
    <2>1. ASSUME NEW i \in S PROVE n - i \in Nat
        <3>1. i \in 1..n
            OBVIOUS
        <3> QED
            BY <3>1
    <2>2. PICK i \in S : TRUE
        OBVIOUS
    <2>3. n - i \in T
        OBVIOUS
    <2> QED
        BY <2>1, <2>3
<1>2. \A x, y \in Nat : x < y => <<x, y>> \in R
    BY DEF OpToRel
<1> HIDE DEF R
<1>3. IsWellFoundedOn(R, Nat)
    BY NatLessThanWellFounded DEF R
<1>4. PICK x \in T : \A y \in T : ~(<<y, x>> \in R)
    <2> HIDE DEF T
    <2> QED
        BY <1>1, <1>3, WFMin
<1>5. \A y \in T : ~(y < x)
    BY <1>1, <1>2, <1>4
<1>6. PICK i \in S : x = n - i
    OBVIOUS
<1>7. ASSUME NEW j \in S PROVE j <= i
    <2>1. n - j \in T
        OBVIOUS
    <2>2. ~(n - j < n - i)
        BY <1>5, <1>6, <2>1
    <2> QED
        BY <2>2
<1> QED
    BY <1>7

\* Record i is the last of the first n ones about position p.
LastAbout(l, n, p, i) ==
    i \in 1..n /\ Changes(l[i], p) /\ \A j \in 1..n : Changes(l[j], p) => j <= i

\* Redone in terms of the last record about a position.
LEMMA RedoneFacts ==
    ASSUME NEW l, NEW n \in Nat, NEW d, NEW p \in Pos
    PROVE  /\ (\A i \in 1..n : ~Changes(l[i], p)) => Redone(l, n, d)[p] = d[p]
           /\ \A i : LastAbout(l, n, p, i) => Redone(l, n, d)[p] = NewValue(l[i])
           /\ (\E i \in 1..n : Changes(l[i], p)) => \E i : LastAbout(l, n, p, i)
<1> DEFINE about == {i \in 1..n : Changes(l[i], p)}
           last == CHOOSE i \in about : \A j \in about : j <= i
<1>1. Redone(l, n, d)[p] = IF about = {} THEN d[p] ELSE NewValue(l[last])
    BY DEF Redone
<1>2. ASSUME NEW i, LastAbout(l, n, p, i) PROVE last = i /\ about # {}
    <2>1. i \in about /\ \A j \in about : j <= i
        BY <1>2 DEF LastAbout
    <2>2. last \in about /\ \A j \in about : j <= last
        BY <2>1
    <2>3. i \in Nat /\ last \in Nat /\ last <= i /\ i <= last
        BY <2>1, <2>2
    <2> HIDE DEF last
    <2> QED
        BY <2>1, <2>3
<1>3. ASSUME NEW k \in 1..n, Changes(l[k], p) PROVE \E i : LastAbout(l, n, p, i)
    <2>1. about \subseteq 1..n /\ about # {}
        BY <1>3
    <2>2. PICK i \in about : \A j \in about : j <= i
        <3> HIDE DEF about
        <3> QED
            BY <2>1, LastExists
    <2> QED
        BY <2>2 DEF LastAbout
<1> HIDE DEF last
<1> QED
    BY <1>1, <1>2, <1>3

\* Replays of logs that agree, onto files that agree where the logs say nothing.
LEMMA RedoneSame ==
    ASSUME NEW l, NEW m, NEW n \in Nat, NEW d, NEW e, NEW p \in Pos,
           \A i \in 1..n : l[i] = m[i],
           (\A i \in 1..n : ~Changes(l[i], p)) => d[p] = e[p]
    PROVE  Redone(l, n, d)[p] = Redone(m, n, e)[p]
<1>1. CASE \A i \in 1..n : ~Changes(l[i], p)
    <2>1. \A i \in 1..n : ~Changes(m[i], p)
        BY <1>1
    <2> QED
        BY <1>1, <2>1, RedoneFacts
<1>2. CASE \E i \in 1..n : Changes(l[i], p)
    <2>1. PICK i : LastAbout(l, n, p, i)
        BY <1>2, RedoneFacts
    <2>2. LastAbout(m, n, p, i) /\ l[i] = m[i]
        BY <2>1 DEF LastAbout
    <2> QED
        BY <2>1, <2>2, RedoneFacts
<1> QED
    BY <1>1, <1>2

\* The first n records of two logs are the same.
Agree(l, m, n) == \A i \in 1..n : l[i] = m[i]

\* Replays of logs that agree.
LEMMA RedoneAgree ==
    ASSUME NEW l, NEW m, NEW n \in Nat, NEW d, NEW p \in Pos, Agree(l, m, n)
    PROVE  Redone(l, n, d)[p] = Redone(m, n, d)[p]
<1>1. (\A i \in 1..n : ~Changes(l[i], p)) => d[p] = d[p]
    OBVIOUS
<1> QED
    BY <1>1, RedoneSame DEF Agree

\* Replays onto files that agree at p.
LEMMA RedoneAlike ==
    ASSUME NEW l, NEW n \in Nat, NEW d, NEW e, NEW p \in Pos, d[p] = e[p]
    PROVE  Redone(l, n, d)[p] = Redone(l, n, e)[p]
<1>1. (\A i \in 1..n : l[i] = l[i]) /\ ((\A i \in 1..n : ~Changes(l[i], p)) => d[p] = e[p])
    OBVIOUS
<1> QED
    BY <1>1, RedoneSame

\* One more record.
LEMMA RedoneStep ==
    ASSUME NEW l, NEW n \in Nat, NEW d, NEW p \in Pos
    PROVE  Redone(l, n + 1, d)[p] =
              IF Changes(l[n + 1], p) THEN NewValue(l[n + 1]) ELSE Redone(l, n, d)[p]
<1>1. CASE Changes(l[n + 1], p)
    <2>1. LastAbout(l, n + 1, p, n + 1)
        BY <1>1 DEF LastAbout
    <2> QED
        BY <1>1, <2>1, RedoneFacts
<1>2. CASE ~Changes(l[n + 1], p) /\ \A i \in 1..n : ~Changes(l[i], p)
    <2>1. \A i \in 1..(n + 1) : ~Changes(l[i], p)
        BY <1>2
    <2> QED
        BY <1>2, <2>1, RedoneFacts
<1>3. CASE ~Changes(l[n + 1], p) /\ \E i \in 1..n : Changes(l[i], p)
    <2>1. PICK i : LastAbout(l, n, p, i)
        BY <1>3, RedoneFacts
    <2>2. LastAbout(l, n + 1, p, i)
        BY <1>3, <2>1 DEF LastAbout
    <2> QED
        BY <1>3, <2>1, <2>2, RedoneFacts
<1> QED
    BY <1>1, <1>2, <1>3

\* A replay makes contents of contents.
LEMMA RedoneType ==
    ASSUME NEW l \in Seq(Record), NEW n \in 0..Len(l), NEW d \in [Pos -> Val]
    PROVE  Redone(l, n, d) \in [Pos -> Val]
<1>1. n \in Nat /\ \A i \in 1..n : l[i] \in Record
    OBVIOUS
<1>2. Redone(l, n, d) = [p \in Pos |-> Redone(l, n, d)[p]]
    BY DEF Redone
<1>3. ASSUME NEW p \in Pos PROVE Redone(l, n, d)[p] \in Val
    <2>1. CASE \A i \in 1..n : ~Changes(l[i], p)
        <3>1. Redone(l, n, d)[p] = d[p]
            BY <1>1, <2>1, RedoneFacts
        <3> QED
            BY <3>1
    <2>2. CASE \E i \in 1..n : Changes(l[i], p)
        <3>1. PICK i : LastAbout(l, n, p, i)
            BY <1>1, <2>2, RedoneFacts
        <3>2. Redone(l, n, d)[p] = NewValue(l[i]) /\ l[i] \in Record
            BY <1>1, <3>1, RedoneFacts DEF LastAbout
        <3> QED
            BY <3>2, NewValueType
    <2> QED
        BY <2>1, <2>2
<1> QED
    BY <1>2, <1>3

\* So does the replay of a whole log.
LEMMA RedoType ==
    ASSUME NEW l \in Seq(Record), NEW d \in [Pos -> Val]
    PROVE  Redone(l, Len(l), d) \in [Pos -> Val]
<1>1. Len(l) \in 0..Len(l)
    OBVIOUS
<1> QED
    BY <1>1, RedoneType

\* A replay makes the same of files that differ only where the log says what holds.
LEMMA RedoneEqual ==
    ASSUME NEW l \in Seq(Record), NEW d \in [Pos -> Val], NEW e \in [Pos -> Val],
           \A p \in Pos : Changed(l, p) \/ d[p] = e[p]
    PROVE  Redone(l, Len(l), d) = Redone(l, Len(l), e)
<1>1. Len(l) \in Nat /\ Len(l) \in 0..Len(l)
    OBVIOUS
<1>2. ASSUME NEW p \in Pos PROVE Redone(l, Len(l), d)[p] = Redone(l, Len(l), e)[p]
    <2> DEFINE n == Len(l)
    <2>1. (\A i \in 1..n : ~Changes(l[i], p)) => d[p] = e[p]
        BY DEF Changed
    <2>2. n \in Nat /\ \A i \in 1..n : l[i] = l[i]
        BY <1>1
    <2> HIDE DEF n
    <2>3. Redone(l, n, d)[p] = Redone(l, n, e)[p]
        BY <2>1, <2>2, RedoneSame
    <2> QED
        BY <2>3 DEF n
<1>3. Redone(l, Len(l), d) \in [Pos -> Val] /\ Redone(l, Len(l), e) \in [Pos -> Val]
    BY <1>1, RedoneType
<1> QED
    BY <1>2, <1>3

\* The log m is l and the record r.
OneMore(m, l, r) ==
    /\ Len(l) \in Nat /\ Len(m) = Len(l) + 1 /\ m[Len(l) + 1] = r
    /\ \A i \in 1..Len(l) : m[i] = l[i]

\* Append as one more record behind the same ones.
LEMMA AppendOneMore ==
    ASSUME NEW l \in Seq(Record), NEW r \in Record
    PROVE  OneMore(Append(l, r), l, r)
BY AppendFacts DEF OneMore

\* The log after one more record.
LEMMA AppendRedone ==
    ASSUME NEW l, NEW r, NEW m, OneMore(m, l, r)
    PROVE  /\ \A p : Changed(m, p) <=> Changed(l, p) \/ Changes(r, p)
           /\ Ended(m) <=> r.op = "end"
           /\ Ended(m) => EndLabel(m) = r.version
           /\ Open(l) /\ r.op # "torn" => WellFormed(m)
           /\ Open(l) /\ r.op \in {"new", "data", "truncate"} => Open(m)
<1>1. /\ Len(l) \in Nat /\ Len(m) = Len(l) + 1 /\ m[Len(l) + 1] = r
      /\ \A i \in 1..Len(l) : m[i] = l[i]
    BY DEF OneMore
<1>2. \A i \in 1..Len(m) : i \in 1..Len(l) \/ i = Len(l) + 1
    BY <1>1
<1>3. Len(l) + 1 \in 1..Len(m) /\ \A i \in 1..Len(l) : i \in 1..Len(m)
    BY <1>1
<1>4. ASSUME NEW p PROVE Changed(m, p) <=> Changed(l, p) \/ Changes(r, p)
    BY <1>1, <1>2, <1>3 DEF Changed
<1>6. Ended(m) <=> r.op = "end"
    BY <1>1 DEF Ended
<1>7. EndLabel(m) = r.version
    BY <1>1 DEF EndLabel
<1>8. Open(l) /\ r.op # "torn" => WellFormed(m)
    BY <1>1, <1>2 DEF Open, WellFormed
<1>9. Open(l) /\ r.op \in {"new", "data", "truncate"} => Open(m)
    BY <1>1, <1>2 DEF Open
<1> QED
    BY <1>4, <1>6, <1>7, <1>8, <1>9

\* What a replay makes of one more record.
LEMMA AppendRedo ==
    ASSUME NEW l, NEW r, NEW m, OneMore(m, l, r), NEW d, NEW p \in Pos
    PROVE  /\ Changes(r, p) => Redone(m, Len(m), d)[p] = NewValue(r)
           /\ ~Changes(r, p) => Redone(m, Len(m), d)[p] = Redone(l, Len(l), d)[p]
<1> DEFINE n == Len(l)
<1>1. n \in Nat /\ Agree(m, l, n)
    BY DEF Agree, OneMore
<1>2. Len(m) = n + 1 /\ m[n + 1] = r
    BY DEF OneMore
<1> HIDE DEF n
<1>3. Redone(m, n, d)[p] = Redone(l, n, d)[p]
    BY <1>1, RedoneAgree
<1>4. Redone(m, n + 1, d)[p] = IF Changes(m[n + 1], p) THEN NewValue(m[n + 1]) ELSE Redone(m, n, d)[p]
    BY <1>1, RedoneStep
<1> QED
    BY <1>2, <1>3, <1>4 DEF n

\* A replay leaves alone what the log says nothing of.
LEMMA Untouched ==
    ASSUME NEW l \in Seq(Record), NEW d, NEW p \in Pos, ~Changed(l, p)
    PROVE  Redone(l, Len(l), d)[p] = d[p]
<1> DEFINE n == Len(l)
<1>1. n \in Nat /\ \A i \in 1..n : ~Changes(l[i], p)
    BY DEF Changed
<1> HIDE DEF n
<1>2. Redone(l, n, d)[p] = d[p]
    BY <1>1, RedoneFacts
<1> QED
    BY <1>2 DEF n

\* A log that was cut says nothing.
LEMMA EmptyFacts ==
    /\ WellFormed(<<>>) /\ Open(<<>>) /\ ~Ended(<<>>)
    /\ \A p : ~Changed(<<>>, p)
    /\ \A d \in [Pos -> Val] : Redone(<<>>, Len(<<>>), d) = d
<1>1. Len(<<>>) = 0 /\ 1..Len(<<>>) = {} /\ Len(<<>>) \in Nat
    BY EmptyLog, NoRecords
<1>2. ASSUME NEW d \in [Pos -> Val] PROVE Redone(<<>>, Len(<<>>), d) = d
    <2>1. \A p \in Pos : Redone(<<>>, Len(<<>>), d)[p] = d[p]
        BY <1>1, RedoneFacts
    <2>2. Redone(<<>>, Len(<<>>), d) = [p \in Pos |-> Redone(<<>>, Len(<<>>), d)[p]]
        BY DEF Redone
    <2> QED
        BY <2>1, <2>2
<1> QED
    BY <1>1, <1>2 DEF WellFormed, Open, Ended, Changed

\* The last record of a log is one of its records.
LEMMA LastInRange ==
    ASSUME NEW n \in Nat, n # 0 PROVE n \in 1..n
OBVIOUS

\* A log has a length.
LEMMA LogLength ==
    ASSUME NEW l \in Seq(Record) PROVE Len(l) \in Nat
OBVIOUS

\* The commit or the abort of a log is not in what is left of it without its last record.
LEMMA PrefixOpen ==
    ASSUME NEW l \in Seq(Record), WellFormed(l), NEW n \in 0..Len(l), NEW m, m = SubSeq(l, 1, n)
    PROVE  /\ WellFormed(m)
           /\ n < Len(l) => ~Ended(m)
           /\ n = Len(l) => m = l
<1>1. Len(m) = n /\ n \in Nat /\ \A i \in 1..n : m[i] = l[i]
    BY PrefixFacts
<1>2. \A i \in 1..n : i \in 1..Len(l) /\ i <= n
    BY <1>1
<1>3. WellFormed(m)
    BY <1>1, <1>2 DEF WellFormed
<1>4. ASSUME n < Len(l) PROVE ~Ended(m)
    <2>1. CASE n = 0
        BY <1>1, <2>1 DEF Ended
    <2>2. CASE n # 0
        <3>1. n \in 1..n /\ n # Len(l)
            BY <1>1, <1>4, <2>2
        <3> QED
            BY <1>1, <1>2, <3>1 DEF WellFormed, Ended
    <2> QED
        BY <2>1, <2>2
<1>5. ASSUME n = Len(l) PROVE m = l
    BY <1>5
<1> QED
    BY <1>3, <1>4, <1>5

-----------------------------------------------------------------------------
(* The database of a log l of which n records are safe, and a file d.      *)

Contents(l, n, d) ==
    IF ~\E i \in 1..n : l[i].op = "end" THEN d
    ELSE [data |-> Redone(l, n, d.data),
          label |-> l[CHOOSE i \in 1..n : l[i].op = "end"].version]

\* A commit counts once the whole log is safe.
LEMMA ContentsFacts ==
    ASSUME NEW l \in Seq(Record), NEW n \in 0..Len(l), NEW d, WellFormed(l)
    PROVE  /\ Ended(l) /\ n = Len(l) =>
                 Contents(l, n, d) = [data |-> Redone(l, Len(l), d.data), label |-> EndLabel(l)]
           /\ ~Ended(l) \/ n < Len(l) => Contents(l, n, d) = d
<1>1. Len(l) \in Nat /\ n \in Nat
    OBVIOUS
<1>2. \A i \in 1..n : i \in 1..Len(l) /\ i <= n
    BY <1>1
<1>3. ASSUME Ended(l), n = Len(l)
      PROVE  Contents(l, n, d) = [data |-> Redone(l, Len(l), d.data), label |-> EndLabel(l)]
    <2>1. Len(l) \in 1..n /\ l[Len(l)].op = "end"
        BY <1>1, <1>3 DEF Ended
    <2>2. \A i \in 1..n : l[i].op = "end" => i = Len(l)
        BY <1>2 DEF WellFormed
    <2>3. (CHOOSE i \in 1..n : l[i].op = "end") = Len(l)
        BY <2>1, <2>2
    <2> QED
        BY <1>3, <2>1, <2>3 DEF Contents, EndLabel
<1>4. ASSUME ~Ended(l) \/ n < Len(l) PROVE Contents(l, n, d) = d
    <2>1. ASSUME NEW i \in 1..n, l[i].op = "end" PROVE FALSE
        <3>1. i = Len(l) /\ Len(l) <= n /\ Len(l) # 0
            BY <1>1, <1>2, <2>1 DEF WellFormed
        <3> QED
            BY <1>1, <1>4, <2>1, <3>1 DEF Ended
    <2> QED
        BY <2>1 DEF Contents
<1> QED
    BY <1>3, <1>4

\* Database, in both states of a step.
LEMMA DatabaseContents ==
    Database = Contents(log, synced, disk) /\ Database' = Contents(log', synced', disk')
BY DEF Database, Contents

\* The database before a step, and after it.
LEMMA DatabaseBefore ==
    ASSUME TypeInv, LogInv
    PROVE  /\ ~Ended(log) \/ synced < Len(log) => Database = disk
           /\ Ended(log) /\ synced = Len(log) =>
                 Database = [data |-> Redo(log), label |-> EndLabel(log)]
<1>1. log \in Seq(Record) /\ synced \in 0..Len(log) /\ WellFormed(log)
    BY DEF TypeInv, TypeOK, LogInv
<1>2. Redo(log) = Redone(log, Len(log), disk.data)
    BY DEF Redo
<1> QED
    BY <1>1, <1>2, ContentsFacts, DatabaseContents

\* What a step leaves: the file as it is, or, with a synced LOGEND, the log redone on it.
LEMMA DatabaseAfter ==
    ASSUME TypeInv', LogInv'
    PROVE  /\ ~Ended(log') \/ synced' < Len(log') => Database' = disk'
           /\ Ended(log') /\ synced' = Len(log') =>
                 Database' = [data |-> Redo(log)', label |-> EndLabel(log')]
<1>1. log' \in Seq(Record) /\ synced' \in 0..Len(log') /\ WellFormed(log')
    BY DEF TypeInv, TypeOK, LogInv, WellFormed
<1>2. Redo(log)' = Redone(log', Len(log'), disk'.data)
    BY DEF Redo
<1> QED
    BY <1>1, <1>2, ContentsFacts, DatabaseContents

\* What each record changes.
LEMMA RecordChanges ==
    /\ LogNew.op = "new" /\ \A p : ~Changes(LogNew, p)
    /\ LogAbort.op = "abort" /\ \A p : ~Changes(LogAbort, p)
    /\ \A ver : LogEnd(ver).op = "end" /\ LogEnd(ver).version = ver /\ \A p : ~Changes(LogEnd(ver), p)
    /\ \A q, v : /\ LogData(q, v).op = "data" /\ NewValue(LogData(q, v)) = v
                 /\ \A p : Changes(LogData(q, v), p) <=> p = q
    /\ \A len : /\ LogTruncate(len).op = "truncate" /\ NewValue(LogTruncate(len)) = 0
                /\ \A p : Changes(LogTruncate(len), p) <=> len <= p
BY DEF LogNew, LogAbort, LogEnd, LogData, LogTruncate, Changes, NewValue

\* What an append to the log of an open transaction does.
LEMMA AppendOpen ==
    ASSUME TypeInv, TypeInv', FileInv, Open(log), NEW r \in Record, r.op # "torn",
           OneMore(log', log, r), disk' = disk, stable' = stable
    PROVE  /\ WellFormed(log')
           /\ r.op \in {"new", "data", "truncate"} => Open(log')
           /\ Ended(log') <=> r.op = "end"
           /\ Ended(log') => EndLabel(log') = r.version
           /\ \A p : Changed(log', p) <=> Changed(log, p) \/ Changes(r, p)
           /\ Redo(log)' \in [Pos -> Val] /\ Redo(log) \in [Pos -> Val]
           /\ \A p \in Pos : Redo(log)'[p] = IF Changes(r, p) THEN NewValue(r) ELSE Redo(log)[p]
           /\ \A l : Redo(l)' = Redo(l)
<1>1. log \in Seq(Record) /\ log' \in Seq(Record) /\ disk.data \in [Pos -> Val]
    BY DEF TypeInv, TypeOK, File
<1>3. /\ Redo(log)' = Redone(log', Len(log'), disk.data)
      /\ Redo(log) = Redone(log, Len(log), disk.data)
    BY DEF Redo
<1>4. \A l : Redo(l)' = Redo(l)
    BY DEF Redo
<1>5. Redo(log)' \in [Pos -> Val] /\ Redo(log) \in [Pos -> Val]
    BY <1>1, <1>3, RedoType
<1>6. /\ WellFormed(log')
      /\ r.op \in {"new", "data", "truncate"} => Open(log')
      /\ Ended(log') <=> r.op = "end"
      /\ Ended(log') => EndLabel(log') = r.version
    BY AppendRedone
<1>7. \A p : Changed(log', p) <=> Changed(log, p) \/ Changes(r, p)
    BY AppendRedone
<1>8. ASSUME NEW p \in Pos
      PROVE  Redo(log)'[p] = IF Changes(r, p) THEN NewValue(r) ELSE Redo(log)[p]
    <2>1. Changes(r, p) => Redone(log', Len(log'), disk.data)[p] = NewValue(r)
        BY AppendRedo
    <2>2. ~Changes(r, p) =>
             Redone(log', Len(log'), disk.data)[p] = Redone(log, Len(log), disk.data)[p]
        BY AppendRedo
    <2> QED
        BY <1>3, <2>1, <2>2
<1> QED
    BY <1>4, <1>5, <1>6, <1>7, <1>8

\* A step of the storage is a step of the store.
Simulates == Store!StoreNext \/ UNCHANGED <<Database, work>>

\* Reads change neither the files nor the transaction.
LEMMA ReadFile ==
    ASSUME FileInv, NEW page \in Page, Read(page)
    PROVE  FileInv' /\ Simulates
<1>1. /\ UNCHANGED <<pc, disk, stable, log, synced, oldLog, version, trunc, broken, work, pos>>
      /\ pc \in {"up", "commit"}
    BY DEF Read, fileVars, transVars, Unlocked
<1>2. LogInv' /\ LabelInv' /\ StableInv'
    BY <1>1 DEF FileInv, LogInv, LabelInv, StableInv, WellFormed, Open, Ended, EndLabel, Changed, Active
<1>3. DataInv'
    BY <1>1 DEF FileInv, DataInv, Redo, Active, Behind, Changed, Ended, EndLabel
<1>4. Database' = Database
    BY <1>1, DatabaseContents
<1> QED
    BY <1>1, <1>2, <1>3, <1>4 DEF FileInv, Simulates

\* A transaction begins with the committed contents.
LEMMA BeginFile ==
    ASSUME TypeInv, TypeInv', PoolInv, FileInv, Begin
    PROVE  FileInv' /\ Simulates
<1>1. /\ UNCHANGED <<pc, disk, stable, synced, oldLog, version, trunc, broken>>
      /\ pc = "up" /\ ~Active /\ log' = Append(log, LogNew) /\ work' = disk.data
    BY DEF Begin, LogAppend
<1>2. log = <<>> /\ trunc = NoTrunc /\ ~broken
    BY <1>1 DEF FileInv, LogInv, PoolInv, TruncInv
<1>3. disk.data \in [Pos -> Val] /\ Active'
    BY <1>1, SizeAssumption DEF TypeInv, TypeOK, File, Active
<1>4. /\ WellFormed(log') /\ Open(log') /\ ~Ended(log')
      /\ Redo(log)' \in [Pos -> Val] /\ Redo(log) \in [Pos -> Val]
      /\ \A p \in Pos : Redo(log)'[p] = Redo(log)[p]
      /\ \A p : Changed(log', p) <=> Changed(log, p)
      /\ \A l : Redo(l)' = Redo(l)
    <2>1. OneMore(log', log, LogNew)
        BY <1>1, RecordFacts, AppendOneMore DEF TypeInv, TypeOK
    <2>2. Open(log)
        BY <1>2, EmptyFacts
    <2> QED
        BY <1>1, <2>1, <2>2, RecordChanges, RecordFacts, AppendOpen
<1>5. Redo(log)' = work'
    BY <1>1, <1>2, <1>3, <1>4, EmptyFacts DEF Redo
<1>6. LogInv'
    BY <1>1, <1>2, <1>3, <1>4 DEF FileInv, LogInv, WellFormed, Open, Finishing
<1>7. LabelInv' /\ StableInv'
    BY <1>1, <1>4 DEF FileInv, LabelInv, StableInv, Finishing, Changed
<1>8. DataInv'
    BY <1>1, <1>2, <1>4, <1>5 DEF FileInv, DataInv, Behind, Ended, EndLabel
<1>9. Database = disk /\ Database' = disk
    BY <1>1, <1>2, <1>4, <1>6, EmptyFacts, DatabaseBefore, DatabaseAfter DEF FileInv
<1>10. Store!StoreBegin
    BY <1>1, <1>9 DEF Store!StoreBegin, Active
<1> QED
    BY <1>6, <1>7, <1>8, <1>10 DEF FileInv, Simulates, Store!StoreNext

\* A change of an active transaction is in the log and in what the transaction asks for.
LEMMA ChangeFile ==
    ASSUME TypeInv, TypeInv', FileInv, Active, Active', NEW r \in Record,
           r.op \in {"data", "truncate"},
           OneMore(log', log, r), UNCHANGED <<pc, disk, stable, synced, oldLog, version>>,
           pc = "up", ~broken,
           ~broken' => \A p \in Pos : work'[p] = IF Changes(r, p) THEN NewValue(r) ELSE work[p],
           \A p \in Pos : Behind(p)' => Behind(p) \/ Changes(r, p)
    PROVE  FileInv' /\ Simulates
<1>1. Open(log) /\ work = Redo(log)
    BY DEF FileInv, LogInv, DataInv
<1>2. /\ WellFormed(log') /\ Open(log') /\ ~Ended(log')
      /\ Redo(log)' \in [Pos -> Val] /\ Redo(log) \in [Pos -> Val]
      /\ \A p : Changed(log', p) <=> Changed(log, p) \/ Changes(r, p)
      /\ \A l : Redo(l)' = Redo(l)
    BY <1>1, AppendOpen
<1>3. \A p \in Pos : Redo(log)'[p] = IF Changes(r, p) THEN NewValue(r) ELSE Redo(log)[p]
    BY <1>1, AppendOpen
<1>4. work' \in [Pos -> Val] /\ work \in [Pos -> Val]
    BY DEF Active, TypeInv, TypeOK
<1>5. ~broken' => Redo(log)' = work'
    <2>1. ASSUME ~broken', NEW p \in Pos PROVE Redo(log)'[p] = work'[p]
        BY <1>1, <1>3, <2>1
    <2> QED
        BY <1>2, <1>4, <2>1
<1>6. LogInv'
    BY <1>2 DEF FileInv, LogInv, WellFormed, Open, Finishing
<1>7. LabelInv' /\ StableInv'
    BY <1>2 DEF FileInv, LabelInv, StableInv, Finishing, Changed
<1>8. \A p \in Pos : Behind(p)' => Changed(log', p)
    BY <1>2 DEF FileInv, DataInv
<1>9. DataInv'
    BY <1>2, <1>5, <1>8 DEF FileInv, DataInv, Ended, EndLabel, Changed
<1>10. Database = disk
    <2>1. ~Ended(log)
        BY <1>1 DEF FileInv, LogInv, Ended, WellFormed, Open, TypeInv, TypeOK
    <2> QED
        BY <2>1, DatabaseBefore DEF FileInv
<1>11. Database' = disk
    BY <1>2, <1>6, DatabaseAfter
<1>12. Store!StoreChange
    BY <1>4, <1>10, <1>11 DEF Store!StoreChange, Active
<1> QED
    BY <1>6, <1>7, <1>9, <1>12 DEF FileInv, Simulates, Store!StoreNext

\* Writes are changes.
LEMMA WriteFile ==
    ASSUME TypeInv, TypeInv', PoolInv, FileInv, NEW p \in Pos, NEW v \in Val, Write(p, v)
    PROVE  FileInv' /\ Simulates
<1>1. /\ UNCHANGED <<pc, disk, stable, synced, oldLog, version>>
      /\ pc = "up" /\ Active /\ ~broken /\ log' = Append(log, LogData(p, v))
      /\ trunc' = Expand(trunc, p)
    BY DEF Write, LogAppend
<1>2. work' = [work EXCEPT ![p] = v] \/ (broken' /\ work' = work)
    BY DEF Write
<1>4. work' \in [Pos -> Val] /\ Active'
    <2>1. work' \in [Pos -> Val]
        BY <1>1, <1>2 DEF Active, TypeInv, TypeOK
    <2> QED
        BY <2>1, SizeAssumption DEF Active
<1> DEFINE r == LogData(p, v)
<1>5. /\ r \in Record /\ r.op = "data" /\ NewValue(r) = v
      /\ \A q : Changes(r, q) <=> q = p
    BY RecordFacts, RecordChanges
<1>6. OneMore(log', log, r)
    BY <1>1, <1>5, AppendOneMore DEF TypeInv, TypeOK
<1> HIDE DEF r
<1>7. ASSUME ~broken', NEW q \in Pos
      PROVE  work'[q] = IF Changes(r, q) THEN NewValue(r) ELSE work[q]
    BY <1>1, <1>2, <1>5, <1>7 DEF Active, TypeInv, TypeOK
<1>8. ASSUME NEW q \in Pos, Behind(q)' PROVE Behind(q) \/ Changes(r, q)
    <2>1. TypeOK /\ (trunc # NoTrunc => CutsOff(trunc))
        BY DEF TypeInv, PoolInv, TruncInv
    <2>2. ~Behind(p)' /\ \A s \in Pos \ {p} : Behind(s)' <=> Behind(s)
        BY <1>1, <2>1, ExpandFacts
    <2> QED
        BY <1>5, <1>8, <2>2
<1> QED
    BY <1>1, <1>4, <1>5, <1>6, <1>7, <1>8, ChangeFile

\* Truncations are changes.
LEMMA TruncateFile ==
    ASSUME TypeInv, TypeInv', PoolInv, FileInv, NEW len \in TruncTo, Truncate(len)
    PROVE  FileInv' /\ Simulates
<1>1. /\ UNCHANGED <<pc, disk, stable, synced, oldLog, version, broken>>
      /\ pc = "up" /\ Active /\ ~broken /\ log' = Append(log, LogTruncate(len))
      /\ trunc' = IF trunc = NoTrunc \/ len < trunc THEN len ELSE trunc
      /\ work' = Truncated(work, len)
    BY DEF Truncate, LogAppend
<1>2. work \in [Pos -> Val] /\ len \in 0..Size /\ Size \in Nat
    BY <1>1, SizeAssumption DEF Active, TypeInv, TypeOK
<1>3. Active'
    <2>1. work' \in [Pos -> Val]
        BY <1>1, <1>2, SizeAssumption DEF Truncated
    <2> QED
        BY <2>1, SizeAssumption DEF Active
<1> DEFINE r == LogTruncate(len)
<1>4. /\ r \in Record /\ r.op = "truncate" /\ NewValue(r) = 0
      /\ \A q : Changes(r, q) <=> len <= q
    BY RecordFacts, RecordChanges
<1>5. OneMore(log', log, r)
    BY <1>1, <1>4, AppendOneMore DEF TypeInv, TypeOK
<1> HIDE DEF r
<1>6. ASSUME NEW q \in Pos
      PROVE  work'[q] = IF Changes(r, q) THEN NewValue(r) ELSE work[q]
    BY <1>1, <1>2, <1>4 DEF Truncated, Pos
<1>7. ASSUME NEW q \in Pos, Behind(q)' PROVE Behind(q) \/ Changes(r, q)
    <2>1. trunc' = len \/ (trunc' = trunc /\ trunc # NoTrunc)
        BY <1>1
    <2> QED
        BY <1>2, <1>4, <1>7, <2>1 DEF Behind, Pos
<1> QED
    BY <1>1, <1>3, <1>4, <1>5, <1>6, <1>7, ChangeFile

\* The log of an active transaction is not safely committed.
LEMMA NotYet ==
    ASSUME TypeInv, FileInv, pc \in {"up", "commit", "logend", "abort", "sync log"}
    PROVE  Database = disk /\ (pc # "sync log" => ~Ended(log))
<1>1. ASSUME pc \in {"up", "commit", "logend"} PROVE ~Ended(log)
    <2>1. Open(log)
        BY <1>1 DEF FileInv, LogInv
    <2>2. Len(log) \in Nat
        BY LogLength DEF TypeInv, TypeOK
    <2>3. Len(log) # 0 => Len(log) \in 1..Len(log)
        BY <2>2, LastInRange
    <2> QED
        BY <2>1, <2>3 DEF Open, Ended
<1>2. pc = "abort" => ~Ended(log)
    BY DEF FileInv, LogInv
<1>3. pc = "sync log" => synced < Len(log)
    BY DEF FileInv, LogInv
<1> QED
    BY <1>1, <1>2, <1>3, DatabaseBefore DEF FileInv

\* A new label is a step of its own.
LEMMA StartCommitFile ==
    ASSUME TypeInv, TypeInv', PoolInv, FileInv, StartCommit
    PROVE  FileInv' /\ Simulates
<1>1. /\ pc = "up" /\ pc' \in {"commit", "logend"} /\ Active /\ ~broken
      /\ UNCHANGED <<log, synced, work, trunc, broken>>
    BY DEF StartCommit, transVars, fileVars
<1>2. Database = disk /\ ~Ended(log) /\ Open(log) /\ WellFormed(log) /\ WellFormed(oldLog)
      /\ version = disk.label /\ disk = stable
    BY <1>1, NotYet DEF FileInv, LogInv, LabelInv, StableInv
<1>3. disk \in File /\ version \in Version /\ disk' \in File /\ stable' \in File
    BY DEF TypeInv, TypeOK
<1>4. CASE pc' = "commit"
    <2>1. PICK e \in (version.epoch + 1)..MaxEpoch :
              /\ version' = [epoch |-> e, counter |-> 1]
              /\ disk' = [disk EXCEPT !.label = version'] /\ stable' = disk' /\ oldLog' = <<>>
        BY <1>4 DEF StartCommit, SyncFile
    <2>2. disk'.data = disk.data /\ disk'.label = version'
        BY <1>3, <2>1 DEF File
    <2>3. LogInv'
        BY <1>1, <1>2, <1>4, <2>1, EmptyFacts DEF FileInv, LogInv, WellFormed, Open, Finishing
    <2>4. LabelInv' /\ StableInv'
        BY <1>1, <1>4, <2>1, <2>2 DEF LabelInv, StableInv, Finishing
    <2>5. DataInv'
        <3>1. work' = Redo(log)'
            BY <1>1, <2>2 DEF FileInv, DataInv, Redo
        <3>2. \A p \in Pos : Behind(p)' => Changed(log', p)
            BY <1>1 DEF FileInv, DataInv, Behind
        <3> QED
            BY <1>1, <1>4, <2>1, <3>1, <3>2, EmptyFacts DEF DataInv, Changed, Ended
    <2>6. Database' = disk'
        BY <1>1, <1>2, <2>3, DatabaseAfter
    <2>7. version.epoch \in Nat /\ e > version.epoch
        BY <1>3, <2>1, SizeAssumption DEF Version
    <2>8. Store!StoreRelabel
        <3>1. disk'.label.epoch = e /\ disk'.label.epoch > disk.label.epoch
            BY <1>2, <2>1, <2>2, <2>7
        <3>2. disk' = [disk EXCEPT !.label = [epoch |-> disk'.label.epoch, counter |-> 1]]
            BY <2>1, <3>1
        <3> QED
            BY <1>1, <1>2, <2>6, <3>1, <3>2 DEF Store!StoreRelabel
    <2> QED
        BY <2>3, <2>4, <2>5, <2>8 DEF FileInv, Simulates, Store!StoreNext
<1>5. CASE pc' = "logend"
    <2>1. UNCHANGED <<disk, stable, oldLog, version>>
        BY <1>5 DEF StartCommit, fileVars
    <2>2. LogInv'
        BY <1>1, <1>2, <1>5, <2>1 DEF LogInv, WellFormed, Open, Finishing
    <2>3. LabelInv' /\ StableInv'
        BY <1>1, <1>2, <1>5, <2>1 DEF LabelInv, StableInv, Finishing
    <2>4. DataInv'
        BY <1>1, <1>5, <2>1 DEF FileInv, DataInv, Redo, Active, Behind, Changed, Ended, EndLabel
    <2>5. Database' = disk
        BY <1>1, <1>2, <2>1, <2>2, DatabaseAfter
    <2> QED
        BY <1>1, <1>2, <2>2, <2>3, <2>4, <2>5 DEF FileInv, Simulates
<1> QED
    BY <1>1, <1>4, <1>5

\* The commit record alone does not commit.
LEMMA WriteLogEndFile ==
    ASSUME TypeInv, TypeInv', PoolInv, FileInv, WriteLogEnd
    PROVE  FileInv' /\ Simulates
<1>1. /\ UNCHANGED <<disk, stable, synced, oldLog, trunc, broken, work>>
      /\ pc \in {"commit", "logend"} /\ pc' = "sync log"
      /\ version' = [version EXCEPT !.counter = @ + 1] /\ log' = Append(log, LogEnd(version'))
    BY DEF WriteLogEnd, LogAppend, transVars
<1>2. /\ Database = disk /\ Open(log) /\ WellFormed(oldLog)
      /\ version = disk.label /\ disk = stable /\ Active /\ ~broken
    BY <1>1, NotYet DEF FileInv, LogInv, LabelInv, StableInv, PoolInv, DirtyInv
<1>3. version' \in Version /\ log \in Seq(Record) /\ synced \in 0..Len(log)
    BY DEF TypeInv, TypeOK
<1> DEFINE r == LogEnd(version')
<1>4. r \in Record /\ r.op = "end" /\ r.version = version' /\ \A p : ~Changes(r, p)
    BY <1>3, RecordFacts, RecordChanges
<1>5. OneMore(log', log, r)
    BY <1>1, <1>3, <1>4, AppendOneMore
<1>6. Len(log') = Len(log) + 1 /\ synced < Len(log')
    <2>1. Len(log) \in Nat /\ Len(log') = Len(log) + 1
        BY <1>5 DEF OneMore
    <2>2. synced <= Len(log) /\ synced \in Nat
        BY <1>3, <2>1
    <2> QED
        BY <2>1, <2>2
<1> HIDE DEF r
<1>7. /\ WellFormed(log') /\ Ended(log') /\ EndLabel(log') = version'
      /\ Redo(log)' \in [Pos -> Val] /\ Redo(log) \in [Pos -> Val]
      /\ \A p : Changed(log', p) <=> Changed(log, p)
      /\ \A l : Redo(l)' = Redo(l)
    BY <1>1, <1>2, <1>4, <1>5, AppendOpen
<1>8. \A p \in Pos : Redo(log)'[p] = Redo(log)[p]
    BY <1>1, <1>2, <1>4, <1>5, AppendOpen
<1>9. work' = Redo(log)'
    <2>1. Redo(log)' = Redo(log)
        BY <1>7, <1>8
    <2> QED
        BY <1>1, <1>2, <2>1 DEF FileInv, DataInv
<1>10. LogInv'
    BY <1>1, <1>2, <1>6, <1>7 DEF LogInv, WellFormed, Ended, Finishing
<1>11. LabelInv'
    BY <1>1, <1>2, <1>7 DEF LabelInv, EndLabel, Finishing
<1>12. StableInv'
    BY <1>1, <1>2 DEF StableInv
<1>13. DataInv'
    BY <1>1, <1>2, <1>7, <1>9 DEF FileInv, DataInv, Behind, Ended, EndLabel, Changed
<1>14. Database' = disk
    BY <1>1, <1>6, <1>10, DatabaseAfter
<1> QED
    BY <1>1, <1>2, <1>10, <1>11, <1>12, <1>13, <1>14 DEF FileInv, Simulates

\* The sync of the log is the commit.
LEMMA SyncLogCommits ==
    ASSUME TypeInv, TypeInv', PoolInv, FileInv, SyncLog
    PROVE  FileInv' /\ Simulates
<1>1. /\ UNCHANGED <<disk, stable, log, version, trunc, broken, buffers, nbuffers>>
      /\ pc = "sync log" /\ pc' = "flush" /\ work' = NoTrans
      /\ synced' = Len(log) /\ oldLog' = <<>>
    BY DEF SyncLog, SyncLogFile
<1>2. /\ Database = disk /\ WellFormed(log) /\ Ended(log) /\ EndLabel(log) = version
      /\ version = [disk.label EXCEPT !.counter = @ + 1] /\ disk = stable /\ Active /\ ~broken
    BY <1>1, NotYet DEF FileInv, LogInv, LabelInv, StableInv, PoolInv, DirtyInv
<1>3. work = Redo(log) /\ Redo(log)' = Redo(log)
    BY <1>1, <1>2 DEF FileInv, DataInv, Redo
<1>4. LogInv'
    BY <1>1, <1>2, EmptyFacts DEF LogInv, WellFormed, Ended, Finishing
<1>5. LabelInv' /\ StableInv'
    BY <1>1, <1>2 DEF LabelInv, StableInv, EndLabel, Finishing
<1>6. \A p \in Pos : Behind(p)' => Changed(log', p)
    BY <1>1, <1>2 DEF FileInv, DataInv, Behind
<1>7. ASSUME NEW p \in Pos
      PROVE  IF Behind(p)' THEN Redo(log)'[p] = 0 ELSE Shows(p, Redo(log)[p])'
    <2>1. IF Behind(p) THEN work[p] = 0 ELSE Shows(p, work[p])
        BY <1>2 DEF PoolInv, WorkInv
    <2> QED
        BY <1>1, <1>3, <2>1 DEF Behind, Shows, Dirty, Slots
<1>8. DataInv'
    BY <1>1, <1>6, <1>7, EmptyFacts DEF DataInv, Active, Changed, Ended
<1>9. Database' = [data |-> work, label |-> version]
    BY <1>1, <1>2, <1>3, <1>4, DatabaseAfter
<1>10. Store!StoreCommit
    BY <1>1, <1>2, <1>9 DEF Store!StoreCommit, Active
<1> QED
    BY <1>4, <1>5, <1>8, <1>10 DEF FileInv, Simulates, Store!StoreNext

-----------------------------------------------------------------------------
(* The rest of a commit changes what the file holds, not the database.     *)

\* What the log and the file hold after the sync of the log.
LEMMA FinishingFacts ==
    ASSUME TypeInv, FileInv, pc \in Finishing
    PROVE  /\ Ended(log) /\ WellFormed(log) /\ synced = Len(log) /\ oldLog = <<>>
           /\ EndLabel(log) = version
           /\ Database = [data |-> Redo(log), label |-> version]
           /\ disk \in File /\ disk.data \in [Pos -> Val]
           /\ ~broken
<1>1. Ended(log) /\ WellFormed(log) /\ synced = Len(log) /\ oldLog = <<>> /\ EndLabel(log) = version
    BY DEF FileInv, LogInv, LabelInv
<1>2. ~broken
    BY DEF FileInv, LogInv, Finishing
<1>3. disk \in File /\ disk.data \in [Pos -> Val]
    BY DEF TypeInv, TypeOK, File
<1> QED
    BY <1>1, <1>2, <1>3, DatabaseBefore DEF FileInv

\* Such a step leaves the database alone if it changes the file only where the log says
\* what holds.
LEMMA FinishingStep ==
    ASSUME TypeInv, TypeInv', PoolInv, PoolInv', FileInv, pc \in Finishing, pc' \in Finishing,
           UNCHANGED <<log, synced, version, broken, work>>, oldLog' = <<>>,
           \A p \in Pos : Changed(log, p) \/ disk'.data[p] = disk.data[p]
    PROVE  /\ LogInv' /\ Redo(log)' = Redo(log) /\ ~Active /\ ~Active'
           /\ Database' = Database
           /\ Ended(log') /\ EndLabel(log') = version' /\ ~Ended(oldLog')
<1>1. /\ Ended(log) /\ WellFormed(log) /\ synced = Len(log)
      /\ EndLabel(log) = version /\ Database = [data |-> Redo(log), label |-> version]
      /\ disk.data \in [Pos -> Val] /\ ~broken
    BY FinishingFacts
<1>2. disk'.data \in [Pos -> Val] /\ log \in Seq(Record)
    BY DEF TypeInv, TypeOK, File
<1>3. Redo(log)' = Redo(log)
    <2>1. Redone(log, Len(log), disk.data) = Redone(log, Len(log), disk'.data)
        BY <1>1, <1>2, RedoneEqual
    <2> QED
        BY <2>1 DEF Redo
<1>4. ~Active /\ ~Active'
    BY DEF PoolInv, DirtyInv, Finishing, Active
<1>5. LogInv'
    BY <1>1, EmptyFacts DEF LogInv, WellFormed, Ended, Finishing
<1>6. Database' = [data |-> Redo(log)', label |-> EndLabel(log')]
    BY <1>1, <1>5, DatabaseAfter
<1> QED
    BY <1>1, <1>3, <1>4, <1>5, <1>6, EmptyFacts

\* DFlush writes what the log says.
LEMMA FlushFile ==
    ASSUME TypeInv, TypeInv', PoolInv, PoolInv', FileInv, Flush
    PROVE  FileInv' /\ Simulates
<1>1. /\ UNCHANGED <<stable, log, synced, oldLog, version, trunc, broken, work>>
      /\ pc = "flush" /\ pc' = "sync"
    BY DEF Flush, transVars
<1>2. /\ oldLog = <<>> /\ disk = stable
      /\ \A p \in Pos : Behind(p) => Changed(log, p)
      /\ \A p \in Pos : IF Behind(p) THEN Redo(log)[p] = 0 ELSE Shows(p, Redo(log)[p])
    BY <1>1, FinishingFacts DEF FileInv, StableInv, DataInv, Finishing
<1>3. ASSUME NEW p \in Pos, ~Behind(p) PROVE disk'.data[p] = Redo(log)[p]
    <2>1. Shows(p, Redo(log)[p])
        BY <1>2, <1>3
    <2>2. CASE \E i \in Slots : Dirty(i, p \div PageSize)
        BY <2>1, <2>2, FlushFacts DEF Shows
    <2>3. CASE \A i \in Slots : ~Dirty(i, p \div PageSize)
        BY <2>1, <2>3, FlushFacts DEF Shows
    <2> QED
        BY <2>2, <2>3
<1>4. ASSUME NEW p \in Pos PROVE Changed(log, p) \/ disk'.data[p] = disk.data[p]
    <2>1. CASE ~Changed(log, p)
        <3>1. Redo(log)[p] = disk.data[p]
            BY <2>1, Untouched DEF Redo, TypeInv, TypeOK
        <3>2. ~Behind(p)
            BY <1>2, <2>1
        <3> QED
            BY <1>3, <3>1, <3>2
    <2> QED
        BY <2>1
<1>5. /\ LogInv' /\ Redo(log)' = Redo(log) /\ ~Active' /\ Database' = Database
      /\ Ended(log') /\ EndLabel(log') = version' /\ ~Ended(oldLog')
    BY <1>1, <1>2, <1>4, FinishingStep DEF Finishing
<1>6. LabelInv'
    BY <1>1, <1>5 DEF LabelInv, EndLabel
<1>7. StableInv'
    BY <1>1, <1>2, <1>4 DEF StableInv, Changed
<1>8. DataInv'
    <2>1. ASSUME NEW p \in Pos
          PROVE  Redo(log)'[p] = IF Behind(p)' THEN 0 ELSE disk'.data[p]
        BY <1>1, <1>2, <1>3, <1>5 DEF Behind
    <2>2. \A p \in Pos : Behind(p)' => Changed(log, p)'
        BY <1>1, <1>2 DEF Behind, Changed
    <2> QED
        BY <1>1, <1>5, <2>1, <2>2 DEF DataInv, Ended
<1> QED
    BY <1>1, <1>5, <1>6, <1>7, <1>8 DEF FileInv, Simulates

\* DSync makes it permanent.
LEMMA DSyncFile ==
    ASSUME TypeInv, TypeInv', PoolInv, PoolInv', FileInv, Sync
    PROVE  FileInv' /\ Simulates
<1>1. /\ UNCHANGED <<disk, log, synced, version, trunc, broken, work>>
      /\ pc = "sync" /\ pc' = "truncate" /\ stable' = disk /\ oldLog' = <<>>
    BY DEF Sync, SyncFile, transVars
<1>2. /\ \A p \in Pos : Behind(p) => Changed(log, p)
      /\ \A p \in Pos : Redo(log)[p] = IF Behind(p) THEN 0 ELSE disk.data[p]
    BY <1>1 DEF FileInv, DataInv
<1>3. /\ LogInv' /\ Redo(log)' = Redo(log) /\ ~Active' /\ Database' = Database
      /\ Ended(log') /\ EndLabel(log') = version' /\ ~Ended(oldLog')
    BY <1>1, FinishingStep DEF Finishing
<1>4. LabelInv' /\ StableInv'
    BY <1>1, <1>3 DEF LabelInv, StableInv, EndLabel
<1>5. DataInv'
    BY <1>1, <1>2, <1>3 DEF DataInv, Behind, Changed, Ended
<1> QED
    BY <1>1, <1>3, <1>4, <1>5 DEF FileInv, Simulates

\* DoTruncs cuts off what the log truncates.
LEMMA DoTruncsFile ==
    ASSUME TypeInv, TypeInv', PoolInv, PoolInv', FileInv, DoTruncs
    PROVE  FileInv' /\ Simulates
<1>1. /\ UNCHANGED <<stable, log, synced, oldLog, version, broken, work>>
      /\ pc = "truncate" /\ pc' = "label" /\ trunc' = NoTrunc
    BY DEF DoTruncs
<1>2. /\ oldLog = <<>> /\ disk = stable /\ disk \in File
      /\ \A p \in Pos : Behind(p) => Changed(log, p)
      /\ \A p \in Pos : Redo(log)[p] = IF Behind(p) THEN 0 ELSE disk.data[p]
    BY <1>1, FinishingFacts DEF FileInv, StableInv, DataInv, Finishing
<1>3. ASSUME NEW p \in Pos PROVE disk'.data[p] = IF Behind(p) THEN 0 ELSE disk.data[p]
    <2>1. CASE trunc = NoTrunc
        BY <2>1 DEF DoTruncs, Behind
    <2>2. CASE trunc # NoTrunc
        <3>1. disk' = [disk EXCEPT !.data = Truncated(disk.data, trunc)]
            BY <1>2, <2>2 DEF DoTruncs, File
        <3>2. disk'.data = Truncated(disk.data, trunc)
            BY <1>2, <3>1 DEF File
        <3> QED
            BY <2>2, <3>2 DEF Truncated, Behind
    <2> QED
        BY <2>1, <2>2
<1>4. \A p \in Pos : Changed(log, p) \/ disk'.data[p] = disk.data[p]
    BY <1>2, <1>3
<1>5. /\ LogInv' /\ Redo(log)' = Redo(log) /\ ~Active' /\ Database' = Database
      /\ Ended(log') /\ EndLabel(log') = version' /\ ~Ended(oldLog')
    BY <1>1, <1>2, <1>4, FinishingStep DEF Finishing
<1>6. Redo(log)' = disk'.data
    <2>1. Redo(log) \in [Pos -> Val] /\ disk'.data \in [Pos -> Val]
        BY RedoType DEF Redo, TypeInv, TypeOK, File
    <2>2. \A p \in Pos : Redo(log)[p] = disk'.data[p]
        BY <1>2, <1>3
    <2> QED
        BY <1>5, <2>1, <2>2
<1>7. LabelInv'
    BY <1>1, <1>5 DEF LabelInv, EndLabel
<1>8. StableInv'
    BY <1>1, <1>2, <1>4 DEF StableInv, Changed
<1>9. DataInv'
    BY <1>1, <1>5, <1>6 DEF DataInv, Ended
<1> QED
    BY <1>1, <1>5, <1>6, <1>7, <1>8, <1>9 DEF FileInv, Simulates

\* The label is written and made permanent.
LEMMA LabelFile ==
    ASSUME TypeInv, TypeInv', PoolInv, PoolInv', FileInv, SetLabel \/ SyncLabel
    PROVE  FileInv' /\ Simulates
<1>1. /\ UNCHANGED <<log, synced, version, trunc, broken, work>> /\ oldLog' = <<>>
      /\ pc \in {"label", "sync label"} /\ pc' \in {"sync label", "cut"}
    <2>1. pc \in {"label", "sync label"}
        BY DEF SetLabel, SyncLabel
    <2>2. oldLog = <<>>
        BY <2>1, FinishingFacts DEF Finishing
    <2> QED
        BY <2>1, <2>2 DEF SetLabel, SyncLabel, SyncFile, transVars
<1>2. disk'.data = disk.data /\ disk'.label = version
    <2>1. disk \in File
        BY DEF TypeInv, TypeOK
    <2>2. CASE SetLabel
        BY <2>1, <2>2 DEF SetLabel, File
    <2>3. CASE SyncLabel
        BY <2>3 DEF SyncLabel, SyncFile, FileInv, LabelInv
    <2> QED
        BY <2>2, <2>3
<1>3. /\ LogInv' /\ Redo(log)' = Redo(log) /\ ~Active' /\ Database' = Database
      /\ Ended(log') /\ EndLabel(log') = version' /\ ~Ended(oldLog')
    BY <1>1, <1>2, FinishingStep DEF Finishing
<1>4. Redo(log) = disk.data
    BY <1>1 DEF FileInv, DataInv
<1>5. LabelInv'
    BY <1>1, <1>2, <1>3 DEF LabelInv, EndLabel
<1>6. StableInv'
    <2>1. CASE SetLabel
        BY <1>1, <1>2, <2>1 DEF SetLabel, FileInv, StableInv, Changed
    <2>2. CASE SyncLabel
        BY <2>2 DEF SyncLabel, SyncFile, StableInv
    <2> QED
        BY <2>1, <2>2
<1>7. DataInv'
    BY <1>1, <1>2, <1>3, <1>4 DEF DataInv, Ended
<1> QED
    BY <1>1, <1>3, <1>5, <1>6, <1>7 DEF FileInv, Simulates

\* Once the log is cut, the file is the database.
LEMMA CutFile ==
    ASSUME TypeInv, TypeInv', PoolInv, PoolInv', FileInv, CutLog
    PROVE  FileInv' /\ Simulates
<1>1. /\ UNCHANGED <<disk, stable, version, trunc, broken, work>>
      /\ pc = "cut" /\ pc' = "up" /\ log' = <<>> /\ oldLog' = log /\ synced' = 0
    BY DEF CutLog, CutLogFile, transVars
<1>2. /\ Ended(log) /\ WellFormed(log) /\ EndLabel(log) = version
      /\ Database = [data |-> Redo(log), label |-> version] /\ disk \in File /\ ~broken
    BY <1>1, FinishingFacts DEF Finishing
<1>3. Redo(log) = disk.data /\ disk.label = version /\ disk = stable
    BY <1>1 DEF FileInv, DataInv, LabelInv, StableInv, Finishing
<1>4. ~Active' /\ trunc = NoTrunc
    BY <1>1 DEF PoolInv, DirtyInv, TruncInv, Active
<1>5. LogInv'
    BY <1>1, <1>2, <1>4, EmptyFacts DEF LogInv, WellFormed, Open, Finishing
<1>6. LabelInv' /\ StableInv'
    BY <1>1, <1>2, <1>3 DEF LabelInv, StableInv, Finishing
<1>7. DataInv'
    BY <1>1, <1>2, <1>3, <1>4 DEF DataInv, Redo, EndLabel, Ended
<1>8. Database' = disk /\ Database = disk
    <2>1. disk = [data |-> disk.data, label |-> disk.label]
        BY <1>2 DEF File
    <2> QED
        BY <1>1, <1>2, <1>3, <1>5, <2>1, EmptyFacts, DatabaseAfter
<1> QED
    BY <1>1, <1>5, <1>6, <1>7, <1>8 DEF FileInv, Simulates

-----------------------------------------------------------------------------
(* Aborts and crashes.                                                     *)

\* The abort record.
LEMMA WriteLogAbortFile ==
    ASSUME TypeInv, TypeInv', PoolInv, FileInv, WriteLogAbort
    PROVE  FileInv' /\ Simulates
<1>1. /\ UNCHANGED <<disk, stable, version, trunc, broken, work>>
      /\ pc = "up" /\ pc' = "abort" /\ Active /\ log' = Append(log, LogAbort)
      /\ oldLog' = <<>> \/ oldLog' = oldLog
    BY DEF WriteLogAbort, transVars
<1>2. /\ Database = disk /\ Open(log) /\ WellFormed(oldLog)
      /\ version = disk.label /\ disk = stable
    BY <1>1, NotYet DEF FileInv, LogInv, LabelInv, StableInv
<1>3. LogAbort \in Record /\ LogAbort.op = "abort" /\ \A p : ~Changes(LogAbort, p)
    BY RecordFacts, RecordChanges
<1>4. OneMore(log', log, LogAbort)
    BY <1>1, <1>3, AppendOneMore DEF TypeInv, TypeOK
<1>5. /\ WellFormed(log') /\ ~Ended(log')
      /\ Redo(log)' \in [Pos -> Val] /\ Redo(log) \in [Pos -> Val]
      /\ \A p : Changed(log', p) <=> Changed(log, p)
      /\ \A l : Redo(l)' = Redo(l)
    BY <1>1, <1>2, <1>3, <1>4, AppendOpen
<1>6. \A p \in Pos : Redo(log)'[p] = Redo(log)[p]
    BY <1>1, <1>2, <1>3, <1>4, AppendOpen
<1>7. Redo(log)' = Redo(log)
    BY <1>5, <1>6
<1>8. LogInv'
    BY <1>1, <1>2, <1>5, EmptyFacts DEF FileInv, LogInv, WellFormed, Ended, Finishing, Active
<1>9. LabelInv' /\ StableInv'
    BY <1>1, <1>2 DEF LabelInv, StableInv, Finishing
<1>10. DataInv'
    <2>1. ASSUME Ended(oldLog') PROVE Redo(oldLog)' = disk'.data /\ EndLabel(oldLog') = disk'.label
        <3>1. oldLog' = oldLog
            BY <1>1, <2>1, EmptyFacts
        <3> QED
            BY <1>1, <2>1, <3>1 DEF FileInv, DataInv, Redo
    <2>2. \A p \in Pos : Behind(p)' => Changed(log', p)
        BY <1>1, <1>5 DEF FileInv, DataInv, Behind
    <2>3. ~broken' => work' = Redo(log)'
        BY <1>1, <1>7 DEF FileInv, DataInv
    <2> QED
        BY <1>1, <1>5, <2>1, <2>2, <2>3 DEF DataInv, Ended, EndLabel, Changed
<1>11. Database' = disk
    BY <1>1, <1>5, <1>8, DatabaseAfter
<1> QED
    BY <1>1, <1>2, <1>8, <1>9, <1>10, <1>11 DEF FileInv, Simulates

\* The end of an abort.
LEMMA AbortFile ==
    ASSUME TypeInv, TypeInv', PoolInv, FileInv, Abort
    PROVE  FileInv' /\ Simulates
<1>1. /\ UNCHANGED <<disk, stable, version>>
      /\ pc = "abort" /\ pc' = "up" /\ log' = <<>> /\ synced' = 0 /\ oldLog' = log
      /\ trunc' = NoTrunc /\ broken' = FALSE /\ work' = NoTrans
    BY DEF Abort, CutLogFile
<1>2. /\ Database = disk /\ WellFormed(log) /\ ~Ended(log)
      /\ version = disk.label /\ disk = stable
    BY <1>1, NotYet DEF FileInv, LogInv, LabelInv, StableInv
<1>3. LogInv'
    BY <1>1, <1>2, EmptyFacts DEF LogInv, WellFormed, Open, Finishing
<1>4. LabelInv' /\ StableInv'
    BY <1>1, <1>2 DEF LabelInv, StableInv, Finishing
<1>5. DataInv'
    BY <1>1, <1>2 DEF DataInv, Active, Ended
<1>6. Database' = disk
    BY <1>1, <1>3, EmptyFacts, DatabaseAfter
<1>7. Store!StoreAbort
    BY <1>1, <1>2, <1>6 DEF Store!StoreAbort
<1> QED
    BY <1>3, <1>4, <1>5, <1>7 DEF FileInv, Simulates, Store!StoreNext

\* What a crash leaves, where no record can be torn.
LEMMA CrashFacts ==
    ASSUME ~TornWrites, TypeInv, FileInv, Crash
    PROVE  /\ \/ log' = log
              \/ WellFormed(log') /\ ~Ended(log') /\ synced < Len(log)
              \/ log' = oldLog /\ oldLog # <<>>
           /\ disk'.data \in [Pos -> Val]
           /\ \A p \in Pos : disk'.data[p] \in {disk.data[p], stable.data[p]}
           /\ disk'.label \in {disk.label, stable.label}
           /\ disk = stable => disk' = disk
<1>1. log \in Seq(Record) /\ synced \in 0..Len(log) /\ WellFormed(log) /\ disk \in File
    BY DEF TypeInv, TypeOK, FileInv, LogInv
<1>2. \/ \E n \in synced..Len(log) : log' = SubSeq(log, 1, n)
      \/ log' = oldLog /\ oldLog # <<>>
    BY DEF Crash, CrashedLogs
<1>3. ASSUME NEW n \in synced..Len(log), log' = SubSeq(log, 1, n)
      PROVE  log' = log \/ (WellFormed(log') /\ ~Ended(log') /\ synced < Len(log))
    <2>1. Len(log) \in Nat
        BY <1>1, LogLength
    <2>2. n \in 0..Len(log) /\ (n < Len(log) \/ n = Len(log)) /\ (n < Len(log) => synced < Len(log))
        BY <1>1, <2>1
    <2> QED
        BY <1>1, <1>3, <2>2, PrefixOpen
<1>4. PICK d \in [Pos -> Val], l \in {disk.label, stable.label} :
          /\ disk' = [data |-> d, label |-> l]
          /\ \A p \in Pos : d[p] \in {disk.data[p], stable.data[p]}
    BY DEF Crash, CrashedDisks
<1>5. ASSUME disk = stable PROVE disk' = disk
    <2>1. l = disk.label /\ \A p \in Pos : d[p] = disk.data[p]
        BY <1>4, <1>5
    <2>2. disk.data \in [Pos -> Val] /\ disk = [data |-> disk.data, label |-> disk.label]
        BY <1>1 DEF File
    <2>3. d = disk.data
        BY <2>1, <2>2
    <2> QED
        BY <1>4, <2>1, <2>2, <2>3
<1> QED
    BY <1>2, <1>3, <1>4, <1>5

\* A crash commits or aborts an active transaction, and otherwise changes nothing.
LEMMA CrashFile ==
    ASSUME ~TornWrites, TypeInv, TypeInv', PoolInv, PoolInv', FileInv, Crash
    PROVE  FileInv' /\ Simulates
<1>1. /\ pc # "down" /\ pc' = "down" /\ synced' = Len(log') /\ oldLog' = <<>> /\ stable' = disk'
      /\ version' = NoVersion /\ trunc' = NoTrunc /\ broken' = FALSE /\ work' = NoTrans
    BY DEF Crash
<1>2. WellFormed(log) /\ WellFormed(oldLog)
    BY DEF FileInv, LogInv
<1>3. LogInv'
    BY <1>1, <1>2, CrashFacts, EmptyFacts DEF LogInv, WellFormed, Finishing
<1>4. LabelInv' /\ StableInv' /\ DataInv'
    BY <1>1, EmptyFacts DEF LabelInv, StableInv, DataInv, Finishing, Active, Ended
<1>5. /\ ~Ended(log') => Database' = disk'
      /\ Ended(log') => Database' = [data |-> Redo(log)', label |-> EndLabel(log')]
    BY <1>1, <1>3, DatabaseAfter
<1>6. Redo(log)' = Redone(log', Len(log'), disk'.data) /\ Redo(log) = Redone(log, Len(log), disk.data)
    BY DEF Redo
<1>7. CASE Ended(log) /\ synced = Len(log)
    <2>1. Database = [data |-> Redo(log), label |-> EndLabel(log)]
        BY <1>7, DatabaseBefore DEF FileInv
    <2>2. pc \notin {"up", "commit", "logend", "abort", "sync log"}
        <3>1. Len(log) \in Nat
            BY LogLength DEF TypeInv, TypeOK
        <3>2. pc = "sync log" => synced < Len(log)
            BY DEF FileInv, LogInv
        <3>3. ~(synced < Len(log))
            BY <1>7, <3>1
        <3> QED
            BY <1>7, <3>2, <3>3, NotYet
    <2>3. oldLog = <<>>
        BY <1>1, <2>2 DEF FileInv, LogInv, Finishing, TypeInv, TypeOK
    <2>4. log' = log
        <3>1. Len(log) \in Nat
            BY LogLength DEF TypeInv, TypeOK
        <3> QED
            BY <1>7, <2>3, <3>1, CrashFacts
    <2>5. Redone(log, Len(log), disk.data) = Redone(log, Len(log), disk'.data)
        <3>1. \A p \in Pos : Changed(log, p) \/ disk.data[p] = disk'.data[p]
            BY CrashFacts DEF FileInv, StableInv
        <3>2. log \in Seq(Record) /\ disk.data \in [Pos -> Val] /\ disk'.data \in [Pos -> Val]
            BY CrashFacts DEF TypeInv, TypeOK, File
        <3> QED
            BY <3>1, <3>2, RedoneEqual
    <2>6. Database' = Database
        BY <1>5, <1>6, <1>7, <2>1, <2>4, <2>5
    <2>7. Store!StoreAbort
        BY <1>1, <2>6 DEF Store!StoreAbort
    <2> QED
        BY <1>3, <1>4, <2>7 DEF FileInv, Simulates, Store!StoreNext
<1>8. CASE ~(Ended(log) /\ synced = Len(log))
    <2>1. /\ pc \in {"cut log", "up", "commit", "logend", "sync log", "abort"}
          /\ Database = disk /\ disk = stable
        <3>1. pc \in {"cut log", "up", "commit", "logend", "sync log", "abort"}
            BY <1>1, <1>8 DEF FileInv, LogInv, Finishing, TypeInv, TypeOK
        <3>2. Database = disk
            <4>1. CASE pc = "cut log"
                <5>1. synced = Len(log)
                    BY <4>1 DEF FileInv, LogInv
                <5> QED
                    BY <1>8, <5>1, DatabaseBefore DEF FileInv
            <4>2. CASE pc # "cut log"
                BY <3>1, <4>2, NotYet
            <4> QED
                BY <4>1, <4>2
        <3> QED
            BY <3>1, <3>2 DEF FileInv, StableInv
    <2>2. disk' = disk /\ disk \in File
        BY <2>1, CrashFacts DEF TypeInv, TypeOK
    <2>3. CASE ~Ended(log')
        <3>1. Database' = Database
            BY <1>5, <2>1, <2>2, <2>3
        <3>2. Store!StoreAbort
            BY <1>1, <3>1 DEF Store!StoreAbort
        <3> QED
            BY <1>3, <1>4, <3>2 DEF FileInv, Simulates, Store!StoreNext
    <2>4. CASE Ended(log') /\ log' = log
        <3>1. pc = "sync log"
            <4>1. pc \notin {"up", "commit", "logend", "abort"}
                BY <2>4, NotYet
            <4>2. pc # "cut log"
                BY <1>8, <2>4 DEF FileInv, LogInv
            <4> QED
                BY <2>1, <4>1, <4>2
        <3>2. /\ Active /\ ~broken /\ work = Redo(log) /\ EndLabel(log) = version
              /\ version = [disk.label EXCEPT !.counter = @ + 1]
            BY <3>1 DEF FileInv, LogInv, LabelInv, DataInv, PoolInv, DirtyInv
        <3>3. Database' = [data |-> work, label |-> version]
            BY <1>5, <1>6, <2>2, <2>4, <3>2
        <3>4. Store!StoreCommit
            BY <1>1, <2>1, <3>2, <3>3 DEF Store!StoreCommit, Active
        <3> QED
            BY <1>3, <1>4, <3>4 DEF FileInv, Simulates, Store!StoreNext
    <2>5. CASE Ended(log') /\ log' = oldLog
        <3>1. Redo(oldLog) = disk.data /\ EndLabel(oldLog) = disk.label
            BY <2>5 DEF FileInv, DataInv
        <3>2. Database' = [data |-> disk.data, label |-> disk.label]
            BY <1>5, <1>6, <2>2, <2>5, <3>1 DEF Redo
        <3>3. Database' = Database
            BY <2>1, <2>2, <3>2 DEF File
        <3>4. Store!StoreAbort
            BY <1>1, <3>3 DEF Store!StoreAbort
        <3> QED
            BY <1>3, <1>4, <3>4 DEF FileInv, Simulates, Store!StoreNext
    <2> QED
        BY <2>3, <2>4, <2>5, CrashFacts
<1> QED
    BY <1>7, <1>8

-----------------------------------------------------------------------------
(* The replay changes what the file holds, not the database.               *)

\* What holds while the server starts.
LEMMA StartingFacts ==
    ASSUME TypeInv, PoolInv, FileInv, pc \in {"down", "replay", "sync replay", "cut log"}
    PROVE  /\ synced = Len(log) /\ oldLog = <<>> /\ WellFormed(log)
           /\ ~Active /\ ~broken /\ trunc = NoTrunc
           /\ disk \in File /\ disk.data \in [Pos -> Val] /\ log \in Seq(Record)
<1>1. synced = Len(log) /\ oldLog = <<>> /\ WellFormed(log) /\ ~broken
    BY DEF FileInv, LogInv
<1>2. ~Active /\ trunc = NoTrunc
    BY DEF PoolInv, DirtyInv, TruncInv
<1>3. disk \in File /\ disk.data \in [Pos -> Val] /\ log \in Seq(Record)
    BY DEF TypeInv, TypeOK, File
<1> QED
    BY <1>1, <1>2, <1>3

\* Such a step leaves the database alone if it changes the file only where the log says
\* what holds.
LEMMA StartingStep ==
    ASSUME TypeInv, TypeInv', PoolInv, PoolInv', FileInv,
           pc \in {"down", "replay", "sync replay", "cut log"},
           pc' \in {"down", "replay", "sync replay", "cut log"},
           pc' \in {"replay", "sync replay"} => Ended(log),
           UNCHANGED <<log, synced, broken, work>>, oldLog' = <<>>,
           \A p \in Pos : Changed(log, p) \/ disk'.data[p] = disk.data[p],
           Ended(log) \/ disk' = disk
    PROVE  /\ LogInv' /\ Redo(log)' = Redo(log) /\ ~Active' /\ Simulates /\ ~Ended(oldLog')
<1>1. /\ synced = Len(log) /\ WellFormed(log) /\ ~Active /\ ~broken
      /\ disk.data \in [Pos -> Val] /\ log \in Seq(Record)
    BY StartingFacts
<1>2. disk'.data \in [Pos -> Val] /\ ~Active'
    BY <1>1 DEF TypeInv, TypeOK, File, Active
<1>3. Redo(log)' = Redo(log)
    <2>1. Redone(log, Len(log), disk.data) = Redone(log, Len(log), disk'.data)
        BY <1>1, <1>2, RedoneEqual
    <2> QED
        BY <2>1 DEF Redo
<1>4. LogInv'
    BY <1>1, EmptyFacts DEF LogInv, WellFormed, Ended, Finishing
<1>5. Database' = Database
    <2>1. CASE Ended(log)
        BY <1>1, <1>3, <1>4, <2>1, DatabaseBefore, DatabaseAfter DEF FileInv
    <2>2. CASE ~Ended(log)
        BY <1>4, <2>2, DatabaseBefore, DatabaseAfter DEF FileInv
    <2> QED
        BY <2>1, <2>2
<1> QED
    BY <1>2, <1>3, <1>4, <1>5, EmptyFacts DEF Simulates

\* The first pass finds a commit record if there is one.
LEMMA StartReplayFile ==
    ASSUME TypeInv, TypeInv', PoolInv, PoolInv', FileInv, StartReplay
    PROVE  FileInv' /\ Simulates
<1>1. /\ pc = "down" /\ UNCHANGED <<disk, stable, log, synced, oldLog, version, trunc, broken, work>>
      /\ \/ pc' = "replay" /\ pos' = 1 /\ LogIsGood(log)
         \/ pc' = "cut log" /\ ~LogIsGood(log)
    BY DEF StartReplay, fileVars, transVars
<1>2. /\ oldLog = <<>> /\ WellFormed(log) /\ disk = stable /\ trunc = NoTrunc
      /\ disk.data \in [Pos -> Val] /\ log \in Seq(Record)
    BY <1>1, StartingFacts DEF FileInv, StableInv
<1>3. LogIsGood(log) <=> Ended(log)
    <2>1. Len(log) \in Nat
        BY <1>2, LogLength
    <2>2. ASSUME NEW i \in 1..Len(log), log[i].op \in {"end", "torn"} PROVE Ended(log)
        <3>1. i = Len(log) /\ log[i].op = "end"
            BY <1>2, <2>2 DEF WellFormed
        <3>2. i # 0
            BY <2>1
        <3> QED
            BY <3>1, <3>2 DEF Ended
    <2>3. ASSUME Ended(log) PROVE LogIsGood(log)
        <3>1. Len(log) # 0 /\ log[Len(log)].op = "end"
            BY <2>3 DEF Ended
        <3>2. Len(log) \in 1..Len(log)
            BY <2>1, <3>1, LastInRange
        <3>3. ASSUME NEW j \in 1..(Len(log) - 1) PROVE log[j].op # "abort"
            <4>1. j \in 1..Len(log) /\ j # Len(log)
                BY <2>1
            <4> QED
                BY <1>2, <4>1 DEF WellFormed
        <3> QED
            BY <3>1, <3>2, <3>3 DEF LogIsGood
    <2> QED
        BY <2>2, <2>3 DEF LogIsGood
<1>4. LogInv' /\ Redo(log)' = Redo(log) /\ ~Active' /\ Simulates /\ ~Ended(oldLog')
    BY <1>1, <1>2, <1>3, StartingStep
<1>5. LabelInv' /\ StableInv'
    BY <1>1, <1>2, <1>3 DEF LabelInv, StableInv, Finishing, Ended
<1>6. pc' = "replay" => Redone(log', pos' - 1, disk'.data) = disk'.data
    <2>1. ASSUME NEW p \in Pos PROVE Redone(log, 0, disk.data)[p] = disk.data[p]
        BY NoRecords, RedoneFacts
    <2>2. Redone(log, 0, disk.data) = [p \in Pos |-> Redone(log, 0, disk.data)[p]]
        BY DEF Redone
    <2>3. Redone(log, 0, disk.data) = disk.data
        BY <1>2, <2>1, <2>2
    <2>4. pc' = "replay" => pos' - 1 = 0
        BY <1>1
    <2> QED
        BY <1>1, <2>3, <2>4
<1>7. DataInv'
    BY <1>1, <1>2, <1>3, <1>4, <1>6 DEF DataInv, Behind, Ended
<1> QED
    BY <1>4, <1>5, <1>7 DEF FileInv

\* The second pass makes the changes of the log, one after the other.
LEMMA ReplayRecordFile ==
    ASSUME TypeInv, TypeInv', PoolInv, PoolInv', FileInv, ReplayRecord
    PROVE  FileInv' /\ Simulates
<1>1. /\ pc = "replay" /\ pc' = pc /\ pos' = pos + 1
      /\ UNCHANGED <<stable, log, synced, oldLog, version, trunc, broken, work>>
      /\ disk' = [disk EXCEPT !.data = [p \in Pos |->
                    IF Changes(log[pos], p) THEN NewValue(log[pos]) ELSE disk.data[p]]]
    <2>1. disk \in File
        BY DEF TypeInv, TypeOK
    <2> QED
        BY <2>1 DEF ReplayRecord, transVars, File
<1>2. /\ oldLog = <<>> /\ WellFormed(log) /\ trunc = NoTrunc
      /\ disk \in File /\ disk.data \in [Pos -> Val] /\ log \in Seq(Record)
    BY <1>1, StartingFacts
<1>3. Ended(log) /\ Redone(log, pos - 1, disk.data) = disk.data
    BY <1>1 DEF FileInv, LogInv, DataInv, Finishing
<1>4. pos \in 1..Len(log) /\ pos \in Nat /\ pos - 1 \in Nat
    <2>1. pos >= 1 /\ pos \in 0..Len(log) /\ Len(log) \in Nat
        BY <1>1, <1>2, LogLength DEF TypeInv, TypeOK
    <2> QED
        BY <2>1
<1>5. /\ disk'.data \in [Pos -> Val]
      /\ \A p \in Pos : disk'.data[p] = IF Changes(log[pos], p) THEN NewValue(log[pos]) ELSE disk.data[p]
    BY <1>1, <1>2 DEF TypeInv, TypeOK, File
<1>6. \A p \in Pos : Changed(log, p) \/ disk'.data[p] = disk.data[p]
    BY <1>4, <1>5 DEF Changed
<1>7. LogInv' /\ Redo(log)' = Redo(log) /\ ~Active' /\ Simulates /\ ~Ended(oldLog')
    BY <1>1, <1>2, <1>3, <1>6, StartingStep
<1>8. LabelInv'
    BY <1>1 DEF LabelInv, Finishing
<1>9. StableInv'
    BY <1>1, <1>4, <1>5 DEF FileInv, StableInv, Changed
<1>10. Redone(log', pos' - 1, disk'.data) = disk'.data
    <2> DEFINE n == pos - 1
    <2>1. n \in Nat /\ pos = n + 1 /\ pos' - 1 = pos
        BY <1>1, <1>4
    <2>2. Redone(log, n, disk.data) = disk.data
        BY <1>3
    <2> HIDE DEF n
    <2>3. ASSUME NEW p \in Pos PROVE Redone(log, n + 1, disk'.data)[p] = disk'.data[p]
        <3>1. Redone(log, n + 1, disk'.data)[p] =
                 IF Changes(log[n + 1], p) THEN NewValue(log[n + 1]) ELSE Redone(log, n, disk'.data)[p]
            BY <2>1, RedoneStep
        <3>2. CASE Changes(log[pos], p)
            BY <1>5, <2>1, <3>1, <3>2
        <3>3. CASE ~Changes(log[pos], p)
            <4>1. disk'.data[p] = disk.data[p]
                BY <1>5, <3>3
            <4>2. Redone(log, n, disk'.data)[p] = Redone(log, n, disk.data)[p]
                BY <2>1, <4>1, RedoneAlike
            <4> QED
                BY <2>1, <2>2, <3>1, <3>3, <4>1, <4>2
        <3> QED
            BY <3>2, <3>3
    <2>4. Redone(log, n + 1, disk'.data) = [p \in Pos |-> Redone(log, n + 1, disk'.data)[p]]
        BY DEF Redone
    <2>5. Redone(log, n + 1, disk'.data) = disk'.data
        BY <1>5, <2>3, <2>4
    <2> QED
        BY <1>1, <2>1, <2>5
<1>11. DataInv'
    BY <1>1, <1>7, <1>10 DEF DataInv, Ended
<1> QED
    BY <1>7, <1>8, <1>9, <1>11 DEF FileInv

\* The second pass ends with the commit record, the last of the log.
LEMMA ReplayEndFile ==
    ASSUME TypeInv, TypeInv', PoolInv, PoolInv', FileInv, ReplayEnd
    PROVE  FileInv' /\ Simulates
<1>1. /\ pc = "replay" /\ pc' = "sync replay" /\ log[pos].op = "end"
      /\ UNCHANGED <<stable, log, synced, oldLog, version, trunc, broken, work>>
      /\ disk' = [disk EXCEPT !.label = log[pos].version]
    BY DEF ReplayEnd, transVars
<1>2. /\ oldLog = <<>> /\ WellFormed(log) /\ trunc = NoTrunc
      /\ disk \in File /\ disk.data \in [Pos -> Val] /\ log \in Seq(Record)
    BY <1>1, StartingFacts
<1>3. Ended(log) /\ Redone(log, pos - 1, disk.data) = disk.data
    BY <1>1 DEF FileInv, LogInv, DataInv, Finishing
<1>4. pos \in 1..Len(log) /\ pos - 1 \in Nat
    <2>1. pos >= 1 /\ pos \in 0..Len(log) /\ Len(log) \in Nat
        BY <1>1, <1>2, LogLength DEF TypeInv, TypeOK
    <2> QED
        BY <2>1
<1>5. pos = Len(log)
    BY <1>1, <1>2, <1>4 DEF WellFormed
<1>6. disk'.data = disk.data /\ disk'.label = EndLabel(log')
    BY <1>1, <1>2, <1>5 DEF File, EndLabel
<1>7. LogInv' /\ Redo(log)' = Redo(log) /\ ~Active' /\ Simulates /\ ~Ended(oldLog')
    BY <1>1, <1>2, <1>3, <1>6, StartingStep
<1>8. Redo(log) = disk.data
    <2> DEFINE n == pos - 1
    <2>1. n \in Nat /\ Len(log) = n + 1
        BY <1>4, <1>5
    <2>2. Redone(log, n, disk.data) = disk.data /\ ~\E p : Changes(log[n + 1], p)
        BY <1>1, <1>3, <1>5, <2>1 DEF Changes
    <2> HIDE DEF n
    <2>3. ASSUME NEW p \in Pos PROVE Redone(log, n + 1, disk.data)[p] = disk.data[p]
        BY <2>1, <2>2, RedoneStep
    <2>4. Redone(log, n + 1, disk.data) = [p \in Pos |-> Redone(log, n + 1, disk.data)[p]]
        BY DEF Redone
    <2>5. Redone(log, n + 1, disk.data) = disk.data
        BY <1>2, <2>3, <2>4
    <2> QED
        BY <2>1, <2>5 DEF Redo
<1>9. LabelInv'
    BY <1>1, <1>6 DEF LabelInv, Finishing, EndLabel
<1>10. StableInv'
    BY <1>1, <1>6 DEF FileInv, StableInv, Changed
<1>11. DataInv'
    BY <1>1, <1>6, <1>7, <1>8 DEF DataInv, Ended
<1> QED
    BY <1>7, <1>9, <1>10, <1>11 DEF FileInv

\* The replayed file is made permanent.
LEMMA SyncReplayFile ==
    ASSUME TypeInv, TypeInv', PoolInv, PoolInv', FileInv, SyncReplay
    PROVE  FileInv' /\ Simulates
<1>1. /\ pc = "sync replay" /\ pc' = "cut log" /\ stable' = disk /\ oldLog' = <<>>
      /\ UNCHANGED <<disk, log, synced, version, trunc, broken, work>>
    BY DEF SyncReplay, SyncFile, transVars
<1>2. Ended(log) /\ disk.label = EndLabel(log) /\ Redo(log) = disk.data
    BY <1>1 DEF FileInv, LogInv, LabelInv, DataInv, Finishing
<1>3. LogInv' /\ Redo(log)' = Redo(log) /\ ~Active' /\ Simulates /\ ~Ended(oldLog')
    BY <1>1, <1>2, StartingStep
<1>4. LabelInv' /\ StableInv'
    BY <1>1, <1>2 DEF LabelInv, StableInv, EndLabel, Finishing
<1>5. DataInv'
    BY <1>1, <1>2, <1>3 DEF DataInv, Ended
<1> QED
    BY <1>3, <1>4, <1>5 DEF FileInv

\* The server is up, with a label of its own if the file had none.
LEMMA InitializeDBFile ==
    ASSUME TypeInv, TypeInv', PoolInv, PoolInv', FileInv, InitializeDB
    PROVE  FileInv' /\ Simulates
<1>1. /\ pc = "cut log" /\ pc' = "up" /\ log' = <<>> /\ synced' = 0
      /\ UNCHANGED <<trunc, broken, work>>
    BY DEF InitializeDB, CutLogFile, transVars
<1>2. /\ synced = Len(log) /\ WellFormed(log) /\ ~Active /\ ~broken /\ trunc = NoTrunc
      /\ disk \in File /\ disk = stable
    BY <1>1, StartingFacts DEF FileInv, StableInv
<1>3. Ended(log) => Redo(log) = disk.data /\ disk.label = EndLabel(log)
    BY <1>1 DEF FileInv, DataInv, LabelInv
<1>4. Database = disk
    <2>1. disk = [data |-> disk.data, label |-> disk.label]
        BY <1>2 DEF File
    <2>2. CASE Ended(log)
        BY <1>2, <1>3, <2>1, <2>2, DatabaseBefore DEF FileInv
    <2>3. CASE ~Ended(log)
        BY <2>3, DatabaseBefore DEF FileInv
    <2> QED
        BY <2>2, <2>3
<1>5. CASE disk.label # NoVersion
    <2>1. UNCHANGED <<disk, stable>> /\ version' = disk.label /\ oldLog' = log
        BY <1>5 DEF InitializeDB, CutLogFile
    <2>2. LogInv'
        BY <1>1, <1>2, <2>1, EmptyFacts DEF LogInv, WellFormed, Open, Finishing
    <2>3. LabelInv' /\ StableInv'
        BY <1>1, <1>2, <2>1 DEF LabelInv, StableInv, Finishing
    <2>4. DataInv'
        BY <1>1, <1>2, <1>3, <2>1 DEF DataInv, Active, Redo, Ended, EndLabel
    <2>5. Database' = disk
        BY <1>1, <2>1, <2>2, EmptyFacts, DatabaseAfter
    <2> QED
        BY <1>1, <1>4, <2>2, <2>3, <2>4, <2>5 DEF FileInv, Simulates
<1>6. CASE disk.label = NoVersion
    <2>1. /\ version' = [epoch |-> 1, counter |-> 1] /\ oldLog' = <<>>
          /\ disk' = [disk EXCEPT !.label = version'] /\ stable' = disk'
        BY <1>6 DEF InitializeDB, SyncFile
    <2>2. disk'.label = version' /\ disk'.data = disk.data
        BY <1>2, <2>1 DEF File
    <2>3. LogInv'
        BY <1>1, <1>2, <2>1, EmptyFacts DEF LogInv, WellFormed, Open, Finishing
    <2>4. LabelInv' /\ StableInv'
        BY <1>1, <2>1, <2>2 DEF LabelInv, StableInv, Finishing
    <2>5. DataInv'
        BY <1>1, <1>2, <2>1, EmptyFacts DEF DataInv, Active, Ended
    <2>6. Database' = disk'
        BY <1>1, <2>3, EmptyFacts, DatabaseAfter
    <2>7. Store!StoreRelabel
        <3>1. disk'.label.epoch = 1 /\ disk.label.epoch = 0 /\ disk'.label.epoch > disk.label.epoch
            BY <1>6, <2>1, <2>2 DEF NoVersion
        <3>2. disk' = [disk EXCEPT !.label = [epoch |-> disk'.label.epoch, counter |-> 1]]
            BY <2>1, <3>1
        <3> QED
            BY <1>1, <1>4, <2>6, <3>1, <3>2 DEF Store!StoreRelabel
    <2> QED
        BY <2>3, <2>4, <2>5, <2>7 DEF FileInv, Simulates, Store!StoreNext
<1> QED
    BY <1>5, <1>6

-----------------------------------------------------------------------------
(* The theorem.                                                            *)

\* A new file is the empty database.
LEMMA InitFile == Init => FileInv /\ Store!StoreInit
<1> SUFFICES ASSUME Init PROVE FileInv /\ Store!StoreInit
    OBVIOUS
<1>1. /\ pc = "down" /\ log = <<>> /\ synced = 0 /\ oldLog = <<>> /\ disk = stable
      /\ trunc = NoTrunc /\ broken = FALSE /\ work = NoTrans
    BY DEF Init
<1>2. LogInv
    BY <1>1, EmptyFacts, EmptyLog DEF LogInv, Finishing
<1>3. LabelInv /\ StableInv /\ DataInv
    BY <1>1, EmptyFacts DEF LabelInv, StableInv, DataInv, Active, Finishing
<1>4. Database = disk
    BY <1>1, <1>2, InitType, EmptyFacts, DatabaseBefore
<1>5. Store!StoreInit
    BY <1>1, <1>4 DEF Init, Store!StoreInit, NoVersion, Store!NoVersion
<1> QED
    BY <1>2, <1>3, <1>5 DEF FileInv

\* Every step keeps the files right and is a step of the store.
LEMMA NextFile ==
    ASSUME ~TornWrites, ~SyncErrors
    PROVE  TypeInv /\ TypeInv' /\ PoolInv /\ PoolInv' /\ FileInv /\ [Next]_vars => FileInv' /\ Simulates
<1> SUFFICES ASSUME TypeInv, TypeInv', PoolInv, PoolInv', FileInv, [Next]_vars
             PROVE  FileInv' /\ Simulates
    OBVIOUS
<1>1. CASE UNCHANGED vars
    <2>1. /\ UNCHANGED <<pc, nbuffers, disk, stable, log, synced, oldLog, version, buffers>>
          /\ UNCHANGED <<trunc, broken, work, pos>>
        BY <1>1 DEF vars, fileVars, transVars
    <2>2. LogInv' /\ LabelInv' /\ StableInv'
        BY <2>1 DEF FileInv, LogInv, LabelInv, StableInv, WellFormed, Open, Ended, EndLabel, Changed, Active
    <2>3. DataInv'
        BY <2>1 DEF FileInv, DataInv, Redo, Active, Behind, Changed, Ended, EndLabel, Shows, Dirty, Slots
    <2>4. Database' = Database
        BY <2>1, DatabaseContents
    <2> QED
        BY <2>1, <2>2, <2>3, <2>4 DEF FileInv, Simulates
<1>2. ~SyncLogFails
    BY DEF SyncLogFails
<1>3. ~ReplayFails
    <2>1. ASSUME pc = "replay" PROVE log[pos].op # "torn"
        <3>1. pos >= 1 /\ pos \in 0..Len(log) /\ log \in Seq(Record)
            BY <2>1 DEF TypeInv, TypeOK
        <3>2. Len(log) \in Nat
            BY <3>1, LogLength
        <3>3. pos \in 1..Len(log)
            BY <3>1, <3>2
        <3> QED
            BY <3>3 DEF FileInv, LogInv, WellFormed
    <2> QED
        BY <2>1 DEF ReplayFails
<1>4. CASE \E page \in Page : Read(page)
    BY <1>4, ReadFile
<1>5. CASE Begin
    BY <1>5, BeginFile
<1>6. CASE \E p \in Pos, v \in Val : Write(p, v)
    BY <1>6, WriteFile
<1>7. CASE \E len \in TruncTo : Truncate(len)
    BY <1>7, TruncateFile
<1>8. CASE Commit
    BY <1>2, <1>8, StartCommitFile, WriteLogEndFile, SyncLogCommits, FlushFile, DSyncFile,
       DoTruncsFile, LabelFile, CutFile DEF Commit
<1>9. CASE WriteLogAbort \/ Abort
    BY <1>9, WriteLogAbortFile, AbortFile
<1>10. CASE Crash
    BY <1>10, CrashFile
<1>11. CASE Recover
    BY <1>3, <1>11, StartReplayFile, ReplayRecordFile, ReplayEndFile, SyncReplayFile,
       InitializeDBFile DEF Recover
<1> QED
    BY <1>1, <1>4, <1>5, <1>6, <1>7, <1>8, <1>9, <1>10, <1>11 DEF Next

(***************************************************************************)
(* With any crashes before, during and after a commit, an abort or a       *)
(* replay, the files hold the committed database or, from the sync of      *)
(* LOGEND on, its successor (udisk_commit, ReplayLog): the storage         *)
(* implements UbikStore.  A torn LOGEND and a failed sync of the log are   *)
(* left out, since both break it.                                          *)
(***************************************************************************)
THEOREM CommitsAreAtomicCorrect ==
    ASSUME NoGaps, ~TornWrites, ~SyncErrors
    PROVE  Spec => CommitsAreAtomic
<1>1. Init => TypeInv /\ PoolInv /\ FileInv /\ Store!StoreInit
    BY InitType, InitPool, InitFile
<1>2. TypeInv /\ PoolInv /\ FileInv /\ [Next]_vars =>
          (TypeInv /\ PoolInv /\ FileInv)' /\ [Store!StoreNext]_(Store!storeVars)
    <2>1. ASSUME TypeInv, PoolInv, FileInv, [Next]_vars
          PROVE  TypeInv' /\ PoolInv' /\ FileInv' /\ Simulates
        BY <2>1, NextType, NextPool, NextFile
    <2>2. Simulates => [Store!StoreNext]_(Store!storeVars)
        BY DEF Simulates, Store!storeVars
    <2> QED
        BY <2>1, <2>2
<1> QED
    BY <1>1, <1>2, PTL DEF Spec, CommitsAreAtomic, Store!StoreSpec

=============================================================================
