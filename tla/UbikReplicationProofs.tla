------------------------ MODULE UbikReplicationProofs ------------------------
(***************************************************************************)
(* Proofs about UbikReplication, for any odd number of servers and any     *)
(* number of elections, transactions, crashes and lost calls: its types,   *)
(* and that no server commits a part of a transaction.                     *)
(***************************************************************************)
EXTENDS UbikReplication, TLAPS

-----------------------------------------------------------------------------
(* The inductive invariants.                                               *)

RemoteRec == [tid : Version, id : Trans, wrote : BOOLEAN, done : BOOLEAN]

Database ==
    [label : Version, version : Version, told : Version, data : Seq(Trans),
     remote : RemoteRec \cup {NoTrans}]

ViewRec ==
    [up : SUBSET Server, current : SUBSET Server, heard : SUBSET Server,
     known : [Server -> Version]]

TaskRec ==
    [phase : {"idle", "find", "fetch", "await", "send"}, best : Server \cup {None},
     newest : Version, enough : BOOLEAN, todo : SUBSET Server, dbok : BOOLEAN]

Flags == {"found", "have", "sent", "label"}

\* The types of the variables; the server list of s does not have s.
TypeInv ==
    /\ site \in Server \cup {None} /\ adv \in BOOLEAN
    /\ epoch \in [Server -> Nat] /\ sync \in [Server -> Server \cup {None}]
    /\ db \in [Server -> Database] /\ view \in [Server -> ViewRec]
    /\ rec \in [Server -> SUBSET Flags] /\ task \in [Server -> TaskRec]
    /\ trans \in [Server -> TransRec \cup {NoTrans}]
    /\ acked \subseteq Trans /\ elections \in Nat /\ begun \in 0..MaxTrans
    /\ \A s \in Server : s \notin view[s].up \cup view[s].current \cup task[s].todo

\* bestServer is set whenever the recovery thread is about to fetch, in this turn or in
\* a later one.
BestInv ==
    \A s \in Server :
        /\ task[s].phase = "find" => task[s].best \in Server \/ task[s].newest = NoVersion
        /\ task[s].phase = "fetch" => task[s].best \in Server
        /\ "found" \in rec[s] /\ "have" \notin rec[s] =>
              task[s].phase \in {"idle", "fetch"} /\ task[s].best \in Server

\* The epoch of the sync site is the newest, and only its own transactions have it.
EpochInv ==
    /\ site # None => epoch[site] = elections + 2
    /\ \A s \in Server : trans[s] # NoTrans =>
          /\ trans[s].tid.epoch <= elections + 2
          /\ site # None /\ trans[s].tid.epoch = elections + 2 => s = site
    /\ \A s, t \in Server :
          /\ trans[s] # NoTrans /\ trans[t] # NoTrans
          /\ trans[s].tid.epoch = trans[t].tid.epoch
          => s = t

\* Transactions are numbered, and a remote one is none that its sync site begins later.
TidInv ==
    /\ \A s \in Server : trans[s] # NoTrans =>
          trans[s].tid.counter = 2 * trans[s].id /\ trans[s].id <= begun
    /\ \A t \in Server : db[t].remote # NoTrans =>
          db[t].remote.tid.counter = 2 * db[t].remote.id /\ db[t].remote.id <= begun
    /\ \A s, t \in Server :
          /\ trans[s] # NoTrans /\ db[t].remote # NoTrans
          /\ db[t].remote.tid.epoch = trans[s].tid.epoch
          => db[t].remote.tid.counter <= trans[s].tid.counter

\* No database is sent during a write transaction, so that none becomes current.
SendInv == \A s \in Server : task[s].phase = "send" => trans[s] = NoTrans

\* The writes of the transaction of s have been sent to t, unless t missed them.
SentTo(s, t) ==
    \/ Phase(s) \in {"written", "ending", "setversion", "commit"}
    \/ Phase(s) = "write" /\ t \notin trans[s].todo

\* A server that is still current has the writes, if it has the transaction.
WroteInv ==
    \A s, t \in Server :
        /\ SentTo(s, t) /\ t \in view[s].current
        /\ db[t].remote # NoTrans /\ db[t].remote.tid = trans[s].tid
        => db[t].remote.wrote

TransInv == EpochInv /\ TidInv /\ SendInv /\ WroteInv

Inv == TypeInv /\ BestInv /\ TransInv

-----------------------------------------------------------------------------
(* The types of what the operations make.                                  *)

\* Versions are versions.
LEMMA VersionFacts ==
    /\ NoVersion \in Version
    /\ \A e, c \in Nat : V(e, c) \in Version
    /\ \A v \in Version : v.epoch \in Nat /\ v.counter \in Nat
BY DEF NoVersion, Version, V

\* The label, the transaction and the contents of a database.
LEMMA DatabaseFacts ==
    ASSUME NEW d \in Database
    PROVE  /\ d.label \in Version /\ d.version \in Version /\ d.told \in Version
           /\ d.data \in Seq(Trans) /\ d.remote \in RemoteRec \cup {NoTrans}
           /\ \A v \in Version : Labelled(d, v) \in Database
           /\ \A v \in Version : [d EXCEPT !.version = v] \in Database
           /\ \A v \in Version : [d EXCEPT !.told = v] \in Database
           /\ \A r \in RemoteRec \cup {NoTrans} : [d EXCEPT !.remote = r] \in Database
           /\ \A l \in Seq(Trans) : [d EXCEPT !.data = l] \in Database
BY DEF Database, Labelled

\* urecovery_AbortAll and urecovery_CheckTid.
LEMMA AbortFacts ==
    /\ \A r \in RemoteRec \cup {NoTrans} : \A tid \in Version :
          CheckTid(r, tid) \in RemoteRec \cup {NoTrans}
    /\ \A d \in Database : AbortRemote(d) \in Database
    /\ \A x \in TransRec \cup {NoTrans} : AbortLocal(x) \in TransRec \cup {NoTrans}
    /\ \A x \in TransRec : AbortLocal(x) \in TransRec
<1>1. \A x \in TransRec : [x EXCEPT !.done = TRUE] \in TransRec
    BY DEF TransRec
<1>2. \A r \in RemoteRec : [r EXCEPT !.done = TRUE] \in RemoteRec
    BY DEF RemoteRec
<1>3. ASSUME NEW d \in Database PROVE AbortRemote(d) \in Database
    <2>1. CASE d.remote = NoTrans
        BY <2>1 DEF AbortRemote
    <2>2. CASE d.remote # NoTrans
        <3>1. d.remote \in RemoteRec
            BY <2>2, DatabaseFacts
        <3>2. AbortRemote(d) = [d EXCEPT !.remote = [d.remote EXCEPT !.done = TRUE]]
            BY <2>2 DEF AbortRemote, Database
        <3> QED
            BY <1>2, <3>1, <3>2, DatabaseFacts
    <2> QED
        BY <2>1, <2>2
<1> QED
    BY <1>1, <1>3 DEF CheckTid, AbortLocal

\* udisk_commit, a transfer that fails and a vote.
LEMMA StoreFacts ==
    ASSUME NEW d \in Database
    PROVE  /\ \A id \in Trans, nothing \in BOOLEAN : Committed(d, id, nothing) \in Database
           /\ InTransit(d) \subseteq Database
           /\ \A v, tid \in Version : VotedFor(d, v, tid) \in Database
<1>1. ASSUME NEW id \in Trans, NEW nothing \in BOOLEAN
      PROVE  Committed(d, id, nothing) \in Database
    <2>1. V(d.version.epoch, d.version.counter + 1) \in Version
        <3>1. d.version \in Version
            BY DatabaseFacts
        <3>2. d.version.epoch \in Nat /\ d.version.counter + 1 \in Nat
            BY <3>1, VersionFacts
        <3> QED
            BY <3>2, VersionFacts
    <2> DEFINE c == Labelled(d, V(d.version.epoch, d.version.counter + 1))
    <2>2. c \in Database
        BY <2>1, DatabaseFacts
    <2>3. c.data \in Seq(Trans)
        BY <2>2, DatabaseFacts
    <2>4. Append(c.data, id) \in Seq(Trans)
        BY <2>3
    <2> HIDE DEF c
    <2>5. [c EXCEPT !.data = IF nothing THEN c.data ELSE Append(c.data, id)] \in Database
        BY <2>2, <2>3, <2>4, DatabaseFacts
    <2>6. [c EXCEPT !.data = IF nothing THEN @ ELSE Append(@, id)]
              = [c EXCEPT !.data = IF nothing THEN c.data ELSE Append(c.data, id)]
        BY <2>2 DEF Database
    <2> QED
        BY <2>5, <2>6 DEF Committed, c
<1>2. InTransit(d) \subseteq Database
    <2>1. V(0, 0) \in Version /\ V(0, 9) \in Version
        BY VersionFacts
    <2> QED
        BY <2>1, DatabaseFacts DEF InTransit
<1>3. ASSUME NEW v \in Version, NEW tid \in Version
      PROVE  VotedFor(d, v, tid) \in Database
    <2>1. CheckTid(d.remote, tid) \in RemoteRec \cup {NoTrans}
        BY AbortFacts, DatabaseFacts
    <2> QED
        BY <2>1 DEF VotedFor, Database
<1> QED
    BY <1>1, <1>2, <1>3

\* The transaction of a server, and what a round of calls makes of it.
LEMMA TransFacts ==
    ASSUME NEW x \in TransRec
    PROVE  /\ x.id \in Trans /\ x.tid \in Version /\ x.phase \in Phases /\ x.todo \subseteq Server
           /\ x.ok \in Nat /\ x.old \in Version /\ x.new \in Version /\ x.done \in BOOLEAN
           /\ \A s \in Server, p \in Phases : Round(s, x, p) \in TransRec
           /\ \A p \in Phases, S \in SUBSET Server :
                 [x EXCEPT !.phase = p, !.todo = S] \in TransRec
           /\ \A p \in Phases : [x EXCEPT !.phase = p] \in TransRec
BY DEF TransRec, Round, Others

\* The handlers of the calls of a transaction.
LEMMA HandleType ==
    ASSUME TypeInv, NEW t \in Server, NEW x \in TransRec
    PROVE  Handle(t, x).db \in Database
<1>1. db[t] \in Database /\ x.tid \in Version /\ x.id \in Trans /\ x.new \in Version
    BY TransFacts DEF TypeInv
<1>2. Checked(t, x) \in Database
    <2>1. Checked(t, x) = [db[t] EXCEPT !.remote = CheckTid(db[t].remote, x.tid)]
        BY <1>1 DEF Checked, Database
    <2> QED
        BY <1>1, <2>1, AbortFacts, DatabaseFacts
<1>3. SDISK_Begin(t, x).db \in Database
    <2>1. [tid |-> x.tid, id |-> x.id, wrote |-> FALSE, done |-> FALSE] \in RemoteRec
        BY <1>1 DEF RemoteRec
    <2>2. [db[t] EXCEPT !.remote = NoTrans] \in Database
        BY <1>1, DatabaseFacts
    <2>3. [[db[t] EXCEPT !.remote = NoTrans] EXCEPT !.remote =
               [tid |-> x.tid, id |-> x.id, wrote |-> FALSE, done |-> FALSE]] \in Database
        BY <2>1, <2>2, DatabaseFacts
    <2> QED
        BY <1>1, <2>2, <2>3 DEF SDISK_Begin, Refuses, Accepts
<1> DEFINE d == Checked(t, x)
<1>4. \A r \in RemoteRec : /\ [r EXCEPT !.wrote = TRUE] \in RemoteRec
                           /\ [r EXCEPT !.done = TRUE] \in RemoteRec
    BY DEF RemoteRec
<1>5. d \in Database /\ d.remote \in RemoteRec \cup {NoTrans}
    BY <1>2, DatabaseFacts
<1> HIDE DEF d
<1>6. SDISK_WriteV(t, x).db \in Database
    <2>1. SUFFICES ASSUME d.remote # NoTrans
                   PROVE  [d EXCEPT !.remote.wrote = TRUE] \in Database
        BY <1>5 DEF SDISK_WriteV, Refuses, Accepts, d
    <2>2. [d EXCEPT !.remote.wrote = TRUE] = [d EXCEPT !.remote = [d.remote EXCEPT !.wrote = TRUE]]
        BY <1>5 DEF Database
    <2> QED
        BY <1>4, <1>5, <2>1, <2>2, DatabaseFacts
<1>7. SDISK_SetVersion(t, x).db \in Database
    <2>1. Labelled(d, x.new) \in Database
        BY <1>1, <1>5, DatabaseFacts
    <2>2. [Labelled(d, x.new) EXCEPT !.told = x.new] \in Database
        BY <1>1, <2>1, DatabaseFacts
    <2> QED
        BY <1>1, <1>5, <2>2 DEF SDISK_SetVersion, Refuses, Accepts, d
<1>8. SDISK_Commit(t, x).db \in Database
    <2> DEFINE c == Committed(d, d.remote.id, ~d.remote.wrote)
    <2>1. SUFFICES ASSUME d.remote # NoTrans
                   PROVE  [c EXCEPT !.told = c.version, !.remote.done = TRUE] \in Database
        BY <1>5 DEF SDISK_Commit, Refuses, Accepts, d
    <2>2. d.remote.id \in Trans /\ (~d.remote.wrote) \in BOOLEAN
        BY <1>5, <2>1 DEF RemoteRec
    <2>3. c \in Database
        BY <1>5, <2>2, StoreFacts
    <2>4. c.remote = d.remote
        BY <1>5 DEF Committed, Labelled, Database
    <2> HIDE DEF c
    <2>5. [c EXCEPT !.told = c.version, !.remote.done = TRUE]
              = [[c EXCEPT !.told = c.version] EXCEPT !.remote = [c.remote EXCEPT !.done = TRUE]]
        BY <2>3 DEF Database
    <2>6. [c EXCEPT !.told = c.version] \in Database
        BY <2>3, DatabaseFacts
    <2>7. [c.remote EXCEPT !.done = TRUE] \in RemoteRec
        BY <1>4, <1>5, <2>1, <2>4
    <2> QED
        BY <2>5, <2>6, <2>7, DatabaseFacts
<1>9. SDISK_End(t, x).db \in Database
    BY <1>5, DatabaseFacts DEF SDISK_End, Refuses, Accepts, d
<1> QED
    BY <1>3, <1>6, <1>7, <1>8, <1>9 DEF Handle

-----------------------------------------------------------------------------
(* Types: one lemma for each action, or for actions that change the same.  *)

\* Init.
LEMMA InitType == Init => TypeInv /\ BestInv
<1> SUFFICES ASSUME Init PROVE TypeInv /\ BestInv
    OBVIOUS
<1>1. NoVersion \in Version /\ V(1, 1) \in Version
    BY VersionFacts
<1>2. <<>> \in Seq(Trans)
    OBVIOUS
<1>3. [label |-> V(1, 1), version |-> V(1, 1), told |-> NoVersion, data |-> <<>>,
       remote |-> NoTrans] \in Database
    BY <1>1, <1>2 DEF Database
<1>4. \A s \in Server : NewView(s) \in ViewRec /\ s \notin NewView(s).up
                           /\ NewView(s).current = {}
    BY <1>1 DEF NewView, ViewRec, Others
<1>5. Idle \in TaskRec /\ Idle.todo = {} /\ Idle.phase = "idle"
    BY <1>1 DEF Idle, TaskRec
<1>6. 0 \in 0..MaxTrans
    BY ReplicationAssumption
<1>7. TypeInv
    BY <1>3, <1>4, <1>5, <1>6 DEF Init, TypeInv
<1>8. BestInv
    BY <1>5 DEF Init, BestInv
<1> QED
    BY <1>7, <1>8

\* What RoundEnds leaves in the view of a server.
LEMMA RoundEndsType ==
    ASSUME TypeInv, NEW s \in Server, NEW phase, phase \in Phases, RoundEnds(s, phase)
    PROVE  /\ trans[s] \in TransRec /\ trans[s].phase = phase
           /\ view' \in [Server -> ViewRec]
           /\ \A t \in Server : /\ view'[t].up = view[t].up
                                /\ view'[t].current \subseteq view[t].current
<1>1. trans[s] # NoTrans /\ trans[s].phase = phase
    BY DEF RoundEnds, Phase, Phases, Rounds
<1>2. trans[s] \in TransRec
    BY <1>1 DEF TypeInv
<1>3. view[s] \in ViewRec /\ view[s].current \ trans[s].todo \subseteq Server
    BY DEF TypeInv, ViewRec
<1>4. [view[s] EXCEPT !.current = view[s].current \ trans[s].todo] \in ViewRec
    BY <1>3 DEF ViewRec
<1>5. view' = [view EXCEPT ![s] = [view[s] EXCEPT !.current = view[s].current \ trans[s].todo]]
    BY <1>3 DEF RoundEnds, TypeInv, ViewRec
<1>6. view'[s] = [view[s] EXCEPT !.current = view[s].current \ trans[s].todo]
    BY <1>5 DEF TypeInv
<1>7. view'[s].up = view[s].up /\ view'[s].current = view[s].current \ trans[s].todo
    BY <1>3, <1>6 DEF ViewRec
<1> QED
    BY <1>1, <1>2, <1>4, <1>5, <1>7 DEF TypeInv

\* A step that changes the transaction of s and makes servers less current.
LEMMA TransStepType ==
    ASSUME TypeInv, BestInv, NEW s \in Server, NEW x \in TransRec \cup {NoTrans},
           trans' = [trans EXCEPT ![s] = x], acked' \subseteq Trans,
           begun' \in 0..MaxTrans, db' \in [Server -> Database],
           view' \in [Server -> ViewRec],
           \A t \in Server : /\ view'[t].up \subseteq view[t].up
                             /\ view'[t].current \subseteq view[t].current,
           UNCHANGED <<siteVars, task>>, rec' \in [Server -> SUBSET Flags],
           \A t \in Server : rec'[t] \ {"label"} = rec[t] \ {"label"}
    PROVE  TypeInv' /\ BestInv'
<1>1. trans' \in [Server -> TransRec \cup {NoTrans}]
    BY DEF TypeInv
<1>2. TypeInv'
    BY <1>1 DEF TypeInv, siteVars
<1>3. \A t \in Server : /\ "found" \in rec'[t] <=> "found" \in rec[t]
                        /\ "have" \in rec'[t] <=> "have" \in rec[t]
    OBVIOUS
<1>4. BestInv'
    BY <1>3 DEF BestInv
<1> QED
    BY <1>2, <1>4

\* The end of a transaction.
LEMMA EndType ==
    ASSUME TypeInv, NEW s \in Server, trans[s] \in TransRec, End(s)
    PROVE  trans' = [trans EXCEPT ![s] = NoTrans] /\ acked' \subseteq Trans
BY TransFacts DEF End, TypeInv

\* A new transaction.
LEMMA NewTransFacts ==
    ASSUME TypeInv, NEW s \in Server, begun < MaxTrans
    PROVE  /\ Round(s, NewTrans(s), "begin") \in TransRec
           /\ Round(s, NewTrans(s), "begin").phase = "begin"
           /\ Round(s, NewTrans(s), "begin").id = begun + 1
           /\ Round(s, NewTrans(s), "begin").tid
                 = [epoch |-> epoch[s], counter |-> 2 * (begun + 1)]
           /\ begun + 1 \in 0..MaxTrans
<1>1. begun \in Nat /\ begun + 1 \in Trans /\ epoch[s] \in Nat /\ MaxTrans \in Nat
    BY ReplicationAssumption DEF TypeInv, Trans
<1>2. [epoch |-> epoch[s], counter |-> 2 * (begun + 1)] \in Version
    BY <1>1 DEF Version
<1>3. "open" \in Phases /\ "begin" \in Phases
    BY DEF Phases, Rounds
<1>4. NewTrans(s) \in TransRec
    BY <1>1, <1>2, <1>3, VersionFacts DEF NewTrans, TransRec
<1>5. Round(s, NewTrans(s), "begin") \in TransRec
    BY <1>3, <1>4, TransFacts
<1> QED
    BY <1>1, <1>5 DEF Round, NewTrans

\* The steps of a transaction other than calls and commits.
LEMMA RoundsType ==
    ASSUME TypeInv, BestInv, NEW s \in Server,
           \/ BeginTrans(s) \/ BeginEnds(s) \/ Write(s) \/ WriteEnds(s) \/ UndoEnds(s)
           \/ AbortTrans(s) \/ AbortEnds(s) \/ EndTrans(s) \/ CommitEnds(s) \/ CommitWait(s)
           \/ ReleaseEnds(s)
    PROVE  TypeInv' /\ BestInv'
<1>1. Rounds \subseteq Phases /\ {"open", "written", "ending", "wait"} \subseteq Phases
    BY DEF Phases
<1>2. {"begin", "write", "setversion", "commit", "release", "abort", "undo begin", "undo write"}
          \subseteq Phases
    BY <1>1 DEF Rounds
<1>3. \A p \in Phases : Phase(s) = p => trans[s] \in TransRec
    BY DEF Phase, Phases, Rounds, TypeInv
<1>4. db \in [Server -> Database] /\ view \in [Server -> ViewRec] /\ begun \in 0..MaxTrans
      /\ rec \in [Server -> SUBSET Flags] /\ acked \subseteq Trans
    BY DEF TypeInv
<1>5. CASE BeginTrans(s)
    <2> DEFINE x == Round(s, NewTrans(s), "begin")
    <2>1. x \in TransRec /\ begun + 1 \in 0..MaxTrans
        BY <1>5, NewTransFacts DEF BeginTrans
    <2>2. trans' = [trans EXCEPT ![s] = x] /\ UNCHANGED <<acked, db, view, siteVars, task, rec>>
        BY <1>5 DEF BeginTrans, Continue
    <2>3. begun' = begun + 1
        BY <1>5 DEF BeginTrans
    <2> HIDE DEF x
    <2> QED
        BY <1>4, <2>1, <2>2, <2>3, TransStepType
<1>6. ASSUME NEW x \in TransRec, Continue(s, x),
             UNCHANGED <<siteVars, db, rec, task, countVars>>,
             view' \in [Server -> ViewRec],
             \A t \in Server : /\ view'[t].up = view[t].up
                               /\ view'[t].current \subseteq view[t].current
      PROVE  TypeInv' /\ BestInv'
    BY <1>4, <1>6, TransStepType DEF Continue, countVars
<1>7. ASSUME trans[s] \in TransRec, End(s),
             UNCHANGED <<siteVars, db, rec, task, countVars>>,
             view' \in [Server -> ViewRec],
             \A t \in Server : /\ view'[t].up = view[t].up
                               /\ view'[t].current \subseteq view[t].current
      PROVE  TypeInv' /\ BestInv'
    BY <1>4, <1>7, EndType, TransStepType DEF countVars
<1>8. CASE BeginEnds(s) \/ WriteEnds(s) \/ CommitEnds(s)
    <2>1. PICK p \in {"begin", "write", "commit"} : RoundEnds(s, p)
        BY <1>8 DEF BeginEnds, WriteEnds, CommitEnds
    <2>2. /\ trans[s] \in TransRec /\ view' \in [Server -> ViewRec]
          /\ \A t \in Server : /\ view'[t].up = view[t].up
                               /\ view'[t].current \subseteq view[t].current
        BY <1>2, <2>1, RoundEndsType
    <2>3. UNCHANGED <<siteVars, db, rec, task, countVars>>
        BY <1>8 DEF BeginEnds, WriteEnds, CommitEnds
    <2>4. AbortLocal(trans[s]) \in TransRec
        BY <2>2, AbortFacts
    <2>5. /\ \A q \in Phases : Round(s, AbortLocal(trans[s]), q) \in TransRec
          /\ \A q \in Phases : Round(s, trans[s], q) \in TransRec
          /\ \A q \in Phases : [trans[s] EXCEPT !.phase = q, !.todo = {}] \in TransRec
        BY <2>2, <2>4, TransFacts
    <2>6. \E x \in TransRec : Continue(s, x)
        <3>1. CASE BeginEnds(s)
            BY <1>1, <1>2, <2>5, <3>1 DEF BeginEnds
        <3>2. CASE WriteEnds(s)
            BY <1>1, <1>2, <2>5, <3>2 DEF WriteEnds
        <3>3. CASE CommitEnds(s)
            BY <1>1, <1>2, <2>5, <3>3 DEF CommitEnds
        <3> QED
            BY <1>8, <3>1, <3>2, <3>3
    <2> QED
        BY <1>6, <2>2, <2>3, <2>6
<1>9. CASE UndoEnds(s) \/ AbortEnds(s) \/ ReleaseEnds(s)
    <2>1. PICK p \in {"undo begin", "undo write", "abort", "release"} : RoundEnds(s, p)
        BY <1>9 DEF UndoEnds, AbortEnds, ReleaseEnds
    <2>2. /\ trans[s] \in TransRec /\ view' \in [Server -> ViewRec]
          /\ \A t \in Server : /\ view'[t].up = view[t].up
                               /\ view'[t].current \subseteq view[t].current
        BY <1>2, <2>1, RoundEndsType
    <2>3. UNCHANGED <<siteVars, db, rec, task, countVars>>
        BY <1>9 DEF UndoEnds, AbortEnds, ReleaseEnds
    <2>4. [trans[s] EXCEPT !.phase = "open", !.todo = {}] \in TransRec
        BY <1>1, <2>2, TransFacts
    <2>5. End(s) \/ \E x \in TransRec : Continue(s, x)
        BY <1>9, <2>4 DEF UndoEnds, AbortEnds, ReleaseEnds
    <2> QED
        BY <1>6, <1>7, <2>2, <2>3, <2>5
<1>10. CASE Write(s) \/ AbortTrans(s) \/ EndTrans(s) \/ CommitWait(s)
    <2>1. trans[s] \in TransRec
        BY <1>1, <1>3, <1>10 DEF Write, AbortTrans, EndTrans, CommitWait
    <2>2. UNCHANGED <<siteVars, db, view, rec, task, countVars>>
        BY <1>10 DEF Write, AbortTrans, EndTrans, CommitWait
    <2>3. [trans[s] EXCEPT !.won = TRUE] \in TransRec
        BY <2>1 DEF TransRec
    <2>4. /\ \A q \in Phases : Round(s, trans[s], q) \in TransRec
          /\ \A q \in Phases : Round(s, [trans[s] EXCEPT !.won = TRUE], q) \in TransRec
          /\ \A q \in Phases : [trans[s] EXCEPT !.phase = q] \in TransRec
        BY <2>1, <2>3, TransFacts
    <2>5. End(s) \/ \E x \in TransRec : Continue(s, x)
        BY <1>1, <1>2, <1>10, <2>4 DEF Write, AbortTrans, EndTrans, CommitWait
    <2> QED
        BY <1>4, <1>6, <1>7, <2>1, <2>2, <2>5
<1> QED
    BY <1>5, <1>8, <1>9, <1>10

\* The commit at the sync site.
LEMMA CommitType ==
    ASSUME TypeInv, BestInv, NEW s \in Server, udisk_commit(s) \/ SetVersionEnds(s)
    PROVE  TypeInv' /\ BestInv'
<1>1. {"ending", "setversion", "commit", "release"} \subseteq Phases
    BY DEF Phases, Rounds
<1>2. trans[s] \in TransRec
    BY DEF udisk_commit, SetVersionEnds, RoundEnds, Phase, TypeInv
<1>3. db \in [Server -> Database] /\ db[s] \in Database /\ view \in [Server -> ViewRec]
      /\ rec \in [Server -> SUBSET Flags] /\ begun \in 0..MaxTrans /\ acked \subseteq Trans
      /\ epoch[s] \in Nat
    BY DEF TypeInv
<1>4. V(epoch[s], 1) \in Version /\ db[s].version \in Version
    BY <1>3, VersionFacts, DatabaseFacts
<1>5. /\ [trans[s] EXCEPT !.done = TRUE] \in TransRec
      /\ [trans[s] EXCEPT !.old = db[s].version, !.new = V(epoch[s], 1)] \in TransRec
    BY <1>2, <1>4 DEF TransRec
<1>6. \A q \in Phases :
          /\ Round(s, trans[s], q) \in TransRec
          /\ Round(s, [trans[s] EXCEPT !.done = TRUE], q) \in TransRec
          /\ Round(s, [trans[s] EXCEPT !.old = db[s].version, !.new = V(epoch[s], 1)], q)
                \in TransRec
    BY <1>2, <1>5, TransFacts
<1>7. /\ Labelled(db[s], V(epoch[s], 1)) \in Database
      /\ Committed(db[s], trans[s].id, FALSE) \in Database
      /\ Committed(db[s], trans[s].id, trans[s].done) \in Database
    BY <1>2, <1>3, <1>4, DatabaseFacts, StoreFacts, TransFacts
<1>8. \E x \in TransRec : Continue(s, x)
    BY <1>1, <1>6 DEF udisk_commit, SetVersionEnds
<1>9. db' \in [Server -> Database]
    <2>1. \/ db' = db
          \/ db' = [db EXCEPT ![s] = Labelled(db[s], V(epoch[s], 1))]
          \/ db' = [db EXCEPT ![s] = Committed(db[s], trans[s].id, FALSE)]
          \/ db' = [db EXCEPT ![s] = Committed(db[s], trans[s].id, trans[s].done)]
        BY <1>3 DEF udisk_commit, SetVersionEnds
    <2> QED
        BY <1>3, <1>7, <2>1
<1>10. /\ view' \in [Server -> ViewRec]
       /\ \A t \in Server : /\ view'[t].up \subseteq view[t].up
                            /\ view'[t].current \subseteq view[t].current
    <2>1. CASE udisk_commit(s)
        BY <1>3, <2>1 DEF udisk_commit
    <2>2. CASE SetVersionEnds(s)
        <3>1. RoundEnds(s, "setversion")
            BY <2>2 DEF SetVersionEnds
        <3> QED
            BY <1>1, <3>1, RoundEndsType
    <2> QED
        BY <2>1, <2>2
<1>11. /\ rec' \in [Server -> SUBSET Flags]
       /\ \A t \in Server : rec'[t] \ {"label"} = rec[t] \ {"label"}
    <2>1. rec' = rec \/ rec' = [rec EXCEPT ![s] = rec[s] \cup {"label"}]
        BY <1>3 DEF udisk_commit, SetVersionEnds
    <2>2. rec[s] \cup {"label"} \in SUBSET Flags
        BY <1>3 DEF Flags
    <2> QED
        BY <1>3, <2>1, <2>2
<1>12. UNCHANGED <<siteVars, task, acked, begun>>
    BY DEF udisk_commit, SetVersionEnds, Continue, countVars
<1> QED
    BY <1>3, <1>8, <1>9, <1>10, <1>11, <1>12, TransStepType DEF Continue

\* The two results of a call: an answer, or none, after which the server is down.
LEMMA CallCases ==
    ASSUME TypeInv, NEW s \in Server, NEW t \in Server, Call(s, t)
    PROVE  /\ trans[s] \in TransRec /\ t \in trans[s].todo /\ t \in view[s].current
           /\ trans[s].phase \in Rounds /\ task[s].phase # "send"
           /\ \E ok \in Nat : trans' = [trans EXCEPT ![s] =
                 [trans[s] EXCEPT !.todo = trans[s].todo \ {t}, !.io = TRUE, !.ok = ok]]
           /\ db' = db \/ db' = [db EXCEPT ![t] = Handle(t, trans[s]).db]
           /\ \/ /\ Handle(t, trans[s]).ok
                 /\ db' = [db EXCEPT ![t] = Handle(t, trans[s]).db]
                 /\ \E v \in Version :
                       view' = [view EXCEPT ![s] = [view[s] EXCEPT !.known[t] = v]]
              \/ view' = [view EXCEPT ![s] = MarkDown(view[s], t)]
           /\ UNCHANGED <<siteVars, rec, task, acked, begun>>
<1>1. trans[s] \in TransRec /\ trans[s].phase \in Rounds /\ t \in Callable(s)
    BY DEF Call, InRound, Phase, Rounds, TypeInv
<1>2. t \in trans[s].todo /\ t \in view[s].current
    BY <1>1 DEF Callable
<1>3. task[s].phase # "send"
    BY DEF Call, Transfers
<1> DEFINE called == [trans[s] EXCEPT !.todo = trans[s].todo \ {t}, !.io = TRUE]
<1>4. /\ called.ok = trans[s].ok /\ trans[s].ok \in Nat /\ trans[s].ok + 1 \in Nat
      /\ called = [trans[s] EXCEPT !.todo = trans[s].todo \ {t}, !.io = TRUE,
                                   !.ok = trans[s].ok]
      /\ \A n \in Nat : [called EXCEPT !.ok = n]
            = [trans[s] EXCEPT !.todo = trans[s].todo \ {t}, !.io = TRUE, !.ok = n]
    <2>1. trans[s].ok \in Nat
        BY <1>1 DEF TransRec
    <2>2. called.ok = trans[s].ok
        BY <1>1 DEF TransRec
    <2>3. called = [trans[s] EXCEPT !.todo = trans[s].todo \ {t}, !.io = TRUE,
                                    !.ok = trans[s].ok]
        BY <1>1 DEF TransRec
    <2>4. ASSUME NEW n \in Nat
          PROVE  [called EXCEPT !.ok = n]
                     = [trans[s] EXCEPT !.todo = trans[s].todo \ {t}, !.io = TRUE, !.ok = n]
        BY <1>1 DEF TransRec
    <2> QED
        BY <2>1, <2>2, <2>3, <2>4
<1>5. (IF trans[s].phase \in {"setversion", "commit"} THEN db[s].version
       ELSE view[s].known[t]) \in Version
    BY DatabaseFacts DEF TypeInv, ViewRec
<1>6. \/ trans' = [trans EXCEPT ![s] = called]
      \/ trans' = [trans EXCEPT ![s] = [called EXCEPT !.ok = called.ok + 1]]
    BY <1>1 DEF Call, TransRec
<1>7. \/ /\ Handle(t, trans[s]).ok
         /\ db' = [db EXCEPT ![t] = Handle(t, trans[s]).db]
         /\ \E v \in Version : view' = [view EXCEPT ![s] = [view[s] EXCEPT !.known[t] = v]]
      \/ view' = [view EXCEPT ![s] = MarkDown(view[s], t)]
    BY <1>5 DEF Call
<1>8. db' = db \/ db' = [db EXCEPT ![t] = Handle(t, trans[s]).db]
    BY DEF Call
<1>9. UNCHANGED <<siteVars, rec, task, acked, begun>>
    BY DEF Call
<1> QED
    BY <1>1, <1>2, <1>3, <1>4, <1>6, <1>7, <1>8, <1>9

\* The two results on the view of a server.
LEMMA CallView ==
    ASSUME NEW w \in ViewRec, NEW t \in Server, NEW v \in Version
    PROVE  /\ [w EXCEPT !.known[t] = v] \in ViewRec
           /\ [w EXCEPT !.known[t] = v].up = w.up
           /\ [w EXCEPT !.known[t] = v].current = w.current
           /\ MarkDown(w, t) \in ViewRec /\ MarkDown(w, t).up = w.up \ {t}
           /\ MarkDown(w, t).current = w.current \ {t}
BY DEF ViewRec, MarkDown

\* A call of a transaction.
LEMMA CallType ==
    ASSUME TypeInv, BestInv, NEW s \in Server, NEW t \in Server, Call(s, t)
    PROVE  TypeInv' /\ BestInv'
<1>1. /\ trans[s] \in TransRec
      /\ db' = db \/ db' = [db EXCEPT ![t] = Handle(t, trans[s]).db]
      /\ UNCHANGED <<siteVars, rec, task, acked, begun>>
    BY CallCases
<1>2. PICK ok \in Nat : trans' = [trans EXCEPT ![s] =
                 [trans[s] EXCEPT !.todo = trans[s].todo \ {t}, !.io = TRUE, !.ok = ok]]
    BY CallCases
<1>3. [trans[s] EXCEPT !.todo = trans[s].todo \ {t}, !.io = TRUE, !.ok = ok] \in TransRec
    BY <1>1 DEF TransRec
<1>4. db' \in [Server -> Database]
    BY <1>1, HandleType DEF TypeInv
<1>5. PICK w \in ViewRec : /\ view' = [view EXCEPT ![s] = w]
                           /\ w.up \subseteq view[s].up /\ w.current \subseteq view[s].current
    <2>1. view[s] \in ViewRec
        BY DEF TypeInv
    <2>2. \/ \E v \in Version : view' = [view EXCEPT ![s] = [view[s] EXCEPT !.known[t] = v]]
          \/ view' = [view EXCEPT ![s] = MarkDown(view[s], t)]
        BY CallCases
    <2>3. CASE \E v \in Version : view' = [view EXCEPT ![s] = [view[s] EXCEPT !.known[t] = v]]
        <3>1. PICK v \in Version : view' = [view EXCEPT ![s] = [view[s] EXCEPT !.known[t] = v]]
            BY <2>3
        <3> DEFINE w == [view[s] EXCEPT !.known[t] = v]
        <3>2. w \in ViewRec /\ w.up = view[s].up /\ w.current = view[s].current
            BY <2>1, CallView
        <3> HIDE DEF w
        <3>3. view' = [view EXCEPT ![s] = w]
            BY <3>1 DEF w
        <3> QED
            BY <3>2, <3>3
    <2>4. CASE view' = [view EXCEPT ![s] = MarkDown(view[s], t)]
        <3> DEFINE w == MarkDown(view[s], t)
        <3>1. w \in ViewRec /\ w.up = view[s].up \ {t} /\ w.current = view[s].current \ {t}
            BY <2>1 DEF MarkDown, ViewRec
        <3> HIDE DEF w
        <3>2. w.up \subseteq view[s].up /\ w.current \subseteq view[s].current
            BY <3>1
        <3>3. view' = [view EXCEPT ![s] = w]
            BY <2>4 DEF w
        <3> QED
            BY <3>1, <3>2, <3>3
    <2> QED
        BY <2>2, <2>3, <2>4
<1>6. /\ view' \in [Server -> ViewRec]
      /\ \A u \in Server : /\ view'[u].up \subseteq view[u].up
                           /\ view'[u].current \subseteq view[u].current
    BY <1>5 DEF TypeInv
<1> HIDE DEF TypeInv
<1>7. rec \in [Server -> SUBSET Flags] /\ begun \in 0..MaxTrans /\ acked \subseteq Trans
    BY DEF TypeInv
<1> QED
    BY <1>1, <1>2, <1>3, <1>4, <1>6, <1>7, TransStepType

-----------------------------------------------------------------------------
(* Steps that do not begin a transaction and send no part of one.          *)

\* y is the transaction x, or what an abort left of it; a remote transaction likewise.
SameTrans(x, y) ==
    y # NoTrans => /\ x # NoTrans /\ y.tid = x.tid /\ y.id = x.id
                   /\ y.phase = x.phase /\ y.todo = x.todo
SameRemote(d, e) ==
    e.remote # NoTrans => /\ d.remote # NoTrans /\ e.remote.tid = d.remote.tid
                          /\ e.remote.id = d.remote.id /\ e.remote.wrote = d.remote.wrote

\* The sync site stays, its term ends, or another one gets a new epoch.
SiteStep ==
    \/ site' = None /\ elections' = elections
    \/ site' = site /\ elections' = elections /\ epoch'[site] = epoch[site]
    \/ site' # None /\ epoch'[site'] = elections + 3 /\ elections' = elections + 1

\* No other transaction takes the place of one, and the writes of none get sent.
Kept ==
    /\ \A s \in Server : trans'[s] # NoTrans =>
          trans[s] # NoTrans /\ trans'[s].tid = trans[s].tid /\ trans'[s].id = trans[s].id
    /\ \A s \in Server : SameRemote(db[s], db'[s])
    /\ \A s, t \in Server : SentTo(s, t)' /\ t \in view'[s].current =>
                               SentTo(s, t) /\ t \in view[s].current
    /\ SiteStep /\ begun' = begun

\* No server changes its transactions or gets to be current during one.
Frame ==
    /\ \A s \in Server : SameTrans(trans[s], trans'[s]) /\ SameRemote(db[s], db'[s])
    /\ \A s \in Server : trans[s] # NoTrans => view'[s].current \subseteq view[s].current
    /\ SiteStep /\ begun' = begun

\* Such steps keep what is known of the transactions.
LEMMA KeptInv ==
    ASSUME Inv, TypeInv', BestInv', Kept, SendInv'
    PROVE  Inv'
<1> USE DEF Inv, TransInv
<1>1. elections \in Nat /\ elections' \in Nat /\ None \notin Server
    BY ReplicationAssumption DEF TypeInv
<1>2. \A s \in Server : trans'[s] # NoTrans =>
          trans[s] # NoTrans /\ trans'[s].tid = trans[s].tid /\ trans'[s].id = trans[s].id
    BY DEF Kept
<1>3. \A t \in Server : db'[t].remote # NoTrans =>
          /\ db[t].remote # NoTrans /\ db'[t].remote.tid = db[t].remote.tid
          /\ db'[t].remote.id = db[t].remote.id /\ db'[t].remote.wrote = db[t].remote.wrote
    BY DEF Kept, SameRemote
<1>4. \A s \in Server : trans[s] # NoTrans =>
          /\ trans[s].tid.epoch \in Nat /\ trans[s].tid.epoch <= elections + 2
          /\ site # None /\ trans[s].tid.epoch = elections + 2 => s = site
    BY TransFacts, VersionFacts DEF TypeInv, EpochInv
<1>5. SiteStep
    BY DEF Kept
<1>6. EpochInv'
    <2>1. site' # None => epoch'[site'] = elections' + 2
        BY <1>1, <1>5 DEF EpochInv, SiteStep
    <2>2. ASSUME NEW s \in Server, trans'[s] # NoTrans
          PROVE  /\ trans'[s].tid.epoch <= elections' + 2
                 /\ site' # None /\ trans'[s].tid.epoch = elections' + 2 => s = site'
        BY <1>1, <1>2, <1>4, <1>5, <2>2 DEF SiteStep
    <2>3. \A s, t \in Server :
              /\ trans'[s] # NoTrans /\ trans'[t] # NoTrans
              /\ trans'[s].tid.epoch = trans'[t].tid.epoch
              => s = t
        BY <1>2 DEF EpochInv
    <2> QED
        BY <2>1, <2>2, <2>3 DEF EpochInv
<1>7. TidInv'
    <2>1. begun' = begun
        BY DEF Kept
    <2> QED
        BY <1>2, <1>3, <2>1 DEF TidInv
<1>8. WroteInv'
    <2> SUFFICES ASSUME NEW s \in Server, NEW t \in Server,
                        SentTo(s, t)', t \in view'[s].current, db'[t].remote # NoTrans,
                        db'[t].remote.tid = trans'[s].tid
                 PROVE  db'[t].remote.wrote
        BY DEF WroteInv
    <2>1. trans'[s] # NoTrans
        BY DEF SentTo, Phase
    <2>2. SentTo(s, t) /\ t \in view[s].current
        BY DEF Kept
    <2> QED
        BY <1>2, <1>3, <2>1, <2>2 DEF WroteInv
<1> QED
    BY <1>6, <1>7, <1>8

\* So do those that leave the transactions alone.
LEMMA FrameInv ==
    ASSUME Inv, TypeInv', BestInv', Frame, SendInv'
    PROVE  Inv'
<1>1. \A s \in Server : trans'[s] # NoTrans =>
          /\ trans[s] # NoTrans /\ trans'[s].tid = trans[s].tid /\ trans'[s].id = trans[s].id
          /\ trans'[s].phase = trans[s].phase /\ trans'[s].todo = trans[s].todo
    BY DEF Frame, SameTrans
<1>2. ASSUME NEW s \in Server, NEW t \in Server, SentTo(s, t)', t \in view'[s].current
      PROVE  SentTo(s, t) /\ t \in view[s].current
    <2>1. trans'[s] # NoTrans
        BY <1>2 DEF SentTo, Phase
    <2>2. SentTo(s, t)
        BY <1>1, <1>2, <2>1 DEF SentTo, Phase
    <2> QED
        BY <1>1, <1>2, <2>1, <2>2 DEF Frame
<1>3. Kept
    BY <1>1, <1>2 DEF Kept, Frame
<1> QED
    BY <1>3, KeptInv

\* A vote, an abort, a new label and a new version of a database do not change its
\* transaction.
LEMMA SameFacts ==
    /\ \A x : SameTrans(x, x) /\ SameTrans(x, NoTrans)
    /\ \A x \in TransRec \cup {NoTrans} : SameTrans(x, AbortLocal(x))
    /\ \A d : SameRemote(d, d)
    /\ \A d \in Database : SameRemote(d, AbortRemote(d))
    /\ \A d \in Database, v, tid \in Version : SameRemote(d, VotedFor(d, v, tid))
    /\ \A d \in Database, v \in Version : Labelled(d, v).remote = d.remote
<1>1. \A x : SameTrans(x, x) /\ SameTrans(x, NoTrans) /\ \A d : SameRemote(d, d)
    BY DEF SameTrans, SameRemote
<1>2. ASSUME NEW x \in TransRec \cup {NoTrans} PROVE SameTrans(x, AbortLocal(x))
    <2>1. CASE x = NoTrans
        BY <2>1 DEF AbortLocal, SameTrans
    <2>2. CASE x # NoTrans
        <3>1. x \in TransRec /\ AbortLocal(x) = [x EXCEPT !.done = TRUE]
            BY <2>2 DEF AbortLocal
        <3>2. /\ AbortLocal(x).tid = x.tid /\ AbortLocal(x).id = x.id
              /\ AbortLocal(x).phase = x.phase /\ AbortLocal(x).todo = x.todo
            BY <3>1 DEF TransRec
        <3> QED
            BY <2>2, <3>2 DEF SameTrans
    <2> QED
        BY <2>1, <2>2
<1>3. ASSUME NEW d \in Database PROVE SameRemote(d, AbortRemote(d))
    <2>1. CASE d.remote = NoTrans
        BY <2>1 DEF AbortRemote, SameRemote
    <2>2. CASE d.remote # NoTrans
        <3>1. d.remote \in RemoteRec
            BY <2>2, DatabaseFacts
        <3>2. AbortRemote(d).remote = [d.remote EXCEPT !.done = TRUE]
            BY <2>2 DEF AbortRemote, Database
        <3>3. /\ AbortRemote(d).remote.tid = d.remote.tid
              /\ AbortRemote(d).remote.id = d.remote.id
              /\ AbortRemote(d).remote.wrote = d.remote.wrote
            BY <3>1, <3>2 DEF RemoteRec
        <3> QED
            BY <2>2, <3>3 DEF SameRemote
    <2> QED
        BY <2>1, <2>2
<1>4. ASSUME NEW d \in Database, NEW v \in Version, NEW tid \in Version
      PROVE  SameRemote(d, VotedFor(d, v, tid))
    <2>1. VotedFor(d, v, tid).remote = CheckTid(d.remote, tid)
        BY DEF VotedFor, Database
    <2> QED
        BY <2>1 DEF CheckTid, SameRemote
<1>5. \A d \in Database, v \in Version : Labelled(d, v).remote = d.remote
    BY DEF Labelled, Database
<1> QED
    BY <1>1, <1>2, <1>3, <1>4, <1>5

\* A step that leaves databases and transactions alone.
LEMMA QuietInv ==
    ASSUME Inv, BestInv', UNCHANGED <<db, trans, elections, acked, begun>>,
           site' = site \/ site' = None, epoch' = epoch,
           adv' \in BOOLEAN, sync' \in [Server -> Server \cup {None}],
           view' \in [Server -> ViewRec], rec' \in [Server -> SUBSET Flags],
           task' \in [Server -> TaskRec],
           \A s \in Server : s \notin view'[s].up \cup view'[s].current \cup task'[s].todo,
           \A s \in Server : trans[s] # NoTrans => view'[s].current \subseteq view[s].current,
           \A s \in Server : task'[s].phase = "send" => trans[s] = NoTrans
    PROVE  Inv'
<1>1. TypeInv'
    BY DEF Inv, TypeInv
<1>2. SendInv'
    BY DEF SendInv
<1>3. Frame
    BY SameFacts DEF Frame, SiteStep
<1> QED
    BY <1>1, <1>2, <1>3, FrameInv

\* The end of a term, and the expiry of a vote.
LEMMA ExpireInv == ASSUME Inv, Expire \/ \E v \in Server : Forget(v) PROVE Inv'
<1> USE DEF Inv, TransInv
<1>1. /\ rec' \in [Server -> SUBSET Flags]
      /\ \A s \in Server : rec'[s] = {} \/ rec'[s] = rec[s]
    BY DEF Expire, Forget, TypeInv
<1>2. BestInv'
    BY <1>1 DEF BestInv, Expire, Forget
<1>3. sync' \in [Server -> Server \cup {None}] /\ adv' \in BOOLEAN
    BY DEF Expire, Forget, TypeInv
<1>4. UNCHANGED <<db, trans, elections, acked, begun, epoch, view, task>>
    BY DEF Expire, Forget, countVars
<1>5. site' = site \/ site' = None
    BY DEF Expire, Forget
<1>6. /\ view' \in [Server -> ViewRec] /\ task' \in [Server -> TaskRec]
      /\ \A s \in Server : s \notin view'[s].up \cup view'[s].current \cup task'[s].todo
    BY <1>4 DEF TypeInv
<1>7. \A s \in Server : task'[s].phase = "send" => trans[s] = NoTrans
    BY <1>4 DEF SendInv
<1> QED
    BY <1>1, <1>2, <1>3, <1>4, <1>5, <1>6, <1>7, QuietInv

\* A probe of a server that was down.
LEMMA ProbeInv == ASSUME Inv, NEW s \in Server, NEW t \in Server, Probe(s, t) PROVE Inv'
<1> USE DEF Inv, TransInv
<1>1. UNCHANGED <<db, trans, elections, acked, begun, site, epoch, adv, sync, task>> /\ t # s
    BY DEF Probe, siteVars, countVars
<1>2. view[s] \in ViewRec /\ view[s].up \cup {t} \subseteq Server
    BY DEF TypeInv, ViewRec
<1> DEFINE w == [view[s] EXCEPT !.up = view[s].up \cup {t}]
<1>3. w \in ViewRec /\ w.up = view[s].up \cup {t} /\ w.current = view[s].current
    BY <1>2 DEF ViewRec
<1>4. view' = [view EXCEPT ![s] = w]
    BY <1>2 DEF Probe, TypeInv, ViewRec
<1> HIDE DEF w
<1>5. /\ view' \in [Server -> ViewRec]
      /\ \A u \in Server : view'[u].current = view[u].current /\ u \notin view'[u].up
    BY <1>1, <1>3, <1>4 DEF TypeInv
<1>6. /\ rec' \in [Server -> SUBSET Flags]
      /\ \A u \in Server : rec'[u] = rec[u] \/ rec'[u] = rec[u] \ {"found"}
    BY DEF Probe, TypeInv
<1>7. BestInv'
    BY <1>1, <1>6 DEF BestInv
<1>8. /\ adv' \in BOOLEAN /\ sync' \in [Server -> Server \cup {None}]
      /\ task' \in [Server -> TaskRec]
      /\ \A u \in Server : u \notin view'[u].up \cup view'[u].current \cup task'[u].todo
    BY <1>1, <1>5 DEF TypeInv
<1>9. \A u \in Server : task'[u].phase = "send" => trans[u] = NoTrans
    BY <1>1 DEF SendInv
<1> QED
    BY <1>1, <1>5, <1>6, <1>7, <1>8, <1>9, QuietInv

\* The database of a server, and the tid in its beacon.
LEMMA TidType == ASSUME TypeInv, NEW s \in Server PROVE Tid(s) \in Version
<1>1. epoch[s] \in Nat /\ 2 * begun + 1 \in Nat
    BY ReplicationAssumption DEF TypeInv
<1>2. trans[s] # NoTrans => trans[s].tid.counter \in Nat
    BY TransFacts, VersionFacts DEF TypeInv
<1> QED
    BY <1>1, <1>2 DEF Tid, Version

\* The recovery thread asks for the versions, or begins or ends to send.
LEMMA TaskInv ==
    ASSUME Inv, NEW s \in Server, NEW k \in TaskRec, task' = [task EXCEPT ![s] = k],
           s \notin k.todo, k.phase = "send" => trans[s] = NoTrans,
           k.phase = "find" => k.best \in Server \/ k.newest = NoVersion,
           k.phase # "fetch",
           "found" \in rec[s] /\ "have" \notin rec[s] => k.phase = "idle" /\ k.best \in Server,
           view' \in [Server -> ViewRec],
           \A t \in Server : view'[t].up = view[t].up /\ view'[t].current = view[t].current,
           rec' \in [Server -> SUBSET Flags],
           \A t \in Server : rec'[t] \ {"sent"} = rec[t] \ {"sent"},
           UNCHANGED <<siteVars, db, trans, acked, begun>>
    PROVE  Inv'
<1> USE DEF Inv, TransInv
<1>1. /\ task' \in [Server -> TaskRec] /\ task'[s] = k
      /\ \A t \in Server : t # s => task'[t] = task[t]
    BY DEF TypeInv
<1>2. \A t \in Server : t \notin view'[t].up \cup view'[t].current \cup task'[t].todo
    BY <1>1 DEF TypeInv
<1>3. \A t \in Server : /\ "found" \in rec'[t] <=> "found" \in rec[t]
                        /\ "have" \in rec'[t] <=> "have" \in rec[t]
    OBVIOUS
<1>4. BestInv'
    <2> SUFFICES ASSUME NEW t \in Server
                 PROVE  /\ task'[t].phase = "find" =>
                              task'[t].best \in Server \/ task'[t].newest = NoVersion
                        /\ task'[t].phase = "fetch" => task'[t].best \in Server
                        /\ "found" \in rec'[t] /\ "have" \notin rec'[t] =>
                              task'[t].phase \in {"idle", "fetch"} /\ task'[t].best \in Server
        BY DEF BestInv
    <2>1. CASE t = s
        BY <1>1, <1>3, <2>1
    <2>2. CASE t # s
        BY <1>1, <1>3, <2>2 DEF BestInv
    <2> QED
        BY <2>1, <2>2
<1>5. \A t \in Server : task'[t].phase = "send" => trans[t] = NoTrans
    BY <1>1 DEF SendInv
<1>6. adv' \in BOOLEAN /\ sync' \in [Server -> Server \cup {None}]
    BY DEF TypeInv, siteVars
<1> QED
    BY <1>1, <1>2, <1>4, <1>5, <1>6, QuietInv DEF siteVars

\* The phases of a task.
LEMMA TaskFacts ==
    ASSUME NEW k \in TaskRec
    PROVE  /\ k.phase \in {"idle", "find", "fetch", "await", "send"}
           /\ \A p \in {"idle", "fetch", "send"} :
                 LET j == [k EXCEPT !.phase = p]
                 IN  /\ j \in TaskRec /\ j.phase = p /\ j.best = k.best
                     /\ j.todo = k.todo /\ j.newest = k.newest
BY DEF TaskRec

\* The idle task.
LEMMA IdleFacts == Idle \in TaskRec /\ Idle.phase = "idle" /\ Idle.todo = {}
BY VersionFacts DEF Idle, TaskRec

\* DISK_GetVersion.
LEMMA StartFindInv == ASSUME Inv, NEW s \in Server, StartFind(s) PROVE Inv'
<1> USE DEF Inv, TransInv
<1>1. PICK R \in SUBSET view[s].up :
          LET labels == {db[t].label : t \in R}
              best == {t \in R : /\ Newer(db[t].label, NoVersion)
                                 /\ \A l \in labels : ~Newer(l, db[t].label)}
          IN  /\ \E b \in IF best = {} THEN {None} ELSE best :
                    task' = [task EXCEPT ![s] = [Idle EXCEPT
                        !.phase = "find", !.enough = EnoughCalls(Cardinality(R)), !.best = b,
                        !.newest = IF b = None THEN NoVersion ELSE db[b].label]]
              /\ view' = [view EXCEPT ![s].known = [t \in Server |->
                                                       IF t \in R THEN db[t].label ELSE @[t]]]
    BY DEF StartFind
<1>2. R \subseteq Server /\ view[s] \in ViewRec
    BY DEF TypeInv, ViewRec
<1>3. \A t \in Server : db[t].label \in Version
    BY DatabaseFacts DEF TypeInv
<1>4. PICK b \in R \cup {None} :
          task' = [task EXCEPT ![s] = [Idle EXCEPT
              !.phase = "find", !.enough = EnoughCalls(Cardinality(R)), !.best = b,
              !.newest = IF b = None THEN NoVersion ELSE db[b].label]]
    BY <1>1
<1> DEFINE v == IF b = None THEN NoVersion ELSE db[b].label
           e == EnoughCalls(Cardinality(R))
           k == [Idle EXCEPT !.phase = "find", !.enough = e, !.best = b, !.newest = v]
<1>5. v \in Version /\ e \in BOOLEAN /\ (b \in Server \/ v = NoVersion)
    BY <1>2, <1>3, VersionFacts DEF EnoughCalls
<1>6. task' = [task EXCEPT ![s] = k]
    BY <1>4
<1> HIDE DEF v, e
<1>7. k \in TaskRec /\ k.phase = "find" /\ k.best = b /\ k.newest = v /\ k.todo = {}
    <2>1. b \in Server \cup {None}
        BY <1>2
    <2>2. Idle \in TaskRec /\ Idle.todo = {}
        BY IdleFacts
    <2> QED
        BY <1>5, <2>1, <2>2 DEF TaskRec
<1> HIDE DEF k
<1> DEFINE f == [t \in Server |-> IF t \in R THEN db[t].label ELSE view[s].known[t]]
           w == [view[s] EXCEPT !.known = f]
<1>8. view[s].known \in [Server -> Version]
    BY <1>2 DEF ViewRec
<1>9. f \in [Server -> Version]
    BY <1>3, <1>8
<1>10. view' = [view EXCEPT ![s] = w]
    BY <1>1, <1>2 DEF TypeInv, ViewRec
<1> HIDE DEF f
<1>11. w \in ViewRec /\ w.up = view[s].up /\ w.current = view[s].current
    BY <1>2, <1>9 DEF ViewRec
<1> HIDE DEF w
<1>12. /\ view' \in [Server -> ViewRec]
       /\ \A t \in Server : view'[t].up = view[t].up /\ view'[t].current = view[t].current
    BY <1>10, <1>11 DEF TypeInv
<1>13. UNCHANGED <<siteVars, db, rec, trans, acked, begun>> /\ "found" \notin rec[s]
    BY DEF StartFind
<1>14. rec' \in [Server -> SUBSET Flags]
    BY <1>13 DEF TypeInv
<1> HIDE DEF Inv
<1> QED
    BY <1>5, <1>6, <1>7, <1>12, <1>13, <1>14, TaskInv

\* The thread stops waiting for the end of a write transaction, and ends to send.
LEMMA StartSendInv ==
    ASSUME Inv, NEW s \in Server, StartSend(s) \/ FinishSend(s) PROVE Inv'
<1> USE DEF Inv, TransInv
<1>1. /\ view \in [Server -> ViewRec] /\ task[s] \in TaskRec
      /\ s \notin task[s].todo /\ rec \in [Server -> SUBSET Flags]
    BY DEF TypeInv
<1>2. UNCHANGED <<siteVars, db, trans, acked, begun>> /\ view' = view
    BY DEF StartSend, FinishSend, countVars
<1>3. /\ view' \in [Server -> ViewRec]
      /\ \A t \in Server : view'[t].up = view[t].up /\ view'[t].current = view[t].current
    BY <1>1, <1>2
<1>4. CASE StartSend(s)
    <2> DEFINE k == [task[s] EXCEPT !.phase = "send"]
    <2>1. k \in TaskRec /\ k.phase = "send" /\ k.todo = task[s].todo
        BY <1>1, TaskFacts
    <2>2. task' = [task EXCEPT ![s] = k] /\ rec' = rec /\ trans[s] = NoTrans
        BY <1>4 DEF StartSend, Writing
    <2>3. "found" \in rec[s] => "have" \in rec[s]
        BY <1>4 DEF StartSend, BestInv
    <2>4. /\ rec' \in [Server -> SUBSET Flags]
          /\ \A t \in Server : rec'[t] \ {"sent"} = rec[t] \ {"sent"}
        BY <1>1, <2>2
    <2> HIDE DEF k, Inv, TransInv
    <2>5. /\ s \notin k.todo /\ k.phase # "find" /\ k.phase # "fetch" /\ k \in TaskRec
          /\ trans[s] = NoTrans /\ task' = [task EXCEPT ![s] = k]
        BY <1>1, <2>1, <2>2
    <2> QED
        BY <1>2, <1>3, <2>3, <2>4, <2>5, TaskInv
<1>5. CASE FinishSend(s)
    <2>1. task' = [task EXCEPT ![s] = Idle]
        BY <1>5 DEF FinishSend
    <2>2. "found" \in rec[s] => "have" \in rec[s]
        BY <1>5 DEF FinishSend, BestInv
    <2>3. rec' = rec \/ rec' = [rec EXCEPT ![s] = rec[s] \cup {"sent"}]
        BY <1>1, <1>5 DEF FinishSend
    <2>4. rec[s] \cup {"sent"} \in SUBSET Flags
        BY <1>1 DEF Flags
    <2>5. /\ rec' \in [Server -> SUBSET Flags]
          /\ \A t \in Server : rec'[t] \ {"sent"} = rec[t] \ {"sent"}
        BY <1>1, <2>3, <2>4
    <2>6. Idle \in TaskRec /\ Idle.phase = "idle" /\ Idle.todo = {}
        BY IdleFacts
    <2> HIDE DEF Inv, TransInv
    <2> QED
        BY <1>1, <1>2, <1>3, <2>1, <2>2, <2>5, <2>6, TaskInv
<1> QED
    BY <1>4, <1>5

\* A step that tells servers of versions, or makes a sync site.
LEMMA VoteInv ==
    ASSUME Inv, UNCHANGED <<task, trans, acked, begun>>,
           site' \in Server \cup {None}, adv' \in BOOLEAN, epoch' \in [Server -> Nat],
           sync' \in [Server -> Server \cup {None}], elections' \in Nat,
           db' \in [Server -> Database], \A u \in Server : SameRemote(db[u], db'[u]),
           view' \in [Server -> ViewRec],
           \A u \in Server : u \notin view'[u].up /\ view'[u].current = view[u].current,
           rec' \in [Server -> SUBSET Flags],
           \A u \in Server : rec'[u] = rec[u] \/ rec'[u] = {},
           \/ site' = site /\ elections' = elections /\ epoch' = epoch
           \/ site' # None /\ epoch'[site'] = elections + 3 /\ elections' = elections + 1
    PROVE  Inv'
<1>1. TypeInv'
    BY DEF Inv, TypeInv
<1>2. BestInv'
    BY DEF Inv, BestInv
<1>3. SendInv'
    BY DEF Inv, TransInv, SendInv
<1>4. Frame
    BY SameFacts DEF Frame, SiteStep
<1> QED
    BY <1>1, <1>2, <1>3, <1>4, FrameInv

\* A vote in a beacon of the sync site.
LEMMA BeaconInv == ASSUME Inv, NEW s \in Server, NEW v \in Server, Beacon(s, v) PROVE Inv'
<1> USE DEF Inv
<1>1. /\ UNCHANGED <<site, epoch, elections, rec, task, trans, acked, begun>>
      /\ site = s /\ v \in view[s].up
    BY DEF Beacon
<1>2. /\ site' \in Server \cup {None} /\ epoch' \in [Server -> Nat] /\ elections' \in Nat
      /\ rec' \in [Server -> SUBSET Flags]
    BY <1>1 DEF TypeInv
<1>3. /\ sync' \in [Server -> Server \cup {None}] /\ adv' \in BOOLEAN
    <2>1. sync' = sync \/ sync' = [sync EXCEPT ![v] = s, ![s] = s]
        BY DEF Beacon
    <2>2. adv' = adv \/ adv' = (adv \/ HasQuorum({u \in Server : sync'[u] = s}))
        BY DEF Beacon
    <2>3. (adv \/ HasQuorum({u \in Server : sync'[u] = s})) \in BOOLEAN
        OBVIOUS
    <2>4. adv' \in BOOLEAN
        BY <2>2, <2>3, Zenon DEF TypeInv
    <2> QED
        BY <2>1, <2>4 DEF TypeInv
<1>4. /\ db' \in [Server -> Database] /\ \A u \in Server : SameRemote(db[u], db'[u])
    <2> DEFINE Told(u) == VotedFor(db[u], db[s].version, Tid(s))
    <2>1. \/ db' = db
          \/ db' = [db EXCEPT ![v] = Told(v), ![s] = Told(s)]
        BY DEF Beacon
    <2>2. \A u \in Server : Told(u) \in Database /\ SameRemote(db[u], Told(u))
        <3>1. \A u \in Server : db[u] \in Database
            BY DEF TypeInv
        <3>2. Tid(s) \in Version /\ db[s].version \in Version
            BY <3>1, TidType, DatabaseFacts
        <3> QED
            BY <3>1, <3>2, StoreFacts, SameFacts
    <2>3. db \in [Server -> Database]
        BY DEF TypeInv
    <2> HIDE DEF Told
    <2> QED
        BY <2>1, <2>2, <2>3, SameFacts
<1>5. /\ view' \in [Server -> ViewRec]
      /\ \A u \in Server : u \notin view'[u].up /\ view'[u].current = view[u].current
    <2>1. view[s] \in ViewRec /\ view \in [Server -> ViewRec]
        BY DEF TypeInv
    <2>2. PICK U \in SUBSET view[s].up, H \in SUBSET Server :
              view' = [view EXCEPT ![s] = [view[s] EXCEPT !.up = U, !.heard = H]]
        <3>1. CASE view' = [view EXCEPT ![s].heard = @ \cup {v}]
            <4>1. view[s].heard \cup {v} \in SUBSET Server
                BY <2>1 DEF ViewRec
            <4>2. view' = [view EXCEPT ![s] = [view[s] EXCEPT !.up = view[s].up,
                                                             !.heard = view[s].heard \cup {v}]]
                BY <2>1, <3>1 DEF ViewRec
            <4> QED
                BY <4>1, <4>2
        <3>2. CASE view' = [view EXCEPT ![s].up = @ \ {v}, ![s].heard = @ \ {v}]
            <4>1. view[s].heard \ {v} \in SUBSET Server /\ view[s].up \ {v} \in SUBSET view[s].up
                BY <2>1 DEF ViewRec
            <4>2. view' = [view EXCEPT ![s] = [view[s] EXCEPT !.up = view[s].up \ {v},
                                                             !.heard = view[s].heard \ {v}]]
                BY <2>1, <3>2 DEF ViewRec
            <4> QED
                BY <4>1, <4>2
        <3> QED
            BY <3>1, <3>2 DEF Beacon
    <2> DEFINE w == [view[s] EXCEPT !.up = U, !.heard = H]
    <2>3. w \in ViewRec /\ w.up = U /\ w.current = view[s].current
        BY <2>1 DEF ViewRec
    <2>4. view' = [view EXCEPT ![s] = w]
        BY <2>2
    <2> HIDE DEF w
    <2>5. \A u \in Server : u \notin view[u].up
        BY DEF TypeInv
    <2> QED
        BY <2>1, <2>3, <2>4, <2>5
<1> HIDE DEF Inv
<1> QED
    BY <1>1, <1>2, <1>3, <1>4, <1>5, VoteInv

\* An election.
LEMMA ElectInv == ASSUME Inv, NEW c \in Server, Elect(c) PROVE Inv'
<1> USE DEF Inv
<1>1. /\ UNCHANGED <<task, trans, acked, begun>> /\ site' = c /\ adv' = FALSE
      /\ elections' = elections + 1 /\ epoch' = [epoch EXCEPT ![c] = elections + 3]
      /\ rec' = [rec EXCEPT ![c] = {}]
    BY DEF Elect, countVars
<1>2. PICK Q \in SUBSET view[c].up :
          /\ db' = [v \in Server |-> IF v \in Q \cup {c}
                                     THEN VotedFor(db[v], db[c].version, Tid(c)) ELSE db[v]]
          /\ sync' = [v \in Server |-> IF v \in Q \cup {c} THEN None ELSE sync[v]]
          /\ view' = [view EXCEPT ![c].up = Q, ![c].heard = Q]
    BY DEF Elect
<1>3. /\ elections \in Nat /\ elections' \in Nat /\ epoch' \in [Server -> Nat]
      /\ epoch'[c] = elections + 3 /\ c # None
    BY <1>1, ReplicationAssumption DEF TypeInv
<1>4. /\ rec' \in [Server -> SUBSET Flags]
      /\ \A u \in Server : rec'[u] = rec[u] \/ rec'[u] = {}
    BY <1>1 DEF TypeInv
<1>5. sync' \in [Server -> Server \cup {None}]
    BY <1>2 DEF TypeInv
<1>6. /\ db' \in [Server -> Database] /\ \A u \in Server : SameRemote(db[u], db'[u])
    <2>1. \A u \in Server : db[u] \in Database
        BY DEF TypeInv
    <2>2. Tid(c) \in Version /\ db[c].version \in Version
        BY <2>1, TidType, DatabaseFacts
    <2>3. \A u \in Server : /\ VotedFor(db[u], db[c].version, Tid(c)) \in Database
                            /\ SameRemote(db[u], VotedFor(db[u], db[c].version, Tid(c)))
        BY <2>1, <2>2, StoreFacts, SameFacts
    <2> QED
        BY <1>2, <2>1, <2>3, SameFacts
<1>7. /\ view' \in [Server -> ViewRec]
      /\ \A u \in Server : u \notin view'[u].up /\ view'[u].current = view[u].current
    <2>1. view[c] \in ViewRec /\ view \in [Server -> ViewRec] /\ Q \subseteq Server
        BY DEF TypeInv, ViewRec
    <2> DEFINE w == [view[c] EXCEPT !.up = Q, !.heard = Q]
    <2>2. w \in ViewRec /\ w.up = Q /\ w.current = view[c].current
        BY <2>1 DEF ViewRec
    <2>3. view' = [view EXCEPT ![c] = w]
        BY <1>2, <2>1 DEF ViewRec
    <2> HIDE DEF w
    <2>4. \A u \in Server : u \notin view[u].up
        BY DEF TypeInv
    <2> QED
        BY <2>1, <2>2, <2>3, <2>4
<1> HIDE DEF Inv
<1> QED
    BY <1>1, <1>3, <1>4, <1>5, <1>6, <1>7, VoteInv

\* A crash and a restart.
LEMMA CrashInv == ASSUME Inv, NEW s \in Server, Crash(s) PROVE Inv'
<1> USE DEF Inv, TransInv
<1>1. /\ UNCHANGED <<acked, elections, begun>> /\ trans' = [trans EXCEPT ![s] = NoTrans]
      /\ task' = [task EXCEPT ![s] = Idle] /\ rec' = [rec EXCEPT ![s] = {}]
      /\ sync' = [sync EXCEPT ![s] = None] /\ epoch' = [epoch EXCEPT ![s] = 0]
    BY DEF Crash
<1>2. \/ site # s /\ site' = site /\ adv' = adv
      \/ site' = None /\ adv' = FALSE
    BY DEF Crash
<1>3. PICK T \in SUBSET Others(s) : view' = [t \in Server |->
                   IF t = s THEN [NewView(s) EXCEPT !.up = T]
                   ELSE IF t \in T THEN [view[t] EXCEPT !.heard = @ \ {s}, !.current = @ \ {s}]
                   ELSE view[t]]
    BY DEF Crash
<1>4. /\ view' \in [Server -> ViewRec]
      /\ \A u \in Server : u \notin view'[u].up /\ view'[u].current \subseteq view[u].current
    <2> DEFINE Lost(t) == [view[t] EXCEPT !.heard = view[t].heard \ {s},
                                          !.current = view[t].current \ {s}]
               New == [NewView(s) EXCEPT !.up = T]
    <2>1. T \subseteq Server \ {s} /\ \A t \in Server : view[t] \in ViewRec /\ t \notin view[t].up
        BY DEF TypeInv, Others
    <2>2. New \in ViewRec /\ New.up = T /\ New.current = {}
        <3>1. [t \in Server |-> NoVersion] \in [Server -> Version]
            BY VersionFacts
        <3> QED
            BY <2>1, <3>1 DEF NewView, ViewRec, Others
    <2>3. ASSUME NEW t \in Server
          PROVE  /\ Lost(t) \in ViewRec /\ Lost(t).up = view[t].up
                 /\ Lost(t).current = view[t].current \ {s}
                 /\ [view[t] EXCEPT !.heard = @ \ {s}, !.current = @ \ {s}] = Lost(t)
        <3>1. view[t] \in ViewRec
            BY <2>1
        <3>2. Lost(t) \in ViewRec
            BY <3>1 DEF ViewRec
        <3>3. Lost(t).up = view[t].up /\ Lost(t).current = view[t].current \ {s}
            BY <3>1 DEF ViewRec
        <3>4. [view[t] EXCEPT !.heard = @ \ {s}, !.current = @ \ {s}] = Lost(t)
            BY <3>1 DEF ViewRec
        <3> QED
            BY <3>2, <3>3, <3>4
    <2>4. view' = [t \in Server |-> IF t = s THEN New ELSE IF t \in T THEN Lost(t) ELSE view[t]]
        BY <1>3, <2>3
    <2> HIDE DEF Lost, New
    <2> QED
        BY <2>1, <2>2, <2>3, <2>4
<1>5. /\ db' \in [Server -> Database] /\ \A u \in Server : SameRemote(db[u], db'[u])
    <2> DEFINE d == [db[s] EXCEPT !.version = db[s].label, !.told = NoVersion, !.remote = NoTrans]
    <2>1. db[s] \in Database /\ db[s].label \in Version /\ NoVersion \in Version
        BY DatabaseFacts, VersionFacts DEF TypeInv
    <2>2. d \in Database /\ d.remote = NoTrans
        BY <2>1 DEF Database
    <2>3. db' = [db EXCEPT ![s] = d]
        BY <2>1 DEF Crash, TypeInv
    <2> HIDE DEF d
    <2>4. SameRemote(db[s], d)
        BY <2>2 DEF SameRemote
    <2> QED
        BY <2>2, <2>3, <2>4, SameFacts DEF TypeInv
<1>6. Idle \in TaskRec /\ Idle.phase = "idle" /\ Idle.todo = {}
    BY IdleFacts
<1>7. TypeInv'
    <2>1. /\ task' \in [Server -> TaskRec] /\ \A u \in Server : u \notin task'[u].todo
          /\ trans' \in [Server -> TransRec \cup {NoTrans}]
        BY <1>1, <1>6 DEF TypeInv
    <2>2. /\ rec' \in [Server -> SUBSET Flags] /\ sync' \in [Server -> Server \cup {None}]
          /\ epoch' \in [Server -> Nat]
        BY <1>1 DEF TypeInv
    <2>3. \A u \in Server : u \notin view'[u].current
        BY <1>4 DEF TypeInv
    <2> QED
        BY <1>1, <1>2, <1>4, <1>5, <2>1, <2>2, <2>3 DEF TypeInv
<1>8. BestInv'
    BY <1>1, <1>6 DEF BestInv, TypeInv
<1>9. SendInv'
    BY <1>1, <1>6 DEF SendInv, TypeInv
<1>10. Frame
    <2>1. \A u \in Server : SameTrans(trans[u], trans'[u])
        BY <1>1, SameFacts DEF TypeInv
    <2>2. site # s => epoch'[site] = epoch[site] \/ site = None
        BY <1>1 DEF TypeInv
    <2> QED
        BY <1>1, <1>2, <1>4, <1>5, <2>1, <2>2 DEF Frame, SiteStep
<1> HIDE DEF Inv
<1> QED
    BY <1>7, <1>8, <1>9, <1>10, FrameInv

\* A step of the recovery thread of s, on the database and the transactions of s.
LEMMA RecoveryInv ==
    ASSUME Inv, NEW s \in Server, NEW d \in Database, NEW x \in TransRec \cup {NoTrans},
           NEW r \in SUBSET Flags, NEW k \in TaskRec,
           db' = [db EXCEPT ![s] = d], trans' = [trans EXCEPT ![s] = x],
           rec' = [rec EXCEPT ![s] = r], task' = [task EXCEPT ![s] = k],
           UNCHANGED <<siteVars, view, acked, begun>>,
           SameRemote(db[s], d), SameTrans(trans[s], x), s \notin k.todo, k.phase # "find",
           k.phase = "fetch" => k.best \in Server, k.phase = "send" => x = NoTrans,
           "found" \in r /\ "have" \notin r => k.phase \in {"idle", "fetch"} /\ k.best \in Server
    PROVE  Inv'
<1> USE DEF Inv, TransInv
<1>1. /\ db' \in [Server -> Database] /\ db'[s] = d
      /\ trans' \in [Server -> TransRec \cup {NoTrans}] /\ trans'[s] = x
      /\ rec' \in [Server -> SUBSET Flags] /\ rec'[s] = r
      /\ task' \in [Server -> TaskRec] /\ task'[s] = k
      /\ \A t \in Server : t # s => /\ db'[t] = db[t] /\ trans'[t] = trans[t]
                                    /\ rec'[t] = rec[t] /\ task'[t] = task[t]
    BY DEF TypeInv
<1>2. TypeInv'
    BY <1>1 DEF TypeInv, siteVars
<1>3. BestInv'
    <2> SUFFICES ASSUME NEW t \in Server
                 PROVE  /\ task'[t].phase = "find" =>
                              task'[t].best \in Server \/ task'[t].newest = NoVersion
                        /\ task'[t].phase = "fetch" => task'[t].best \in Server
                        /\ "found" \in rec'[t] /\ "have" \notin rec'[t] =>
                              task'[t].phase \in {"idle", "fetch"} /\ task'[t].best \in Server
        BY DEF BestInv
    <2>1. CASE t = s
        BY <1>1, <2>1
    <2>2. CASE t # s
        BY <1>1, <2>2 DEF BestInv
    <2> QED
        BY <2>1, <2>2
<1>4. SendInv'
    BY <1>1 DEF SendInv
<1>5. Frame
    <2>1. \A t \in Server : SameTrans(trans[t], trans'[t]) /\ SameRemote(db[t], db'[t])
        BY <1>1, SameFacts
    <2> QED
        BY <2>1 DEF Frame, SiteStep, siteVars
<1> HIDE DEF Inv
<1> QED
    BY <1>2, <1>3, <1>4, <1>5, FrameInv

\* The rest of a turn.
LEMMA GoOnInv ==
    ASSUME Inv, NEW s \in Server, NEW d \in Database, SameRemote(db[s], d),
           NEW r \in SUBSET Flags, GoOn(s, d, r, trans[s]),
           UNCHANGED <<siteVars, view, acked, begun>>
    PROVE  Inv'
<1>1. trans[s] \in TransRec \cup {NoTrans} /\ db[s] \in Database
    BY DEF Inv, TypeInv
<1> DEFINE new == d.version.epoch = 1
           e == IF new THEN Labelled(AbortRemote(d), V(2, 1)) ELSE d
           x == IF new THEN AbortLocal(trans[s]) ELSE trans[s]
           q == r \cup {"have"}
           k == IF "sent" \in r THEN Idle
                ELSE [Idle EXCEPT !.phase = IF Writing(s) THEN "await" ELSE "send",
                                  !.todo = Others(s)]
<1>2. /\ db' = [db EXCEPT ![s] = e] /\ trans' = [trans EXCEPT ![s] = x]
      /\ rec' = [rec EXCEPT ![s] = q] /\ task' = [task EXCEPT ![s] = k]
    BY DEF GoOn
<1>3. e \in Database /\ SameRemote(db[s], e)
    <2>1. AbortRemote(d) \in Database /\ V(2, 1) \in Version
        BY AbortFacts, VersionFacts
    <2>2. Labelled(AbortRemote(d), V(2, 1)) \in Database
        BY <2>1, DatabaseFacts
    <2>3. Labelled(AbortRemote(d), V(2, 1)).remote = AbortRemote(d).remote
        BY <2>1, SameFacts
    <2>4. SameRemote(d, AbortRemote(d))
        BY SameFacts
    <2> QED
        BY <2>2, <2>3, <2>4 DEF SameRemote
<1>4. x \in TransRec \cup {NoTrans} /\ SameTrans(trans[s], x)
    BY <1>1, AbortFacts, SameFacts
<1>5. q \in SUBSET Flags /\ "have" \in q
    BY DEF Flags
<1>6. /\ k \in TaskRec /\ k.phase \in {"idle", "await", "send"} /\ s \notin k.todo
      /\ k.phase = "send" => trans[s] = NoTrans
    <2>1. CASE "sent" \in r
        BY <2>1, IdleFacts
    <2>2. CASE "sent" \notin r
        <3> DEFINE p == IF Writing(s) THEN "await" ELSE "send"
        <3>1. p \in {"await", "send"} /\ (p = "send" => trans[s] = NoTrans)
            BY DEF Writing
        <3>2. k = [Idle EXCEPT !.phase = p, !.todo = Others(s)]
            BY <2>2
        <3> HIDE DEF p
        <3>3. Others(s) \in SUBSET Server /\ s \notin Others(s) /\ Idle \in TaskRec
            BY IdleFacts DEF Others
        <3>4. k \in TaskRec /\ k.phase = p /\ k.todo = Others(s)
            BY <3>1, <3>2, <3>3 DEF TaskRec
        <3> QED
            BY <3>1, <3>3, <3>4
    <2> QED
        BY <2>1, <2>2
<1>7. k.phase = "send" => x = NoTrans
    BY <1>6 DEF AbortLocal
<1> HIDE DEF e, x, q, k
<1> QED
    BY <1>2, <1>3, <1>4, <1>5, <1>6, <1>7, RecoveryInv

\* The thread begins to fetch, now or in a later turn.
LEMMA StartFetchInv ==
    ASSUME Inv, NEW s \in Server, NEW r \in SUBSET Flags, NEW k \in TaskRec,
           k.phase = "fetch", k.best \in Server, k.todo = {} \/ k.todo = task[s].todo,
           task' = [task EXCEPT ![s] = k], rec' = [rec EXCEPT ![s] = r],
           db' = [db EXCEPT ![s] = AbortRemote(db[s])],
           trans' = [trans EXCEPT ![s] = AbortLocal(trans[s])],
           UNCHANGED <<siteVars, view, acked, begun>>
    PROVE  Inv'
<1>1. db[s] \in Database /\ trans[s] \in TransRec \cup {NoTrans} /\ s \notin k.todo
    BY DEF Inv, TypeInv
<1>2. /\ AbortRemote(db[s]) \in Database /\ SameRemote(db[s], AbortRemote(db[s]))
      /\ AbortLocal(trans[s]) \in TransRec \cup {NoTrans}
      /\ SameTrans(trans[s], AbortLocal(trans[s]))
    BY <1>1, AbortFacts, SameFacts
<1> QED
    BY <1>1, <1>2, RecoveryInv

\* The answers to DISK_GetVersion: the best of them is some server's.
LEMMA FinishFindInv == ASSUME Inv, NEW s \in Server, FinishFind(s) PROVE Inv'
<1> USE DEF Inv
<1> DEFINE r == (rec[s] \cup {"found"}) \ {"sent"}
<1>1. /\ task[s] \in TaskRec /\ task[s].phase = "find" /\ rec[s] \in SUBSET Flags
      /\ rec \in [Server -> SUBSET Flags]
      /\ db[s] \in Database /\ view \in [Server -> ViewRec]
    BY DEF FinishFind, TypeInv
<1>2. r \in SUBSET Flags /\ r \ {"have"} \in SUBSET Flags
    BY <1>1 DEF Flags
<1>3. UNCHANGED <<siteVars, view, acked, begun>>
    BY DEF FinishFind, countVars
<1>4. CASE task' = [task EXCEPT ![s] = Idle] /\ UNCHANGED <<db, rec, trans>>
    <2>1. "found" \in rec[s] => "have" \in rec[s]
        BY <1>1 DEF BestInv
    <2>2. Idle \in TaskRec /\ Idle.phase = "idle" /\ Idle.todo = {}
        BY IdleFacts
    <2> HIDE DEF Inv
    <2>3. /\ view' \in [Server -> ViewRec] /\ rec' \in [Server -> SUBSET Flags]
          /\ \A t \in Server : view'[t].up = view[t].up /\ view'[t].current = view[t].current
          /\ \A t \in Server : rec'[t] \ {"sent"} = rec[t] \ {"sent"}
        BY <1>1, <1>3, <1>4
    <2> QED
        BY <1>3, <1>4, <2>1, <2>2, <2>3, TaskInv
<1>5. CASE GoOn(s, db[s], r, trans[s])
    <2>1. SameRemote(db[s], db[s])
        BY SameFacts
    <2> HIDE DEF r, Inv
    <2> QED
        BY <1>1, <1>2, <1>3, <1>5, <2>1, GoOnInv
<1>6. CASE /\ Newer(task[s].newest, db[s].version)
           /\ rec' = [rec EXCEPT ![s] = r \ {"have"}]
           /\ task' = [task EXCEPT ![s] = [Idle EXCEPT !.phase = "fetch", !.best = task[s].best]]
           /\ db' = [db EXCEPT ![s] = AbortRemote(@)]
           /\ trans' = [trans EXCEPT ![s] = AbortLocal(@)]
    <2>1. task[s].best \in Server
        <3>1. db[s].version.epoch \in Nat /\ db[s].version.counter \in Nat
            BY <1>1, DatabaseFacts, VersionFacts
        <3>2. task[s].newest # NoVersion
            BY <1>6, <3>1 DEF Newer, NoVersion
        <3> QED
            BY <1>1, <3>2 DEF BestInv
    <2> DEFINE k == [Idle EXCEPT !.phase = "fetch", !.best = task[s].best]
    <2>2. Idle \in TaskRec /\ Idle.todo = {}
        BY IdleFacts
    <2>3. k \in TaskRec /\ k.phase = "fetch" /\ k.best = task[s].best /\ k.todo = {}
        BY <2>1, <2>2 DEF TaskRec
    <2>4. /\ db' = [db EXCEPT ![s] = AbortRemote(db[s])]
          /\ trans' = [trans EXCEPT ![s] = AbortLocal(trans[s])]
          /\ task' = [task EXCEPT ![s] = k]
          /\ rec' = [rec EXCEPT ![s] = r \ {"have"}]
        BY <1>6
    <2> HIDE DEF k, r, Inv
    <2> QED
        BY <1>2, <1>3, <2>1, <2>3, <2>4, StartFetchInv
<1> QED
    BY <1>4, <1>5, <1>6 DEF FinishFind

\* A later turn.
LEMMA TurnInv == ASSUME Inv, NEW s \in Server, Turn(s) PROVE Inv'
<1>1. /\ task[s] \in TaskRec /\ task[s].phase = "idle" /\ rec[s] \in SUBSET Flags
      /\ rec \in [Server -> SUBSET Flags] /\ db[s] \in Database
    BY DEF Turn, Inv, TypeInv
<1>2. UNCHANGED <<siteVars, view, acked, begun>> /\ "found" \in rec[s]
    BY DEF Turn, countVars
<1>3. CASE GoOn(s, db[s], rec[s], trans[s])
    BY <1>1, <1>2, <1>3, SameFacts, GoOnInv
<1>4. CASE /\ "have" \notin rec[s]
           /\ task' = [task EXCEPT ![s].phase = "fetch"]
           /\ db' = [db EXCEPT ![s] = AbortRemote(@)]
           /\ trans' = [trans EXCEPT ![s] = AbortLocal(@)]
           /\ UNCHANGED rec
    <2> DEFINE k == [task[s] EXCEPT !.phase = "fetch"]
    <2>1. task[s].best \in Server
        BY <1>2, <1>4 DEF Inv, BestInv
    <2>2. k \in TaskRec /\ k.phase = "fetch" /\ k.best = task[s].best /\ k.todo = task[s].todo
        BY <1>1 DEF TaskRec
    <2>3. /\ db' = [db EXCEPT ![s] = AbortRemote(db[s])]
          /\ trans' = [trans EXCEPT ![s] = AbortLocal(trans[s])]
          /\ task' = [task EXCEPT ![s] = k]
          /\ rec' = [rec EXCEPT ![s] = rec[s]]
        BY <1>1, <1>4
    <2> HIDE DEF k
    <2> QED
        BY <1>1, <1>2, <2>1, <2>2, <2>3, StartFetchInv
<1> QED
    BY <1>3, <1>4 DEF Turn

\* DISK_GetFile.
LEMMA FetchInv == ASSUME Inv, NEW s \in Server, Fetch(s) PROVE Inv'
<1> DEFINE b == task[s].best
<1>1. /\ task[s] \in TaskRec /\ rec[s] \in SUBSET Flags /\ rec \in [Server -> SUBSET Flags]
      /\ trans \in [Server -> TransRec \cup {NoTrans}]
      /\ \A u \in Server : db[u] \in Database
      /\ s \notin task[s].todo
    BY DEF Inv, TypeInv
<1>2. b \in Server
    BY DEF Fetch, Inv, BestInv
<1>3. UNCHANGED <<siteVars, view, acked, begun>>
    BY DEF Fetch
<1>4. db[b] \in Database /\ db[b].label \in Version /\ db[b].data \in Seq(Trans)
    BY <1>1, <1>2, DatabaseFacts
<1>5. CASE GoOn(s, [Labelled(db[s], db[b].label) EXCEPT !.data = db[b].data], rec[s], trans[s])
    <2> DEFINE c == Labelled(db[s], db[b].label)
               d == [c EXCEPT !.data = db[b].data]
    <2>1. c \in Database /\ c.remote = db[s].remote
        BY <1>1, <1>4, DatabaseFacts, SameFacts
    <2>2. GoOn(s, d, rec[s], trans[s])
        BY <1>5
    <2> HIDE DEF c
    <2>3. d \in Database /\ d.remote = c.remote
        BY <1>4, <2>1 DEF Database
    <2> HIDE DEF d
    <2>4. SameRemote(db[s], d)
        BY <2>1, <2>3 DEF SameRemote
    <2> QED
        BY <1>1, <1>3, <2>2, <2>3, <2>4, GoOnInv
<1>6. CASE /\ \/ db' = [db EXCEPT ![s].version = NoVersion]
              \/ \E d \in InTransit(db[s]) :
                    db' = [db EXCEPT ![s] = [d EXCEPT !.version = NoVersion]]
           /\ task' = [task EXCEPT ![s].phase = "idle"]
           /\ UNCHANGED <<rec, trans>>
    <2>1. PICK d \in Database : /\ d.remote = db[s].remote
                                /\ db' = [db EXCEPT ![s] = [d EXCEPT !.version = NoVersion]]
        <3>1. CASE db' = [db EXCEPT ![s].version = NoVersion]
            BY <1>1, <3>1
        <3>2. CASE \E d \in InTransit(db[s]) :
                       db' = [db EXCEPT ![s] = [d EXCEPT !.version = NoVersion]]
            <4>1. PICK d \in InTransit(db[s]) :
                      db' = [db EXCEPT ![s] = [d EXCEPT !.version = NoVersion]]
                BY <3>2
            <4>2. d \in Database
                BY <1>1, StoreFacts
            <4>3. d.remote = db[s].remote
                BY <1>1 DEF InTransit, Labelled, Database
            <4> QED
                BY <4>1, <4>2, <4>3
        <3> QED
            BY <1>6, <3>1, <3>2
    <2> DEFINE e == [d EXCEPT !.version = NoVersion]
               k == [task[s] EXCEPT !.phase = "idle"]
    <2>2. e \in Database /\ e.remote = d.remote
        BY VersionFacts DEF Database
    <2>3. k \in TaskRec /\ k.phase = "idle" /\ k.best = b /\ k.todo = task[s].todo
        BY <1>1 DEF TaskRec
    <2>4. /\ db' = [db EXCEPT ![s] = e] /\ task' = [task EXCEPT ![s] = k]
          /\ trans' = [trans EXCEPT ![s] = trans[s]] /\ rec' = [rec EXCEPT ![s] = rec[s]]
        BY <1>1, <1>6, <2>1
    <2> HIDE DEF e, k
    <2>5. SameRemote(db[s], e) /\ SameTrans(trans[s], trans[s])
        BY <2>1, <2>2, SameFacts DEF SameRemote
    <2> HIDE DEF b
    <2>6. trans[s] \in TransRec \cup {NoTrans} /\ s \notin k.todo
        BY <1>1, <2>3
    <2> QED
        BY <1>1, <1>2, <1>3, <2>2, <2>3, <2>4, <2>5, <2>6, RecoveryInv
<1> QED
    BY <1>5, <1>6 DEF Fetch

\* A step of the thread of s with server t, after which t may be current; s has no
\* transaction.
LEMMA SendStepInv ==
    ASSUME Inv, NEW s \in Server, NEW t \in Server, t # s, task[s].phase = "send",
           NEW d \in Database, SameRemote(db[t], d), db' = [db EXCEPT ![t] = d],
           NEW x \in TransRec \cup {NoTrans}, SameTrans(trans[t], x),
           trans' = [trans EXCEPT ![t] = x],
           NEW k \in TaskRec, task' = [task EXCEPT ![s] = k], k.phase = "send",
           k.todo \subseteq task[s].todo,
           NEW w \in ViewRec, view' = [view EXCEPT ![s] = w], w.up = view[s].up,
           w.current \subseteq view[s].current \cup {t},
           UNCHANGED <<siteVars, rec, acked, begun>>
    PROVE  Inv'
<1> USE DEF Inv, TransInv
<1>1. /\ db' \in [Server -> Database] /\ db'[t] = d
      /\ trans' \in [Server -> TransRec \cup {NoTrans}] /\ trans'[t] = x
      /\ view' \in [Server -> ViewRec] /\ view'[s] = w
      /\ task' \in [Server -> TaskRec] /\ task'[s] = k
      /\ \A u \in Server : u # t => db'[u] = db[u] /\ trans'[u] = trans[u]
      /\ \A u \in Server : u # s => view'[u] = view[u] /\ task'[u] = task[u]
    BY DEF TypeInv
<1>2. TypeInv'
    <2>1. ASSUME NEW u \in Server
          PROVE  u \notin view'[u].up \cup view'[u].current \cup task'[u].todo
        BY <1>1 DEF TypeInv
    <2> QED
        BY <1>1, <2>1 DEF TypeInv, siteVars
<1>3. BestInv'
    BY <1>1 DEF BestInv
<1>4. \A u \in Server : SameTrans(trans[u], trans'[u]) /\ SameRemote(db[u], db'[u])
    BY <1>1, SameFacts
<1>5. SendInv'
    BY <1>1, <1>4 DEF SendInv, SameTrans
<1>6. Frame
    <2>1. trans[s] = NoTrans
        BY DEF SendInv
    <2> QED
        BY <1>1, <1>4, <2>1 DEF Frame, SiteStep, siteVars
<1> HIDE DEF Inv
<1> QED
    BY <1>2, <1>3, <1>5, <1>6, FrameInv

\* DISK_SendFile.
LEMMA SendInvStep == ASSUME Inv, NEW s \in Server, NEW t \in Server, Send(s, t) PROVE Inv'
<1>1. /\ task[s] \in TaskRec /\ view[s] \in ViewRec /\ view \in [Server -> ViewRec]
      /\ db \in [Server -> Database] /\ db[t] \in Database /\ db[s] \in Database
      /\ trans \in [Server -> TransRec \cup {NoTrans}]
      /\ trans[t] \in TransRec \cup {NoTrans} /\ s \notin task[s].todo
    BY DEF Inv, TypeInv
<1>2. /\ task[s].phase = "send" /\ t # s /\ t \in task[s].todo
      /\ UNCHANGED <<siteVars, rec, acked, begun>>
    BY <1>1 DEF Send
<1>3. db[s].version \in Version /\ db[s].data \in Seq(Trans)
    BY <1>1, DatabaseFacts
<1>4. PICK k \in TaskRec : /\ task' = [task EXCEPT ![s] = k]
                           /\ k.phase = "send" /\ k.todo \subseteq task[s].todo
    <2> DEFINE k == [task[s] EXCEPT !.todo = task[s].todo \ {t}]
               f == [k EXCEPT !.dbok = FALSE]
    <2>1. k \in TaskRec /\ k.phase = "send" /\ k.todo = task[s].todo \ {t}
        BY <1>1, <1>2 DEF TaskRec
    <2>2. task' = [task EXCEPT ![s] = k] \/ task' = [task EXCEPT ![s] = f]
        BY DEF Send
    <2> HIDE DEF k
    <2>3. f \in TaskRec /\ f.phase = k.phase /\ f.todo = k.todo
        BY <2>1 DEF TaskRec
    <2> HIDE DEF f
    <2> QED
        BY <2>1, <2>2, <2>3
<1>5. PICK w \in ViewRec : /\ view' = [view EXCEPT ![s] = w]
                           /\ w.up = view[s].up
                           /\ w.current \subseteq view[s].current \cup {t}
    <2>1. view[s].current \cup {t} \in SUBSET Server /\ view[s].known \in [Server -> Version]
        BY <1>1 DEF ViewRec
    <2> DEFINE w1 == [view[s] EXCEPT !.current = view[s].current \cup {t}]
               w2 == [view[s] EXCEPT !.known = [view[s].known EXCEPT ![t] = db[s].version],
                                     !.current = view[s].current \cup {t}]
    <2>2. w1 \in ViewRec /\ w1.up = view[s].up /\ w1.current = view[s].current \cup {t}
        BY <1>1, <2>1 DEF ViewRec
    <2>3. [view[s].known EXCEPT ![t] = db[s].version] \in [Server -> Version]
        BY <1>3, <2>1
    <2>4. w2 \in ViewRec /\ w2.up = view[s].up /\ w2.current = view[s].current \cup {t}
        BY <1>1, <2>1, <2>3 DEF ViewRec
    <2>5. \/ view' = view
          \/ view' = [view EXCEPT ![s].current = @ \cup {t}]
          \/ view' = [view EXCEPT ![s].known[t] = db[s].version, ![s].current = @ \cup {t}]
        BY DEF Send
    <2>6. view = [view EXCEPT ![s] = view[s]]
        BY <1>1
    <2>7. [view EXCEPT ![s].current = @ \cup {t}] = [view EXCEPT ![s] = w1]
        BY <1>1 DEF ViewRec
    <2>8. [view EXCEPT ![s].known[t] = db[s].version, ![s].current = @ \cup {t}]
              = [view EXCEPT ![s] = w2]
        BY <1>1, <2>1 DEF ViewRec
    <2>9. view' = [view EXCEPT ![s] = view[s]] \/ view' = [view EXCEPT ![s] = w1]
          \/ view' = [view EXCEPT ![s] = w2]
        BY <2>5, <2>6, <2>7, <2>8
    <2> HIDE DEF w1, w2
    <2> QED
        BY <1>1, <2>2, <2>4, <2>9
<1>6. PICK x \in TransRec \cup {NoTrans} : /\ trans' = [trans EXCEPT ![t] = x]
                                           /\ SameTrans(trans[t], x)
    <2>1. trans' = trans \/ trans' = [trans EXCEPT ![t] = AbortLocal(trans[t])]
        BY DEF Send
    <2>2. trans = [trans EXCEPT ![t] = trans[t]]
        BY <1>1
    <2>3. /\ AbortLocal(trans[t]) \in TransRec \cup {NoTrans}
          /\ SameTrans(trans[t], AbortLocal(trans[t])) /\ SameTrans(trans[t], trans[t])
        BY <1>1, AbortFacts, SameFacts
    <2> QED
        BY <1>1, <2>1, <2>2, <2>3
<1>7. PICK d \in Database : db' = [db EXCEPT ![t] = d] /\ SameRemote(db[t], d)
    <2>1. \/ db' = db
          \/ db' = [db EXCEPT ![t] = SDISK_SendFile(s, t)]
          \/ \E d \in InTransit(AbortRemote(db[t])) : db' = [db EXCEPT ![t] = d]
        BY DEF Send
    <2> DEFINE a == AbortRemote(db[t])
    <2>2. a \in Database /\ SameRemote(db[t], a) /\ SameRemote(db[t], db[t])
        BY <1>1, AbortFacts, SameFacts
    <2>3. CASE db' = db
        <3>1. db = [db EXCEPT ![t] = db[t]]
            BY <1>1
        <3> QED
            BY <1>1, <2>2, <2>3, <3>1
    <2>4. CASE db' = [db EXCEPT ![t] = SDISK_SendFile(s, t)]
        <3> DEFINE c == Labelled(a, db[s].version)
                   d == [c EXCEPT !.data = db[s].data, !.told = db[s].version]
        <3>1. db' = [db EXCEPT ![t] = d]
            BY <2>4 DEF SDISK_SendFile
        <3>2. c \in Database /\ c.remote = a.remote
            BY <1>3, <2>2, DatabaseFacts, SameFacts
        <3> HIDE DEF c, a
        <3>3. d \in Database /\ d.remote = c.remote
            BY <1>3, <3>2 DEF Database
        <3> HIDE DEF d
        <3>4. SameRemote(db[t], d)
            BY <2>2, <3>2, <3>3 DEF SameRemote
        <3> QED
            BY <3>1, <3>3, <3>4
    <2>5. CASE \E d \in InTransit(AbortRemote(db[t])) : db' = [db EXCEPT ![t] = d]
        <3>1. PICK d \in InTransit(a) : db' = [db EXCEPT ![t] = d]
            BY <2>5
        <3> HIDE DEF a
        <3>2. d \in Database
            BY <2>2, StoreFacts
        <3>3. d.remote = a.remote
            BY <2>2 DEF InTransit, Labelled, Database
        <3>4. SameRemote(db[t], d)
            BY <2>2, <3>3 DEF SameRemote
        <3> QED
            BY <3>1, <3>2, <3>4
    <2> QED
        BY <2>1, <2>3, <2>4, <2>5
<1> QED
    BY <1>2, <1>4, <1>5, <1>6, <1>7, SendStepInv

-----------------------------------------------------------------------------
(* The steps of a transaction.                                             *)

\* What a step makes of a transaction that goes on.
LEMMA RoundFacts ==
    ASSUME NEW s \in Server, NEW x \in TransRec, NEW q \in Phases
    PROVE  /\ Round(s, x, q).tid = x.tid /\ Round(s, x, q).id = x.id
           /\ Round(s, x, q).phase = q /\ Round(s, x, q).todo = Others(s)
           /\ \A S : LET y == [x EXCEPT !.phase = q, !.todo = S]
                     IN  y.tid = x.tid /\ y.id = x.id /\ y.phase = q
           /\ LET y == [x EXCEPT !.phase = q]
              IN  y.tid = x.tid /\ y.id = x.id /\ y.phase = q
BY DEF Round, TransRec

\* A step of the transaction of s, by which no server has got its writes that did not
\* have them before.
LEMMA OwnStepInv ==
    ASSUME Inv, TypeInv', BestInv', NEW s \in Server, trans[s] # NoTrans, NEW x,
           trans' = [trans EXCEPT ![s] = x],
           x # NoTrans => x.tid = trans[s].tid /\ x.id = trans[s].id,
           \A u \in Server : SameRemote(db[u], db'[u]),
           \A u \in Server : view'[u].current \subseteq view[u].current,
           UNCHANGED <<siteVars, task, begun>>,
           \A t \in Server : SentTo(s, t)' /\ t \in view'[s].current => SentTo(s, t)
    PROVE  Inv'
<1>1. trans'[s] = x /\ \A u \in Server : u # s => trans'[u] = trans[u]
    BY DEF Inv, TypeInv
<1>2. \A u \in Server : trans'[u] # NoTrans =>
          trans[u] # NoTrans /\ trans'[u].tid = trans[u].tid /\ trans'[u].id = trans[u].id
    BY <1>1
<1>3. ASSUME NEW u \in Server, NEW t \in Server, SentTo(u, t)', t \in view'[u].current
      PROVE  SentTo(u, t) /\ t \in view[u].current
    BY <1>1, <1>3 DEF SentTo, Phase
<1>4. Kept
    BY <1>2, <1>3 DEF Kept, SiteStep, siteVars
<1>5. SendInv'
    BY <1>1 DEF Inv, TransInv, SendInv
<1> QED
    BY <1>4, <1>5, KeptInv

\* A new transaction has a tid that no server has seen.
LEMMA BeginTransInv == ASSUME Inv, NEW s \in Server, BeginTrans(s) PROVE Inv'
<1> USE DEF Inv, TransInv
<1> DEFINE x == Round(s, NewTrans(s), "begin")
<1>1. /\ x.phase = "begin" /\ x.id = begun + 1
      /\ x.tid = [epoch |-> epoch[s], counter |-> 2 * (begun + 1)]
    BY NewTransFacts DEF BeginTrans
<1>2. x.tid.epoch = epoch[s] /\ x.tid.counter = 2 * (begun + 1)
    BY <1>1
<1>3. /\ trans' = [trans EXCEPT ![s] = x] /\ UNCHANGED <<db, view, siteVars, task>>
      /\ begun' = begun + 1 /\ site = s /\ trans[s] = NoTrans /\ task[s].phase # "send"
    BY DEF BeginTrans, Continue, Writing, Unlocked, Transfers
<1> HIDE DEF x
<1>4. TypeInv' /\ BestInv'
    BY RoundsType
<1>5. trans'[s] = x /\ \A u \in Server : u # s => trans'[u] = trans[u]
    BY <1>3 DEF TypeInv
<1>6. /\ begun \in Nat /\ elections \in Nat /\ epoch[s] = elections + 2 /\ s # None
      /\ \A t \in Server : db[t].remote # NoTrans => db[t].remote.id \in Nat
      /\ \A t \in Server : trans[t] # NoTrans => trans[t].id \in Nat
    <2>1. begun \in Nat /\ elections \in Nat /\ s # None
        BY ReplicationAssumption DEF TypeInv
    <2>2. epoch[s] = elections + 2
        BY <1>3, <2>1 DEF EpochInv
    <2>3. Trans \subseteq Nat
        BY ReplicationAssumption DEF Trans
    <2>4. \A t \in Server : db[t].remote # NoTrans => db[t].remote.id \in Trans
        BY DatabaseFacts DEF TypeInv, RemoteRec
    <2>5. \A t \in Server : trans[t] # NoTrans => trans[t].id \in Trans
        BY TransFacts DEF TypeInv
    <2> QED
        BY <2>1, <2>2, <2>3, <2>4, <2>5
<1>7. EpochInv'
    <2>1. UNCHANGED <<site, epoch, elections>>
        BY <1>3 DEF siteVars
    <2>2. \A u \in Server : u # s /\ trans[u] # NoTrans => trans[u].tid.epoch # elections + 2
        BY <1>3, <1>6 DEF EpochInv
    <2> QED
        BY <1>2, <1>3, <1>5, <1>6, <2>1, <2>2 DEF EpochInv
<1>8. TidInv'
    <2>1. \A u \in Server : trans'[u] # NoTrans =>
              trans'[u].tid.counter = 2 * trans'[u].id /\ trans'[u].id <= begun'
        BY <1>1, <1>2, <1>3, <1>5, <1>6 DEF TidInv
    <2>2. \A t \in Server : db'[t].remote # NoTrans =>
              db'[t].remote.tid.counter = 2 * db'[t].remote.id /\ db'[t].remote.id <= begun'
        BY <1>3, <1>6 DEF TidInv
    <2>3. ASSUME NEW u \in Server, NEW t \in Server, trans'[u] # NoTrans,
                 db'[t].remote # NoTrans, db'[t].remote.tid.epoch = trans'[u].tid.epoch
          PROVE  db'[t].remote.tid.counter <= trans'[u].tid.counter
        <3>1. CASE u = s
            BY <1>2, <1>3, <1>5, <1>6, <2>3, <3>1 DEF TidInv
        <3>2. CASE u # s
            BY <1>3, <1>5, <2>3, <3>2 DEF TidInv
        <3> QED
            BY <3>1, <3>2
    <2> QED
        BY <2>1, <2>2, <2>3 DEF TidInv
<1>9. SendInv'
    BY <1>3, <1>5 DEF SendInv
<1>10. WroteInv'
    <2> SUFFICES ASSUME NEW u \in Server, NEW t \in Server,
                        SentTo(u, t)', t \in view'[u].current, db'[t].remote # NoTrans,
                        db'[t].remote.tid = trans'[u].tid
                 PROVE  db'[t].remote.wrote
        BY DEF WroteInv
    <2>1. u # s
        BY <1>1, <1>5 DEF SentTo, Phase
    <2>2. SentTo(u, t)
        BY <1>5, <2>1 DEF SentTo, Phase
    <2> QED
        BY <1>3, <1>5, <2>1, <2>2 DEF WroteInv
<1> QED
    BY <1>4, <1>7, <1>8, <1>9, <1>10

\* The phases in which all current servers have the writes, and those in which the round
\* of the writes is not under way.
LEMMA SentFacts ==
    ASSUME NEW s \in Server
    PROVE  /\ Phase(s) \in {"written", "ending", "setversion", "commit"} =>
                 \A t \in Server : SentTo(s, t)
           /\ \A t \in Server : SentTo(s, t)' =>
                 /\ trans'[s] # NoTrans
                 /\ trans'[s].phase \in {"write", "written", "ending", "setversion", "commit"}
BY DEF SentTo, Phase

\* The steps of a transaction that neither begin one nor change a database.
LEMMA RoundsInv ==
    ASSUME Inv, NEW s \in Server,
           \/ BeginEnds(s) \/ Write(s) \/ WriteEnds(s) \/ UndoEnds(s)
           \/ AbortTrans(s) \/ AbortEnds(s) \/ EndTrans(s) \/ CommitEnds(s) \/ CommitWait(s)
           \/ ReleaseEnds(s)
    PROVE  Inv'
<1>1. TypeInv' /\ BestInv'
    BY RoundsType DEF Inv
<1>2. UNCHANGED <<siteVars, db, task, begun>>
    BY DEF BeginEnds, Write, WriteEnds, UndoEnds, AbortTrans, AbortEnds, EndTrans, CommitEnds,
           CommitWait, ReleaseEnds, countVars
<1>3. {"begin", "write", "commit", "release", "abort", "undo begin", "undo write",
       "open", "written", "ending", "wait"} \subseteq Phases
    BY DEF Phases, Rounds
<1>4. trans[s] # NoTrans /\ trans[s] \in TransRec
    <2>1. Phase(s) # "none"
        BY DEF BeginEnds, Write, WriteEnds, UndoEnds, AbortTrans, AbortEnds, EndTrans,
               CommitEnds, CommitWait, ReleaseEnds, RoundEnds
    <2> QED
        BY <2>1 DEF Phase, Inv, TypeInv
<1>5. \A u \in Server : view'[u].current \subseteq view[u].current
    <2>1. CASE Write(s) \/ AbortTrans(s) \/ EndTrans(s) \/ CommitWait(s)
        BY <2>1 DEF Write, AbortTrans, EndTrans, CommitWait
    <2>2. CASE \/ BeginEnds(s) \/ WriteEnds(s) \/ UndoEnds(s) \/ AbortEnds(s)
               \/ CommitEnds(s) \/ ReleaseEnds(s)
        <3>1. PICK p \in Phases : RoundEnds(s, p)
            BY <1>3, <2>2 DEF BeginEnds, WriteEnds, UndoEnds, AbortEnds, CommitEnds, ReleaseEnds
        <3> QED
            BY <3>1, RoundEndsType DEF Inv
    <2> QED
        BY <2>1, <2>2
<1>6. \A u \in Server : SameRemote(db[u], db'[u])
    BY <1>2, SameFacts
<1> DEFINE a == AbortLocal(trans[s])
           b == [trans[s] EXCEPT !.won = TRUE]
<1>7. /\ a \in TransRec /\ a.tid = trans[s].tid /\ a.id = trans[s].id
      /\ b \in TransRec /\ b.tid = trans[s].tid /\ b.id = trans[s].id
    BY <1>4 DEF AbortLocal, TransRec
<1> HIDE DEF a, b
\* A step after which the writes are not on their way.
<1>8. ASSUME NEW x, trans' = [trans EXCEPT ![s] = x],
             \/ x = NoTrans
             \/ /\ x.tid = trans[s].tid /\ x.id = trans[s].id
                /\ x.phase \notin {"write", "written", "ending", "setversion", "commit"}
      PROVE  Inv'
    <2>1. trans'[s] = x
        BY <1>8 DEF Inv, TypeInv
    <2>2. \A t \in Server : ~SentTo(s, t)'
        BY <1>8, <2>1, SentFacts
    <2> QED
        BY <1>1, <1>2, <1>4, <1>5, <1>6, <1>8, <2>2, OwnStepInv
\* The phases that such a step can lead to.
<1>9. ASSUME NEW q \in Phases \ {"write", "written", "ending", "setversion", "commit"},
             \/ \E y \in {trans[s], a, b} : Continue(s, Round(s, y, q))
             \/ Continue(s, [trans[s] EXCEPT !.phase = q, !.todo = {}])
      PROVE  Inv'
    <2>1. CASE \E y \in {trans[s], a, b} : Continue(s, Round(s, y, q))
        <3>1. PICK y \in {trans[s], a, b} : Continue(s, Round(s, y, q))
            BY <2>1
        <3>2. y \in TransRec /\ y.tid = trans[s].tid /\ y.id = trans[s].id
            BY <1>4, <1>7
        <3> DEFINE x == Round(s, y, q)
        <3>3. x.tid = trans[s].tid /\ x.id = trans[s].id /\ x.phase = q
            BY <3>2, RoundFacts
        <3>4. trans' = [trans EXCEPT ![s] = x]
            BY <3>1 DEF Continue
        <3> HIDE DEF x
        <3> QED
            BY <1>8, <3>3, <3>4
    <2>2. CASE Continue(s, [trans[s] EXCEPT !.phase = q, !.todo = {}])
        <3> DEFINE x == [trans[s] EXCEPT !.phase = q, !.todo = {}]
        <3>1. x.tid = trans[s].tid /\ x.id = trans[s].id /\ x.phase = q
            BY <1>4 DEF TransRec
        <3>2. trans' = [trans EXCEPT ![s] = x]
            BY <2>2 DEF Continue
        <3> HIDE DEF x
        <3> QED
            BY <1>8, <3>1, <3>2
    <2> QED
        BY <1>9, <2>1, <2>2
<1>10. CASE End(s)
    BY <1>8, <1>10 DEF End
<1>11. {"open", "wait", "release", "abort", "undo begin", "undo write"}
          \subseteq Phases \ {"write", "written", "ending", "setversion", "commit"}
    BY <1>3
<1>12. CASE Write(s)
    <2> DEFINE x == Round(s, trans[s], "write")
    <2>1. trans' = [trans EXCEPT ![s] = x]
        BY <1>12 DEF Write, Continue
    <2>2. x.tid = trans[s].tid /\ x.id = trans[s].id /\ x.phase = "write" /\ x.todo = Others(s)
        BY <1>4 DEF Round, TransRec
    <2> HIDE DEF x
    <2>3. trans'[s] = x
        BY <2>1 DEF Inv, TypeInv
    <2>4. ASSUME NEW t \in Server, SentTo(s, t)', t \in view'[s].current PROVE FALSE
        <3>1. t \notin Others(s)
            BY <2>2, <2>3, <2>4 DEF SentTo, Phase
        <3>2. s \notin view[s].current
            BY DEF Inv, TypeInv
        <3> QED
            BY <1>5, <2>4, <3>1, <3>2 DEF Others
    <2> QED
        BY <1>1, <1>2, <1>4, <1>5, <1>6, <2>1, <2>2, <2>4, OwnStepInv
<1>13. CASE WriteEnds(s)
    <2> DEFINE x == [trans[s] EXCEPT !.phase = "written", !.todo = {}]
    <2>1. CASE Continue(s, x)
        <3>1. trans' = [trans EXCEPT ![s] = x]
            BY <2>1 DEF Continue
        <3>2. x.tid = trans[s].tid /\ x.id = trans[s].id
            BY <1>4 DEF TransRec
        <3> HIDE DEF x
        <3>3. ASSUME NEW t \in Server, t \in view'[s].current PROVE SentTo(s, t)
            <4>1. view[s] \in ViewRec /\ view \in [Server -> ViewRec]
                BY DEF Inv, TypeInv
            <4>2. /\ view' = [view EXCEPT ![s].current = @ \ trans[s].todo]
                  /\ Phase(s) = "write"
                BY <1>13 DEF WriteEnds, RoundEnds
            <4>3. view'[s].current = view[s].current \ trans[s].todo
                BY <4>1, <4>2 DEF ViewRec
            <4> QED
                BY <3>3, <4>2, <4>3 DEF SentTo
        <3> QED
            BY <1>1, <1>2, <1>4, <1>5, <1>6, <3>1, <3>2, <3>3, OwnStepInv
    <2>2. CASE Continue(s, Round(s, a, "undo write"))
        BY <1>9, <1>11, <2>2
    <2> QED
        BY <1>13, <2>1, <2>2 DEF WriteEnds, a
<1>14. CASE EndTrans(s)
    <2> DEFINE x == [trans[s] EXCEPT !.phase = "ending"]
    <2>1. CASE Continue(s, x)
        <3>1. trans' = [trans EXCEPT ![s] = x]
            BY <2>1 DEF Continue
        <3>2. x.tid = trans[s].tid /\ x.id = trans[s].id
            BY <1>4 DEF TransRec
        <3> HIDE DEF x
        <3>3. \A t \in Server : SentTo(s, t)
            BY <1>14, SentFacts DEF EndTrans
        <3> QED
            BY <1>1, <1>2, <1>4, <1>5, <1>6, <3>1, <3>2, <3>3, OwnStepInv
    <2> QED
        BY <1>10, <1>14, <2>1 DEF EndTrans
<1>15. CASE BeginEnds(s)
    <2>1. \/ Continue(s, [trans[s] EXCEPT !.phase = "open", !.todo = {}])
          \/ Continue(s, Round(s, a, "undo begin"))
        BY <1>15 DEF BeginEnds, a
    <2> QED
        BY <1>9, <1>11, <2>1
<1>16. CASE UndoEnds(s)
    <2>1. End(s) \/ Continue(s, [trans[s] EXCEPT !.phase = "open", !.todo = {}])
        BY <1>16 DEF UndoEnds
    <2> QED
        BY <1>9, <1>10, <1>11, <2>1
<1>17. CASE AbortTrans(s) \/ AbortEnds(s) \/ ReleaseEnds(s)
    <2>1. End(s) \/ Continue(s, Round(s, trans[s], "abort"))
        BY <1>17 DEF AbortTrans, AbortEnds, ReleaseEnds
    <2> QED
        BY <1>9, <1>10, <1>11, <2>1
<1>18. CASE CommitEnds(s) \/ CommitWait(s)
    <2>1. \/ Continue(s, [trans[s] EXCEPT !.phase = "wait", !.todo = {}])
          \/ Continue(s, Round(s, trans[s], "release"))
          \/ Continue(s, Round(s, b, "release"))
        BY <1>18 DEF CommitEnds, CommitWait, b
    <2> QED
        BY <1>9, <1>11, <2>1
<1> QED
    BY <1>12, <1>13, <1>14, <1>15, <1>16, <1>17, <1>18

\* The commit at the sync site, once the writes are sent.
LEMMA CommitInv ==
    ASSUME Inv, NEW s \in Server, udisk_commit(s) \/ SetVersionEnds(s)
    PROVE  Inv'
<1>1. TypeInv' /\ BestInv'
    BY CommitType DEF Inv
<1>2. UNCHANGED <<siteVars, task, begun>>
    BY DEF udisk_commit, SetVersionEnds, countVars
<1>3. /\ Phase(s) \in {"ending", "setversion"} /\ trans[s] # NoTrans /\ trans[s] \in TransRec
      /\ db[s] \in Database /\ db \in [Server -> Database] /\ epoch[s] \in Nat
    BY DEF udisk_commit, SetVersionEnds, RoundEnds, Phase, Inv, TypeInv
<1>4. \A t \in Server : SentTo(s, t)
    BY <1>3, SentFacts
<1>5. \A u \in Server : view'[u].current \subseteq view[u].current
    <2>1. CASE udisk_commit(s)
        BY <2>1 DEF udisk_commit
    <2>2. CASE SetVersionEnds(s)
        <3>1. RoundEnds(s, "setversion") /\ "setversion" \in Phases
            BY <2>2 DEF SetVersionEnds, Phases, Rounds
        <3> QED
            BY <3>1, RoundEndsType DEF Inv
    <2> QED
        BY <2>1, <2>2
<1>6. \A u \in Server : SameRemote(db[u], db'[u])
    <2>1. /\ Labelled(db[s], V(epoch[s], 1)).remote = db[s].remote
          /\ Committed(db[s], trans[s].id, FALSE).remote = db[s].remote
          /\ Committed(db[s], trans[s].id, trans[s].done).remote = db[s].remote
        BY <1>3 DEF Committed, Labelled, Database
    <2>2. \/ db' = db
          \/ db' = [db EXCEPT ![s] = Labelled(db[s], V(epoch[s], 1))]
          \/ db' = [db EXCEPT ![s] = Committed(db[s], trans[s].id, FALSE)]
          \/ db' = [db EXCEPT ![s] = Committed(db[s], trans[s].id, trans[s].done)]
        BY <1>3 DEF udisk_commit, SetVersionEnds
    <2>3. \A u \in Server : db'[u].remote = db[u].remote
        BY <1>3, <2>1, <2>2
    <2> QED
        BY <2>3 DEF SameRemote
<1>7. PICK x \in TransRec : /\ trans' = [trans EXCEPT ![s] = x]
                            /\ x.tid = trans[s].tid /\ x.id = trans[s].id
    <2>1. {"release", "setversion", "commit"} \subseteq Phases
        BY DEF Phases, Rounds
    <2> DEFINE y1 == [trans[s] EXCEPT !.old = db[s].version, !.new = V(epoch[s], 1)]
               y2 == [trans[s] EXCEPT !.done = TRUE]
    <2>2. V(epoch[s], 1) \in Version /\ db[s].version \in Version
        BY <1>3, VersionFacts, DatabaseFacts
    <2>3. y1 \in TransRec /\ y1.tid = trans[s].tid /\ y1.id = trans[s].id
        BY <1>3, <2>2 DEF TransRec
    <2>4. y2 \in TransRec /\ y2.tid = trans[s].tid /\ y2.id = trans[s].id
        BY <1>3 DEF TransRec
    <2>5. \/ trans' = [trans EXCEPT ![s] = Round(s, trans[s], "release")]
          \/ trans' = [trans EXCEPT ![s] = Round(s, y1, "setversion")]
          \/ trans' = [trans EXCEPT ![s] = Round(s, y2, "commit")]
        BY DEF udisk_commit, SetVersionEnds, Continue
    <2> HIDE DEF y1, y2
    <2>6. /\ Round(s, trans[s], "release") \in TransRec /\ Round(s, y1, "setversion") \in TransRec
          /\ Round(s, y2, "commit") \in TransRec
        BY <1>3, <2>1, <2>3, <2>4, TransFacts
    <2>7. /\ Round(s, trans[s], "release").tid = trans[s].tid
          /\ Round(s, trans[s], "release").id = trans[s].id
          /\ Round(s, y1, "setversion").tid = trans[s].tid
          /\ Round(s, y1, "setversion").id = trans[s].id
          /\ Round(s, y2, "commit").tid = trans[s].tid /\ Round(s, y2, "commit").id = trans[s].id
        BY <1>3, <2>1, <2>3, <2>4, RoundFacts
    <2> QED
        BY <2>5, <2>6, <2>7
<1> QED
    BY <1>1, <1>2, <1>3, <1>4, <1>5, <1>6, <1>7, OwnStepInv

\* What a call x makes of the remote transaction of server t: DISK_Begin begins that of
\* x, DISK_WriteV brings its writes, and the others leave or end it.
LEMMA HandleRemote ==
    ASSUME NEW t \in Server, db[t] \in Database, NEW x \in TransRec
    PROVE  LET d == db[t]
               e == Handle(t, x).db
           IN  /\ x.phase \notin {"begin", "write"} => SameRemote(d, e)
               /\ x.phase = "begin" /\ e.remote # NoTrans /\ ~SameRemote(d, e) =>
                     e.remote.tid = x.tid /\ e.remote.id = x.id
               /\ x.phase = "write" /\ e.remote # NoTrans =>
                     /\ d.remote # NoTrans
                     /\ e.remote.tid = d.remote.tid /\ e.remote.id = d.remote.id
                     /\ SameRemote(d, e) \/ e.remote.wrote
               /\ x.phase = "write" /\ Handle(t, x).ok => e.remote.wrote
<1> DEFINE d == Checked(t, x)
           r == [tid |-> x.tid, id |-> x.id, wrote |-> FALSE, done |-> FALSE]
<1>1. x.tid \in Version /\ x.new \in Version
    BY TransFacts
<1>2. d \in Database /\ d.remote = CheckTid(db[t].remote, x.tid)
    <2>1. db[t].remote \in RemoteRec \cup {NoTrans}
        BY DatabaseFacts
    <2>2. CheckTid(db[t].remote, x.tid) \in RemoteRec \cup {NoTrans}
        BY <1>1, <2>1, AbortFacts
    <2> QED
        BY <2>2 DEF Checked, Database
<1>3. d.remote = NoTrans \/ d.remote = db[t].remote
    BY <1>2 DEF CheckTid
<1>4. d.remote # NoTrans => d.remote \in RemoteRec
    BY <1>2, DatabaseFacts
<1>5. SameRemote(db[t], d) /\ SameRemote(db[t], db[t])
    BY <1>3 DEF SameRemote
<1>6. CASE x.phase = "begin"
    <2>1. Handle(t, x) = SDISK_Begin(t, x)
        BY <1>6 DEF Handle
    <2>2. \/ Handle(t, x).db = db[t]
          \/ Handle(t, x).db = [db[t] EXCEPT !.remote = NoTrans]
          \/ Handle(t, x).db = [[db[t] EXCEPT !.remote = NoTrans] EXCEPT !.remote = r]
        BY <2>1 DEF SDISK_Begin, Refuses, Accepts
    <2>3. /\ [db[t] EXCEPT !.remote = NoTrans].remote = NoTrans
          /\ [[db[t] EXCEPT !.remote = NoTrans] EXCEPT !.remote = r].remote = r
        BY DEF Database
    <2>4. r.tid = x.tid /\ r.id = x.id
        OBVIOUS
    <2> HIDE DEF r
    <2> QED
        BY <1>5, <1>6, <2>2, <2>3, <2>4
<1>7. CASE x.phase = "write"
    <2>1. Handle(t, x) = SDISK_WriteV(t, x)
        BY <1>7 DEF Handle
    <2> DEFINE e == [d EXCEPT !.remote = [d.remote EXCEPT !.wrote = TRUE]]
    <2>2. [d EXCEPT !.remote.wrote = TRUE] = e
        BY <1>2 DEF Database
    <2>3. \/ Handle(t, x).db = d /\ Handle(t, x).ok = FALSE
          \/ d.remote # NoTrans /\ Handle(t, x).db = e
        BY <2>1, <2>2 DEF SDISK_WriteV, Refuses, Accepts
    <2>4. e.remote = [d.remote EXCEPT !.wrote = TRUE]
        BY <1>2 DEF Database
    <2> HIDE DEF e, d
    <2>5. d.remote # NoTrans => /\ e.remote.tid = d.remote.tid /\ e.remote.id = d.remote.id
                                /\ e.remote.wrote = TRUE
        BY <1>4, <2>4 DEF RemoteRec
    <2>6. CASE Handle(t, x).db = d /\ Handle(t, x).ok = FALSE
        BY <1>3, <1>5, <1>7, <2>6
    <2>7. CASE d.remote # NoTrans /\ Handle(t, x).db = e
        BY <1>3, <1>7, <2>5, <2>7
    <2> QED
        BY <2>3, <2>6, <2>7
<1>8. CASE x.phase \notin {"begin", "write"}
    <2>1. Handle(t, x) \in {SDISK_SetVersion(t, x), SDISK_Commit(t, x), SDISK_End(t, x)}
        BY <1>8 DEF Handle
    <2> HIDE DEF d
    <2>2. SameRemote(db[t], SDISK_SetVersion(t, x).db)
        <3>1. Labelled(d, x.new) \in Database /\ Labelled(d, x.new).remote = d.remote
            BY <1>1, <1>2, DatabaseFacts, SameFacts
        <3>2. [Labelled(d, x.new) EXCEPT !.told = x.new].remote = d.remote
            BY <3>1 DEF Database
        <3>3. SDISK_SetVersion(t, x).db.remote \in {db[t].remote, d.remote}
            BY <3>2 DEF SDISK_SetVersion, Refuses, Accepts, d
        <3> QED
            BY <1>3, <3>3 DEF SameRemote
    <2>3. SameRemote(db[t], SDISK_Commit(t, x).db)
        <3> DEFINE c == Committed(d, d.remote.id, ~d.remote.wrote)
                   e == [c EXCEPT !.told = c.version, !.remote.done = TRUE]
        <3>1. SDISK_Commit(t, x).db = d \/ (d.remote # NoTrans /\ SDISK_Commit(t, x).db = e)
            BY DEF SDISK_Commit, Refuses, Accepts, d
        <3>2. ASSUME d.remote # NoTrans PROVE SameRemote(db[t], e)
            <4>1. d.remote.id \in Trans /\ (~d.remote.wrote) \in BOOLEAN
                BY <1>4, <3>2 DEF RemoteRec
            <4>2. c \in Database
                BY <1>2, <4>1, StoreFacts
            <4>3. c.remote = d.remote
                BY <1>2 DEF Committed, Labelled, Database
            <4> HIDE DEF c
            <4>4. e.remote = [c.remote EXCEPT !.done = TRUE]
                BY <4>2 DEF Database
            <4> HIDE DEF e
            <4>5. /\ e.remote.tid = d.remote.tid /\ e.remote.id = d.remote.id
                  /\ e.remote.wrote = d.remote.wrote
                BY <1>4, <3>2, <4>3, <4>4 DEF RemoteRec
            <4> QED
                BY <1>3, <3>2, <4>5 DEF SameRemote
        <3> HIDE DEF e
        <3> QED
            BY <1>5, <3>1, <3>2
    <2>4. SameRemote(db[t], SDISK_End(t, x).db)
        <3>1. [d EXCEPT !.remote = NoTrans].remote = NoTrans
            BY <1>2 DEF Database
        <3>2. SDISK_End(t, x).db.remote \in {NoTrans, d.remote}
            BY <3>1 DEF SDISK_End, Refuses, Accepts, d
        <3> QED
            BY <1>3, <3>2 DEF SameRemote
    <2> QED
        BY <1>8, <2>1, <2>2, <2>3, <2>4
<1> QED
    BY <1>6, <1>7, <1>8

\* A call: the server that it is for has the transaction and, unless it is taken for
\* down, its writes.
LEMMA CallInv == ASSUME Inv, NEW s \in Server, NEW t \in Server, Call(s, t) PROVE Inv'
<1> USE DEF Inv, TransInv
<1> DEFINE x == trans[s]
           e == Handle(t, x).db
<1>1. TypeInv' /\ BestInv'
    BY CallType
<1>2. /\ x \in TransRec /\ x # NoTrans /\ x.phase \in Rounds
      /\ db[t] \in Database /\ db \in [Server -> Database]
      /\ view[s] \in ViewRec /\ view \in [Server -> ViewRec]
      /\ UNCHANGED <<siteVars, task, begun>>
    <2>1. x # NoTrans
        BY DEF Call, InRound, Phase, Rounds
    <2> QED
        BY <2>1, CallCases DEF TypeInv
<1>3. /\ \A u \in Server : u # s => trans'[u] = trans[u]
      /\ trans'[s].tid = x.tid /\ trans'[s].id = x.id /\ trans'[s].phase = x.phase
      /\ trans'[s].todo = x.todo \ {t}
    <2>1. PICK ok \in Nat : trans' = [trans EXCEPT ![s] =
                     [trans[s] EXCEPT !.todo = trans[s].todo \ {t}, !.io = TRUE, !.ok = ok]]
        BY CallCases
    <2> DEFINE y == [trans[s] EXCEPT !.todo = trans[s].todo \ {t}, !.io = TRUE, !.ok = ok]
    <2>2. y.tid = x.tid /\ y.id = x.id /\ y.phase = x.phase /\ y.todo = x.todo \ {t}
        BY <1>2 DEF TransRec
    <2>3. trans' = [trans EXCEPT ![s] = y]
        BY <2>1
    <2> HIDE DEF y
    <2> QED
        BY <2>2, <2>3 DEF TypeInv
<1>4. /\ \A u \in Server : u # t => db'[u] = db[u]
      /\ db'[t] = db[t] \/ db'[t] = e
    <2>1. db' = db \/ db' = [db EXCEPT ![t] = e]
        BY CallCases
    <2> HIDE DEF e
    <2> QED
        BY <1>2, <2>1
<1>5. /\ \A u \in Server : view'[u].current \subseteq view[u].current
      /\ t \in view'[s].current => Handle(t, x).ok /\ db'[t] = e
    <2>1. CASE /\ Handle(t, x).ok /\ db' = [db EXCEPT ![t] = e]
               /\ \E v \in Version : view' = [view EXCEPT ![s] = [view[s] EXCEPT !.known[t] = v]]
        <3>1. PICK v \in Version : view' = [view EXCEPT ![s] = [view[s] EXCEPT !.known[t] = v]]
            BY <2>1
        <3> DEFINE w == [view[s] EXCEPT !.known[t] = v]
        <3>2. w.current = view[s].current
            BY <1>2, CallView
        <3>3. view' = [view EXCEPT ![s] = w]
            BY <3>1
        <3> HIDE DEF w, e
        <3> QED
            BY <1>2, <2>1, <3>2, <3>3
    <2>2. CASE view' = [view EXCEPT ![s] = MarkDown(view[s], t)]
        <3> DEFINE w == MarkDown(view[s], t)
        <3>1. w.current = view[s].current \ {t}
            BY <1>2 DEF MarkDown, ViewRec
        <3>2. view' = [view EXCEPT ![s] = w]
            BY <2>2
        <3> HIDE DEF w, e
        <3> QED
            BY <1>2, <3>1, <3>2
    <2> QED
        BY <2>1, <2>2, CallCases
\* What becomes of the remote transaction of t.
<1>6. /\ x.phase \notin {"begin", "write"} => SameRemote(db[t], db'[t])
      /\ x.phase = "begin" /\ db'[t].remote # NoTrans /\ ~SameRemote(db[t], db'[t]) =>
            db'[t].remote.tid = x.tid /\ db'[t].remote.id = x.id
      /\ x.phase = "write" /\ db'[t].remote # NoTrans =>
            /\ db[t].remote # NoTrans
            /\ db'[t].remote.tid = db[t].remote.tid /\ db'[t].remote.id = db[t].remote.id
            /\ SameRemote(db[t], db'[t]) \/ db'[t].remote.wrote
      /\ x.phase = "write" /\ t \in view'[s].current => db'[t].remote.wrote
    <2>1. SameRemote(db[t], db[t])
        BY SameFacts
    <2>2. CASE db'[t] = db[t] /\ t \notin view'[s].current
        BY <2>1, <2>2 DEF SameRemote
    <2>3. CASE db'[t] = e
        BY <1>2, <1>5, <2>3, HandleRemote
    <2> QED
        BY <1>4, <1>5, <2>2, <2>3
<1> HIDE DEF e
<1>7. EpochInv'
    <2>1. UNCHANGED <<site, epoch, elections>>
        BY <1>2 DEF siteVars
    <2>2. \A u \in Server : trans'[u] # NoTrans =>
              trans[u] # NoTrans /\ trans'[u].tid = trans[u].tid
        BY <1>2, <1>3
    <2> QED
        BY <2>1, <2>2 DEF EpochInv
\* The remote transaction is one that was there, or that of s.
<1>8. \/ db'[t].remote = NoTrans
      \/ /\ db[t].remote # NoTrans /\ db'[t].remote.tid = db[t].remote.tid
         /\ db'[t].remote.id = db[t].remote.id
      \/ x.phase = "begin" /\ db'[t].remote.tid = x.tid /\ db'[t].remote.id = x.id
    BY <1>6 DEF SameRemote
<1>9. TidInv'
    <2>1. \A u \in Server : trans'[u] # NoTrans =>
              /\ trans[u] # NoTrans
              /\ trans'[u].tid = trans[u].tid /\ trans'[u].id = trans[u].id
        BY <1>2, <1>3
    <2>2. \A u \in Server : trans'[u] # NoTrans =>
              trans'[u].tid.counter = 2 * trans'[u].id /\ trans'[u].id <= begun'
        BY <1>2, <2>1 DEF TidInv
    <2>3. ASSUME NEW u \in Server, db'[u].remote # NoTrans
          PROVE  db'[u].remote.tid.counter = 2 * db'[u].remote.id /\ db'[u].remote.id <= begun'
        BY <1>2, <1>4, <1>8, <2>3 DEF TidInv
    <2>4. ASSUME NEW u \in Server, NEW v \in Server, trans'[u] # NoTrans,
                 db'[v].remote # NoTrans, db'[v].remote.tid.epoch = trans'[u].tid.epoch
          PROVE  db'[v].remote.tid.counter <= trans'[u].tid.counter
        <3>1. CASE v # t
            BY <1>4, <2>1, <2>4, <3>1 DEF TidInv
        <3>2. CASE v = t /\ db[t].remote # NoTrans /\ db'[t].remote.tid = db[t].remote.tid
            BY <2>1, <2>4, <3>2 DEF TidInv
        <3>3. CASE v = t /\ db'[t].remote.tid = x.tid
            <4>1. u = s
                BY <1>2, <2>1, <2>4, <3>3 DEF EpochInv
            <4>2. x.tid.counter \in Nat
                BY <1>2, TransFacts, VersionFacts
            <4> QED
                BY <2>1, <2>4, <3>3, <4>1, <4>2
        <3> QED
            BY <1>8, <2>4, <3>1, <3>2, <3>3
    <2> QED
        BY <2>2, <2>3, <2>4 DEF TidInv
<1>10. SendInv'
    <2>1. task[s].phase # "send"
        BY CallCases
    <2> QED
        BY <1>2, <1>3, <2>1 DEF SendInv
<1>11. WroteInv'
    <2> SUFFICES ASSUME NEW u \in Server, NEW v \in Server,
                        SentTo(u, v)', v \in view'[u].current, db'[v].remote # NoTrans,
                        db'[v].remote.tid = trans'[u].tid
                 PROVE  db'[v].remote.wrote
        BY DEF WroteInv
    <2>1. /\ trans'[u] # NoTrans
          /\ trans'[u].phase \in {"write", "written", "ending", "setversion", "commit"}
        BY SentFacts
    <2>2. trans[u] # NoTrans /\ trans'[u].tid = trans[u].tid /\ trans'[u].phase = trans[u].phase
        BY <1>2, <1>3, <2>1
    <2>3. v \in view[u].current
        BY <1>5
    <2>4. ASSUME u # s \/ v # t \/ x.phase # "write" PROVE SentTo(u, v)
        BY <1>2, <1>3, <2>1, <2>2, <2>4 DEF SentTo, Phase
    <2>5. CASE v # t
        BY <1>4, <2>2, <2>3, <2>4, <2>5 DEF WroteInv
    <2>6. CASE v = t /\ u = s /\ x.phase = "write"
        BY <1>6, <2>6
    <2>7. CASE v = t /\ SentTo(u, v) /\ SameRemote(db[t], db'[t])
        BY <2>2, <2>3, <2>7 DEF WroteInv, SameRemote
    <2>8. CASE v = t /\ ~SameRemote(db[t], db'[t]) /\ x.phase = "write"
        BY <1>6, <2>8
    <2>9. CASE v = t /\ ~SameRemote(db[t], db'[t]) /\ x.phase = "begin"
        <3>1. trans[u].tid = x.tid
            BY <1>6, <2>2, <2>9
        <3>2. u = s
            BY <1>2, <2>2, <3>1 DEF EpochInv
        <3> QED
            BY <2>1, <2>2, <2>9, <3>2
    <2> QED
        BY <1>6, <2>4, <2>5, <2>6, <2>7, <2>8, <2>9
<1> QED
    BY <1>1, <1>7, <1>9, <1>10, <1>11

-----------------------------------------------------------------------------
(* The theorems.                                                           *)

\* Init.
LEMMA InitInv == Init => Inv
<1> SUFFICES ASSUME Init PROVE Inv
    OBVIOUS
<1>1. TypeInv /\ BestInv
    BY InitType
<1>2. /\ \A s \in Server : trans[s] = NoTrans /\ db[s].remote = NoTrans
      /\ site = None
    BY DEF Init
<1>3. EpochInv /\ TidInv /\ SendInv
    BY <1>2 DEF EpochInv, TidInv, SendInv
<1>4. WroteInv
    BY <1>2 DEF WroteInv
<1> QED
    BY <1>1, <1>3, <1>4 DEF Inv, TransInv

\* Every step preserves the invariants.
LEMMA NextInv == Inv /\ [Next]_vars => Inv'
<1> SUFFICES ASSUME Inv, [Next]_vars PROVE Inv'
    OBVIOUS
<1>1. CASE UNCHANGED vars
    <2>1. UNCHANGED <<site, adv, epoch, db, sync, view, rec, task, trans, acked, elections, begun>>
        BY <1>1 DEF vars, siteVars, countVars
    <2>2. TypeInv' /\ BestInv'
        BY <2>1 DEF Inv, TypeInv, BestInv
    <2>3. EpochInv' /\ TidInv' /\ SendInv'
        BY <2>1 DEF Inv, TransInv, EpochInv, TidInv, SendInv
    <2>4. WroteInv'
        BY <2>1 DEF Inv, TransInv, WroteInv, SentTo, Phase
    <2> QED
        BY <2>2, <2>3, <2>4 DEF Inv, TransInv
<1>2. CASE Expire
    BY <1>2, ExpireInv
<1>3. ASSUME NEW s \in Server,
             \/ BeginTrans(s) \/ BeginEnds(s) \/ Write(s) \/ WriteEnds(s) \/ UndoEnds(s)
             \/ AbortTrans(s) \/ AbortEnds(s) \/ EndTrans(s) \/ udisk_commit(s)
             \/ SetVersionEnds(s) \/ CommitEnds(s) \/ CommitWait(s) \/ ReleaseEnds(s)
      PROVE  Inv'
    BY <1>3, BeginTransInv, RoundsInv, CommitInv
<1>4. ASSUME NEW s \in Server,
             \/ Forget(s) \/ FinishFind(s) \/ Turn(s) \/ StartSend(s) \/ Fetch(s)
             \/ FinishSend(s) \/ Elect(s) \/ StartFind(s) \/ Crash(s)
      PROVE  Inv'
    BY <1>4, ExpireInv, FinishFindInv, TurnInv, StartSendInv, FetchInv, ElectInv, StartFindInv,
       CrashInv
<1>5. ASSUME NEW s \in Server, NEW t \in Server,
             Call(s, t) \/ Send(s, t) \/ Beacon(s, t) \/ Probe(s, t)
      PROVE  Inv'
    BY <1>5, CallInv, SendInvStep, BeaconInv, ProbeInv
<1> QED
    BY <1>1, <1>2, <1>3, <1>4, <1>5 DEF Next

\* The invariants hold in every state.
LEMMA InvCorrect == Spec => []Inv
BY InitInv, NextInv, PTL DEF Spec

\* Types, and that a server is not in its own list of servers (ubik_servers), that it
\* keeps no update state for itself and that its database holds only transactions that
\* were begun (ubik_dbase in ubik.p.h), for all servers and bounds.
THEOREM TypeCorrect == Spec => []TypeOK
<1>1. Inv => TypeOK
    <2> SUFFICES ASSUME Inv PROVE TypeOK
        OBVIOUS
    <2>1. /\ site \in Server \cup {None} /\ adv \in BOOLEAN /\ acked \subseteq Trans
        BY DEF Inv, TypeInv
    <2>2. ASSUME NEW s \in Server
          PROVE  /\ epoch[s] \in Nat /\ sync[s] \in Server \cup {None}
                 /\ db[s].label \in Version /\ db[s].version \in Version
                 /\ db[s].told \in Version /\ db[s].data \in Seq(Trans)
                 /\ rec[s] \subseteq {"found", "have", "sent", "label"}
                 /\ view[s].current \subseteq Server \ {s} /\ view[s].up \subseteq Server \ {s}
                 /\ task[s].phase \in {"idle", "find", "fetch", "await", "send"}
        <3>1. /\ db[s] \in Database /\ view[s] \in ViewRec /\ task[s] \in TaskRec
              /\ rec[s] \subseteq Flags /\ epoch[s] \in Nat /\ sync[s] \in Server \cup {None}
              /\ s \notin view[s].up /\ s \notin view[s].current
            BY DEF Inv, TypeInv
        <3> QED
            BY <3>1, DatabaseFacts DEF Flags, ViewRec, TaskRec
    <2> QED
        BY <2>1, <2>2 DEF TypeOK
<1> QED
    BY <1>1, InvCorrect, PTL

\* What a server commits for a site is the transaction of that site, with its writes.
LEMMA InvWhole == Inv => CommitsAreWhole
<1> SUFFICES ASSUME Inv, NEW s \in Server, NEW t \in Server,
                    Phase(s) = "commit", t \in Callable(s), SDISK_Commit(t, trans[s]).ok
             PROVE  db[t].remote.id = trans[s].id /\ db[t].remote.wrote
    BY DEF CommitsAreWhole
<1>1. trans[s] # NoTrans /\ trans[s] \in TransRec /\ db[t] \in Database
    BY DEF Phase, Inv, TypeInv
<1>2. CheckTid(db[t].remote, trans[s].tid) # NoTrans
    <2>1. Checked(t, trans[s]).remote = CheckTid(db[t].remote, trans[s].tid)
        BY <1>1 DEF Checked, Database
    <2> QED
        BY <2>1 DEF SDISK_Commit, Refuses
<1>3. /\ db[t].remote # NoTrans /\ db[t].remote.tid.epoch = trans[s].tid.epoch
      /\ ~(trans[s].tid.counter > db[t].remote.tid.counter)
    BY <1>2 DEF CheckTid
<1>4. db[t].remote \in RemoteRec
    BY <1>1, <1>3, DatabaseFacts
<1>5. /\ db[t].remote.tid \in Version /\ db[t].remote.id \in Nat
      /\ trans[s].tid \in Version /\ trans[s].id \in Nat
    BY <1>1, <1>4, ReplicationAssumption DEF RemoteRec, TransRec, Trans
<1>6. db[t].remote.tid.counter = trans[s].tid.counter
    <2>1. db[t].remote.tid.counter \in Nat /\ trans[s].tid.counter \in Nat
        BY <1>5, VersionFacts
    <2>2. db[t].remote.tid.counter <= trans[s].tid.counter
        BY <1>1, <1>3 DEF Inv, TransInv, TidInv
    <2> QED
        BY <1>3, <2>1, <2>2
<1>7. db[t].remote.id = trans[s].id
    BY <1>1, <1>3, <1>5, <1>6 DEF Inv, TransInv, TidInv
<1>8. db[t].remote.tid = trans[s].tid
    BY <1>3, <1>5, <1>6 DEF Version
<1>9. SentTo(s, t) /\ t \in view[s].current
    BY DEF SentTo, Callable
<1> QED
    BY <1>3, <1>7, <1>8, <1>9 DEF Inv, TransInv, WroteInv

\* A server that carries out DISK_Commit of a sync site commits that transaction, with all
\* of its writes (SDISK_Commit, ContactQuorum_iterate): for all servers, and all numbers of
\* elections, transactions, crashes and lost calls, even if the term of the site is over.
THEOREM CommitsAreWholeCorrect == Spec => []CommitsAreWhole
BY InvCorrect, InvWhole, PTL

=============================================================================
