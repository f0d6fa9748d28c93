--------------------------- MODULE UbikReplication ---------------------------
(***************************************************************************)
(* The replication of a Ubik database: write transactions at the sync site *)
(* (src/src/ubik/ubik.c), their calls to the other servers (remote.c) and  *)
(* the recovery thread (recovery.c), which finds the best database, gets   *)
(* it and sends it to the servers that lack it.                            *)
(*                                                                         *)
(* The election is UbikElection seen from outside: at most one sync site   *)
(* at a time, epochs that grow, and a majority that has voted for it.  The *)
(* storage of a server is UbikStore: a commit changes contents and label   *)
(* in one step.  Contents are the sequence of the transactions in them.    *)
(*                                                                         *)
(* A call is one step: it is carried out and answered, carried out with    *)
(* its answer lost, or not carried out.  The caller's database lock is     *)
(* free until it gets the answer of its last call, which may take long.    *)
(* Time is left out: what the code does after a timeout happens at any     *)
(* moment that UbikElection allows.                                        *)
(***************************************************************************)
EXTENDS Integers, FiniteSets, Sequences, Functions

CONSTANTS
    Server,          \* the database servers; none is a clone
    None,            \* no server
    NoTrans,         \* no transaction
    CommitsOutlive,  \* may another site be elected while a commit is under way?
    MaxElections,    \* bound on the number of elections
    MaxTrans,        \* bound on the number of transactions
    MaxFaults        \* bound on the number of crashes and of calls or answers lost

ASSUME ReplicationAssumption ==
    /\ IsFiniteSet(Server) /\ Cardinality(Server) % 2 = 1
    /\ None \notin Server
    /\ CommitsOutlive \in BOOLEAN
    /\ MaxElections \in Nat /\ MaxTrans \in Nat
    /\ MaxFaults \in Nat

VARIABLES
    site,     \* the server for which amSyncSite() holds
    adv,      \* ubik_syncSiteAdvertised of the sync site
    epoch,    \* ubik_epochTime of each server
    db,       \* the database of each server: file, version, what it was told of
    sync,     \* the sync site that uvote_GetSyncSite names, on each server
    view,     \* ubik_servers of each server: what it thinks of the others
    rec,      \* urecovery_state of each server
    task,     \* what the recovery thread of each server is doing
    trans,    \* the write transaction each server has begun as sync site
    acked,    \* history: the transactions that were reported to be committed
    elections, begun, faults

siteVars == <<site, adv, epoch, sync, elections>>
countVars == <<begun, faults>>
vars == <<siteVars, db, view, rec, task, trans, acked, countVars>>

-----------------------------------------------------------------------------
(* Versions, majorities and locks.                                         *)

Version == [epoch : Nat, counter : Nat]
NoVersion == [epoch |-> 0, counter |-> 0]
V(e, c) == [epoch |-> e, counter |-> c]

\* vcmp(a, b) > 0
Newer(a, b) == a.epoch > b.epoch \/ (a.epoch = b.epoch /\ a.counter > b.counter)

\* Mutant: the server list of a server contains the server itself.
Others_WithSelf(s) == Server

\* ubik_servers of s
Others(s) == Server \ {s}

\* ubik_quorum
Quorum == (Cardinality(Server) \div 2) + 1

\* okcalls + 1 >= ubik_quorum: the caller counts, too.
EnoughCalls(ok) == ok + 1 >= Quorum

\* yesVotes > nServers, for an odd number of servers, where the extra vote of the
\* magic host makes no difference.
HasQuorum(S) == 2 * Cardinality(S) > Cardinality(Server)

\* urecovery_AllBetter(dbase, 0) on server s
AllBetter(s) ==
    \/ site = s /\ "have" \in rec[s]
    \/ sync[s] # None /\ db[s].told = db[s].version

\* The tid in a beacon of s: the write transaction, or one more than the last.
Tid(s) == [epoch |-> epoch[s],
           counter |-> IF trans[s] # NoTrans THEN trans[s].tid.counter ELSE 2 * begun + 1]

\* DBWRITING
Writing(s) == trans[s] # NoTrans \/ db[s].remote # NoTrans

Rounds == {"begin", "write", "setversion", "commit", "release", "abort",
           "undo begin", "undo write"}
Phases == Rounds \cup {"open", "written", "ending", "wait"}

\* struct ubik_trans of a write transaction, and the round of calls that it is in.
Trans == 1..MaxTrans
TransRec ==
    [id : Trans, tid : Version, phase : Phases, todo : SUBSET Server, ok : Nat, io : BOOLEAN,
     done : BOOLEAN, old : Version, new : Version, won : BOOLEAN]

ASSUME NoTransAssumption == NoTrans \notin TransRec

Phase(s) == IF trans[s] = NoTrans THEN "none" ELSE trans[s].phase
InRound(s) == Phase(s) \in Rounds

\* ContactQuorum_iterate: the servers that are still to be called.
Callable(s) ==
    {t \in trans[s].todo : /\ t \in view[s].up /\ t \in view[s].current
                           /\ trans[s].phase = "begin" => t \in view[s].heard}

\* The recovery thread holds the database lock while it transfers a database.
Transfers(s) == task[s].phase \in {"fetch", "send"}

\* The database lock of s is free: no transfer, and a transaction that runs
\* waits for a call.
Unlocked(s) ==
    /\ ~Transfers(s)
    /\ Phase(s) # "ending"
    /\ InRound(s) => trans[s].io \/ Callable(s) # {}

\* The part of a commit between the test for the sync site and the votes of a quorum.
Committing(s) == Phase(s) \in {"ending", "setversion", "commit"}

-----------------------------------------------------------------------------
(* Storage.                                                                *)

\* urecovery_CheckTid: what is left of a remote transaction r after a call with tid.
CheckTid(r, tid) ==
    IF r # NoTrans /\ (tid.epoch # r.tid.epoch \/ tid.counter > r.tid.counter)
    THEN NoTrans ELSE r

\* urecovery_AbortAll on the remote transaction of d, and on the transaction x.
AbortRemote(d) == IF d.remote = NoTrans THEN d ELSE [d EXCEPT !.remote.done = TRUE]
AbortLocal(x) == IF x = NoTrans THEN x ELSE [x EXCEPT !.done = TRUE]

Labelled(d, v) == [d EXCEPT !.label = v, !.version = v]

\* udisk_commit, from the bump of the counter on; an aborted transaction has
\* nothing left to write.
Committed(d, id, nothing) ==
    [Labelled(d, V(d.version.epoch, d.version.counter + 1)) EXCEPT
        !.data = IF nothing THEN @ ELSE Append(@, id)]

\* The label of a database in transit: tversion.counter is not initialized.
InTransit(d) == {Labelled(d, V(0, c)) : c \in {0, 9}}

-----------------------------------------------------------------------------
(* The calls of a transaction, on server t: its database afterwards, and   *)
(* whether the call succeeds.                                              *)

Refuses(d) == [db |-> d, ok |-> FALSE]
Accepts(d) == [db |-> d, ok |-> TRUE]

\* The server takes part if its database is the current one; an older remote
\* transaction ends.
SDISK_Begin(t, x) ==
    LET d == [db[t] EXCEPT !.remote = NoTrans]
    IN  IF ~AllBetter(t) THEN Refuses(db[t])
        ELSE IF trans[t] # NoTrans THEN Refuses(d)
        ELSE Accepts([d EXCEPT !.remote = [tid |-> x.tid, id |-> x.id,
                                           wrote |-> FALSE, done |-> FALSE]])

\* The database of t at the start of every other call, which needs the transaction
\* that SDISK_Begin has begun.
Checked(t, x) == [db[t] EXCEPT !.remote = CheckTid(@, x.tid)]

SDISK_WriteV(t, x) ==
    LET d == Checked(t, x)
    IN  IF d.remote = NoTrans THEN Refuses(d)
        ELSE IF d.remote.done THEN Refuses(d)
        ELSE Accepts([d EXCEPT !.remote.wrote = TRUE])

SDISK_SetVersion(t, x) ==
    LET d == Checked(t, x)
    IN  IF site = t THEN Refuses(db[t])
        ELSE IF /\ d.remote # NoTrans
                /\ \/ d.told = x.old
                   \/ d.told = x.new /\ d.version = x.old
        THEN Accepts([Labelled(d, x.new) EXCEPT !.told = x.new])
        ELSE Refuses(d)

\* udisk_commit gives a sync site a new label first (disk.c, oldversion and newversion);
\* a server that carries out the commit of another one is no sync site, which TLC
\* confirms in the runs, also with CommitsOutlive.
SDISK_Commit(t, x) ==
    LET d == Checked(t, x)
    IN  IF d.remote = NoTrans THEN Refuses(d)
        ELSE IF d.remote.done THEN Refuses(d)
        ELSE LET c == Committed(d, d.remote.id, ~d.remote.wrote)
             IN  Accepts([c EXCEPT !.told = c.version, !.remote.done = TRUE])

\* SDISK_ReleaseLocks and SDISK_Abort
SDISK_End(t, x) ==
    LET d == Checked(t, x)
    IN  IF d.remote = NoTrans THEN Refuses(d) ELSE Accepts([d EXCEPT !.remote = NoTrans])

Handle(t, x) ==
    CASE x.phase = "begin" -> SDISK_Begin(t, x)
      [] x.phase = "write" -> SDISK_WriteV(t, x)
      [] x.phase = "setversion" -> SDISK_SetVersion(t, x)
      [] x.phase = "commit" -> SDISK_Commit(t, x)
      [] OTHER -> SDISK_End(t, x)

-----------------------------------------------------------------------------
(* ContactQuorum: one round of calls of the transaction of s.              *)

\* x starts a round.
Round(s, x, phase) == [x EXCEPT !.phase = phase, !.todo = Others(s), !.ok = 0, !.io = FALSE]

\* Mutant: a server that is down keeps its place among those with the current database.
MarkDown_KeepsCurrent(w, t) == [w EXCEPT !.up = @ \ {t}, !.heard = @ \ {t}]

\* "mark as down now"
MarkDown(w, t) == [w EXCEPT !.up = @ \ {t}, !.heard = @ \ {t}, !.current = @ \ {t}]

\* A call to one of the servers: the order is that of the server list.
Call(s, t) ==
    /\ InRound(s) /\ ~Transfers(s) /\ t \in Callable(s)
    /\ LET x == trans[s]
           w == view[s]
           h == Handle(t, x)
           called == [x EXCEPT !.todo = @ \ {t}, !.io = TRUE]
           stamp == IF x.phase \in {"setversion", "commit"} THEN db[s].version ELSE w.known[t]
       IN  \/ /\ Unlocked(t) /\ h.ok
              /\ db' = [db EXCEPT ![t] = h.db]
              /\ trans' = [trans EXCEPT ![s] = [called EXCEPT !.ok = @ + 1]]
              /\ view' = [view EXCEPT ![s] = [w EXCEPT !.known[t] = stamp]]
              /\ UNCHANGED faults
           \/ /\ Unlocked(t)
              /\ ~h.ok \/ faults < MaxFaults
              /\ faults' = IF h.ok THEN faults + 1 ELSE faults
              /\ db' = [db EXCEPT ![t] = h.db]
              /\ trans' = [trans EXCEPT ![s] = called]
              /\ view' = [view EXCEPT ![s] = MarkDown(w, t)]
           \/ /\ faults < MaxFaults /\ faults' = faults + 1
              /\ trans' = [trans EXCEPT ![s] = called]
              /\ view' = [view EXCEPT ![s] = MarkDown(w, t)]
              /\ UNCHANGED db
    /\ UNCHANGED <<siteVars, rec, task, acked, begun>>

\* The round is over; the servers that were passed over have missed an update.
RoundEnds(s, phase) ==
    /\ Phase(s) = phase
    /\ ~Transfers(s) /\ Callable(s) = {}
    /\ view' = [view EXCEPT ![s].current = @ \ trans[s].todo]

-----------------------------------------------------------------------------
(* A write transaction of sync site s.                                     *)

NewTrans(s) ==
    [id |-> begun + 1, tid |-> [epoch |-> epoch[s], counter |-> 2 * (begun + 1)],
     phase |-> "open", todo |-> {}, ok |-> 0, io |-> FALSE,
     done |-> FALSE, old |-> NoVersion, new |-> NoVersion, won |-> FALSE]

\* udisk_end; a transaction that has not committed is aborted.
End(s) ==
    /\ trans' = [trans EXCEPT ![s] = NoTrans]
    /\ acked' = IF trans[s].won THEN acked \cup {trans[s].id} ELSE acked

Continue(s, x) == trans' = [trans EXCEPT ![s] = x] /\ UNCHANGED acked

BeginTrans(s) ==
    /\ Unlocked(s) /\ AllBetter(s) /\ ~Writing(s)
    /\ site = s /\ adv
    /\ begun < MaxTrans /\ begun' = begun + 1
    /\ Continue(s, Round(s, NewTrans(s), "begin"))
    /\ UNCHANGED <<siteVars, db, view, rec, task, faults>>

BeginEnds(s) ==
    /\ RoundEnds(s, "begin")
    /\ LET x == trans[s]
       IN  Continue(s, IF EnoughCalls(x.ok) THEN [x EXCEPT !.phase = "open", !.todo = {}]
                       ELSE Round(s, AbortLocal(x), "undo begin"))
    /\ UNCHANGED <<siteVars, db, rec, task, countVars>>

\* ubik_Write, which collects the data, and ubik_Flush, which sends it.
Write(s) ==
    /\ Phase(s) = "open" /\ ~trans[s].done
    /\ Unlocked(s) /\ AllBetter(s) /\ site = s
    /\ Continue(s, Round(s, trans[s], "write"))
    /\ UNCHANGED <<siteVars, db, view, rec, task, countVars>>

\* A failed ubik_Flush aborts the transaction, and ubik_EndTrans does so again.
WriteEnds(s) ==
    /\ RoundEnds(s, "write")
    /\ LET x == trans[s]
       IN  Continue(s, IF EnoughCalls(x.ok) THEN [x EXCEPT !.phase = "written", !.todo = {}]
                       ELSE Round(s, AbortLocal(x), "undo write"))
    /\ UNCHANGED <<siteVars, db, rec, task, countVars>>

UndoEnds(s) ==
    /\ \/ /\ RoundEnds(s, "undo begin")
          /\ End(s)
       \/ /\ RoundEnds(s, "undo write")
          /\ Continue(s, [trans[s] EXCEPT !.phase = "open", !.todo = {}])
    /\ UNCHANGED <<siteVars, db, rec, task, countVars>>

\* ubik_AbortTrans, by the application or after an error.
AbortTrans(s) ==
    /\ Phase(s) \in {"open", "written"}
    /\ Unlocked(s)
    /\ IF AllBetter(s) /\ site = s THEN Continue(s, Round(s, trans[s], "abort")) ELSE End(s)
    /\ UNCHANGED <<siteVars, db, view, rec, task, countVars>>

AbortEnds(s) ==
    /\ RoundEnds(s, "abort")
    /\ End(s)
    /\ UNCHANGED <<siteVars, db, rec, task, countVars>>

\* ubik_EndTrans up to udisk_commit, which asks once more who is sync site.
EndTrans(s) ==
    /\ Phase(s) = "written"
    /\ Unlocked(s)
    /\ IF AllBetter(s) /\ site = s THEN Continue(s, [trans[s] EXCEPT !.phase = "ending"])
                                   ELSE End(s)
    /\ UNCHANGED <<siteVars, db, view, rec, task, countVars>>

\* The first commit of a sync site labels the database with the new epoch.
udisk_commit(s) ==
    LET x == trans[s]
        relabel == site = s /\ "label" \notin rec[s]
    IN  /\ Phase(s) = "ending"
        /\ \/ /\ x.done
              /\ Continue(s, Round(s, x, "release"))
              /\ UNCHANGED <<db, rec>>
           \/ /\ ~x.done /\ relabel
              /\ db' = [db EXCEPT ![s] = Labelled(@, V(epoch[s], 1))]
              /\ rec' = [rec EXCEPT ![s] = @ \cup {"label"}]
              /\ Continue(s, Round(s, [x EXCEPT !.old = db[s].version, !.new = V(epoch[s], 1)],
                                   "setversion"))
           \/ /\ ~x.done /\ ~relabel
              /\ db' = [db EXCEPT ![s] = Committed(@, x.id, FALSE)]
              /\ Continue(s, Round(s, [x EXCEPT !.done = TRUE], "commit"))
              /\ UNCHANGED rec
        /\ UNCHANGED <<siteVars, view, task, countVars>>

\* Errors of DISK_SetVersion are ignored, and so is an abort that came meanwhile.
SetVersionEnds(s) ==
    /\ RoundEnds(s, "setversion")
    /\ db' = [db EXCEPT ![s] = Committed(@, trans[s].id, trans[s].done)]
    /\ Continue(s, Round(s, [trans[s] EXCEPT !.done = TRUE], "commit"))
    /\ UNCHANGED <<siteVars, rec, task, countVars>>

CommitEnds(s) ==
    /\ RoundEnds(s, "commit")
    /\ Continue(s, IF EnoughCalls(trans[s].ok) THEN [trans[s] EXCEPT !.phase = "wait", !.todo = {}]
                   ELSE Round(s, trans[s], "release"))
    /\ UNCHANGED <<siteVars, db, rec, task, countVars>>

(***************************************************************************)
(* The commit wait: a server from which no beacon has come back since it   *)
(* was marked down has forgotten about s BIGTIME after the last beacon to  *)
(* it (uvote_GetSyncSite).                                                 *)
(***************************************************************************)
CommitWait(s) ==
    /\ Phase(s) = "wait"
    /\ Unlocked(s)
    /\ \A t \in Others(s) : t \in view[s].heard \/ sync[t] # s
    /\ Continue(s, Round(s, [trans[s] EXCEPT !.won = TRUE], "release"))
    /\ UNCHANGED <<siteVars, db, view, rec, task, countVars>>

ReleaseEnds(s) ==
    /\ RoundEnds(s, "release")
    /\ End(s)
    /\ UNCHANGED <<siteVars, db, rec, task, countVars>>

-----------------------------------------------------------------------------
(* The election, seen from the database (vote.c, beacon.c).                *)

\* A server that says yes: the version of the candidate, and the end of a
\* remote transaction that is not the candidate's.
VotedFor(d, version, tid) == [d EXCEPT !.told = version, !.remote = CheckTid(@, tid)]

\* Without CommitsOutlive, a commit is faster than the end of a term and an election:
\* from the test in ubik_EndTrans to the last answer to DISK_Commit no site is elected.
\* Nothing in the code enforces this.
MayEnd(s) == CommitsOutlive \/ Phase(s) \notin {"ending", "setversion"}
MayElect == CommitsOutlive \/ \A s \in Server : ~Committing(s)

\* Q votes for c, which has started its collection with urecovery_ResetState and
\* takes a new epoch under the database lock.  The others' calls have timed out.
Elect(c) ==
    /\ site = None /\ MayElect
    /\ elections < MaxElections /\ elections' = elections + 1
    /\ site' = c /\ adv' = FALSE
    /\ epoch' = [epoch EXCEPT ![c] = elections + 3]
    /\ rec' = [rec EXCEPT ![c] = {}]
    /\ \E Q \in SUBSET view[c].up :
          LET voters == Q \cup {c}
          IN  /\ HasQuorum(voters)
              /\ \A v \in voters : Unlocked(v)
              /\ db' = [v \in Server |-> IF v \in voters
                                         THEN VotedFor(db[v], db[c].version, Tid(c)) ELSE db[v]]
              /\ sync' = [v \in Server |-> IF v \in voters THEN None ELSE sync[v]]
              /\ view' = [view EXCEPT ![c].up = Q, ![c].heard = Q]
    /\ UNCHANGED <<task, trans, acked, countVars>>

\* The votes of the sync site expire, or it loses an election; its next collection
\* resets its recovery.  The last term within the bound does not end so.
Expire ==
    /\ site # None /\ MayEnd(site) /\ elections < MaxElections
    /\ site' = None /\ adv' = FALSE
    /\ rec' = [rec EXCEPT ![site] = {}]
    /\ UNCHANGED <<epoch, sync, elections, db, view, task, trans, acked, countVars>>

\* The last claim v has voted for is older than SMALLTIME; a sync site votes for itself
\* with every collection.
Forget(v) ==
    /\ sync[v] # None
    /\ site = sync[v] => v \notin view[site].heard \cup {site}
    /\ sync' = [sync EXCEPT ![v] = None]
    /\ UNCHANGED <<site, adv, epoch, elections, db, view, rec, task, trans, acked,
                   countVars>>

\* Server v votes for the sync site s in a collection of s, which ends with the vote of
\* s for itself, or the call fails.  The sync site is advertised once a majority has
\* voted for it as such.
Beacon(s, v) ==
    LET Told(u) == VotedFor(db[u], db[s].version, Tid(s))
    IN  /\ site = s /\ v \in view[s].up
        /\ \/ /\ Unlocked(v)
              /\ sync[v] # s \/ db[v] # Told(v) \/ v \notin view[s].heard
              /\ db' = [db EXCEPT ![v] = Told(v), ![s] = Told(s)]
              /\ sync' = [sync EXCEPT ![v] = s, ![s] = s]
              /\ view' = [view EXCEPT ![s].heard = @ \cup {v}]
              /\ adv' = (adv \/ HasQuorum({u \in Server : sync'[u] = s}))
              /\ UNCHANGED faults
           \/ /\ faults < MaxFaults /\ faults' = faults + 1
              /\ view' = [view EXCEPT ![s].up = @ \ {v}, ![s].heard = @ \ {v}]
              /\ UNCHANGED <<db, sync, adv>>
        /\ UNCHANGED <<site, epoch, elections, rec, task, trans, acked, begun>>

-----------------------------------------------------------------------------
(* The recovery thread of server s.                                        *)

Idle == [phase |-> "idle", best |-> None, newest |-> NoVersion, enough |-> FALSE,
         todo |-> {}, dbok |-> TRUE]

\* A server that was down answers a probe, or one that is up lacks the database.
Probe(s, t) ==
    /\ t # s /\ task[s].phase = "idle" /\ Unlocked(s)
    /\ t \notin view[s].up \/ (t \notin view[s].current /\ "found" \in rec[s])
    /\ view' = [view EXCEPT ![s].up = @ \cup {t}]
    /\ rec' = [rec EXCEPT ![s] = @ \ {"found"}]
    /\ UNCHANGED <<siteVars, db, task, trans, acked, countVars>>

\* DISK_GetVersion of every server that is up; R answer, and one of the best answers
\* is kept, if there is any.  The code asks one server after the other; here the answers
\* are of one instant, and what changes after them is seen by FinishFind only.
StartFind(s) ==
    /\ site = s /\ task[s].phase = "idle" /\ Unlocked(s) /\ "found" \notin rec[s]
    /\ \E R \in SUBSET view[s].up :
          LET labels == {db[t].label : t \in R}
              best == {t \in R : /\ Newer(db[t].label, NoVersion)
                                 /\ \A l \in labels : ~Newer(l, db[t].label)}
          IN  /\ \A t \in R : Unlocked(t)
              /\ faults' = faults + Cardinality(view[s].up \ R) /\ faults' <= MaxFaults
              /\ \E b \in IF best = {} THEN {None} ELSE best :
                    task' = [task EXCEPT ![s] = [Idle EXCEPT
                        !.phase = "find", !.enough = EnoughCalls(Cardinality(R)), !.best = b,
                        !.newest = IF b = None THEN NoVersion ELSE db[b].label]]
              /\ view' = [view EXCEPT ![s].known = [t \in Server |->
                                                       IF t \in R THEN db[t].label ELSE @[t]]]
    /\ UNCHANGED <<siteVars, db, rec, trans, acked, begun>>

(***************************************************************************)
(* The rest of a turn of the thread, once the best database is at s: a new *)
(* database gets its first label, and the thread goes on to send it, but   *)
(* waits for the end of a write transaction.                               *)
(***************************************************************************)
GoOn(s, d, r, x) ==
    LET new == d.version.epoch = 1
    IN  /\ db' = [db EXCEPT ![s] = IF new THEN Labelled(AbortRemote(d), V(2, 1)) ELSE d]
        /\ trans' = [trans EXCEPT ![s] = IF new THEN AbortLocal(x) ELSE x]
        /\ rec' = [rec EXCEPT ![s] = r \cup {"have"}]
        /\ task' = [task EXCEPT ![s] =
               IF "sent" \in r THEN Idle
               ELSE [Idle EXCEPT !.phase = IF Writing(s) THEN "await" ELSE "send",
                                 !.todo = Others(s)]]

\* Mutant: the sync site takes its own database for the best.
FinishFind_KeepsOwn(s) ==
    LET k == task[s]
        r == (rec[s] \cup {"found"}) \ {"sent"}
    IN  /\ k.phase = "find" /\ Unlocked(s)
        /\ \/ /\ ~k.enough
              /\ task' = [task EXCEPT ![s] = Idle]
              /\ UNCHANGED <<db, rec, trans>>
           \/ /\ k.enough
              /\ GoOn(s, db[s], r, trans[s])
        /\ UNCHANGED <<siteVars, view, acked, countVars>>

\* The answers are in: without those of a majority there will be another round;
\* otherwise the thread goes on, or gets a better database first.
FinishFind(s) ==
    LET k == task[s]
        r == (rec[s] \cup {"found"}) \ {"sent"}
    IN  /\ k.phase = "find" /\ Unlocked(s)
        /\ \/ /\ ~k.enough
              /\ task' = [task EXCEPT ![s] = Idle]
              /\ UNCHANGED <<db, rec, trans>>
           \/ /\ k.enough /\ ~Newer(k.newest, db[s].version)
              /\ GoOn(s, db[s], r, trans[s])
           \/ /\ k.enough /\ Newer(k.newest, db[s].version)
              /\ rec' = [rec EXCEPT ![s] = r \ {"have"}]
              /\ task' = [task EXCEPT ![s] = [Idle EXCEPT !.phase = "fetch", !.best = k.best]]
              /\ db' = [db EXCEPT ![s] = AbortRemote(@)]
              /\ trans' = [trans EXCEPT ![s] = AbortLocal(@)]
        /\ UNCHANGED <<siteVars, view, acked, countVars>>

\* A later turn, in which the best database is known.
Turn(s) ==
    /\ site = s /\ task[s].phase = "idle" /\ Unlocked(s) /\ "found" \in rec[s]
    /\ \/ /\ "have" \in rec[s] /\ "sent" \notin rec[s]
          /\ GoOn(s, db[s], rec[s], trans[s])
       \/ /\ "have" \notin rec[s]
          /\ task' = [task EXCEPT ![s].phase = "fetch"]
          /\ db' = [db EXCEPT ![s] = AbortRemote(@)]
          /\ trans' = [trans EXCEPT ![s] = AbortLocal(@)]
          /\ UNCHANGED rec
    /\ UNCHANGED <<siteVars, view, acked, countVars>>

\* The write transaction is over.
StartSend(s) ==
    /\ task[s].phase = "await" /\ Unlocked(s) /\ ~Writing(s)
    /\ task' = [task EXCEPT ![s].phase = "send"]
    /\ UNCHANGED <<siteVars, db, view, rec, trans, acked, countVars>>

\* DISK_GetFile from the best server.
Fetch(s) ==
    LET b == task[s].best
    IN  /\ task[s].phase = "fetch"
        /\ \/ /\ Unlocked(b)
              /\ GoOn(s, [Labelled(db[s], db[b].label) EXCEPT !.data = db[b].data],
                      rec[s], trans[s])
              /\ UNCHANGED faults
           \/ /\ faults < MaxFaults /\ faults' = faults + 1
              /\ \/ db' = [db EXCEPT ![s].version = NoVersion]
                 \/ \E d \in InTransit(db[s]) :
                       db' = [db EXCEPT ![s] = [d EXCEPT !.version = NoVersion]]
              /\ task' = [task EXCEPT ![s].phase = "idle"]
              /\ UNCHANGED <<rec, trans>>
        /\ UNCHANGED <<siteVars, view, acked, begun>>

\* DISK_SendFile to server t: its database afterwards.
SDISK_SendFile(s, t) ==
    [Labelled(AbortRemote(db[t]), db[s].version) EXCEPT
        !.data = db[s].data, !.told = db[s].version]

\* The thread sends the database to the next server, if it needs it.
Send(s, t) ==
    /\ task[s].phase = "send" /\ t \in task[s].todo
    /\ LET k == [task[s] EXCEPT !.todo = @ \ {t}]
           failed == [k EXCEPT !.dbok = FALSE]
           refused == sync[t] \notin {None, s}
       IN  \/ /\ t \notin view[s].up
              /\ task' = [task EXCEPT ![s] = failed]
              /\ UNCHANGED <<db, view, trans, faults>>
           \/ /\ t \in view[s].up /\ view[s].known[t] = db[s].version
              /\ task' = [task EXCEPT ![s] = k]
              /\ view' = [view EXCEPT ![s].current = @ \cup {t}]
              /\ UNCHANGED <<db, trans, faults>>
           \/ /\ t \in view[s].up /\ view[s].known[t] # db[s].version
              /\ ~refused /\ Unlocked(t)
              /\ db' = [db EXCEPT ![t] = SDISK_SendFile(s, t)]
              /\ trans' = [trans EXCEPT ![t] = AbortLocal(@)]
              /\ \/ /\ task' = [task EXCEPT ![s] = k]
                    /\ view' = [view EXCEPT ![s].known[t] = db[s].version,
                                            ![s].current = @ \cup {t}]
                    /\ UNCHANGED faults
                 \/ /\ faults < MaxFaults /\ faults' = faults + 1
                    /\ task' = [task EXCEPT ![s] = failed]
                    /\ UNCHANGED view
           \/ /\ t \in view[s].up /\ view[s].known[t] # db[s].version
              /\ task' = [task EXCEPT ![s] = failed]
              /\ refused \/ faults < MaxFaults
              /\ faults' = IF refused THEN faults ELSE faults + 1
              /\ \/ UNCHANGED <<db, trans>>
                 \/ /\ ~refused /\ Unlocked(t)
                    /\ \E d \in InTransit(AbortRemote(db[t])) : db' = [db EXCEPT ![t] = d]
                    /\ trans' = [trans EXCEPT ![t] = AbortLocal(@)]
              /\ UNCHANGED view
    /\ UNCHANGED <<siteVars, rec, acked, begun>>

FinishSend(s) ==
    /\ task[s].phase = "send" /\ task[s].todo = {}
    /\ rec' = [rec EXCEPT ![s] = IF task[s].dbok THEN @ \cup {"sent"} ELSE @]
    /\ task' = [task EXCEPT ![s] = Idle]
    /\ UNCHANGED <<siteVars, db, view, trans, acked, countVars>>

-----------------------------------------------------------------------------
NewView(s) == [up |-> Others(s), current |-> {}, heard |-> {},
               known |-> [t \in Server |-> NoVersion]]

(***************************************************************************)
(* Server s crashes and restarts with the database that its files hold.    *)
(* It tells the others (DISK_UpdateInterfaceAddr), of which T get to know; *)
(* it takes those that do not answer for down.                             *)
(***************************************************************************)
Crash(s) ==
    /\ faults < MaxFaults
    /\ site # s => UNCHANGED <<site, adv>>
    /\ site = s => site' = None /\ adv' = FALSE
    /\ epoch' = [epoch EXCEPT ![s] = 0]
    /\ db' = [db EXCEPT ![s] = [@ EXCEPT !.version = db[s].label, !.told = NoVersion,
                                         !.remote = NoTrans]]
    /\ sync' = [sync EXCEPT ![s] = None]
    /\ \E T \in SUBSET Others(s) :
          /\ faults' = faults + 1 + Cardinality(Others(s) \ T) /\ faults' <= MaxFaults
          /\ view' = [t \in Server |->
                   IF t = s THEN [NewView(s) EXCEPT !.up = T]
                   ELSE IF t \in T THEN [view[t] EXCEPT !.heard = @ \ {s}, !.current = @ \ {s}]
                   ELSE view[t]]
    /\ rec' = [rec EXCEPT ![s] = {}]
    /\ task' = [task EXCEPT ![s] = Idle]
    /\ trans' = [trans EXCEPT ![s] = NoTrans]
    /\ UNCHANGED <<acked, elections, begun>>

Init ==
    /\ site = None /\ adv = FALSE
    /\ epoch = [s \in Server |-> 0]
    /\ db = [s \in Server |-> [label |-> V(1, 1), version |-> V(1, 1), told |-> NoVersion,
                               data |-> <<>>, remote |-> NoTrans]]
    /\ sync = [s \in Server |-> None]
    /\ view = [s \in Server |-> NewView(s)]
    /\ rec = [s \in Server |-> {}]
    /\ task = [s \in Server |-> Idle]
    /\ trans = [s \in Server |-> NoTrans]
    /\ acked = {}
    /\ elections = 0 /\ begun = 0 /\ faults = 0

Next ==
    \/ Expire
    \/ \E s \in Server :
          \/ BeginTrans(s) \/ BeginEnds(s) \/ Write(s) \/ WriteEnds(s) \/ UndoEnds(s)
          \/ AbortTrans(s) \/ AbortEnds(s) \/ EndTrans(s) \/ udisk_commit(s)
          \/ SetVersionEnds(s) \/ CommitEnds(s) \/ CommitWait(s) \/ ReleaseEnds(s)
          \/ Forget(s) \/ FinishFind(s) \/ Turn(s) \/ StartSend(s) \/ Fetch(s) \/ FinishSend(s)
          \/ Elect(s) \/ StartFind(s) \/ Crash(s)
          \/ \E t \in Server : Call(s, t) \/ Send(s, t) \/ Beacon(s, t) \/ Probe(s, t)

Spec == Init /\ [][Next]_vars

-----------------------------------------------------------------------------
(* What the replication promises.                                          *)

\* Types: a server keeps no entry for itself among the others (ubik_servers), and the
\* database holds transactions that were begun (ubik_server, ubik_dbase in ubik.p.h).
TypeOK ==
    /\ site \in Server \cup {None} /\ adv \in BOOLEAN
    /\ \A s \in Server :
          /\ epoch[s] \in Nat /\ sync[s] \in Server \cup {None}
          /\ db[s].label \in Version /\ db[s].version \in Version /\ db[s].told \in Version
          /\ db[s].data \in Seq(Trans)
          /\ rec[s] \subseteq {"found", "have", "sent", "label"}
          /\ view[s].current \subseteq Server \ {s} /\ view[s].up \subseteq Server \ {s}
          /\ task[s].phase \in {"idle", "find", "fetch", "await", "send"}
    /\ acked \subseteq Trans

\* Two servers with the same label hold the same database: "a non-sync site server
\* can tell if it has the right dbase version by simply comparing" (recovery.c), and a
\* server takes a new label only "if our version matches the sync-site's" (remote.c).
\* The code does not keep this; see the run replication_versions.
VersionsNameContents ==
    \A s, t \in Server : db[s].label = db[t].label /\ db[s].label.epoch > 0
                            => db[s].data = db[t].data

\* A transaction that was reported to be committed is part of the database of every
\* later sync site from the moment on at which it would start a transaction:
\* "contacting a majority guarantees commit, since it guarantees that one dude will be
\* a member of the next quorum" (ubik_EndTrans).
CommittedSurvives ==
    \A s \in Server : site = s /\ "have" \in rec[s] => acked \subseteq Range(db[s].data)

\* A server that would carry out the DISK_Commit of a sync site has that transaction and
\* all of its writes, although servers crash, miss calls and come back during it: those
\* that missed an update are no longer taken for current (ContactQuorum_iterate).
CommitsAreWhole ==
    \A s, t \in Server :
        /\ Phase(s) = "commit" /\ t \in Callable(s)
        /\ SDISK_Commit(t, trans[s]).ok
        => db[t].remote.id = trans[s].id /\ db[t].remote.wrote

=============================================================================
