---------------------------- MODULE UbikElection ----------------------------
(***************************************************************************)
(* The election of Ubik's sync site: the voter (src/src/ubik/vote.c) and   *)
(* the beacon thread (src/src/ubik/beacon.c) of every database server.     *)
(*                                                                         *)
(* A candidate's beacon thread polls the servers it believes to be up, and *)
(* every server that votes yes promises its vote for BIGTIME seconds by    *)
(* its own clock.  A candidate that collects a majority is sync site until *)
(* SMALLTIME seconds after the oldest of these votes, by its own clock.    *)
(*                                                                         *)
(* The database version and transaction id a beacon carries, and what a    *)
(* server does with them, belong to the replication of the database and    *)
(* are not part of this module.                                            *)
(***************************************************************************)
EXTENDS Integers, FiniteSets

CONSTANTS
    Server,      \* addresses of the database servers, in host order
    Clone,       \* the servers that hold a copy but may not become sync site
    BIGTIME,     \* how long a voter keeps its promise
    SMALLTIME,   \* how long a candidate relies on a vote
    MAXSKEW,     \* largest difference between two servers' clocks
    Skews,       \* the ways in which the servers' clocks may differ
    POLLTIME,    \* a candidate starts at most one collection per POLLTIME
    RPCTIMEOUT,  \* a beacon call that gets no answer fails after RPCTIMEOUT
    MaxDelay,    \* a beacon is voted on within MaxDelay, or it is lost
    BootAge,     \* how long ago the servers may have started
    NoAddr,      \* 0xffffffff, the address of nobody; higher than any server's
    Forever,     \* 0x7fffffff, later than any time of the model
    MaxTime,     \* bound on time
    MaxCrashes,  \* bound on the number of crashes
    MaxRounds    \* bound on the number of collections all servers start

Voter == Server \ Clone
nServers == Cardinality(Voter)

ASSUME ServerAssumption ==
    /\ IsFiniteSet(Server)
    /\ Server \subseteq Nat \ {0}
    /\ Clone \subseteq Server
    /\ Voter # {}
    /\ NoAddr \in Nat
    /\ \A s \in Server : s < NoAddr

(***************************************************************************)
(* ubik.p.h asks for BIGTIME-SMALLTIME > MAXSKEW; what the election needs  *)
(* is a little less.                                                       *)
(***************************************************************************)
ASSUME TimeAssumption ==
    /\ BIGTIME \in Nat /\ SMALLTIME \in Nat /\ MAXSKEW \in Nat
    /\ BIGTIME + 1 >= SMALLTIME + MAXSKEW
    /\ Skews \subseteq [Server -> 0..MAXSKEW]
    /\ POLLTIME \in Nat \ {0} /\ RPCTIMEOUT \in Nat
    /\ MaxDelay \in Nat /\ MaxTime \in Nat /\ MaxCrashes \in Nat /\ MaxRounds \in Nat
    /\ BootAge \subseteq 0..(BIGTIME + 1)
    /\ Forever \in Nat /\ Forever > MaxTime + MAXSKEW

VARIABLES
    time,          \* real time
    skew,          \* skew[s]: how far the clock of s is ahead of real time
    alive,         \* the servers whose process runs
    crashes,       \* number of crashes so far
    rounds,        \* number of collections started so far
    net,           \* VOTE_Beacon requests that are under way
    \* vote_globals, vote.c
    lastYesTime, lastYesHost, lastYesState, lastYesClaim,
    lowestTime, lowestHost, syncTime, syncHost,
    \* beacon_globals and the beacon thread's locals, beacon.c
    amSyncSite, syncSiteUntil, advertised, round,
    \* history: the host each server last said yes to, whatever crashed since,
    \* and the last site that could act as sync site, with its epoch and the
    \* time of the oldest vote for it
    promised, lastEpoch

voteVars == <<lastYesTime, lastYesHost, lastYesState, lastYesClaim,
              lowestTime, lowestHost, syncTime, syncHost>>
siteVars == <<amSyncSite, syncSiteUntil, advertised>>
vars == <<time, skew, alive, crashes, rounds, net, voteVars, siteVars,
          round, promised, lastEpoch>>

-----------------------------------------------------------------------------
(* Clocks, votes and majorities.                                           *)

\* FT_ApproxTime() on server s
Now(s) == time + skew[s]

\* All processes start with clocks far enough from zero that the zero
\* timestamps of uvote_Init count as expired.
StartTime == BIGTIME + 1

\* The "magic" host, whose vote counts a little more: the lowest voter.
Magic == CHOOSE s \in Voter : \A t \in Voter : s <= t

\* yesVotes of ubeacon_Interact: two for each voter, one more for the magic
\* host, nothing for a clone.
YesVotes(S) == 2 * Cardinality(S \ Clone) + (IF Magic \in S THEN 1 ELSE 0)

HasQuorum(S) == YesVotes(S) > nServers

\* The only voter of a cell is sync site without asking anyone.
Alone(c) == Voter = {c}

\* The beacon thread between two collections: all it keeps is lastWakeupTime.
Idle(start) == [phase |-> "idle", state |-> FALSE, start |-> start,
                asked |-> {}, yes |-> {}, oldest |-> 0]

\* What amSyncSite() answers on c, before it clears the flags.
SyncSite(c) == Alone(c) \/ (amSyncSite[c] /\ Now(c) < syncSiteUntil[c])

\* Mutant: the expiry is reported but the flags stay.
ClearIfExpired_Forgets(c) == UNCHANGED siteVars

(***************************************************************************)
(* amSyncSite() also notices that the votes have expired and then clears   *)
(* ubik_amSyncSite and ubik_syncSiteAdvertised.                            *)
(***************************************************************************)
ClearIfExpired(c) ==
    /\ amSyncSite' = [amSyncSite EXCEPT ![c] = @ /\ SyncSite(c)]
    /\ advertised' = [advertised EXCEPT ![c] = @ /\ (SyncSite(c) \/ ~amSyncSite[c])]
    /\ UNCHANGED syncSiteUntil

-----------------------------------------------------------------------------
(* SVOTE_Beacon, vote.c: server v decides about candidate h.               *)

\* The lowest host v has heard from, h and v itself included.
Lowest(v, h) ==
    LET now == Now(v)
        one == IF /\ h \notin Clone
                  /\ h <= lowestHost[v] \/ lowestTime[v] + BIGTIME < now
               THEN <<now, h>> ELSE <<lowestTime[v], lowestHost[v]>>
    IN  IF v \notin Clone /\ (v <= one[2] \/ one[1] + BIGTIME < now)
        THEN <<now, v>> ELSE one

\* Mutant: the sync site that timed out is replaced by the address of nobody.
Sync_NoAddr(v, h, astate) ==
    IF astate THEN <<Now(v), h>>
    ELSE <<syncTime[v], IF syncTime[v] + BIGTIME < Now(v) THEN NoAddr ELSE syncHost[v]>>

\* The sync site v knows of, after a beacon from h that claims astate.
Sync(v, h, astate) ==
    IF astate THEN <<Now(v), h>>
    ELSE <<syncTime[v], IF syncTime[v] + BIGTIME < Now(v) THEN 0 ELSE syncHost[v]>>

\* "Fast startup if this is the only non-clone": h is v, and v never voted.
FastStart(v, h, astate) ==
    astate /\ lastYesHost[v] = NoAddr /\ h = v /\ Voter \subseteq {v}

\* Mutant: the promise ends a second too early.
Free_Early(v, h) == lastYesTime[v] + BIGTIME <= Now(v) \/ h = lastYesHost[v]

\* A promise to h is no breach of an earlier promise to someone else.
Free(v, h) == lastYesTime[v] + BIGTIME < Now(v) \/ h = lastYesHost[v]

VotesYes(v, h, astate) ==
    /\ \/ astate
       \/ /\ Lowest(v, h)[2] = h
          /\ Sync(v, h, astate)[2] \in {0, h}
    /\ h \notin Clone
    /\ Free(v, h) \/ FastStart(v, h, astate)

SVOTE_Beacon(v, h, astate, astart) ==
    /\ lowestTime' = [lowestTime EXCEPT ![v] = Lowest(v, h)[1]]
    /\ lowestHost' = [lowestHost EXCEPT ![v] = Lowest(v, h)[2]]
    /\ syncTime' = [syncTime EXCEPT ![v] = Sync(v, h, astate)[1]]
    /\ syncHost' = [syncHost EXCEPT ![v] = Sync(v, h, astate)[2]]
    /\ IF VotesYes(v, h, astate)
       THEN /\ lastYesTime' = [lastYesTime EXCEPT ![v] = Now(v)]
            /\ lastYesClaim' = [lastYesClaim EXCEPT ![v] = astart]
            /\ lastYesHost' = [lastYesHost EXCEPT ![v] = h]
            /\ lastYesState' = [lastYesState EXCEPT ![v] = astate]
            /\ promised' = [promised EXCEPT ![v] = h]
       ELSE UNCHANGED <<lastYesTime, lastYesClaim, lastYesHost, lastYesState, promised>>

-----------------------------------------------------------------------------
(* ubeacon_Interact, beacon.c: one collection of votes by candidate c.     *)

ShouldIRun(c) ==
    /\ c \notin Clone
    /\ \/ BIGTIME + lastYesTime[c] < Now(c)
       \/ /\ ~(lastYesState[c] /\ lastYesHost[c] # c)
          /\ ~(lastYesHost[c] < c)

\* Mutant: the newest vote decides about the term.
Count_Newest(r, v, t) ==
    [r EXCEPT !.yes = @ \cup {v},
              !.oldest = IF r.yes = {} \/ t > @ THEN t ELSE @]

\* oldestYesVote and the set of yes votes after v's vote at time t.
Count(r, v, t) ==
    [r EXCEPT !.yes = @ \cup {v},
              !.oldest = IF r.yes = {} \/ t < @ THEN t ELSE @]

(***************************************************************************)
(* The thread wakes up, finds that it should run and sends a beacon to     *)
(* every server that is marked up.  Which servers these are depends on     *)
(* earlier timeouts and on the probes of the recovery thread: any set of   *)
(* servers is possible.  A wakeup at which the thread does not run leaves  *)
(* no trace but a later wakeup time.  A server without any partner never   *)
(* gets here (ubik_singleServer).                                          *)
(***************************************************************************)
StartCollection(c) ==
    /\ c \in alive
    /\ round[c].phase = "idle"
    /\ round[c].start + POLLTIME <= Now(c)
    /\ Server # {c}
    /\ ShouldIRun(c)
    /\ rounds < MaxRounds /\ rounds' = rounds + 1
    /\ ClearIfExpired(c)
    /\ \E up \in SUBSET (Server \ {c}) :
          /\ round' = [round EXCEPT ![c] =
                          [phase |-> "collect", state |-> SyncSite(c), start |-> Now(c),
                           asked |-> up, yes |-> {}, oldest |-> 0]]
          /\ net' = net \cup {[src |-> c, dst |-> v, state |-> SyncSite(c),
                               start |-> Now(c)] : v \in up}
    /\ UNCHANGED <<time, skew, alive, crashes, voteVars, promised, lastEpoch>>

(***************************************************************************)
(* The destination votes on a beacon.  The candidate receives the answer   *)
(* if it still waits for it and the answer is not lost; a beacon whose     *)
(* call timed out may still be voted on, by a server that was slow.        *)
(***************************************************************************)
DeliverBeacon(m) ==
    LET c == m.src
        v == m.dst
        waits == /\ c \in alive
                 /\ round[c].phase = "collect" /\ round[c].start = m.start
                 /\ v \in round[c].asked
        answered == [round[c] EXCEPT !.asked = @ \ {v}]
    IN  /\ v \in alive
        /\ net' = net \ {m}
        /\ SVOTE_Beacon(v, c, m.state, m.start)
        /\ \/ /\ waits
              /\ round' = [round EXCEPT ![c] =
                     IF VotesYes(v, c, m.state) THEN Count(answered, v, Now(v)) ELSE answered]
           \/ UNCHANGED round
        /\ UNCHANGED <<time, skew, alive, crashes, rounds, siteVars, lastEpoch>>

\* The call to v fails; v is marked down.
BeaconTimeout(c, v) ==
    /\ c \in alive
    /\ round[c].phase = "collect" /\ v \in round[c].asked
    /\ Now(c) >= round[c].start + RPCTIMEOUT \/ v \notin alive
    /\ round' = [round EXCEPT ![c].asked = @ \ {v}]
    /\ UNCHANGED <<time, skew, alive, crashes, rounds, net, voteVars, siteVars,
                   promised, lastEpoch>>

(***************************************************************************)
(* All calls have ended.  The thread asks its own voter module for a vote, *)
(* with what amSyncSite() says by now.                                     *)
(***************************************************************************)
OwnVote(c) ==
    LET astate == SyncSite(c)
    IN  /\ c \in alive
        /\ round[c].phase = "collect" /\ round[c].asked = {}
        /\ ClearIfExpired(c)
        /\ SVOTE_Beacon(c, c, astate, round[c].start)
        /\ LET r == [round[c] EXCEPT !.phase = "decide"]
           IN  round' = [round EXCEPT ![c] =
                            IF VotesYes(c, c, astate) THEN Count(r, c, Now(c)) ELSE r]
        /\ UNCHANGED <<time, skew, alive, crashes, rounds, net, lastEpoch>>

(***************************************************************************)
(* The votes are counted.  A sync site extends its term; a new one first   *)
(* has to take the database lock (BecomeSyncSite); a loser steps down.     *)
(***************************************************************************)
Decide(c) ==
    /\ c \in alive
    /\ round[c].phase = "decide"
    /\ \/ /\ HasQuorum(round[c].yes)
          /\ amSyncSite[c]
          /\ syncSiteUntil' = [syncSiteUntil EXCEPT ![c] = round[c].oldest + SMALLTIME]
          /\ advertised' = [advertised EXCEPT ![c] = TRUE]
          /\ round' = [round EXCEPT ![c] = Idle(round[c].start)]
          /\ UNCHANGED amSyncSite
       \/ /\ HasQuorum(round[c].yes)
          /\ ~amSyncSite[c]
          /\ round' = [round EXCEPT ![c].phase = "became"]
          /\ UNCHANGED <<amSyncSite, syncSiteUntil, advertised>>
       \/ /\ ~HasQuorum(round[c].yes)
          /\ amSyncSite' = [amSyncSite EXCEPT ![c] = FALSE]
          /\ advertised' = [advertised EXCEPT ![c] = FALSE]
          /\ round' = [round EXCEPT ![c] = Idle(round[c].start)]
          /\ UNCHANGED syncSiteUntil
    /\ UNCHANGED <<time, skew, alive, crashes, rounds, net, voteVars,
                   promised, lastEpoch>>

BecomeSyncSite(c) ==
    /\ c \in alive
    /\ round[c].phase = "became"
    /\ amSyncSite' = [amSyncSite EXCEPT ![c] = TRUE]
    /\ syncSiteUntil' = [syncSiteUntil EXCEPT ![c] = round[c].oldest + SMALLTIME]
    /\ round' = [round EXCEPT ![c] = Idle(round[c].start)]
    /\ lastEpoch' = IF Now(c) < round[c].oldest + SMALLTIME
                    THEN [site |-> c, epoch |-> Now(c), votes |-> round[c].oldest]
                    ELSE lastEpoch
    /\ UNCHANGED <<time, skew, alive, crashes, rounds, net, voteVars, advertised,
                   promised>>

\* Any caller of ubeacon_AmSyncSite may be the one that notices the expiry.
NoticeExpiry(c) ==
    /\ c \in alive
    /\ amSyncSite[c] /\ ~SyncSite(c)
    /\ ClearIfExpired(c)
    /\ UNCHANGED <<time, skew, alive, crashes, rounds, net, voteVars, round,
                   promised, lastEpoch>>

-----------------------------------------------------------------------------
(* The environment: crashes, restarts and the passing of time.             *)

Crash(s) ==
    /\ s \in alive
    /\ crashes < MaxCrashes
    /\ crashes' = crashes + 1
    /\ alive' = alive \ {s}
    /\ amSyncSite' = [amSyncSite EXCEPT ![s] = FALSE]
    /\ advertised' = [advertised EXCEPT ![s] = FALSE]
    /\ round' = [round EXCEPT ![s] = Idle(0)]
    /\ UNCHANGED <<time, skew, net, rounds, voteVars, syncSiteUntil,
                   promised, lastEpoch>>

\* Mutant: a server that restarts is free to vote at once.
BootYesTime_Zero(s) == 0

\* ubik_lastYesTime after uvote_Init: "pretend we just voted for someone else".
BootYesTime(s) == Now(s)

(***************************************************************************)
(* uvote_Init: the server pretends that it has just voted for someone      *)
(* else; ubeacon_InitServerListCommon: it believes that all servers are up *)
(* and, if it is the only voter, that it is sync site.                     *)
(***************************************************************************)
Restart(s) ==
    /\ s \notin alive
    /\ alive' = alive \cup {s}
    /\ lastYesTime' = [lastYesTime EXCEPT ![s] = BootYesTime(s)]
    /\ lastYesHost' = [lastYesHost EXCEPT ![s] = NoAddr]
    /\ lastYesClaim' = [lastYesClaim EXCEPT ![s] = 0]
    /\ lastYesState' = [lastYesState EXCEPT ![s] = FALSE]
    /\ lowestTime' = [lowestTime EXCEPT ![s] = 0]
    /\ lowestHost' = [lowestHost EXCEPT ![s] = NoAddr]
    /\ syncTime' = [syncTime EXCEPT ![s] = 0]
    /\ syncHost' = [syncHost EXCEPT ![s] = 0]
    /\ amSyncSite' = [amSyncSite EXCEPT ![s] = Alone(s)]
    /\ syncSiteUntil' = [syncSiteUntil EXCEPT ![s] = IF Alone(s) THEN Forever ELSE 0]
    /\ advertised' = [advertised EXCEPT ![s] = Alone(s)]
    /\ UNCHANGED <<time, skew, crashes, rounds, net, round, promised, lastEpoch>>

(***************************************************************************)
(* Time passes, but no beacon call outlives RPCTIMEOUT, and no beacon is   *)
(* voted on more than MaxDelay after it was sent.                          *)
(***************************************************************************)
Tick ==
    /\ time < MaxTime
    /\ \A c \in alive : round[c].phase = "collect" /\ round[c].asked # {}
                            => Now(c) < round[c].start + RPCTIMEOUT
    /\ time' = time + 1
    /\ net' = {m \in net : Now(m.src) < m.start + MaxDelay}
    /\ UNCHANGED <<skew, alive, crashes, rounds, voteVars, siteVars, round,
                   promised, lastEpoch>>

(***************************************************************************)
(* Every server has run uvote_Init; with a long recovery, or with partners *)
(* that do not answer ubeacon_updateUbikNetworkAddress, its beacon thread  *)
(* may start much later.                                                   *)
(***************************************************************************)
Init ==
    /\ time = StartTime
    /\ skew \in Skews
    /\ alive = Server
    /\ crashes = 0 /\ rounds = 0
    /\ net = {}
    /\ \E age \in [Server -> BootAge] :
          lastYesTime = [s \in Server |-> time + skew[s] - age[s]]
    /\ lastYesHost = [s \in Server |-> NoAddr]
    /\ lastYesState = [s \in Server |-> FALSE]
    /\ lastYesClaim = [s \in Server |-> 0]
    /\ lowestTime = [s \in Server |-> 0]
    /\ lowestHost = [s \in Server |-> NoAddr]
    /\ syncTime = [s \in Server |-> 0]
    /\ syncHost = [s \in Server |-> 0]
    /\ amSyncSite = [s \in Server |-> Alone(s)]
    /\ syncSiteUntil = [s \in Server |-> IF Alone(s) THEN Forever ELSE 0]
    /\ advertised = [s \in Server |-> Alone(s)]
    /\ round = [s \in Server |-> Idle(0)]
    /\ promised = [s \in Server |-> NoAddr]
    /\ lastEpoch = [site |-> NoAddr, epoch |-> 0, votes |-> 0]

Next ==
    \/ Tick
    \/ \E c \in Server : \/ StartCollection(c)
                         \/ OwnVote(c)
                         \/ Decide(c)
                         \/ BecomeSyncSite(c)
                         \/ NoticeExpiry(c)
                         \/ Crash(c)
                         \/ Restart(c)
    \/ \E c, v \in Server : BeaconTimeout(c, v)
    \/ \E m \in net : DeliverBeacon(m)

Spec == Init /\ [][Next]_vars

-----------------------------------------------------------------------------
(* What the election promises.                                             *)

Beacon == [src : Server, dst : Server, state : BOOLEAN, start : Nat]
Round == [phase : {"idle", "collect", "decide", "became"}, state : BOOLEAN,
          start : Nat, asked : SUBSET Server, yes : SUBSET Server, oldest : Nat]
Address == Server \cup {NoAddr}

TypeOK ==
    /\ time \in Nat /\ crashes \in Nat /\ rounds \in Nat
    /\ skew \in [Server -> 0..MAXSKEW]
    /\ alive \subseteq Server
    /\ net \subseteq Beacon
    /\ lastYesTime \in [Server -> Nat] /\ lastYesHost \in [Server -> Address]
    /\ lastYesState \in [Server -> BOOLEAN] /\ lastYesClaim \in [Server -> Nat]
    /\ lowestTime \in [Server -> Nat] /\ lowestHost \in [Server -> Address]
    /\ syncTime \in [Server -> Nat] /\ syncHost \in [Server -> Server \cup {0}]
    /\ amSyncSite \in [Server -> BOOLEAN] /\ syncSiteUntil \in [Server -> Nat]
    /\ advertised \in [Server -> BOOLEAN]
    /\ round \in [Server -> Round]
    /\ promised \in [Server -> Address]
    /\ lastEpoch \in [site : Address, epoch : Nat, votes : Nat]

\* No two servers may act as sync site at the same time, whatever messages were
\* lost, delayed or reordered and whoever crashed (amSyncSite(), beacon.c).
AtMostOneSyncSite ==
    \A c, d \in alive : SyncSite(c) /\ SyncSite(d) => c = d

\* Since its vote at time t, v has promised nothing to anyone but c, or c's claim
\* on that vote had already run out when it did.
Kept(v, c, t) ==
    t <= lastYesTime[v] /\ (promised[v] = c \/ t + BIGTIME < lastYesTime[v])

\* A voter remembers at least as late a promise as it ever made, and at most
\* forgets whom it made it to: uvote_Init replaces a crashed server's promise
\* with a fresh one to nobody.
PromiseRemembered ==
    \A v \in Server : /\ lastYesTime[v] <= Now(v)
                      /\ lastYesHost[v] \in {promised[v], NoAddr}

\* Every yes vote a candidate has counted is still kept.
VotesKept ==
    \A c \in Server : \A v \in round[c].yes : Kept(v, c, round[c].oldest)

\* Behind a sync site's term stands a majority, each of which keeps its vote.
TermBacked ==
    \A c \in Server : amSyncSite[c] /\ ~Alone(c) =>
        \E Q \in SUBSET Server : /\ HasQuorum(Q)
                                 /\ \A v \in Q : Kept(v, c, syncSiteUntil[c] - SMALLTIME)

\* Behind the epoch of the last sync site stood a majority, too.
EpochBacked ==
    lastEpoch.site # NoAddr =>
        /\ lastEpoch.site \in Voter
        /\ lastEpoch.epoch <= Now(lastEpoch.site)
        /\ lastEpoch.epoch < lastEpoch.votes + SMALLTIME
        /\ \E Q \in SUBSET Server :
              HasQuorum(Q) /\ \A v \in Q : Kept(v, lastEpoch.site, lastEpoch.votes)

\* A clone is no candidate, a server that is down collects nothing, only the
\* winner of a collection waits for the database lock, and a site that is still
\* sync site in a collection was so at its start.
RoundsConsistent ==
    \A c \in Server :
        /\ amSyncSite[c] \/ round[c].phase # "idle" => c \notin Clone
        /\ round[c].phase = "idle" => round[c].yes = {}
        /\ c \notin alive => round[c].phase = "idle" /\ ~amSyncSite[c]
        /\ round[c].phase = "became" => HasQuorum(round[c].yes)
        /\ amSyncSite[c] /\ round[c].phase \in {"collect", "decide"} => round[c].state

\* The promises of the voters, the votes a candidate counts and the term of a
\* sync site agree, on every server and across crashes (SVOTE_Beacon, uvote_Init,
\* ubeacon_Interact).
PromisesBackTerms ==
    PromiseRemembered /\ VotesKept /\ TermBacked /\ EpochBacked /\ RoundsConsistent

\* The epochs of the sites that could act as sync site never go back, and two
\* different sites never use the same one: database versions, which start with
\* the epoch, are comparable (ubik_epochTime, beacon.c).
EpochsOrdered ==
    [][lastEpoch' # lastEpoch /\ lastEpoch.site # NoAddr =>
          \/ lastEpoch'.epoch > lastEpoch.epoch
          \/ lastEpoch'.site = lastEpoch.site /\ lastEpoch'.epoch = lastEpoch.epoch]_vars

\* A site advertises itself only in a round in which it claimed to be sync site
\* from the start: every yes vote of that round came from a server that knows
\* (ubik_syncSiteAdvertised, beacon.c).
AdvertisedWhenTold ==
    [][\A c \in alive : advertised'[c] /\ ~advertised[c] =>
          round[c].state /\ HasQuorum(round[c].yes)]_vars

-----------------------------------------------------------------------------
(* The election implements UbikSite.                                       *)

\* The server that may act as sync site, and the one whose epoch is the newest.  The
\* only voter of a cell is sync site without an election, and so always the latter.
ActingSite ==
    IF \E c \in alive : SyncSite(c) THEN CHOOSE c \in alive : SyncSite(c) ELSE NoAddr
EpochHolder == IF \E c \in Voter : Alone(c) THEN Magic ELSE lastEpoch.site

Site == INSTANCE UbikSite
            WITH None <- NoAddr, site <- ActingSite, holder <- EpochHolder,
                 epoch <- lastEpoch.epoch

\* Whoever may act as sync site has the newest epoch: a site that was suspended while it
\* counted votes, and goes on with the epoch it has (ubeacon_Interact, "becameSyncSite"),
\* does so only if nobody else has been sync site since.
ElectsSite == Site!SiteSpec

=============================================================================
