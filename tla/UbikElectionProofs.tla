------------------------- MODULE UbikElectionProofs -------------------------
(***************************************************************************)
(* Proofs about the election of the sync site, for any set of servers and  *)
(* clones, any clocks that differ by at most MAXSKEW, and any times with   *)
(* BIGTIME + 1 >= SMALLTIME + MAXSKEW.                                     *)
(***************************************************************************)
EXTENDS UbikElection, FiniteSetTheorems, TLAPS

-----------------------------------------------------------------------------
(* Majorities.                                                             *)

\* Two majorities have a server in common, even if one of them owes its
\* majority to the extra vote of the magic host (ubeacon_Interact, beacon.c).
LEMMA QuorumsMeet ==
    ASSUME NEW P \in SUBSET Server, NEW Q \in SUBSET Server,
           HasQuorum(P), HasQuorum(Q)
    PROVE  P \cap Q # {}
<1> DEFINE A == P \ Clone
           B == Q \ Clone
<1>1. IsFiniteSet(Voter) /\ A \subseteq Voter /\ B \subseteq Voter
    BY ServerAssumption, FS_Subset DEF Voter
<1>2. IsFiniteSet(A) /\ IsFiniteSet(B) /\ IsFiniteSet(A \cup B)
    BY <1>1, FS_Subset, FS_Union
<1>3. /\ Cardinality(A) \in Nat /\ Cardinality(B) \in Nat
      /\ Cardinality(A \cup B) \in Nat /\ Cardinality(Voter) \in Nat
    BY <1>1, <1>2, FS_CardinalityType
<1>4. Cardinality(A \cup B) <= Cardinality(Voter)
    <2>1. A \cup B \subseteq Voter
        BY <1>1
    <2> QED
        BY <2>1, <1>1, FS_Subset
<1>5. SUFFICES ASSUME P \cap Q = {} PROVE FALSE
    OBVIOUS
<1>6. Cardinality(A \cup B) = Cardinality(A) + Cardinality(B)
    <2>1. A \cap B = {}
        BY <1>5
    <2>2. Cardinality(A \cap B) = 0
        BY <2>1, FS_EmptySet
    <2>3. Cardinality(A \cup B) = Cardinality(A) + Cardinality(B) - Cardinality(A \cap B)
        BY <1>2, FS_Union
    <2> QED
        BY <2>2, <2>3, <1>3
<1>7. ~(Magic \in P /\ Magic \in Q)
    BY <1>5
<1>8. /\ 2 * Cardinality(A) + (IF Magic \in P THEN 1 ELSE 0) > Cardinality(Voter)
      /\ 2 * Cardinality(B) + (IF Magic \in Q THEN 1 ELSE 0) > Cardinality(Voter)
    BY DEF HasQuorum, YesVotes, nServers
<1> HIDE DEF A, B
<1> QED
    BY <1>3, <1>4, <1>6, <1>7, <1>8

-----------------------------------------------------------------------------
(* Types.                                                                  *)

\* The values of uvote_Init and ubeacon_InitServerListCommon have the right types.
LEMMA TypeInit == Init => TypeOK
<1> SUFFICES ASSUME Init PROVE TypeOK
    OBVIOUS
<1>1. time \in Nat /\ skew \in [Server -> 0..MAXSKEW]
    BY TimeAssumption DEF Init, StartTime
<1>2. lastYesTime \in [Server -> Nat]
    <2>1. PICK age \in [Server -> BootAge] :
             lastYesTime = [s \in Server |-> time + skew[s] - age[s]]
        BY DEF Init
    <2>2. ASSUME NEW s \in Server PROVE time + skew[s] - age[s] \in Nat
        <3>1. age[s] \in 0..(BIGTIME + 1) /\ time = BIGTIME + 1 /\ skew[s] \in 0..MAXSKEW
            BY <1>1, <2>1, TimeAssumption DEF Init, StartTime
        <3> QED
            BY <3>1, TimeAssumption
    <2> QED
        BY <2>1, <2>2
<1>3. round \in [Server -> Round]
    BY DEF Init, Idle, Round
<1>4. /\ syncSiteUntil \in [Server -> Nat] /\ lastEpoch \in [site : Address, epoch : Nat, votes : Nat]
      /\ promised \in [Server -> Address]
    BY TimeAssumption DEF Init, Address
<1>5. amSyncSite \in [Server -> BOOLEAN] /\ advertised \in [Server -> BOOLEAN]
    BY Zenon DEF Init, Alone
<1>6. /\ crashes \in Nat /\ rounds \in Nat /\ alive \subseteq Server /\ net \subseteq Beacon
      /\ lastYesHost \in [Server -> Address] /\ lastYesState \in [Server -> BOOLEAN]
      /\ lastYesClaim \in [Server -> Nat] /\ lowestTime \in [Server -> Nat]
      /\ lowestHost \in [Server -> Address] /\ syncTime \in [Server -> Nat]
      /\ syncHost \in [Server -> Server \cup {0}]
    BY DEF Init, Address
<1> QED
    BY <1>1, <1>2, <1>3, <1>4, <1>5, <1>6 DEF TypeOK

\* A clock is a natural number.
LEMMA NowType ==
    ASSUME TypeOK, NEW s \in Server
    PROVE  Now(s) \in Nat /\ time <= Now(s) /\ Now(s) <= time + MAXSKEW
<1>1. time \in Nat /\ skew[s] \in 0..MAXSKEW
    BY DEF TypeOK
<1> QED
    BY <1>1, TimeAssumption DEF Now

\* The variables of the voter keep their types (SVOTE_Beacon, vote.c).
LEMMA VoteType ==
    ASSUME TypeOK, NEW v \in Server, NEW h \in Server,
           NEW astate \in BOOLEAN, NEW astart \in Nat, SVOTE_Beacon(v, h, astate, astart)
    PROVE  /\ lastYesTime' \in [Server -> Nat] /\ lastYesHost' \in [Server -> Address]
           /\ lastYesState' \in [Server -> BOOLEAN] /\ lastYesClaim' \in [Server -> Nat]
           /\ lowestTime' \in [Server -> Nat] /\ lowestHost' \in [Server -> Address]
           /\ syncTime' \in [Server -> Nat] /\ syncHost' \in [Server -> Server \cup {0}]
           /\ promised' \in [Server -> Address]
<1>1. Now(v) \in Nat
    BY NowType
<1>2. Lowest(v, h)[1] \in Nat /\ Lowest(v, h)[2] \in Address
    BY <1>1 DEF TypeOK, Lowest, Address
<1>3. Sync(v, h, astate)[1] \in Nat /\ Sync(v, h, astate)[2] \in Server \cup {0}
    BY <1>1 DEF TypeOK, Sync
<1>4. /\ lowestTime' \in [Server -> Nat] /\ lowestHost' \in [Server -> Address]
      /\ syncTime' \in [Server -> Nat] /\ syncHost' \in [Server -> Server \cup {0}]
    BY <1>2, <1>3 DEF TypeOK, SVOTE_Beacon
<1>5. CASE VotesYes(v, h, astate)
    BY <1>1, <1>4, <1>5 DEF TypeOK, SVOTE_Beacon, Address
<1>6. CASE ~VotesYes(v, h, astate)
    BY <1>4, <1>6 DEF TypeOK, SVOTE_Beacon
<1> QED
    BY <1>5, <1>6

\* So do the flags that amSyncSite() clears.
LEMMA ClearType ==
    ASSUME TypeOK, NEW c \in Server, ClearIfExpired(c)
    PROVE  /\ amSyncSite' \in [Server -> BOOLEAN] /\ advertised' \in [Server -> BOOLEAN]
           /\ syncSiteUntil' \in [Server -> Nat]
<1>1. amSyncSite' \in [Server -> BOOLEAN] /\ advertised' \in [Server -> BOOLEAN]
    BY Zenon DEF TypeOK, ClearIfExpired
<1>2. syncSiteUntil' \in [Server -> Nat]
    BY DEF TypeOK, ClearIfExpired
<1> QED
    BY <1>1, <1>2

\* And the record of a collection when a vote is counted.
LEMMA CountType ==
    ASSUME NEW r \in Round, NEW v \in Server, NEW t \in Nat
    PROVE  /\ Count(r, v, t) \in Round
           /\ Count(r, v, t).phase = r.phase /\ Count(r, v, t).state = r.state
           /\ Count(r, v, t).yes = r.yes \cup {v}
           /\ Count(r, v, t).oldest = IF r.yes = {} \/ t < r.oldest THEN t ELSE r.oldest
BY DEF Count, Round

\* Every step of a server, of the network and of the clock keeps the types.
LEMMA TypeNext == TypeOK /\ [Next]_vars => TypeOK'
<1> SUFFICES ASSUME TypeOK, [Next]_vars PROVE TypeOK'
    OBVIOUS
<1> USE DEF voteVars, siteVars
<1>1. ASSUME NEW c \in Server, StartCollection(c) PROVE TypeOK'
    <2>1. Now(c) \in Nat /\ SyncSite(c) \in BOOLEAN
        BY NowType DEF SyncSite, Alone, TypeOK
    <2>2. PICK up \in SUBSET (Server \ {c}) :
             /\ round' = [round EXCEPT ![c] =
                             [phase |-> "collect", state |-> SyncSite(c), start |-> Now(c),
                              asked |-> up, yes |-> {}, oldest |-> 0]]
             /\ net' = net \cup {[src |-> c, dst |-> v, state |-> SyncSite(c),
                                  start |-> Now(c)] : v \in up}
        BY <1>1 DEF StartCollection
    <2>3. round' \in [Server -> Round]
        BY <2>1, <2>2 DEF TypeOK, Round
    <2>4. net' \subseteq Beacon
        BY <2>1, <2>2 DEF TypeOK, Beacon
    <2>5. /\ amSyncSite' \in [Server -> BOOLEAN] /\ advertised' \in [Server -> BOOLEAN]
          /\ syncSiteUntil' \in [Server -> Nat]
        BY <1>1, ClearType DEF StartCollection
    <2> QED
        BY <1>1, <2>3, <2>4, <2>5 DEF StartCollection, TypeOK
<1>2. ASSUME NEW c \in Server, OwnVote(c) PROVE TypeOK'
    <2>1. Now(c) \in Nat /\ SyncSite(c) \in BOOLEAN /\ round[c] \in Round
        BY NowType DEF SyncSite, Alone, TypeOK
    <2>2. round[c].start \in Nat
        BY <2>1 DEF Round
    <2>3. SVOTE_Beacon(c, c, SyncSite(c), round[c].start)
        BY <1>2 DEF OwnVote
    <2>4. [round[c] EXCEPT !.phase = "decide"] \in Round
        BY <2>1 DEF Round
    <2>5. round' \in [Server -> Round]
        BY <1>2, <2>1, <2>4, CountType DEF OwnVote, TypeOK
    <2>6. /\ amSyncSite' \in [Server -> BOOLEAN] /\ advertised' \in [Server -> BOOLEAN]
          /\ syncSiteUntil' \in [Server -> Nat]
        BY <1>2, ClearType DEF OwnVote
    <2> QED
        BY <1>2, <2>1, <2>2, <2>3, <2>5, <2>6, VoteType DEF OwnVote, TypeOK
<1>3. ASSUME NEW c \in Server, Decide(c) PROVE TypeOK'
    <2>1. round[c] \in Round /\ round[c].start \in Nat /\ round[c].oldest + SMALLTIME \in Nat
        BY TimeAssumption DEF TypeOK, Round
    <2>2. Idle(round[c].start) \in Round /\ [round[c] EXCEPT !.phase = "became"] \in Round
        BY <2>1 DEF Round, Idle
    <2>3. round' \in [Server -> Round]
        <3>1. \/ round' = [round EXCEPT ![c] = Idle(round[c].start)]
              \/ round' = [round EXCEPT ![c] = [round[c] EXCEPT !.phase = "became"]]
            BY <1>3 DEF Decide
        <3> QED
            BY <3>1, <2>2 DEF TypeOK
    <2>4. syncSiteUntil' \in [Server -> Nat]
        BY <1>3, <2>1 DEF Decide, TypeOK
    <2>5. amSyncSite' \in [Server -> BOOLEAN] /\ advertised' \in [Server -> BOOLEAN]
        BY <1>3 DEF Decide, TypeOK
    <2> QED
        BY <1>3, <2>3, <2>4, <2>5 DEF Decide, TypeOK
<1>4. ASSUME NEW c \in Server, BecomeSyncSite(c) PROVE TypeOK'
    <2>1. /\ round[c] \in Round /\ round[c].start \in Nat /\ round[c].oldest \in Nat
          /\ round[c].oldest + SMALLTIME \in Nat /\ Now(c) \in Nat
        BY TimeAssumption, NowType DEF TypeOK, Round
    <2>2. round' \in [Server -> Round]
        BY <1>4, <2>1 DEF BecomeSyncSite, TypeOK, Round, Idle
    <2>3. lastEpoch' \in [site : Address, epoch : Nat, votes : Nat]
        BY <1>4, <2>1 DEF BecomeSyncSite, TypeOK, Address
    <2> QED
        BY <1>4, <2>1, <2>2, <2>3 DEF BecomeSyncSite, TypeOK
<1>5. ASSUME NEW c \in Server, NoticeExpiry(c) PROVE TypeOK'
    <2>1. /\ amSyncSite' \in [Server -> BOOLEAN] /\ advertised' \in [Server -> BOOLEAN]
          /\ syncSiteUntil' \in [Server -> Nat]
        BY <1>5, ClearType DEF NoticeExpiry
    <2> QED
        BY <1>5, <2>1 DEF NoticeExpiry, TypeOK
<1>6. ASSUME NEW s \in Server, Crash(s) PROVE TypeOK'
    <2>1. round' \in [Server -> Round]
        BY <1>6 DEF Crash, TypeOK, Round, Idle
    <2> QED
        BY <1>6, <2>1 DEF Crash, TypeOK
<1>7. ASSUME NEW s \in Server, Restart(s) PROVE TypeOK'
    <2>1. BootYesTime(s) \in Nat
        BY NowType DEF BootYesTime
    <2>2. amSyncSite' \in [Server -> BOOLEAN] /\ advertised' \in [Server -> BOOLEAN]
        BY <1>7, Zenon DEF Restart, TypeOK, Alone
    <2>3. syncSiteUntil' \in [Server -> Nat]
        BY <1>7, TimeAssumption DEF Restart, TypeOK
    <2> QED
        BY <1>7, <2>1, <2>2, <2>3 DEF Restart, TypeOK, Address
<1>8. ASSUME NEW c \in Server, NEW v \in Server, BeaconTimeout(c, v) PROVE TypeOK'
    <2>1. round' \in [Server -> Round]
        <3>0. round[c] \in Round
            BY DEF TypeOK
        <3>1. [round[c] EXCEPT !.asked = @ \ {v}] \in Round
            BY <3>0 DEF Round
        <3>2. round' = [round EXCEPT ![c] = [round[c] EXCEPT !.asked = @ \ {v}]]
            BY <1>8 DEF BeaconTimeout
        <3> QED
            BY <3>1, <3>2 DEF TypeOK
    <2> QED
        BY <1>8, <2>1 DEF BeaconTimeout, TypeOK
<1>9. ASSUME NEW m \in net, DeliverBeacon(m) PROVE TypeOK'
    <2>1. m.src \in Server /\ m.dst \in Server /\ m.state \in BOOLEAN /\ m.start \in Nat
        BY DEF TypeOK, Beacon
    <2>2. SVOTE_Beacon(m.dst, m.src, m.state, m.start)
        BY <1>9 DEF DeliverBeacon
    <2>3. round[m.src] \in Round /\ Now(m.dst) \in Nat
        BY <2>1, NowType DEF TypeOK
    <2>4. [round[m.src] EXCEPT !.asked = @ \ {m.dst}] \in Round
        BY <2>3 DEF Round
    <2>5. round' \in [Server -> Round]
        <3> DEFINE answered == [round[m.src] EXCEPT !.asked = @ \ {m.dst}]
        <3>1. Count(answered, m.dst, Now(m.dst)) \in Round
            BY <2>1, <2>3, <2>4, CountType
        <3>2. \/ round' = [round EXCEPT ![m.src] = Count(answered, m.dst, Now(m.dst))]
              \/ round' = [round EXCEPT ![m.src] = answered]
              \/ round' = round
            BY <1>9 DEF DeliverBeacon
        <3> QED
            BY <2>4, <3>1, <3>2 DEF TypeOK
    <2>6. net' \subseteq Beacon /\ time' \in Nat
        BY <1>9 DEF DeliverBeacon, TypeOK
    <2> QED
        BY <1>9, <2>1, <2>2, <2>5, <2>6, VoteType DEF DeliverBeacon, TypeOK
<1>10. CASE Tick
    BY <1>10 DEF Tick, TypeOK
<1>11. CASE UNCHANGED vars
    BY <1>11 DEF vars, TypeOK
<1> QED
    BY <1>1, <1>2, <1>3, <1>4, <1>5, <1>6, <1>7, <1>8, <1>9, <1>10, <1>11 DEF Next

\* Every variable keeps its type, whatever happens.
THEOREM TypeCorrect == Spec => []TypeOK
BY TypeInit, TypeNext, PTL DEF Spec

-----------------------------------------------------------------------------
(* Votes are kept.                                                         *)

\* A vote that is kept counts as an earlier one, too.
LEMMA KeptEarlier ==
    ASSUME TypeOK, NEW v \in Server, NEW c, NEW t \in Int, NEW u \in Int,
           u <= t, Kept(v, c, t)
    PROVE  Kept(v, c, u)
<1>1. lastYesTime[v] \in Nat
    BY DEF TypeOK
<1> QED
    BY <1>1, TimeAssumption DEF Kept

\* The step breaks no vote.
AllKept == \A c \in Voter, w \in Server : \A t \in Int : Kept(w, c, t) => Kept(w, c, t)'

\* A step of the voter breaks no vote: it votes for someone else only when the
\* old promise has run out or was forgotten in a crash (SVOTE_Beacon, vote.c).
LEMMA VoteKeeps ==
    ASSUME TypeOK, PromiseRemembered, NEW v \in Server, NEW h \in Server,
           NEW astate, NEW astart, SVOTE_Beacon(v, h, astate, astart), UNCHANGED <<time, skew>>
    PROVE  /\ AllKept
           /\ PromiseRemembered'
           /\ VotesYes(v, h, astate) => lastYesTime'[v] = Now(v) /\ promised'[v] = h
<1>1. /\ \A s \in Server : lastYesTime[s] \in Nat /\ Now(s) \in Nat
      /\ lastYesTime[v] <= Now(v) /\ lastYesHost[v] \in {promised[v], NoAddr}
    BY NowType DEF TypeOK, PromiseRemembered
<1>2. \A s \in Server : Now(s)' = Now(s)
    BY DEF Now
<1>3. CASE ~VotesYes(v, h, astate)
    <2>1. UNCHANGED <<lastYesTime, lastYesHost, promised>>
        BY <1>3 DEF SVOTE_Beacon
    <2> QED
        BY <1>2, <1>3, <2>1 DEF AllKept, Kept, PromiseRemembered
<1>4. CASE VotesYes(v, h, astate)
    <2>1. /\ lastYesTime' = [lastYesTime EXCEPT ![v] = Now(v)]
          /\ lastYesHost' = [lastYesHost EXCEPT ![v] = h]
          /\ promised' = [promised EXCEPT ![v] = h]
        BY <1>4 DEF SVOTE_Beacon
    <2>2. lastYesTime'[v] = Now(v) /\ lastYesHost'[v] = h /\ promised'[v] = h
        BY <2>1 DEF TypeOK
    <2>3. \A w \in Server \ {v} : /\ lastYesTime'[w] = lastYesTime[w]
                                  /\ lastYesHost'[w] = lastYesHost[w]
                                  /\ promised'[w] = promised[w]
        BY <2>1 DEF TypeOK
    <2>4. PromiseRemembered'
        BY <1>1, <1>2, <2>2, <2>3 DEF PromiseRemembered
    <2>5. ASSUME NEW c \in Voter, NEW w \in Server, NEW t \in Int, Kept(w, c, t)
          PROVE  Kept(w, c, t)'
        <3>1. CASE w # v
            BY <2>3, <2>5, <3>1 DEF Kept
        <3>2. CASE w = v /\ h = c
            BY <1>1, <2>2, <2>5, <3>2 DEF Kept
        <3>3. CASE w = v /\ h # c
            <4>1. Free(v, h) \/ FastStart(v, h, astate)
                BY <1>4 DEF VotesYes
            <4>2. ~FastStart(v, h, astate)
                BY <3>3 DEF FastStart
            <4>3. t + BIGTIME < Now(v)
                <5>1. CASE lastYesTime[v] + BIGTIME < Now(v)
                    BY <1>1, <2>5, <3>3, <5>1, TimeAssumption DEF Kept
                <5>2. CASE h = lastYesHost[v]
                    <6>1. h # NoAddr
                        BY ServerAssumption
                    <6>2. promised[v] # c
                        BY <1>1, <3>3, <5>2, <6>1
                    <6> QED
                        BY <1>1, <2>5, <3>3, <6>2, TimeAssumption DEF Kept
                <5> QED
                    BY <4>1, <4>2, <5>1, <5>2 DEF Free
            <4> QED
                BY <1>1, <2>2, <3>3, <4>3, TimeAssumption DEF Kept
        <3> QED
            BY <3>1, <3>2, <3>3
    <2> QED
        BY <2>2, <2>4, <2>5 DEF AllKept
<1> QED
    BY <1>3, <1>4

\* A step that leaves the voters alone breaks no vote.
LEMMA VotersUnchanged ==
    ASSUME TypeOK, PromiseRemembered,
           UNCHANGED <<skew, lastYesTime, lastYesHost, promised>>,
           time' \in Nat, time <= time'
    PROVE  AllKept /\ PromiseRemembered'
<1>1. \A s \in Server : /\ lastYesTime[s] \in Nat /\ skew[s] \in Nat /\ time \in Nat
    BY TimeAssumption DEF TypeOK
<1>2. AllKept
    BY DEF AllKept, Kept
<1>3. PromiseRemembered'
    BY <1>1 DEF PromiseRemembered, Now
<1> QED
    BY <1>2, <1>3

\* What a step has to leave alone for the votes of the collections to be kept ...
LEMMA RoundsKeep ==
    ASSUME TypeOK, VotesKept, RoundsConsistent, AllKept, NEW c \in Server,
           round'[c].yes \subseteq round[c].yes, round'[c].oldest = round[c].oldest
    PROVE  \A v \in round'[c].yes : Kept(v, c, round[c].oldest)'
<1>1. round[c] \in Round
    BY DEF TypeOK
<1>2. round[c].yes \subseteq Server /\ round[c].oldest \in Int
    BY <1>1 DEF Round
<1>3. SUFFICES ASSUME NEW v \in round'[c].yes PROVE Kept(v, c, round[c].oldest)'
    OBVIOUS
<1>4. c \in Voter /\ v \in Server
    BY <1>2 DEF RoundsConsistent, Voter
<1>5. Kept(v, c, round[c].oldest)
    BY DEF VotesKept
<1> QED
    BY <1>2, <1>4, <1>5 DEF AllKept

\* ... those behind a sync site's term ...
LEMMA TermKeeps ==
    ASSUME TypeOK, TermBacked, RoundsConsistent, AllKept, NEW c \in Server,
           amSyncSite'[c] => amSyncSite[c], syncSiteUntil'[c] = syncSiteUntil[c]
    PROVE  amSyncSite'[c] /\ ~Alone(c) =>
              \E Q \in SUBSET Server :
                 HasQuorum(Q) /\ \A v \in Q : Kept(v, c, syncSiteUntil[c] - SMALLTIME)'
<1>1. SUFFICES ASSUME amSyncSite'[c], ~Alone(c)
               PROVE \E Q \in SUBSET Server :
                 HasQuorum(Q) /\ \A v \in Q : Kept(v, c, syncSiteUntil[c] - SMALLTIME)'
    OBVIOUS
<1>2. PICK Q \in SUBSET Server :
         HasQuorum(Q) /\ \A v \in Q : Kept(v, c, syncSiteUntil[c] - SMALLTIME)
    BY <1>1 DEF TermBacked
<1>3. c \in Voter /\ syncSiteUntil[c] - SMALLTIME \in Int
    BY <1>1, TimeAssumption DEF TypeOK, RoundsConsistent, Voter
<1>4. \A v \in Q : Kept(v, c, syncSiteUntil[c] - SMALLTIME)'
    BY <1>2, <1>3 DEF AllKept
<1> QED
    BY <1>2, <1>4

\* ... and those behind the last epoch.
LEMMA EpochKeeps ==
    ASSUME TypeOK, EpochBacked, AllKept, UNCHANGED <<lastEpoch, skew>>,
           time' \in Nat, time <= time'
    PROVE  EpochBacked'
<1>1. SUFFICES ASSUME lastEpoch.site # NoAddr PROVE EpochBacked'
    BY DEF EpochBacked
<1>2. lastEpoch.site \in Voter /\ lastEpoch.epoch \in Nat /\ lastEpoch.votes \in Int
    BY <1>1 DEF TypeOK, EpochBacked
<1>3. PICK Q \in SUBSET Server :
         HasQuorum(Q) /\ \A v \in Q : Kept(v, lastEpoch.site, lastEpoch.votes)
    BY <1>1 DEF EpochBacked
<1>4. \A v \in Q : Kept(v, lastEpoch.site, lastEpoch.votes)'
    BY <1>2, <1>3 DEF AllKept
<1>5. lastEpoch.epoch <= Now(lastEpoch.site)'
    <2>1. time \in Nat /\ skew[lastEpoch.site] \in Nat
        BY <1>2, TimeAssumption DEF TypeOK, Voter
    <2> QED
        BY <1>1, <1>2, <2>1 DEF EpochBacked, Now
<1> QED
    BY <1>1, <1>2, <1>3, <1>4, <1>5 DEF EpochBacked

\* A vote that is counted joins those that are kept, at the time of the oldest.
LEMMA CountKeeps ==
    ASSUME TypeOK, TypeOK', VotesKept, RoundsConsistent, AllKept,
           NEW c \in Voter, NEW v \in Server, NEW r \in Round,
           r.yes = round[c].yes, r.oldest = round[c].oldest,
           lastYesTime'[v] = Now(v), promised'[v] = c,
           round' = [round EXCEPT ![c] = Count(r, v, Now(v))]
    PROVE  \A w \in round'[c].yes : Kept(w, c, round[c].oldest)'
<1>1. c \in Server /\ round[c] \in Round /\ Now(v) \in Nat
    BY NowType DEF Voter, TypeOK
<1>0. /\ round'[c] = Count(r, v, Now(v))
      /\ round[c].oldest \in Nat /\ round[c].yes \subseteq Server
    BY <1>1 DEF TypeOK, Round
<1>2. /\ round'[c].yes = round[c].yes \cup {v}
      /\ round'[c].oldest \in Nat /\ round'[c].oldest <= Now(v)
      /\ round[c].yes # {} => round'[c].oldest <= round[c].oldest
      /\ round[c].oldest \in Nat /\ round[c].yes \subseteq Server
    <2>1. /\ round'[c].yes = r.yes \cup {v}
          /\ round'[c].oldest = IF r.yes = {} \/ Now(v) < r.oldest THEN Now(v) ELSE r.oldest
        <3>1. /\ Count(r, v, Now(v)).yes = r.yes \cup {v}
              /\ Count(r, v, Now(v)).oldest =
                    IF r.yes = {} \/ Now(v) < r.oldest THEN Now(v) ELSE r.oldest
            BY <1>1, CountType
        <3> QED
            BY <1>0, <3>1
    <2> QED
        BY <1>0, <1>1, <2>1
<1>3. SUFFICES ASSUME NEW w \in round'[c].yes PROVE Kept(w, c, round[c].oldest)'
    OBVIOUS
<1>4. CASE w = v
    BY <1>2, <1>4 DEF Kept
<1>5. CASE w \in round[c].yes
    <2>1. Kept(w, c, round[c].oldest)
        BY <1>1, <1>5 DEF VotesKept
    <2>2. round'[c].oldest <= round[c].oldest /\ w \in Server
        BY <1>2, <1>5
    <2>3. Kept(w, c, round'[c].oldest)
        BY <1>2, <2>1, <2>2, KeptEarlier
    <2> QED
        BY <1>2, <2>2, <2>3 DEF AllKept
<1> QED
    BY <1>2, <1>4, <1>5

-----------------------------------------------------------------------------
(* The inductive invariant.                                                *)

\* The inductive invariant: types, and promises that agree with votes and terms.
IInv == TypeOK /\ PromisesBackTerms

\* Servers that have just started (uvote_Init) have promised and won nothing.
LEMMA IInvInit == Init => IInv
<1> SUFFICES ASSUME Init PROVE IInv
    OBVIOUS
<1>1. TypeOK
    BY TypeInit
<1>2. PromiseRemembered
    <2>1. PICK age \in [Server -> BootAge] :
             lastYesTime = [s \in Server |-> time + skew[s] - age[s]]
        BY DEF Init
    <2>2. ASSUME NEW s \in Server PROVE lastYesTime[s] <= Now(s)
        <3>1. lastYesTime[s] = time + skew[s] - age[s]
            BY <2>1
        <3>2. age[s] \in 0..(BIGTIME + 1) /\ time \in Nat /\ skew[s] \in 0..MAXSKEW
            BY <1>1, TimeAssumption DEF TypeOK
        <3> QED
            BY <3>1, <3>2, TimeAssumption DEF Now
    <2> QED
        BY <2>2 DEF Init, PromiseRemembered
<1>3. VotesKept
    BY DEF Init, VotesKept, Idle
<1>4. TermBacked
    BY DEF Init, TermBacked
<1>5. EpochBacked
    BY DEF Init, EpochBacked
<1>6. RoundsConsistent
    BY DEF Init, RoundsConsistent, Idle, Alone, Voter
<1> QED
    BY <1>1, <1>2, <1>3, <1>4, <1>5, <1>6 DEF IInv, PromisesBackTerms

\* Every step preserves the invariant.  A collection that counts a vote, a site
\* that wins and a server that restarts are the cases with work in them.
LEMMA IInvNext == IInv /\ [Next]_vars => IInv'
<1> SUFFICES ASSUME IInv, [Next]_vars PROVE IInv'
    OBVIOUS
<1>0. /\ TypeOK /\ TypeOK'
      /\ PromiseRemembered /\ VotesKept /\ TermBacked /\ EpochBacked /\ RoundsConsistent
    BY TypeNext DEF IInv, PromisesBackTerms
<1> USE DEF voteVars, siteVars
<1> USE <1>0
\* What remains to be shown of a step that breaks no vote.
<1>a. ASSUME AllKept, PromiseRemembered', EpochBacked', RoundsConsistent', VotesKept',
             TermBacked'
      PROVE  IInv'
    BY <1>a DEF IInv, PromisesBackTerms
<1>1. ASSUME NEW c \in Server, StartCollection(c) PROVE IInv'
    <2>1. UNCHANGED <<time, skew, lastYesTime, lastYesHost, promised, lastEpoch, syncSiteUntil, alive>>
        BY <1>1 DEF StartCollection, ClearIfExpired
    <2>2. AllKept /\ PromiseRemembered' /\ EpochBacked'
        BY <2>1, VotersUnchanged, EpochKeeps DEF TypeOK
    <2>3. PICK up \in SUBSET (Server \ {c}) :
             round' = [round EXCEPT ![c] =
                         [phase |-> "collect", state |-> SyncSite(c), start |-> Now(c),
                          asked |-> up, yes |-> {}, oldest |-> 0]]
        BY <1>1 DEF StartCollection
    <2>4. /\ round'[c].yes = {} /\ round'[c].phase = "collect" /\ round'[c].state = SyncSite(c)
          /\ \A d \in Server \ {c} : round'[d] = round[d]
        BY <2>3 DEF TypeOK
    <2>5. VotesKept'
        BY <2>2, <2>4, RoundsKeep DEF VotesKept
    <2>6. /\ \A d \in Server : amSyncSite'[d] => amSyncSite[d]
          /\ amSyncSite'[c] => SyncSite(c)
        BY <1>1 DEF StartCollection, ClearIfExpired, TypeOK
    <2>7. TermBacked'
        BY <2>1, <2>2, <2>6, TermKeeps DEF TermBacked
    <2>8. RoundsConsistent'
        BY <1>1, <2>1, <2>4, <2>6 DEF StartCollection, ShouldIRun, RoundsConsistent
    <2> QED
        BY <1>a, <2>2, <2>5, <2>7, <2>8
<1>2. ASSUME NEW c \in Server, OwnVote(c) PROVE IInv'
    <2> DEFINE r == [round[c] EXCEPT !.phase = "decide"]
    <2>1. /\ UNCHANGED <<time, skew, lastEpoch, syncSiteUntil, alive>>
          /\ SVOTE_Beacon(c, c, SyncSite(c), round[c].start)
        BY <1>2 DEF OwnVote, ClearIfExpired
    <2>2. AllKept /\ PromiseRemembered' /\ EpochBacked'
        BY <2>1, VoteKeeps, EpochKeeps DEF TypeOK
    <2>3. /\ c \in Voter /\ c \in alive /\ round[c].phase = "collect" /\ round[c] \in Round
        BY <1>2 DEF OwnVote, RoundsConsistent, Voter, TypeOK
    <2>4. /\ r \in Round /\ r.yes = round[c].yes /\ r.oldest = round[c].oldest
          /\ r.phase = "decide" /\ r.state = round[c].state
        BY <2>3 DEF Round
    <2>5. \/ /\ VotesYes(c, c, SyncSite(c))
             /\ round' = [round EXCEPT ![c] = Count(r, c, Now(c))]
          \/ round' = [round EXCEPT ![c] = r]
        BY <1>2 DEF OwnVote
    <2>6. /\ \A d \in Server \ {c} : round'[d] = round[d]
          /\ round'[c].phase = "decide" /\ round'[c].state = round[c].state
        <3>1. /\ Count(r, c, Now(c)).phase = r.phase
              /\ Count(r, c, Now(c)).state = r.state
            BY <2>4, NowType, CountType
        <3> HIDE DEF r
        <3> QED
            BY <2>4, <2>5, <3>1 DEF TypeOK
    <2>7. VotesKept'
        <3>1. \A w \in round'[c].yes : Kept(w, c, round[c].oldest)'
            <4>1. CASE /\ VotesYes(c, c, SyncSite(c))
                       /\ round' = [round EXCEPT ![c] = Count(r, c, Now(c))]
                <5>1. lastYesTime'[c] = Now(c) /\ promised'[c] = c
                    BY <2>1, <4>1, VoteKeeps
                <5> HIDE DEF r
                <5> QED
                    BY <2>2, <2>3, <2>4, <4>1, <5>1, CountKeeps
            <4>2. CASE round' = [round EXCEPT ![c] = r]
                <5>1. round'[c].yes = round[c].yes /\ round'[c].oldest = round[c].oldest
                    BY <2>4, <4>2 DEF TypeOK
                <5> QED
                    BY <2>2, <5>1, RoundsKeep
            <4> QED
                BY <2>5, <4>1, <4>2
        <3> QED
            BY <2>2, <2>6, <3>1, RoundsKeep DEF VotesKept
    <2>8. \A d \in Server : amSyncSite'[d] => amSyncSite[d]
        BY <1>2 DEF OwnVote, ClearIfExpired, TypeOK
    <2>9. TermBacked'
        BY <2>1, <2>2, <2>8, TermKeeps DEF TermBacked
    <2>10. RoundsConsistent'
        BY <2>1, <2>3, <2>6, <2>8 DEF RoundsConsistent, Voter
    <2> QED
        BY <1>a, <2>2, <2>7, <2>9, <2>10
<1>3. ASSUME NEW c \in Server, Decide(c) PROVE IInv'
    <2>1. UNCHANGED <<time, skew, lastYesTime, lastYesHost, promised, lastEpoch, alive>>
        BY <1>3 DEF Decide
    <2>2. AllKept /\ PromiseRemembered' /\ EpochBacked'
        BY <2>1, VotersUnchanged, EpochKeeps DEF TypeOK
    <2>3. /\ c \in Voter /\ round[c].phase = "decide" /\ c \in alive
          /\ round[c] \in Round
          /\ round[c].yes \in SUBSET Server /\ round[c].oldest \in Nat
        BY <1>3 DEF Decide, RoundsConsistent, Voter, TypeOK, Round
    <2>4. /\ \A d \in Server \ {c} : /\ round'[d] = round[d] /\ amSyncSite'[d] = amSyncSite[d]
                                     /\ syncSiteUntil'[d] = syncSiteUntil[d]
          /\ \/ round'[c].phase = "idle" /\ round'[c].yes = {}
             \/ /\ round'[c].phase = "became" /\ round'[c].yes = round[c].yes
                /\ round'[c].oldest = round[c].oldest
                /\ HasQuorum(round[c].yes) /\ ~amSyncSite'[c]
        BY <1>3, <2>3 DEF Decide, TypeOK, Idle, Round
    <2>5. VotesKept'
        BY <2>2, <2>4, RoundsKeep DEF VotesKept
    <2>6. TermBacked'
        <3>1. ASSUME amSyncSite'[c]
              PROVE  /\ HasQuorum(round[c].yes)
                     /\ syncSiteUntil'[c] = round[c].oldest + SMALLTIME
            BY <1>3, <3>1 DEF Decide, TypeOK
        <3>2. \A v \in round[c].yes : Kept(v, c, round[c].oldest)
            BY DEF VotesKept
        <3>3. ASSUME amSyncSite'[c], NEW v \in round[c].yes
              PROVE  Kept(v, c, syncSiteUntil[c] - SMALLTIME)'
            <4>1. syncSiteUntil'[c] - SMALLTIME = round[c].oldest
                BY <2>3, <3>1, <3>3, TimeAssumption
            <4>2. lastYesTime'[v] = lastYesTime[v] /\ promised'[v] = promised[v]
                BY <2>1
            <4> QED
                BY <3>2, <4>1, <4>2 DEF Kept
        <3>4. ASSUME NEW d \in Server \ {c}, amSyncSite'[d], ~Alone(d)
              PROVE  \E Q \in SUBSET Server :
                        HasQuorum(Q) /\ \A v \in Q : Kept(v, d, syncSiteUntil[d] - SMALLTIME)'
            BY <2>2, <2>4, <3>4, TermKeeps
        <3> QED
            BY <2>3, <3>1, <3>3, <3>4 DEF TermBacked
    <2>7. RoundsConsistent'
        BY <2>1, <2>3, <2>4 DEF RoundsConsistent, Voter
    <2> QED
        BY <1>a, <2>2, <2>5, <2>6, <2>7
<1>4. ASSUME NEW c \in Server, BecomeSyncSite(c) PROVE IInv'
    <2>1. UNCHANGED <<time, skew, lastYesTime, lastYesHost, promised, alive>>
        BY <1>4 DEF BecomeSyncSite
    <2>2. AllKept /\ PromiseRemembered'
        BY <2>1, VotersUnchanged DEF TypeOK
    <2>3. /\ c \in Voter /\ round[c].phase = "became" /\ c \in alive
          /\ round[c] \in Round
          /\ round[c].yes \in SUBSET Server /\ round[c].oldest \in Nat
          /\ HasQuorum(round[c].yes)
        BY <1>4 DEF BecomeSyncSite, RoundsConsistent, Voter, TypeOK, Round
    <2>4. /\ \A d \in Server \ {c} : /\ round'[d] = round[d] /\ amSyncSite'[d] = amSyncSite[d]
                                     /\ syncSiteUntil'[d] = syncSiteUntil[d]
          /\ round'[c].phase = "idle" /\ round'[c].yes = {}
          /\ syncSiteUntil'[c] = round[c].oldest + SMALLTIME
        BY <1>4, <2>3 DEF BecomeSyncSite, TypeOK, Idle
    <2>5. VotesKept'
        BY <2>2, <2>4, RoundsKeep DEF VotesKept
    <2>6. \A v \in round[c].yes : Kept(v, c, round[c].oldest) /\ v \in Server
        BY <2>3 DEF VotesKept
    <2>7. TermBacked'
        <3>1. ASSUME NEW v \in round[c].yes
              PROVE  Kept(v, c, syncSiteUntil[c] - SMALLTIME)'
            <4>1. syncSiteUntil'[c] - SMALLTIME = round[c].oldest
                BY <2>3, <2>4, TimeAssumption
            <4>2. lastYesTime'[v] = lastYesTime[v] /\ promised'[v] = promised[v]
                BY <2>1
            <4> QED
                BY <2>6, <4>1, <4>2 DEF Kept
        <3>2. ASSUME NEW d \in Server \ {c}, amSyncSite'[d], ~Alone(d)
              PROVE  \E Q \in SUBSET Server :
                        HasQuorum(Q) /\ \A v \in Q : Kept(v, d, syncSiteUntil[d] - SMALLTIME)'
            BY <2>2, <2>4, <3>2, TermKeeps
        <3> QED
            BY <2>3, <3>1, <3>2 DEF TermBacked
    <2>8. EpochBacked'
        <3>1. CASE Now(c) < round[c].oldest + SMALLTIME
            <4>1. /\ lastEpoch' = [site |-> c, epoch |-> Now(c), votes |-> round[c].oldest]
                  /\ Now(c)' = Now(c)
                BY <1>4, <2>1, <3>1 DEF BecomeSyncSite, Now
            <4>2. \A v \in round[c].yes : Kept(v, lastEpoch.site, lastEpoch.votes)'
                BY <2>2, <2>3, <2>6, <4>1 DEF AllKept
            <4>3. Now(c) \in Nat
                BY NowType
            <4> QED
                BY <2>3, <3>1, <4>1, <4>2, <4>3 DEF EpochBacked
        <3>2. CASE ~(Now(c) < round[c].oldest + SMALLTIME)
            <4>1. lastEpoch' = lastEpoch
                BY <1>4, <3>2 DEF BecomeSyncSite
            <4> QED
                BY <2>1, <2>2, <4>1, EpochKeeps DEF TypeOK
        <3> QED
            BY <3>1, <3>2
    <2>9. RoundsConsistent'
        BY <2>1, <2>3, <2>4 DEF RoundsConsistent, Voter
    <2> QED
        BY <1>a, <2>2, <2>5, <2>7, <2>8, <2>9
<1>5. ASSUME NEW c \in Server, NoticeExpiry(c) PROVE IInv'
    <2>1. UNCHANGED <<time, skew, lastYesTime, lastYesHost, promised, lastEpoch, syncSiteUntil, alive, round>>
        BY <1>5 DEF NoticeExpiry, ClearIfExpired
    <2>2. AllKept /\ PromiseRemembered' /\ EpochBacked'
        BY <2>1, VotersUnchanged, EpochKeeps DEF TypeOK
    <2>3. \A d \in Server : amSyncSite'[d] => amSyncSite[d]
        BY <1>5 DEF NoticeExpiry, ClearIfExpired, TypeOK
    <2>4. VotesKept'
        BY <2>1, <2>2, RoundsKeep DEF VotesKept
    <2>5. TermBacked'
        BY <2>1, <2>2, <2>3, TermKeeps DEF TermBacked
    <2>6. RoundsConsistent'
        BY <2>1, <2>3 DEF RoundsConsistent
    <2> QED
        BY <1>a, <2>2, <2>4, <2>5, <2>6
<1>6. ASSUME NEW s \in Server, Crash(s) PROVE IInv'
    <2>1. UNCHANGED <<time, skew, lastYesTime, lastYesHost, promised, lastEpoch, syncSiteUntil>>
        BY <1>6 DEF Crash
    <2>2. AllKept /\ PromiseRemembered' /\ EpochBacked'
        BY <2>1, VotersUnchanged, EpochKeeps DEF TypeOK
    <2>3. /\ \A d \in Server \ {s} : round'[d] = round[d] /\ amSyncSite'[d] = amSyncSite[d]
          /\ ~amSyncSite'[s] /\ round'[s].phase = "idle" /\ round'[s].yes = {}
          /\ alive' = alive \ {s}
        BY <1>6 DEF Crash, TypeOK, Idle
    <2>4. VotesKept'
        BY <2>2, <2>3, RoundsKeep DEF VotesKept
    <2>5. TermBacked'
        BY <2>1, <2>2, <2>3, TermKeeps DEF TermBacked
    <2>6. RoundsConsistent'
        BY <2>3 DEF RoundsConsistent
    <2> QED
        BY <1>a, <2>2, <2>4, <2>5, <2>6
<1>7. ASSUME NEW s \in Server, Restart(s) PROVE IInv'
    <2>1. /\ UNCHANGED <<time, skew, promised, lastEpoch, round>> /\ alive' = alive \cup {s}
          /\ s \notin alive
        BY <1>7 DEF Restart
    <2>2. /\ lastYesTime'[s] = Now(s) /\ lastYesHost'[s] = NoAddr
          /\ \A w \in Server \ {s} : /\ lastYesTime'[w] = lastYesTime[w]
                                     /\ lastYesHost'[w] = lastYesHost[w]
                                     /\ amSyncSite'[w] = amSyncSite[w]
                                     /\ syncSiteUntil'[w] = syncSiteUntil[w]
          /\ amSyncSite'[s] = Alone(s)
        BY <1>7 DEF Restart, TypeOK, BootYesTime
    <2>3. \A w \in Server : Now(w)' = Now(w) /\ Now(w) \in Nat /\ lastYesTime[w] \in Nat
        BY <2>1, NowType DEF Now, TypeOK
    <2>4. PromiseRemembered'
        BY <2>1, <2>2, <2>3 DEF PromiseRemembered
    <2>5. AllKept
        <3>1. lastYesTime[s] <= lastYesTime'[s]
            BY <2>2 DEF PromiseRemembered
        <3>2. ASSUME NEW c \in Voter, NEW w \in Server, NEW t \in Int, Kept(w, c, t)
              PROVE  Kept(w, c, t)'
            BY <2>1, <2>2, <2>3, <3>1, <3>2, TimeAssumption DEF Kept
        <3> QED
            BY <3>2 DEF AllKept
    <2>6. EpochBacked'
        BY <2>1, <2>5, EpochKeeps DEF TypeOK
    <2>7. VotesKept'
        BY <2>1, <2>5, RoundsKeep DEF VotesKept
    <2>8. TermBacked'
        <3>1. amSyncSite'[s] => Alone(s)
            BY <2>2
        <3> QED
            BY <2>2, <2>5, <3>1, TermKeeps DEF TermBacked
    <2>9. RoundsConsistent'
        <3>1. Alone(s) => s \notin Clone
            BY DEF Alone, Voter
        <3> QED
            BY <2>1, <2>2, <3>1 DEF RoundsConsistent
    <2> QED
        BY <1>a, <2>4, <2>5, <2>6, <2>7, <2>8, <2>9
<1>8. ASSUME NEW c \in Server, NEW v \in Server, BeaconTimeout(c, v) PROVE IInv'
    <2>1. UNCHANGED <<time, skew, lastYesTime, lastYesHost, promised, lastEpoch, amSyncSite, syncSiteUntil, alive>>
        BY <1>8 DEF BeaconTimeout
    <2>2. AllKept /\ PromiseRemembered' /\ EpochBacked'
        BY <2>1, VotersUnchanged, EpochKeeps DEF TypeOK
    <2>3. \A d \in Server : /\ round'[d].yes = round[d].yes /\ round'[d].oldest = round[d].oldest
                            /\ round'[d].phase = round[d].phase /\ round'[d].state = round[d].state
        BY <1>8 DEF BeaconTimeout, TypeOK, Round
    <2>4. VotesKept'
        BY <2>2, <2>3, RoundsKeep DEF VotesKept
    <2>5. TermBacked'
        BY <2>1, <2>2, TermKeeps DEF TermBacked
    <2>6. RoundsConsistent'
        BY <2>1, <2>3 DEF RoundsConsistent
    <2> QED
        BY <1>a, <2>2, <2>4, <2>5, <2>6
<1>9. ASSUME NEW m \in net, DeliverBeacon(m) PROVE IInv'
    <2> DEFINE c == m.src
               v == m.dst
               r == [round[c] EXCEPT !.asked = @ \ {v}]
    <2>1. /\ UNCHANGED <<time, skew, lastEpoch, amSyncSite, syncSiteUntil, alive>>
          /\ SVOTE_Beacon(v, c, m.state, m.start)
          /\ c \in Server /\ v \in Server
        BY <1>9 DEF DeliverBeacon, TypeOK, Beacon
    <2>2. AllKept /\ PromiseRemembered' /\ EpochBacked'
        BY <2>1, VoteKeeps, EpochKeeps DEF TypeOK
    <2>3. \/ /\ VotesYes(v, c, m.state) /\ round[c].phase = "collect"
             /\ round' = [round EXCEPT ![c] = Count(r, v, Now(v))]
          \/ /\ round[c].phase = "collect" /\ round' = [round EXCEPT ![c] = r]
          \/ round' = round
        BY <1>9 DEF DeliverBeacon
    <2>4. round[c] \in Round
        BY <2>1 DEF TypeOK
    <2>5. /\ r \in Round /\ r.yes = round[c].yes /\ r.oldest = round[c].oldest
          /\ r.phase = round[c].phase /\ r.state = round[c].state
        BY <2>4 DEF Round
    <2> HIDE DEF r, c, v
    <2>6. CASE round' = round
        <3>1. VotesKept' /\ RoundsConsistent'
            BY <2>1, <2>2, <2>6, RoundsKeep DEF VotesKept, RoundsConsistent
        <3>2. TermBacked'
            BY <2>1, <2>2, TermKeeps DEF TermBacked
        <3> QED
            BY <1>a, <2>2, <3>1, <3>2
    <2>7. CASE round' # round
        <3>1. c \in Voter /\ round[c].phase = "collect"
            BY <2>1, <2>3, <2>7 DEF RoundsConsistent, Voter
        <3>2. /\ \A d \in Server \ {c} : round'[d] = round[d]
              /\ round'[c].phase = "collect" /\ round'[c].state = round[c].state
            <4>1. /\ Count(r, v, Now(v)).phase = r.phase
                  /\ Count(r, v, Now(v)).state = r.state
                BY <2>1, <2>5, NowType, CountType
            <4> QED
                BY <2>1, <2>3, <2>5, <2>7, <4>1 DEF TypeOK
        <3>3. \A w \in round'[c].yes : Kept(w, c, round[c].oldest)'
            <4>1. CASE /\ VotesYes(v, c, m.state)
                       /\ round' = [round EXCEPT ![c] = Count(r, v, Now(v))]
                <5>1. lastYesTime'[v] = Now(v) /\ promised'[v] = c
                    BY <2>1, <4>1, VoteKeeps
                <5> QED
                    BY <2>1, <2>2, <2>5, <3>1, <4>1, <5>1, CountKeeps
            <4>2. CASE round' = [round EXCEPT ![c] = r]
                <5>1. round'[c].yes = round[c].yes /\ round'[c].oldest = round[c].oldest
                    BY <2>1, <2>5, <4>2 DEF TypeOK
                <5> QED
                    BY <2>1, <2>2, <5>1, RoundsKeep
            <4> QED
                BY <2>3, <2>7, <4>1, <4>2
        <3>4. VotesKept'
            BY <2>2, <3>2, <3>3, RoundsKeep DEF VotesKept
        <3>5. TermBacked'
            BY <2>1, <2>2, TermKeeps DEF TermBacked
        <3>6. RoundsConsistent'
            BY <2>1, <3>1, <3>2 DEF RoundsConsistent, Voter
        <3> QED
            BY <1>a, <2>2, <3>4, <3>5, <3>6
    <2> QED
        BY <2>6, <2>7
<1>10. CASE Tick
    <2>1. UNCHANGED <<skew, lastYesTime, lastYesHost, promised, lastEpoch, amSyncSite, syncSiteUntil, alive, round>>
        BY <1>10 DEF Tick
    <2>2. AllKept /\ PromiseRemembered' /\ EpochBacked'
        BY <1>10, <2>1, VotersUnchanged, EpochKeeps DEF TypeOK, Tick
    <2>3. VotesKept' /\ RoundsConsistent'
        BY <2>1, <2>2, RoundsKeep DEF VotesKept, RoundsConsistent
    <2>4. TermBacked'
        BY <2>1, <2>2, TermKeeps DEF TermBacked
    <2> QED
        BY <1>a, <2>2, <2>3, <2>4
<1>11. CASE UNCHANGED vars
    <2>1. /\ PromiseRemembered' /\ VotesKept' /\ TermBacked' /\ EpochBacked' /\ RoundsConsistent'
        BY <1>11 DEF vars, PromiseRemembered, VotesKept, TermBacked, EpochBacked, RoundsConsistent, Kept, Now
    <2> QED
        BY <2>1 DEF IInv, PromisesBackTerms
<1> QED
    BY <1>1, <1>2, <1>3, <1>4, <1>5, <1>6, <1>7, <1>8, <1>9, <1>10, <1>11 DEF Next

-----------------------------------------------------------------------------
(* The results.                                                            *)

\* The invariant holds in every reachable state (IInvInit and IInvNext).
LEMMA IInvCorrect == Spec => []IInv
BY IInvInit, IInvNext, PTL DEF Spec

\* Promises, counted votes and terms agree in every reachable state: the invariant
\* the other results rest on (SVOTE_Beacon, uvote_Init, ubeacon_Interact).
THEOREM PromisesBackTermsCorrect == Spec => []PromisesBackTerms
<1>1. IInv => PromisesBackTerms
    BY DEF IInv
<1> QED
    BY <1>1, IInvCorrect, PTL

\* A vote that someone else has got since is too old to act upon, whatever the
\* clocks: the voter's promise outlasts the candidate's term.
LEMMA LostVoteExpired ==
    ASSUME TypeOK, PromiseRemembered, NEW v \in Server, NEW c \in Server, NEW t \in Int,
           Kept(v, c, t), promised[v] # c
    PROVE  t + SMALLTIME <= Now(c)
<1>1. t + BIGTIME < lastYesTime[v] /\ lastYesTime[v] <= Now(v) /\ lastYesTime[v] \in Nat
    BY DEF Kept, PromiseRemembered, TypeOK
<1>2. Now(v) \in Nat /\ Now(c) \in Nat /\ Now(v) <= time + MAXSKEW /\ time <= Now(c) /\ time \in Nat
    BY NowType DEF TypeOK
<1> QED
    BY <1>1, <1>2, TimeAssumption

\* Two majorities of votes that are still young enough to act upon are for the same
\* candidate: they share a voter, which would have broken its promise to one of them.
LEMMA VotesExclude ==
    ASSUME TypeOK, PromiseRemembered, NEW c \in Server, NEW d \in Server,
           NEW t \in Int, NEW u \in Int, NEW P \in SUBSET Server, NEW Q \in SUBSET Server,
           HasQuorum(P), \A v \in P : Kept(v, c, t), Now(c) < t + SMALLTIME,
           HasQuorum(Q), \A v \in Q : Kept(v, d, u), Now(d) < u + SMALLTIME
    PROVE  c = d
<1>1. PICK v \in Server : v \in P /\ v \in Q
    <2>1. P \cap Q # {}
        BY QuorumsMeet
    <2> QED
        BY <2>1
<1>2. Now(c) \in Nat /\ Now(d) \in Nat /\ SMALLTIME \in Nat
    BY NowType, TimeAssumption
<1>3. ASSUME promised[v] # c PROVE FALSE
    <2>1. t + SMALLTIME <= Now(c)
        BY <1>1, <1>3, LostVoteExpired
    <2> QED
        BY <1>2, <2>1
<1>4. ASSUME promised[v] # d PROVE FALSE
    <2>1. u + SMALLTIME <= Now(d)
        BY <1>1, <1>4, LostVoteExpired
    <2> QED
        BY <1>2, <2>1
<1> QED
    BY <1>3, <1>4

\* Two sync sites would share a voter, which has kept its promise to one of them
\* only after the other's term had run out (amSyncSite(), beacon.c).
LEMMA OneSyncSite == IInv => AtMostOneSyncSite
<1> SUFFICES ASSUME IInv, NEW c \in alive, NEW d \in alive, SyncSite(c), SyncSite(d), c # d
             PROVE  FALSE
    BY DEF AtMostOneSyncSite
<1>0. /\ TypeOK /\ PromiseRemembered /\ TermBacked /\ RoundsConsistent
      /\ c \in Server /\ d \in Server
    BY DEF IInv, PromisesBackTerms, TypeOK
<1>1. ~Alone(c) /\ ~Alone(d)
    BY <1>0 DEF SyncSite, Alone, Voter, RoundsConsistent
<1>2. /\ amSyncSite[c] /\ Now(c) < syncSiteUntil[c]
      /\ amSyncSite[d] /\ Now(d) < syncSiteUntil[d]
    BY <1>1 DEF SyncSite
<1>3. PICK P \in SUBSET Server :
         HasQuorum(P) /\ \A v \in P : Kept(v, c, syncSiteUntil[c] - SMALLTIME)
    BY <1>0, <1>1, <1>2 DEF TermBacked
<1>4. PICK Q \in SUBSET Server :
         HasQuorum(Q) /\ \A v \in Q : Kept(v, d, syncSiteUntil[d] - SMALLTIME)
    BY <1>0, <1>1, <1>2 DEF TermBacked
<1>5. /\ syncSiteUntil[c] \in Nat /\ syncSiteUntil[d] \in Nat /\ SMALLTIME \in Nat
      /\ Now(c) \in Nat /\ Now(d) \in Nat
    BY <1>0, NowType, TimeAssumption DEF TypeOK
<1>6. /\ syncSiteUntil[c] - SMALLTIME \in Int /\ Now(c) < syncSiteUntil[c] - SMALLTIME + SMALLTIME
      /\ syncSiteUntil[d] - SMALLTIME \in Int /\ Now(d) < syncSiteUntil[d] - SMALLTIME + SMALLTIME
    BY <1>2, <1>5
<1> QED
    BY <1>0, <1>3, <1>4, <1>6, VotesExclude

\* At no time may two servers act as sync site: not with messages delayed, lost or
\* reordered, not with clocks apart by MAXSKEW, not after crashes (amSyncSite(),
\* beacon.c).
THEOREM AtMostOneSyncSiteCorrect == Spec => []AtMostOneSyncSite
BY IInvCorrect, OneSyncSite, PTL

\* A step that starts an epoch (the end of ubeacon_Interact) starts a later one,
\* unless the same site is elected again within the second.
LEMMA EpochStep ==
    IInv /\ [Next]_vars =>
        [lastEpoch' # lastEpoch /\ lastEpoch.site # NoAddr =>
            \/ lastEpoch'.epoch > lastEpoch.epoch
            \/ lastEpoch'.site = lastEpoch.site /\ lastEpoch'.epoch = lastEpoch.epoch]_vars
<1> SUFFICES ASSUME IInv, Next, lastEpoch' # lastEpoch, lastEpoch.site # NoAddr
             PROVE  \/ lastEpoch'.epoch > lastEpoch.epoch
                    \/ lastEpoch'.site = lastEpoch.site /\ lastEpoch'.epoch = lastEpoch.epoch
    BY DEF vars
<1>0. /\ TypeOK /\ PromiseRemembered /\ VotesKept /\ EpochBacked /\ RoundsConsistent
    BY DEF IInv, PromisesBackTerms
<1>1. PICK d \in Server : BecomeSyncSite(d)
    BY DEF Next, Tick, StartCollection, OwnVote, Decide, NoticeExpiry, Crash, Restart,
           BeaconTimeout, DeliverBeacon
<1>2. /\ Now(d) < round[d].oldest + SMALLTIME
      /\ lastEpoch' = [site |-> d, epoch |-> Now(d), votes |-> round[d].oldest]
    BY <1>1 DEF BecomeSyncSite
<1>3. lastEpoch'.site = d /\ lastEpoch'.epoch = Now(d) /\ Now(d) \in Nat
    BY <1>0, <1>2, NowType
<1>4. lastEpoch.epoch \in Nat /\ lastEpoch.votes \in Nat /\ lastEpoch.site \in Address
    BY <1>0 DEF TypeOK
<1>6. CASE lastEpoch.site = d
    <2>1. lastEpoch.epoch <= Now(d)
        BY <1>0, <1>6, ServerAssumption DEF EpochBacked
    <2> QED
        BY <1>3, <1>4, <1>6, <2>1
<1>7. CASE lastEpoch.site # d
    <2> DEFINE c == lastEpoch.site
    <2>1. c \in Server /\ round[d] \in Round
        BY <1>0, <1>4, <1>7 DEF Address, TypeOK
    <2>2. PICK P \in SUBSET Server : HasQuorum(P) /\ \A v \in P : Kept(v, c, lastEpoch.votes)
        BY <1>0, <1>7 DEF EpochBacked
    <2>3. /\ HasQuorum(round[d].yes) /\ round[d].yes \in SUBSET Server
          /\ round[d].oldest \in Nat
        BY <1>0, <1>1, <2>1 DEF BecomeSyncSite, RoundsConsistent, Round
    <2>4. PICK v \in Server : v \in P /\ v \in round[d].yes
        <3>1. P \cap round[d].yes # {}
            BY <2>2, <2>3, QuorumsMeet
        <3> QED
            BY <3>1
    <2>5. promised[v] = d
        <3>1. Kept(v, d, round[d].oldest)
            BY <1>0, <2>4 DEF VotesKept
        <3>2. ASSUME promised[v] # d PROVE FALSE
            <4>1. round[d].oldest + SMALLTIME <= Now(d)
                BY <1>0, <2>3, <2>4, <3>1, <3>2, LostVoteExpired
            <4> QED
                BY <1>2, <1>3, <2>3, <4>1, TimeAssumption
        <3> QED
            BY <3>2
    <2>6. lastEpoch.votes + BIGTIME < lastYesTime[v] /\ lastYesTime[v] <= Now(v)
        BY <1>0, <1>7, <2>2, <2>4, <2>5 DEF Kept, PromiseRemembered
    <2>7. lastEpoch.epoch < lastEpoch.votes + SMALLTIME
        BY <1>0, <1>7 DEF EpochBacked
    <2>8. /\ lastYesTime[v] \in Nat /\ Now(v) \in Nat /\ time \in Nat
          /\ Now(v) <= time + MAXSKEW /\ time <= Now(d)
        BY <1>0, NowType DEF TypeOK
    <2> QED
        BY <1>3, <1>4, <2>6, <2>7, <2>8, TimeAssumption
<1> QED
    BY <1>6, <1>7

\* The epochs of successive sync sites never go back, and those of different sites
\* differ, so that database versions can be compared (beacon.c, ubik_epochTime).
THEOREM EpochsOrderedCorrect == Spec => EpochsOrdered
BY IInvCorrect, EpochStep, PTL DEF Spec, EpochsOrdered

\* A step that sets ubik_syncSiteAdvertised ends a round that claimed the state.
LEMMA AdvertiseStep ==
    IInv /\ [Next]_vars =>
        [\A c \in alive : advertised'[c] /\ ~advertised[c] =>
            round[c].state /\ HasQuorum(round[c].yes)]_vars
<1> SUFFICES ASSUME IInv, Next, NEW c \in alive, advertised'[c], ~advertised[c]
             PROVE  round[c].state /\ HasQuorum(round[c].yes)
    BY DEF vars
<1>0. TypeOK /\ RoundsConsistent /\ c \in Server
    BY DEF IInv, PromisesBackTerms, TypeOK
<1>1. advertised' # advertised
    OBVIOUS
<1>2. CASE \E d \in Server : Decide(d)
    <2>1. PICK d \in Server : Decide(d)
        BY <1>2
    <2>2. /\ HasQuorum(round[d].yes) /\ amSyncSite[d] /\ round[d].phase = "decide"
          /\ advertised' = [advertised EXCEPT ![d] = TRUE]
        BY <1>0, <2>1 DEF Decide, TypeOK
    <2>3. d = c
        BY <1>0, <2>2 DEF TypeOK
    <2> QED
        BY <1>0, <2>2, <2>3 DEF RoundsConsistent
<1>3. CASE \E d \in Server : StartCollection(d) \/ OwnVote(d) \/ NoticeExpiry(d)
    <2>1. PICK d \in Server : ClearIfExpired(d)
        BY <1>3 DEF StartCollection, OwnVote, NoticeExpiry
    <2> QED
        BY <1>0, <2>1 DEF ClearIfExpired, TypeOK
<1>4. CASE \E d \in Server : Crash(d) \/ Restart(d)
    BY <1>0, <1>4 DEF Crash, Restart, TypeOK
<1>5. CASE UNCHANGED advertised
    BY <1>1, <1>5
<1> QED
    <2>1. CASE Tick
        BY <1>5, <2>1 DEF Tick, siteVars
    <2>2. CASE \E d \in Server : BecomeSyncSite(d)
        BY <1>5, <2>2 DEF BecomeSyncSite
    <2>3. CASE \E d, v \in Server : BeaconTimeout(d, v)
        BY <1>5, <2>3 DEF BeaconTimeout, siteVars
    <2>4. CASE \E m \in net : DeliverBeacon(m)
        BY <1>5, <2>4 DEF DeliverBeacon, siteVars
    <2> QED
        BY <1>2, <1>3, <1>4, <2>1, <2>2, <2>3, <2>4 DEF Next

\* A site advertises itself only when a majority has heard its claim (beacon.c,
\* ubik_syncSiteAdvertised).
THEOREM AdvertisedWhenToldCorrect == Spec => AdvertisedWhenTold
BY IInvCorrect, AdvertiseStep, PTL DEF Spec, AdvertisedWhenTold

-----------------------------------------------------------------------------
(* The election implements UbikSite.                                       *)

\* The votes of c make it sync site, or will do so when the running collection is
\* counted: it was sync site when it asked itself, and goes on without a new epoch
\* (ubeacon_Interact, beacon.c).
GoesOn(c) ==
    /\ round[c].phase = "decide"
    /\ amSyncSite[c]
    /\ HasQuorum(round[c].yes)
    /\ Now(c) < round[c].oldest + SMALLTIME
Claims(c) == ~Alone(c) /\ (SyncSite(c) \/ GoesOn(c))

\* Who claims to be sync site has the newest epoch, even if its term has run out
\* since it asked itself; before the first epoch there is none.
SiteInv ==
    /\ \A c \in Server : Claims(c) => lastEpoch.site = c
    /\ time >= 1
    /\ lastEpoch.site = NoAddr => lastEpoch.epoch = 0

\* c is elected, and its votes are young enough for it to act upon them.
Elected(c) == BecomeSyncSite(c) /\ Now(c) < round[c].oldest + SMALLTIME

\* Behind every claim stands a majority whose votes can be acted upon.
LEMMA ClaimBacked ==
    ASSUME IInv, NEW c \in Server, Claims(c)
    PROVE  \E Q \in SUBSET Server : \E t \in Int :
               HasQuorum(Q) /\ (\A v \in Q : Kept(v, c, t)) /\ Now(c) < t + SMALLTIME
<1>0. TypeOK /\ VotesKept /\ TermBacked /\ ~Alone(c)
    BY DEF IInv, PromisesBackTerms, Claims
<1>1. Now(c) \in Nat /\ syncSiteUntil[c] \in Nat /\ SMALLTIME \in Nat /\ round[c] \in Round
    BY <1>0, NowType, TimeAssumption DEF TypeOK
<1>2. CASE SyncSite(c)
    <2>1. amSyncSite[c] /\ Now(c) < syncSiteUntil[c]
        BY <1>0, <1>2 DEF SyncSite
    <2>2. PICK Q \in SUBSET Server :
             HasQuorum(Q) /\ \A v \in Q : Kept(v, c, syncSiteUntil[c] - SMALLTIME)
        BY <1>0, <2>1 DEF TermBacked
    <2>3. /\ syncSiteUntil[c] - SMALLTIME \in Int
          /\ Now(c) < syncSiteUntil[c] - SMALLTIME + SMALLTIME
        BY <1>1, <2>1
    <2> QED
        BY <2>2, <2>3
<1>3. CASE GoesOn(c)
    <2>1. round[c].oldest \in Int /\ round[c].yes \in SUBSET Server
        BY <1>1 DEF Round
    <2>2. \A v \in round[c].yes : Kept(v, c, round[c].oldest)
        BY <1>0 DEF VotesKept
    <2> QED
        BY <1>3, <2>1, <2>2 DEF GoesOn
<1> QED
    BY <1>2, <1>3 DEF Claims

\* At most one server claims to be sync site.
AtMostOneClaim == \A c, d \in Server : Claims(c) /\ Claims(d) => c = d

\* Two claims would rest on a vote of the same server.
LEMMA OneClaim == IInv => AtMostOneClaim
<1> SUFFICES ASSUME IInv, NEW c \in Server, NEW d \in Server, Claims(c), Claims(d)
             PROVE  c = d
    BY DEF AtMostOneClaim
<1>0. TypeOK /\ PromiseRemembered
    BY DEF IInv, PromisesBackTerms
<1>1. PICK P \in SUBSET Server : \E t \in Int :
         HasQuorum(P) /\ (\A v \in P : Kept(v, c, t)) /\ Now(c) < t + SMALLTIME
    BY ClaimBacked
<1>2. PICK t \in Int :
         HasQuorum(P) /\ (\A v \in P : Kept(v, c, t)) /\ Now(c) < t + SMALLTIME
    BY <1>1
<1>3. PICK Q \in SUBSET Server : \E u \in Int :
         HasQuorum(Q) /\ (\A v \in Q : Kept(v, d, u)) /\ Now(d) < u + SMALLTIME
    BY ClaimBacked
<1>4. PICK u \in Int :
         HasQuorum(Q) /\ (\A v \in Q : Kept(v, d, u)) /\ Now(d) < u + SMALLTIME
    BY <1>3
<1> QED
    BY <1>0, <1>2, <1>4, VotesExclude

\* Nobody but a server that is elected starts to claim.
LEMMA ClaimStep ==
    ASSUME IInv, Next, \A d \in Server : ~Elected(d), NEW c \in Server, Claims(c)'
    PROVE  Claims(c)
<1> USE DEF voteVars, siteVars
<1>0. /\ TypeOK /\ RoundsConsistent /\ Now(c) \in Nat /\ round[c] \in Round
      /\ c \notin alive => round[c].phase = "idle" /\ ~amSyncSite[c]
    BY NowType DEF IInv, PromisesBackTerms, TypeOK, RoundsConsistent
<1>1. ~Alone(c)
    BY DEF Claims, Alone
<1>2. \/ amSyncSite'[c] /\ Now(c)' < syncSiteUntil'[c]
      \/ GoesOn(c)'
    BY <1>1 DEF Claims, SyncSite, Alone
<1>3. ASSUME Now(c)' = Now(c), UNCHANGED <<amSyncSite, syncSiteUntil>>, round'[c] = round[c]
      PROVE  Claims(c)
    BY <1>1, <1>2, <1>3 DEF Claims, SyncSite, GoesOn
<1>4. ASSUME NEW d \in Server, ClearIfExpired(d)
      PROVE  /\ amSyncSite'[c] => amSyncSite[c] /\ (d = c => SyncSite(c))
             /\ syncSiteUntil' = syncSiteUntil
    BY <1>0, <1>4 DEF ClearIfExpired, TypeOK
<1>5. CASE Tick
    <2>1. UNCHANGED <<amSyncSite, syncSiteUntil, round, skew>> /\ Now(c)' = Now(c) + 1
        BY <1>0, <1>5 DEF Tick, Now, TypeOK
    <2>2. syncSiteUntil[c] \in Nat /\ round[c].oldest \in Nat
        BY <1>0 DEF TypeOK, Round
    <2> QED
        BY <1>0, <1>1, <1>2, <2>1, <2>2, TimeAssumption DEF Claims, SyncSite, GoesOn
<1>6. ASSUME NEW d \in Server, StartCollection(d) PROVE Claims(c)
    <2>1. /\ UNCHANGED <<time, skew>> /\ ClearIfExpired(d)
          /\ \E r : r.phase = "collect" /\ round' = [round EXCEPT ![d] = r]
        BY <1>6 DEF StartCollection
    <2>2. /\ Now(c)' = Now(c) /\ syncSiteUntil' = syncSiteUntil
          /\ amSyncSite'[c] => amSyncSite[c]
          /\ d # c => round'[c] = round[c]
          /\ d = c => round'[c].phase = "collect"
        BY <1>0, <1>4, <2>1 DEF Now, TypeOK
    <2> QED
        BY <1>1, <1>2, <2>2 DEF Claims, SyncSite, GoesOn
<1>7. ASSUME NEW d \in Server, OwnVote(d) PROVE Claims(c)
    <2>1. UNCHANGED <<time, skew>> /\ ClearIfExpired(d)
        BY <1>7 DEF OwnVote
    <2>2. /\ Now(c)' = Now(c) /\ syncSiteUntil' = syncSiteUntil
          /\ amSyncSite'[c] => amSyncSite[c] /\ (d = c => SyncSite(c))
          /\ d # c => round'[c] = round[c]
        BY <1>0, <1>4, <1>7, <2>1 DEF Now, OwnVote, TypeOK
    <2>3. amSyncSite'[c]
        BY <1>2 DEF GoesOn
    <2> QED
        BY <1>1, <1>2, <2>2, <2>3 DEF Claims, SyncSite, GoesOn
<1>8. ASSUME NEW d \in Server, Decide(d) PROVE Claims(c)
    <2>1. /\ UNCHANGED <<time, skew>> /\ round[d].phase = "decide"
          /\ \/ /\ HasQuorum(round[d].yes) /\ amSyncSite[d] /\ amSyncSite' = amSyncSite
                /\ syncSiteUntil' = [syncSiteUntil EXCEPT ![d] = round[d].oldest + SMALLTIME]
                /\ round' = [round EXCEPT ![d] = Idle(round[d].start)]
             \/ /\ UNCHANGED <<amSyncSite, syncSiteUntil>> /\ ~amSyncSite[d]
                /\ round' = [round EXCEPT ![d].phase = "became"]
             \/ /\ amSyncSite' = [amSyncSite EXCEPT ![d] = FALSE] /\ syncSiteUntil' = syncSiteUntil
                /\ round' = [round EXCEPT ![d] = Idle(round[d].start)]
        BY <1>8 DEF Decide
    <2>2. Now(c)' = Now(c) /\ amSyncSite'[c] /\ amSyncSite[c]
        BY <1>0, <1>2, <2>1 DEF Now, TypeOK, GoesOn
    <2>3. CASE d # c
        <3>1. syncSiteUntil'[c] = syncSiteUntil[c] /\ round'[c] = round[c]
            BY <1>0, <2>1, <2>3 DEF TypeOK
        <3> QED
            BY <1>1, <1>2, <2>2, <3>1 DEF Claims, SyncSite, GoesOn
    <2>4. CASE d = c
        <3>1. /\ HasQuorum(round[c].yes) /\ syncSiteUntil'[c] = round[c].oldest + SMALLTIME
              /\ round'[c] = Idle(round[c].start)
            BY <1>0, <2>1, <2>2, <2>4 DEF TypeOK
        <3>2. ~GoesOn(c)'
            BY <3>1 DEF GoesOn, Idle
        <3> QED
            BY <1>1, <1>2, <2>1, <2>2, <2>4, <3>1, <3>2 DEF Claims, GoesOn
    <2> QED
        BY <2>3, <2>4
<1>9. ASSUME NEW d \in Server, BecomeSyncSite(d) PROVE Claims(c)
    <2>1. /\ UNCHANGED <<time, skew>> /\ ~(Now(d) < round[d].oldest + SMALLTIME)
          /\ amSyncSite' = [amSyncSite EXCEPT ![d] = TRUE]
          /\ syncSiteUntil' = [syncSiteUntil EXCEPT ![d] = round[d].oldest + SMALLTIME]
          /\ round' = [round EXCEPT ![d] = Idle(round[d].start)]
        BY <1>9 DEF BecomeSyncSite, Elected
    <2>2. Now(c)' = Now(c)
        BY <2>1 DEF Now
    <2>3. CASE d # c
        <3>1. syncSiteUntil'[c] = syncSiteUntil[c] /\ round'[c] = round[c] /\ amSyncSite'[c] = amSyncSite[c]
            BY <1>0, <2>1, <2>3 DEF TypeOK
        <3> QED
            BY <1>1, <1>2, <2>2, <3>1 DEF Claims, SyncSite, GoesOn
    <2>4. CASE d = c
        <3>1. syncSiteUntil'[c] = round[c].oldest + SMALLTIME /\ round'[c] = Idle(round[c].start)
            BY <1>0, <2>1, <2>4 DEF TypeOK
        <3>2. ~GoesOn(c)'
            BY <3>1 DEF GoesOn, Idle
        <3> QED
            BY <1>2, <2>1, <2>2, <2>4, <3>1, <3>2
    <2> QED
        BY <2>3, <2>4
<1>10. ASSUME NEW d \in Server, NoticeExpiry(d) PROVE Claims(c)
    <2>1. /\ Now(c)' = Now(c) /\ syncSiteUntil' = syncSiteUntil
          /\ amSyncSite'[c] => amSyncSite[c]
          /\ round' = round
        BY <1>4, <1>10 DEF NoticeExpiry, Now
    <2> QED
        BY <1>1, <1>2, <2>1 DEF Claims, SyncSite, GoesOn
<1>11. ASSUME NEW d \in Server, Crash(d) PROVE Claims(c)
    <2>1. /\ Now(c)' = Now(c) /\ syncSiteUntil' = syncSiteUntil
          /\ d = c => ~amSyncSite'[c]
          /\ d # c => amSyncSite'[c] = amSyncSite[c] /\ round'[c] = round[c]
        BY <1>0, <1>11 DEF Crash, Now, TypeOK
    <2> QED
        BY <1>1, <1>2, <2>1 DEF Claims, SyncSite, GoesOn
<1>12. ASSUME NEW d \in Server, Restart(d) PROVE Claims(c)
    <2>1. /\ Now(c)' = Now(c) /\ round' = round
          /\ d = c => amSyncSite'[c] = Alone(c)
          /\ d # c => amSyncSite'[c] = amSyncSite[c] /\ syncSiteUntil'[c] = syncSiteUntil[c]
        BY <1>0, <1>12 DEF Restart, Now, TypeOK
    <2> QED
        BY <1>1, <1>2, <2>1 DEF Claims, SyncSite, GoesOn
<1>13. ASSUME NEW d \in Server, NEW v \in Server, BeaconTimeout(d, v) PROVE Claims(c)
    <2>1. /\ Now(c)' = Now(c) /\ UNCHANGED <<amSyncSite, syncSiteUntil>>
          /\ round'[c].phase = round[c].phase /\ round'[c].yes = round[c].yes
          /\ round'[c].oldest = round[c].oldest
        BY <1>0, <1>13 DEF BeaconTimeout, Now, TypeOK, Round
    <2> QED
        BY <1>1, <1>2, <2>1 DEF Claims, SyncSite, GoesOn
<1>14. ASSUME NEW m \in net, DeliverBeacon(m) PROVE Claims(c)
    <2> DEFINE d == m.src
               r == [round[d] EXCEPT !.asked = @ \ {m.dst}]
    <2>1. /\ Now(c)' = Now(c) /\ UNCHANGED <<amSyncSite, syncSiteUntil>>
          /\ m.dst \in Server /\ d \in Server
        BY <1>0, <1>14 DEF DeliverBeacon, Now, TypeOK, Beacon
    <2>2. \/ /\ round[d].phase = "collect"
             /\ \/ round' = [round EXCEPT ![d] = Count(r, m.dst, Now(m.dst))]
                \/ round' = [round EXCEPT ![d] = r]
          \/ round' = round
        BY <1>14 DEF DeliverBeacon
    <2>3. round[d] \in Round /\ Now(m.dst) \in Nat
        BY <1>0, <2>1, NowType DEF TypeOK
    <2>4. r \in Round /\ r.phase = round[d].phase
        BY <2>3 DEF Round
    <2>5. Count(r, m.dst, Now(m.dst)).phase = r.phase
        BY <2>1, <2>3, <2>4, CountType
    <2> HIDE DEF r, d
    <2>6. round'[c] = round[c] \/ round'[c].phase = "collect"
        BY <1>0, <2>1, <2>2, <2>4, <2>5 DEF TypeOK
    <2> QED
        BY <1>1, <1>2, <2>1, <2>6 DEF Claims, SyncSite, GoesOn
<1> QED
    BY <1>5, <1>6, <1>7, <1>8, <1>9, <1>10, <1>11, <1>12, <1>13, <1>14 DEF Next

\* A server that is elected may act, with a new epoch.
LEMMA ElectedActs ==
    ASSUME IInv, NEW d \in Server, Elected(d)
    PROVE  /\ d \in alive' /\ SyncSite(d)' /\ d \in Voter
           /\ lastEpoch' = [site |-> d, epoch |-> Now(d), votes |-> round[d].oldest]
           /\ Now(d) \in Nat /\ time' = time
           /\ \A c \in alive : SyncSite(c) => c \in alive' /\ SyncSite(c)'
<1>0. TypeOK /\ RoundsConsistent /\ Now(d) \in Nat
    BY NowType DEF IInv, PromisesBackTerms
<1>1. /\ UNCHANGED <<time, skew, alive>> /\ d \in alive /\ round[d].phase = "became"
      /\ Now(d) < round[d].oldest + SMALLTIME
      /\ amSyncSite' = [amSyncSite EXCEPT ![d] = TRUE]
      /\ syncSiteUntil' = [syncSiteUntil EXCEPT ![d] = round[d].oldest + SMALLTIME]
      /\ lastEpoch' = [site |-> d, epoch |-> Now(d), votes |-> round[d].oldest]
    BY DEF Elected, BecomeSyncSite
<1>2. /\ amSyncSite'[d] /\ syncSiteUntil'[d] = round[d].oldest + SMALLTIME
      /\ \A c \in Server \ {d} : /\ amSyncSite'[c] = amSyncSite[c]
                                 /\ syncSiteUntil'[c] = syncSiteUntil[c]
    BY <1>0, <1>1 DEF TypeOK
<1>3. \A c \in Server : Now(c)' = Now(c)
    BY <1>1 DEF Now
<1>4. SyncSite(d)'
    BY <1>1, <1>2, <1>3 DEF SyncSite
<1>5. d \in Voter
    BY <1>0, <1>1 DEF RoundsConsistent, Voter
<1>6. ASSUME NEW c \in alive, SyncSite(c) PROVE c \in alive' /\ SyncSite(c)'
    <2>1. c \in Server
        BY <1>0 DEF TypeOK
    <2>2. CASE c = d
        BY <1>1, <1>4, <2>2
    <2>3. CASE c # d
        BY <1>1, <1>2, <1>3, <1>6, <2>1, <2>3 DEF SyncSite, Alone
    <2> QED
        BY <2>2, <2>3
<1> QED
    BY <1>0, <1>1, <1>4, <1>5, <1>6

\* At most one server claims to be sync site after a step, too.
LEMMA OneClaimNext == IInv' => AtMostOneClaim'
BY OneClaim, PTL

\* Only an election starts an epoch.
LEMMA EpochUnchanged ==
    ASSUME [Next]_vars, \A d \in Server : ~Elected(d)
    PROVE  UNCHANGED lastEpoch
<1>1. CASE UNCHANGED vars
    BY <1>1 DEF vars
<1>2. CASE \E d \in Server : BecomeSyncSite(d)
    BY <1>2 DEF BecomeSyncSite, Elected
<1>3. CASE Next /\ ~\E d \in Server : BecomeSyncSite(d)
    BY <1>3 DEF Next, Tick, StartCollection, OwnVote, Decide, NoticeExpiry, Crash, Restart,
                BeaconTimeout, DeliverBeacon
<1> QED
    BY <1>1, <1>2, <1>3

\* In the beginning, nobody claims anything.
LEMMA SiteInvInit == Init => SiteInv
<1> SUFFICES ASSUME Init PROVE SiteInv
    OBVIOUS
<1>1. time >= 1 /\ (lastEpoch.site = NoAddr => lastEpoch.epoch = 0)
    BY TimeAssumption DEF Init, StartTime
<1>2. ASSUME NEW c \in Server, Claims(c) PROVE FALSE
    <2>1. amSyncSite[c] = Alone(c)
        BY DEF Init
    <2> QED
        BY <1>2, <2>1 DEF Claims, SyncSite, GoesOn
<1> QED
    BY <1>1, <1>2 DEF SiteInv

\* A step keeps the epoch with the claim: an election starts a new epoch, and at that
\* moment nobody else has votes it could act upon.
LEMMA SiteInvNext == IInv /\ IInv' /\ SiteInv /\ [Next]_vars => SiteInv'
<1> SUFFICES ASSUME IInv, IInv', SiteInv, [Next]_vars PROVE SiteInv'
    OBVIOUS
<1>0. time \in Nat /\ time >= 1
    BY DEF IInv, TypeOK, SiteInv
<1>1. CASE UNCHANGED vars
    <2>1. ASSUME NEW c \in Server, Claims(c)' PROVE Claims(c)
        BY <1>1, <2>1 DEF vars, siteVars, Claims, SyncSite, GoesOn, Alone, Now
    <2> QED
        BY <1>1, <2>1 DEF vars, SiteInv
<1>2. CASE Next /\ \E d \in Server : Elected(d)
    <2>1. PICK d \in Server : Elected(d)
        BY <1>2
    <2>2. /\ SyncSite(d)' /\ d \in Voter /\ time' = time
          /\ lastEpoch' = [site |-> d, epoch |-> Now(d), votes |-> round[d].oldest]
        BY <2>1, ElectedActs
    <2>3. d # NoAddr
        BY ServerAssumption
    <2>4. ASSUME NEW c \in Server, Claims(c)' PROVE lastEpoch'.site = c
        <3>1. CASE Alone(d)
            <4>1. ~Alone(c) /\ (amSyncSite'[c])
                BY <2>4, <3>1 DEF Claims, SyncSite, GoesOn, Alone
            <4>2. c \in Voter
                BY <4>1 DEF IInv, PromisesBackTerms, RoundsConsistent, Voter
            <4> QED
                BY <3>1, <4>1, <4>2 DEF Alone
        <3>2. CASE ~Alone(d)
            <4>1. Claims(d)'
                BY <2>2, <3>2 DEF Claims, Alone
            <4>2. c = d
                BY <2>4, <4>1, OneClaimNext DEF AtMostOneClaim
            <4> QED
                BY <2>2, <4>2
        <3> QED
            BY <3>1, <3>2
    <2> QED
        BY <1>0, <2>2, <2>3, <2>4 DEF SiteInv
<1>3. CASE Next /\ \A d \in Server : ~Elected(d)
    <2>1. UNCHANGED lastEpoch
        BY <1>3, EpochUnchanged
    <2>2. ASSUME NEW c \in Server, Claims(c)' PROVE lastEpoch'.site = c
        <3>1. Claims(c)
            BY <1>3, <2>2, ClaimStep
        <3> QED
            BY <2>1, <3>1 DEF SiteInv
    <2>3. time' >= 1
        <3>1. Tick => time' = time + 1
            BY DEF Tick
        <3>2. ~Tick => time' = time
            BY <1>3 DEF Next, StartCollection, OwnVote, Decide, BecomeSyncSite,
                        NoticeExpiry, Crash, Restart, BeaconTimeout, DeliverBeacon
        <3> QED
            BY <1>0, <3>1, <3>2
    <2> QED
        BY <2>1, <2>2, <2>3 DEF SiteInv
<1> QED
    BY <1>1, <1>2, <1>3

\* The invariant of the refinement holds in every reachable state.
LEMMA SiteInvCorrect == Spec => [](IInv /\ SiteInv)
BY IInvInit, IInvNext, SiteInvInit, SiteInvNext, PTL DEF Spec

\* The server that may act as sync site is the acting site, and has the newest epoch.
LEMMA HolderActs ==
    IInv /\ SiteInv => /\ \A c \in alive : SyncSite(c) =>
                              ActingSite = c /\ EpochHolder = c /\ c \in Server
                       /\ (\A c \in alive : ~SyncSite(c)) => ActingSite = NoAddr
<1> SUFFICES ASSUME IInv, SiteInv
             PROVE  /\ \A c \in alive : SyncSite(c) =>
                           ActingSite = c /\ EpochHolder = c /\ c \in Server
                    /\ (\A c \in alive : ~SyncSite(c)) => ActingSite = NoAddr
    OBVIOUS
<1>0. alive \subseteq Server /\ RoundsConsistent
    BY DEF IInv, PromisesBackTerms, TypeOK
<1>1. ASSUME NEW c \in alive, SyncSite(c)
      PROVE  ActingSite = c /\ EpochHolder = c /\ c \in Server
    <2>1. \A d \in alive : SyncSite(d) => d = c
        BY <1>1, OneSyncSite DEF AtMostOneSyncSite
    <2>2. ActingSite = c
        BY <1>1, <2>1 DEF ActingSite
    <2>3. c \in Voter
        BY <1>0, <1>1 DEF SyncSite, Alone, RoundsConsistent, Voter
    <2>4. CASE \E d \in Voter : Alone(d)
        <3>1. Voter = {c}
            BY <2>3, <2>4 DEF Alone
        <3>2. Magic = c
            <4>1. c <= c
                BY <1>0, ServerAssumption
            <4> QED
                BY <3>1, <4>1 DEF Magic
        <3> QED
            BY <1>0, <2>2, <2>4, <3>2 DEF EpochHolder
    <2>5. CASE ~\E d \in Voter : Alone(d)
        <3>1. Claims(c)
            BY <1>1, <2>3, <2>5 DEF Claims
        <3> QED
            BY <1>0, <2>2, <2>5, <3>1 DEF EpochHolder, SiteInv
    <2> QED
        BY <2>4, <2>5
<1>2. (\A c \in alive : ~SyncSite(c)) => ActingSite = NoAddr
    BY DEF ActingSite
<1> QED
    BY <1>1, <1>2

\* The same after a step.
LEMMA HolderActsNext ==
    IInv' /\ SiteInv' => /\ \A c \in alive' : SyncSite(c)' =>
                                ActingSite' = c /\ EpochHolder' = c /\ c \in Server
                         /\ (\A c \in alive' : ~SyncSite(c)') => ActingSite' = NoAddr
<1> DEFINE Acts == /\ \A c \in alive : SyncSite(c) =>
                          ActingSite = c /\ EpochHolder = c /\ c \in Server
                   /\ (\A c \in alive : ~SyncSite(c)) => ActingSite = NoAddr
<1>1. IInv /\ SiteInv => Acts
    BY HolderActs
<1> HIDE DEF Acts
<1>2. IInv' /\ SiteInv' => Acts'
    BY <1>1, PTL
<1> QED
    BY <1>2 DEF Acts

\* The initial states are initial states of the abstract specification.
LEMMA SiteRefinesInit == IInv /\ SiteInv => Site!SiteInit
<1> SUFFICES ASSUME IInv, SiteInv PROVE Site!SiteInit
    OBVIOUS
<1>1. lastEpoch.site \in Server \cup {NoAddr} /\ lastEpoch.epoch \in Nat
    BY DEF IInv, TypeOK, Address
<1>2. EpochHolder \in Server \cup {NoAddr}
    <2>1. CASE \E d \in Voter : Alone(d)
        <3>1. PICK d \in Voter : Voter = {d}
            BY <2>1 DEF Alone
        <3>2. d <= d
            BY ServerAssumption DEF Voter
        <3>3. Magic = d
            BY <3>1, <3>2 DEF Magic
        <3> QED
            BY <2>1, <3>3 DEF EpochHolder, Voter
    <2>2. CASE ~\E d \in Voter : Alone(d)
        BY <1>1, <2>2 DEF EpochHolder
    <2> QED
        BY <2>1, <2>2
<1>3. CASE \E c \in alive : SyncSite(c)
    <2>1. PICK c \in alive : SyncSite(c)
        BY <1>3
    <2>2. ActingSite = c /\ EpochHolder = c /\ c \in Server
        BY <2>1, HolderActs
    <2> QED
        BY <1>1, <2>2 DEF Site!SiteInit
<1>4. CASE \A c \in alive : ~SyncSite(c)
    <2>1. ActingSite = NoAddr
        BY <1>4, HolderActs
    <2> QED
        BY <1>1, <1>2, <2>1 DEF Site!SiteInit
<1> QED
    BY <1>3, <1>4

\* An election is an election of the abstract specification, and so is the step with
\* which a suspended site goes on; whatever ends a term leaves no site.
LEMMA SiteRefinesNext ==
    IInv /\ IInv' /\ SiteInv /\ SiteInv' /\ [Next]_vars => [Site!SiteNext]_(Site!siteState)
<1> SUFFICES ASSUME IInv, IInv', SiteInv, SiteInv', [Next]_vars
             PROVE  [Site!SiteNext]_(Site!siteState)
    OBVIOUS
<1>0. lastEpoch.epoch \in Nat /\ NoAddr \notin Server
    BY ServerAssumption DEF IInv, TypeOK
<1>1. CASE \E d \in Server : Elected(d)
    <2>1. PICK d \in Server : Elected(d)
        BY <1>1
    <2>2. /\ d \in alive' /\ SyncSite(d)' /\ Now(d) \in Nat /\ time' = time
          /\ lastEpoch' = [site |-> d, epoch |-> Now(d), votes |-> round[d].oldest]
          /\ \A c \in alive : SyncSite(c) => c \in alive' /\ SyncSite(c)'
        BY <2>1, ElectedActs
    <2>3. ActingSite' = d /\ EpochHolder' = d
        BY <2>2, HolderActsNext
    <2>4. ActingSite \in {NoAddr, d}
        <3>1. CASE \E c \in alive : SyncSite(c)
            <4>1. PICK c \in alive : SyncSite(c)
                BY <3>1
            <4>2. ActingSite = c
                BY <4>1, HolderActs
            <4>3. ActingSite' = c
                BY <2>2, <4>1, HolderActsNext
            <4> QED
                BY <2>3, <4>2, <4>3
        <3> QED
            BY <3>1, HolderActs
    <2>5. lastEpoch'.epoch = Now(d) /\ lastEpoch'.site = d
        BY <2>2
    <2>6. \/ lastEpoch'.epoch > lastEpoch.epoch
          \/ EpochHolder = d /\ lastEpoch'.epoch = lastEpoch.epoch
        <3>1. CASE lastEpoch.site = NoAddr
            <4>1. lastEpoch.epoch = 0 /\ Now(d) >= 1
                BY <3>1, NowType DEF IInv, TypeOK, SiteInv
            <4> QED
                BY <2>2, <2>5, <4>1
        <3>2. CASE lastEpoch.site # NoAddr
            <4>1. \/ lastEpoch'.epoch > lastEpoch.epoch
                  \/ lastEpoch'.site = lastEpoch.site /\ lastEpoch'.epoch = lastEpoch.epoch
                BY <3>2, EpochStep DEF vars
            <4>2. ASSUME lastEpoch'.site = lastEpoch.site PROVE EpochHolder = d
                <5>1. EpochHolder' = EpochHolder
                    BY <4>2 DEF EpochHolder, Alone, Magic
                <5> QED
                    BY <2>3, <5>1
            <4> QED
                BY <4>1, <4>2
        <3> QED
            BY <3>1, <3>2
    <2>7. Site!SiteTakes(d)
        BY <2>2, <2>3, <2>4, <2>5, <2>6 DEF Site!SiteTakes
    <2> QED
        BY <2>7 DEF Site!SiteNext
<1>2. CASE \A d \in Server : ~Elected(d)
    <2>1. lastEpoch' = lastEpoch
        BY <1>2, EpochUnchanged
    <2>2. EpochHolder' = EpochHolder
        BY <2>1 DEF EpochHolder, Alone, Magic
    <2>3. CASE \E c \in alive' : SyncSite(c)'
        <3>1. PICK c \in alive' : SyncSite(c)'
            BY <2>3
        <3>2. ActingSite' = c /\ EpochHolder' = c /\ c \in Server
            BY <3>1, HolderActsNext
        <3>3. ActingSite \in {NoAddr, c}
            <4>1. CASE \E a \in alive : SyncSite(a)
                <5>1. PICK a \in alive : SyncSite(a)
                    BY <4>1
                <5>2. ActingSite = a /\ EpochHolder = a
                    BY <5>1, HolderActs
                <5> QED
                    BY <2>2, <3>2, <5>2
            <4> QED
                BY <4>1, HolderActs
        <3>4. Site!SiteTakes(c)
            BY <1>0, <2>1, <2>2, <3>2, <3>3 DEF Site!SiteTakes
        <3> QED
            BY <3>2, <3>4 DEF Site!SiteNext
    <2>4. CASE \A c \in alive' : ~SyncSite(c)'
        <3>1. ActingSite' = NoAddr
            BY <2>4, HolderActsNext
        <3>2. CASE ActingSite = NoAddr
            BY <2>1, <2>2, <3>1, <3>2 DEF Site!siteState
        <3>3. CASE ActingSite # NoAddr
            BY <2>1, <2>2, <3>1, <3>3 DEF Site!SiteNext, Site!SiteLeaves
        <3> QED
            BY <3>2, <3>3
    <2> QED
        BY <2>3, <2>4
<1> QED
    BY <1>1, <1>2

\* The election implements UbikSite: at every moment there is one sync site or none,
\* it has the newest epoch, and it takes over only with a later epoch or with the
\* newest one if that is its own (ubeacon_Interact, amSyncSite(), beacon.c).
THEOREM ElectsSiteCorrect == Spec => ElectsSite
<1>1. Init => IInv /\ SiteInv
    BY IInvInit, SiteInvInit
<1>2. Init => Site!SiteInit
    BY <1>1, SiteRefinesInit
<1> QED
    BY <1>2, SiteInvCorrect, SiteRefinesNext, PTL DEF Spec, ElectsSite, Site!SiteSpec

=============================================================================
