---------------------------- MODULE BosFsProofs ----------------------------
(***************************************************************************)
(* Proofs about the bnode of a file server, for any number of faults,      *)
(* calls and reboots, any timeouts and limits, and with or without a       *)
(* scanner.                                                                *)
(***************************************************************************)
EXTENDS BosFs, FiniteSetTheorems, TLAPS

-----------------------------------------------------------------------------
(* The inductive invariant.                                                *)

\* What holds of a bnode between any two of its handlers: a process that was
\* killed was asked to end, and one that was asked to end runs; the file
\* SALVAGE.<instance> agrees with needsSalvage; a file server that runs (fs) has
\* the flag set; and the salvager runs only with the flag set, and with neither
\* file server nor volume server nor scanner.
Sound(n) ==
    /\ n.kill \subseteq n.sdw /\ n.sdw \subseteq n.running
    /\ n.kind = "fs" => n.salFile = n.needsSalvage
    /\ n.kind = "fs" /\ "file" \in n.running => n.needsSalvage
    /\ "salv" \in n.running =>
         /\ n.kind = "fs" /\ n.needsSalvage
         /\ n.running \cap {"file", "vol", "scan"} = {}

\* An error stop does not change what was asked for, and nothing else stops a bnode
\* against it.
Goals ==
    /\ b.errorStop => wanted = 1 \/ crossed
    /\ rpc # "idle" /\ wanted = 0 => crossed
    /\ GoalIsWanted

Inv == TypeOK /\ Sound(b) /\ Goals

\* Whoever was killed is known as such until its partitions are salvaged.
Salvaged ==
    /\ b.kind = "fs" /\ dirty => b.needsSalvage /\ proc["file"] \in {"none", "signalled"}
    /\ dirty /\ proc["salv"] \in {"exited", "signalled"} => "salv" \in b.sdw

-----------------------------------------------------------------------------
(* The operations on a bnode.                                              *)

\* BSTAT_SHUTDOWN and BSTAT_NORMAL.
Goal == {0, 1}

\* The two goals are goals.
LEMMA GoalFacts ==
    0 \in Goal /\ 1 \in Goal /\ \A goal \in Goal : goal \in 0 .. 1 /\ (goal = 0 \/ goal = 1)
BY DEF Goal

\* What the parts of a bnode are.
LEMMA BnodeFields ==
    ASSUME NEW n \in Bnode
    PROVE  /\ n.kind \in Kind /\ n.goal \in 0 .. 1 /\ n.running \subseteq Proc
           /\ n.sdw \subseteq Proc /\ n.kill \subseteq Proc
           /\ n.needsSalvage \in BOOLEAN /\ n.salFile \in BOOLEAN /\ n.timer \in BOOLEAN
           /\ n.waited \in 0 .. FSSDTIME + 1 /\ n.errorStop \in BOOLEAN
           /\ n.errorStopCount \in 0 .. BNODE_ERROR_COUNT_MAX
           /\ n.errorStopDelay \in 0 .. BNODE_ERROR_DELAY_MAX
           /\ n.rsCount \in 0 .. RestartLimit + 1 /\ n.emergency \in BOOLEAN
BY DEF Bnode

\* SetNeedsClock changes the timer only (fsbnodeops.c:866).
LEMMA ClockFacts ==
    ASSUME NEW n \in Bnode
    PROVE  /\ SetNeedsClock(n) \in Bnode
           /\ SetNeedsClock(n) = [n EXCEPT !.timer = NeedsClock(n)]
<1>1. NeedsClock(n) \in BOOLEAN
    BY DEF NeedsClock
<1> QED
    BY <1>1 DEF SetNeedsClock, Bnode

\* The processes that a bnode starts besides the file server never include the salvager.
LEMMA HelpersFacts ==
    ASSUME NEW n
    PROVE  Helpers(n) \subseteq {"vol", "salsrv", "scan"}
BY DEF Helpers

\* SetSalFlag changes the flag and the file together, for fs only (fsbnodeops.c:283).
LEMMA SalFlagFacts ==
    ASSUME NEW n \in Bnode, NEW flag \in BOOLEAN
    PROVE  /\ SetSalFlag(n, flag) \in Bnode
           /\ SetSalFlag(n, flag).running = n.running /\ SetSalFlag(n, flag).sdw = n.sdw
           /\ SetSalFlag(n, flag).kill = n.kill /\ SetSalFlag(n, flag).goal = n.goal
           /\ SetSalFlag(n, flag).kind = n.kind
           /\ SetSalFlag(n, flag).errorStop = n.errorStop
           /\ n.kind = "fs" => /\ SetSalFlag(n, flag).needsSalvage = flag
                               /\ SetSalFlag(n, flag).salFile = flag
           /\ n.kind # "fs" => SetSalFlag(n, flag) = n
BY DEF SetSalFlag, Bnode, Kind

\* bnode_NewProc: processes are added, and a file server that is new sets the flag.
LEMMA StartFacts ==
    ASSUME NEW n \in Bnode, NEW S \in SUBSET Proc, NEW fail \in SUBSET Proc
    PROVE  LET r == StartProcs(n, S, fail) IN
           /\ r \in Bnode
           /\ r.running = n.running \cup (S \ fail)
           /\ r.sdw = n.sdw /\ r.kill = n.kill /\ r.goal = n.goal
           /\ r.kind = n.kind /\ r.errorStop = n.errorStop
           /\ "file" \in r.running \ n.running /\ n.kind = "fs" => r.needsSalvage /\ r.salFile
           /\ "file" \notin r.running \ n.running \/ n.kind # "fs" =>
                 r.needsSalvage = n.needsSalvage /\ r.salFile = n.salFile
<1> DEFINE new == (S \ n.running) \ fail
           m == [n EXCEPT !.running = n.running \cup new]
           r == StartProcs(n, S, fail)
<1>1. /\ m \in Bnode /\ m.running = n.running \cup new /\ m.sdw = n.sdw /\ m.kill = n.kill
      /\ m.goal = n.goal /\ m.kind = n.kind /\ m.errorStop = n.errorStop
      /\ m.needsSalvage = n.needsSalvage /\ m.salFile = n.salFile
    BY DEF Bnode
<1>2. r = IF "file" \in new THEN SetSalFlag(m, TRUE) ELSE m
    BY DEF StartProcs
<1>3. n.running \cup new = n.running \cup (S \ fail)
    OBVIOUS
<1>4. "file" \in (n.running \cup new) \ n.running <=> "file" \in new
    OBVIOUS
<1> HIDE DEF m, new, r
<1>5. CASE "file" \in new
    <2>1. r = SetSalFlag(m, TRUE)
        BY <1>2, <1>5
    <2>2. /\ r \in Bnode
          /\ r.running = m.running /\ r.sdw = m.sdw /\ r.kill = m.kill /\ r.goal = m.goal
          /\ r.kind = m.kind /\ r.errorStop = m.errorStop
          /\ m.kind = "fs" => r.needsSalvage = TRUE /\ r.salFile = TRUE
          /\ m.kind # "fs" => r = m
        BY <2>1, <1>1, SalFlagFacts
    <2>3. r.running = n.running \cup (S \ fail) /\ "file" \in r.running \ n.running
        BY <2>2, <1>1, <1>3, <1>4, <1>5
    <2> QED
        BY <2>2, <2>3, <1>1 DEF r
<1>6. CASE "file" \notin new
    <2>1. r = m
        BY <1>2, <1>6
    <2>2. "file" \notin r.running \ n.running
        BY <2>1, <1>1, <1>4, <1>6
    <2> QED
        BY <2>1, <2>2, <1>1, <1>3 DEF r
<1> QED
    BY <1>5, <1>6

\* bnode_StopProc: processes that run are asked to end, nothing else changes.
LEMMA StopFacts ==
    ASSUME NEW n \in Bnode, NEW S \in SUBSET Proc
    PROVE  LET r == StopProcs(n, S) IN
           /\ r \in Bnode
           /\ r.sdw = n.sdw \cup (S \cap n.running)
           /\ r.running = n.running /\ r.kill = n.kill /\ r.goal = n.goal
           /\ r.kind = n.kind /\ r.errorStop = n.errorStop
           /\ r.needsSalvage = n.needsSalvage /\ r.salFile = n.salFile
<1> DEFINE new == (S \cap n.running) \ n.sdw
           w == IF new = {} THEN n.waited ELSE 0
<1>1. w \in 0 .. FSSDTIME + 1
    BY BosFsAssumption, BnodeFields
<1>2. StopProcs(n, S) = [n EXCEPT !.sdw = n.sdw \cup new, !.waited = w]
    BY DEF StopProcs, Bnode
<1>3. n.sdw \cup new = n.sdw \cup (S \cap n.running) /\ n.sdw \cup new \subseteq Proc
    BY BnodeFields
<1> HIDE DEF w, new
<1> QED
    BY <1>1, <1>2, <1>3 DEF Bnode

\* NudgeProcs keeps a bnode sound, never changes its goal (the emergency stop for a
\* file server beside a salvager cannot happen), and lets go of no process.  It starts
\* a file server only if no salvage is due.
LEMMA NudgeFacts ==
    ASSUME NEW n \in Bnode, Sound(n), NEW fail \in SUBSET Proc
    PROVE  LET r == NudgeProcs(n, fail) IN
           /\ r \in Bnode /\ Sound(r)
           /\ r.kind = n.kind /\ r.goal = n.goal /\ r.errorStop = n.errorStop
           /\ n.running \subseteq r.running /\ n.sdw \subseteq r.sdw /\ r.kill = n.kill
           /\ n.kind = "fs" /\ n.needsSalvage => r.needsSalvage
           /\ n.kind = "fs" /\ n.needsSalvage /\ "file" \in r.running => "file" \in n.running
<1> DEFINE r == NudgeProcs(n, fail)
           Good(x) == /\ x \in Bnode /\ Sound(x)
                      /\ x.kind = n.kind /\ x.goal = n.goal /\ x.errorStop = n.errorStop
                      /\ n.running \subseteq x.running /\ n.sdw \subseteq x.sdw
                      /\ x.kill = n.kill
                      /\ n.kind = "fs" /\ n.needsSalvage => x.needsSalvage
                      /\ n.kind = "fs" /\ n.needsSalvage /\ "file" \in x.running
                           => "file" \in n.running
<1>1. ASSUME NEW x, Good(x) PROVE Good(SetNeedsClock(x))
    <2>1. SetNeedsClock(x) \in Bnode /\ SetNeedsClock(x) = [x EXCEPT !.timer = NeedsClock(x)]
        BY <1>1, ClockFacts
    <2> QED
        BY <1>1, <2>1 DEF Sound, Bnode
<1>2. ASSUME NEW S \in SUBSET Proc PROVE Good(StopProcs(n, S))
    BY StopFacts DEF Sound
<1>3. CASE n.goal = 0
    <2>1. n.running \in SUBSET Proc
        BY BnodeFields
    <2>2. r = SetNeedsClock(StopProcs(n, n.running))
        BY <1>3 DEF NudgeProcs
    <2> QED
        BY <1>1, <1>2, <2>1, <2>2
<1>4. CASE n.goal = 1 /\ "file" \in n.running /\ "salv" \in n.running
    BY <1>4 DEF Sound
<1>5. CASE n.goal = 1 /\ "file" \in n.running /\ "salv" \notin n.running
    <2>1. r = SetNeedsClock(StartProcs(n, Helpers(n), fail))
        BY <1>5 DEF NudgeProcs
    <2>2. Helpers(n) \in SUBSET Proc /\ Helpers(n) \subseteq {"vol", "salsrv", "scan"}
        BY HelpersFacts DEF Proc
    <2>3. Good(StartProcs(n, Helpers(n), fail))
        <3> DEFINE x == StartProcs(n, Helpers(n), fail)
        <3>1. /\ x \in Bnode
              /\ x.running = n.running \cup (Helpers(n) \ fail)
              /\ x.sdw = n.sdw /\ x.kill = n.kill /\ x.goal = n.goal
              /\ x.kind = n.kind /\ x.errorStop = n.errorStop
              /\ "file" \notin x.running \ n.running \/ n.kind # "fs" =>
                    x.needsSalvage = n.needsSalvage /\ x.salFile = n.salFile
            BY <2>2, StartFacts
        <3> HIDE DEF x
        <3>2. x.needsSalvage = n.needsSalvage /\ x.salFile = n.salFile
            BY <3>1, <1>5
        <3>3. "salv" \notin x.running
            BY <3>1, <2>2, <1>5
        <3>4. Good(x)
            BY <3>1, <3>2, <3>3, <1>5 DEF Sound
        <3> QED
            BY <3>4 DEF x
    <2> QED
        BY <1>1, <2>1, <2>3
<1>6. CASE n.goal = 1 /\ "file" \notin n.running /\ ~MustSalvage(n)
    <2> DEFINE S == {"file"} \cup Helpers(n)
               x == StartProcs(n, S, fail)
    <2>1. r = SetNeedsClock(x)
        BY <1>6 DEF NudgeProcs
    <2>2. S \in SUBSET Proc /\ "salv" \notin S
        BY HelpersFacts DEF Proc
    <2>3. /\ x \in Bnode
          /\ x.running = n.running \cup (S \ fail)
          /\ x.sdw = n.sdw /\ x.kill = n.kill /\ x.goal = n.goal
          /\ x.kind = n.kind /\ x.errorStop = n.errorStop
          /\ "file" \in x.running \ n.running /\ n.kind = "fs" => x.needsSalvage /\ x.salFile
          /\ "file" \notin x.running \ n.running \/ n.kind # "fs" =>
                x.needsSalvage = n.needsSalvage /\ x.salFile = n.salFile
        BY <2>2, StartFacts
    <2>4. "salv" \notin n.running /\ ~(n.kind = "fs" /\ n.needsSalvage)
        BY <1>6, BnodeFields DEF MustSalvage, Sound
    <2> HIDE DEF x, S
    <2>5. Good(x)
        <3>1. "salv" \notin x.running
            BY <2>2, <2>3, <2>4
        <3>2. CASE "file" \in x.running \ n.running /\ n.kind = "fs"
            <4>1. x.needsSalvage = TRUE /\ x.salFile = TRUE
                BY <2>3, <3>2, BnodeFields
            <4> QED
                BY <2>3, <2>4, <3>1, <3>2, <4>1 DEF Sound
        <3>3. CASE "file" \notin x.running \ n.running \/ n.kind # "fs"
            BY <2>3, <2>4, <3>1, <3>3, <1>6 DEF Sound
        <3> QED
            BY <3>2, <3>3
    <2> QED
        BY <1>1, <2>1, <2>5
<1>7. CASE n.goal = 1 /\ "file" \notin n.running /\ MustSalvage(n) /\ InUse(n)
    <2>1. r = StopProcs(n, {"vol", "scan"})
        BY <1>7 DEF NudgeProcs
    <2>2. {"vol", "scan"} \in SUBSET Proc
        BY DEF Proc
    <2> QED
        BY <1>2, <2>1, <2>2
<1>8. CASE n.goal = 1 /\ "file" \notin n.running /\ MustSalvage(n) /\ ~InUse(n)
    <2> DEFINE x == StartProcs(n, {"salv"}, fail)
    <2>1. r = SetNeedsClock(x)
        BY <1>8 DEF NudgeProcs
    <2>2. {"salv"} \in SUBSET Proc
        BY DEF Proc
    <2>3. /\ x \in Bnode
          /\ x.running = n.running \cup ({"salv"} \ fail)
          /\ x.sdw = n.sdw /\ x.kill = n.kill /\ x.goal = n.goal
          /\ x.kind = n.kind /\ x.errorStop = n.errorStop
          /\ "file" \notin x.running \ n.running \/ n.kind # "fs" =>
                x.needsSalvage = n.needsSalvage /\ x.salFile = n.salFile
        BY <2>2, StartFacts
    <2>4. "file" \notin x.running
        BY <2>3, <1>8
    <2>5. n.kind = "fs" /\ n.needsSalvage /\ n.running \cap {"vol", "scan"} = {}
        BY <1>8 DEF MustSalvage, InUse
    <2> HIDE DEF x
    <2>6. x.running \cap {"file", "vol", "scan"} = {}
        BY <2>3, <2>4, <2>5
    <2>7. Good(x)
        BY <2>3, <2>4, <2>5, <2>6 DEF Sound
    <2> QED
        BY <1>1, <2>1, <2>7
<1>9. Good(r)
    <2>1. n.goal = 0 \/ n.goal = 1
        BY BnodeFields
    <2> QED
        BY <2>1, <1>3, <1>4, <1>5, <1>6, <1>7, <1>8
<1> QED
    BY <1>9

\* What a handler that stops or starts processes keeps: it lets go of no process, forgets
\* no request to end, keeps the flag, and starts no file server beside it (fs).
Keeps(n, r) ==
    /\ r.kind = n.kind
    /\ n.running \subseteq r.running /\ n.sdw \subseteq r.sdw
    /\ n.kind = "fs" /\ n.needsSalvage => r.needsSalvage
    /\ n.kind = "fs" /\ n.needsSalvage /\ "file" \in r.running => "file" \in n.running

\* bnode_SetStat sets the goal, nudges and ends the error stop (bnode.c:270).
LEMMA SetStatFacts ==
    ASSUME NEW n \in Bnode, Sound(n), NEW goal \in Goal, NEW fail \in SUBSET Proc
    PROVE  LET r == SetStat(n, goal, fail) IN
           /\ r \in Bnode /\ Sound(r) /\ Keeps(n, r)
           /\ r.goal = goal /\ r.errorStop = FALSE
<1> DEFINE m == [n EXCEPT !.goal = goal]
           x == NudgeProcs(m, fail)
           r == SetStat(n, goal, fail)
<1>1. /\ m \in Bnode /\ Sound(m) /\ m.kind = n.kind /\ m.goal = goal
      /\ m.running = n.running /\ m.sdw = n.sdw
      /\ m.needsSalvage = n.needsSalvage
    BY GoalFacts DEF Bnode, Sound
<1> HIDE DEF m
<1>2. /\ x \in Bnode /\ Sound(x) /\ x.kind = m.kind /\ x.goal = m.goal
      /\ m.running \subseteq x.running /\ m.sdw \subseteq x.sdw
      /\ m.kind = "fs" /\ m.needsSalvage => x.needsSalvage
      /\ m.kind = "fs" /\ m.needsSalvage /\ "file" \in x.running => "file" \in m.running
    BY <1>1, NudgeFacts
<1>3. r = [x EXCEPT !.errorStop = FALSE]
    BY DEF SetStat, m
<1> HIDE DEF x, r
<1>4. /\ r \in Bnode /\ Sound(r) /\ r.kind = x.kind /\ r.goal = x.goal
      /\ r.errorStop = FALSE /\ r.running = x.running /\ r.sdw = x.sdw
      /\ r.needsSalvage = x.needsSalvage
    BY <1>2, <1>3 DEF Bnode, Sound
<1>5. Keeps(n, r)
    BY <1>1, <1>2, <1>4 DEF Keeps
<1> QED
    BY <1>1, <1>2, <1>4, <1>5 DEF r

\* bnode_ResetErrorCount touches the error counters only (bnode.c:262).
LEMMA ResetFacts ==
    ASSUME NEW n \in Bnode
    PROVE  LET r == ResetErrorCount(n) IN
           /\ r \in Bnode /\ (Sound(n) => Sound(r))
           /\ r.kind = n.kind /\ r.goal = n.goal /\ r.errorStop = n.errorStop
           /\ r.running = n.running /\ r.sdw = n.sdw /\ r.kill = n.kill
           /\ r.needsSalvage = n.needsSalvage
<1>1. 0 \in 0 .. BNODE_ERROR_COUNT_MAX /\ 0 \in 0 .. BNODE_ERROR_DELAY_MAX
    BY BosFsAssumption
<1> QED
    BY <1>1 DEF ResetErrorCount, Bnode, Sound

\* fs_timeout kills processes that were asked to end, and starts again a bnode that
\* was stopped for errors once all of its processes are gone (fsbnodeops.c:701).
LEMMA TimeoutFacts ==
    ASSUME NEW n \in Bnode, Sound(n), NEW fail \in SUBSET Proc
    PROVE  LET r == fs_timeout(n, fail) IN
           /\ r \in Bnode /\ Sound(r) /\ Keeps(n, r)
           /\ \/ r.goal = n.goal /\ r.errorStop = n.errorStop
              \/ n.errorStop /\ r.goal = 1 /\ r.errorStop = FALSE
<1> DEFINE late == {p \in n.sdw : n.waited > TimeToEnd(p)}
           k == [n EXCEPT !.kill = n.kill \cup late]
           x == IF k.errorStop /\ k.running = {} THEN SetStat(k, 1, fail) ELSE ResetErrorCount(k)
           r == fs_timeout(n, fail)
           Good(m) ==
              /\ m \in Bnode /\ Sound(m) /\ Keeps(n, m)
              /\ \/ m.goal = n.goal /\ m.errorStop = n.errorStop
                 \/ n.errorStop /\ m.goal = 1 /\ m.errorStop = FALSE
<1>1. late \subseteq n.sdw
    OBVIOUS
<1>2. r = SetNeedsClock(x)
    BY DEF fs_timeout
<1> HIDE DEF late
<1>3. /\ k \in Bnode /\ Sound(k) /\ k.kind = n.kind /\ k.goal = n.goal
      /\ k.errorStop = n.errorStop /\ k.running = n.running /\ k.sdw = n.sdw
      /\ k.needsSalvage = n.needsSalvage
    <2>1. n.kill \cup late \in SUBSET Proc /\ n.kill \cup late \subseteq n.sdw
        BY <1>1, BnodeFields DEF Sound
    <2> QED
        BY <2>1 DEF Bnode, Sound
<1> HIDE DEF k
<1>4. Good(x)
    <2>1. CASE k.errorStop /\ k.running = {}
        <3> DEFINE y == SetStat(k, 1, fail)
        <3>1. y \in Bnode /\ Sound(y) /\ Keeps(k, y) /\ y.goal = 1 /\ y.errorStop = FALSE
            BY <1>3, SetStatFacts, GoalFacts
        <3>2. x = y
            BY <2>1
        <3> HIDE DEF x, y
        <3>3. Keeps(n, y)
            BY <3>1, <1>3 DEF Keeps
        <3> QED
            BY <3>1, <3>2, <3>3, <2>1, <1>3
    <2>2. CASE ~(k.errorStop /\ k.running = {})
        <3> DEFINE y == ResetErrorCount(k)
        <3>1. /\ y \in Bnode /\ Sound(y)
              /\ y.kind = k.kind /\ y.goal = k.goal /\ y.errorStop = k.errorStop
              /\ y.running = k.running /\ y.sdw = k.sdw
              /\ y.needsSalvage = k.needsSalvage
            BY <1>3, ResetFacts
        <3>2. x = y
            BY <2>2
        <3> HIDE DEF x, y
        <3>3. Keeps(n, y)
            BY <3>1, <1>3 DEF Keeps
        <3> QED
            BY <3>1, <3>2, <3>3, <1>3
    <2> QED
        BY <2>1, <2>2
<1> HIDE DEF x, r
<1>5. Good(r)
    <2>1. r \in Bnode /\ r = [x EXCEPT !.timer = NeedsClock(x)]
        BY <1>2, <1>4, ClockFacts
    <2> QED
        BY <1>4, <2>1 DEF Sound, Bnode, Keeps
<1> QED
    BY <1>5 DEF r

\* bproc's count of restarts stops a bnode for errors only if it was to run (bnode.c:646).
LEMMA CountFacts ==
    ASSUME NEW n \in Bnode, NEW fresh \in BOOLEAN
    PROVE  LET r == CountRestart(n, fresh) IN
           /\ r \in Bnode /\ (Sound(n) => Sound(r))
           /\ r.kind = n.kind /\ r.running = n.running /\ r.sdw = n.sdw /\ r.kill = n.kill
           /\ r.needsSalvage = n.needsSalvage
           /\ \/ r.goal = n.goal /\ r.errorStop = n.errorStop
              \/ n.goal = 1 /\ r.goal = 0 /\ r.errorStop = TRUE
<1> DEFINE count == IF fresh THEN 0 ELSE n.rsCount
           delay == IF n.errorStopDelay = 0 THEN 1 ELSE 2 * n.errorStopDelay
           rs == IF n.goal = 1 /\ count <= RestartLimit THEN count + 1 ELSE count
           capped == IF delay > BNODE_ERROR_DELAY_MAX THEN BNODE_ERROR_DELAY_MAX ELSE delay
           m == [n EXCEPT !.rsCount = rs]
           r == CountRestart(n, fresh)
<1>1. count \in 0 .. RestartLimit + 1
    BY BnodeFields, BosFsAssumption
<1>2. rs \in 0 .. RestartLimit + 1
    BY <1>1, BosFsAssumption
<1>3. delay \in Nat
    BY BnodeFields, BosFsAssumption
<1>4. capped \in 0 .. BNODE_ERROR_DELAY_MAX
    BY <1>3, BosFsAssumption
<1>5. /\ n.errorStopCount \in 0 .. BNODE_ERROR_COUNT_MAX
      /\ ~(n.errorStopCount >= BNODE_ERROR_COUNT_MAX)
           => n.errorStopCount + 1 \in 0 .. BNODE_ERROR_COUNT_MAX
      /\ 0 \in 0 .. 1 /\ 0 \in 0 .. BNODE_ERROR_DELAY_MAX /\ (n.goal = 0 \/ n.goal = 1)
    BY BnodeFields, BosFsAssumption
<1>6. /\ m \in Bnode /\ (Sound(n) => Sound(m))
      /\ m.kind = n.kind /\ m.running = n.running /\ m.sdw = n.sdw /\ m.kill = n.kill
      /\ m.needsSalvage = n.needsSalvage /\ m.goal = n.goal /\ m.errorStop = n.errorStop
      /\ m.errorStopCount = n.errorStopCount
    <2> HIDE DEF rs
    <2> QED
        BY <1>2 DEF Bnode, Sound
<1>7. r = IF n.goal = 0 \/ count <= RestartLimit THEN m
          ELSE IF n.errorStopCount >= BNODE_ERROR_COUNT_MAX
          THEN [m EXCEPT !.errorStopDelay = 0, !.errorStop = TRUE, !.goal = 0]
          ELSE [m EXCEPT !.errorStopCount = m.errorStopCount + 1, !.errorStop = TRUE, !.goal = 0,
                         !.errorStopDelay = capped]
    BY Zenon DEF CountRestart
<1> HIDE DEF m, rs, capped, delay, count
<1>8. CASE n.goal = 0 \/ count <= RestartLimit
    BY <1>6, <1>7, <1>8
<1>9. CASE ~(n.goal = 0 \/ count <= RestartLimit) /\ n.errorStopCount >= BNODE_ERROR_COUNT_MAX
    <2>1. r = [m EXCEPT !.errorStopDelay = 0, !.errorStop = TRUE, !.goal = 0]
        BY <1>7, <1>9
    <2> HIDE DEF r
    <2>2. /\ r \in Bnode /\ (Sound(m) => Sound(r))
          /\ r.kind = m.kind /\ r.running = m.running /\ r.sdw = m.sdw /\ r.kill = m.kill
          /\ r.needsSalvage = m.needsSalvage /\ r.goal = 0 /\ r.errorStop = TRUE
        BY <2>1, <1>5, <1>6 DEF Bnode, Sound
    <2> QED
        BY <2>2, <1>5, <1>6, <1>9 DEF r
<1>10. CASE ~(n.goal = 0 \/ count <= RestartLimit) /\ ~(n.errorStopCount >= BNODE_ERROR_COUNT_MAX)
    <2>1. r = [m EXCEPT !.errorStopCount = m.errorStopCount + 1, !.errorStop = TRUE, !.goal = 0,
                        !.errorStopDelay = capped]
        BY <1>7, <1>10
    <2> HIDE DEF r
    <2>2. m.errorStopCount + 1 \in 0 .. BNODE_ERROR_COUNT_MAX
        BY <1>5, <1>6, <1>10
    <2>3. /\ r \in Bnode /\ (Sound(m) => Sound(r))
          /\ r.kind = m.kind /\ r.running = m.running /\ r.sdw = m.sdw /\ r.kill = m.kill
          /\ r.needsSalvage = m.needsSalvage /\ r.goal = 0 /\ r.errorStop = TRUE
        BY <2>1, <2>2, <1>4, <1>5, <1>6 DEF Bnode, Sound
    <2> QED
        BY <2>3, <1>5, <1>6, <1>10 DEF r
<1> QED
    BY <1>8, <1>9, <1>10

\* fs_procexit: the salvage flag is given up only by a file server that was asked to end
\* and exited, or by a salvager that was not (fsbnodeops.c:811).
CleanExit(n, p, how) ==
    \/ p = "file" /\ "file" \in n.sdw \ n.kill /\ how = "exited"
    \/ p = "salv" /\ "salv" \notin n.sdw

\* An exit keeps a bnode sound, and keeps the flag unless it was a clean one.
LEMMA ExitFacts ==
    ASSUME NEW n \in Bnode, Sound(n), NEW p \in n.running, NEW how, NEW fail \in SUBSET Proc
    PROVE  LET r == fs_procexit(n, p, how, fail) IN
           /\ r \in Bnode /\ Sound(r)
           /\ r.kind = n.kind /\ r.goal = n.goal /\ r.errorStop = n.errorStop
           /\ n.running \ {p} \subseteq r.running /\ n.sdw \ {p} \subseteq r.sdw
           /\ n.kind = "fs" /\ n.needsSalvage /\ ~CleanExit(n, p, how) =>
                 /\ r.needsSalvage
                 /\ "file" \in r.running => "file" \in n.running \ {p}
<1> DEFINE m == IF CleanExit(n, p, how) THEN SetSalFlag(n, FALSE) ELSE n
           x == [m EXCEPT !.running = m.running \ {p}, !.sdw = m.sdw \ {p}, !.kill = m.kill \ {p}]
           r == fs_procexit(n, p, how, fail)
<1>1. r = NudgeProcs(x, fail)
    BY DEF fs_procexit, CleanExit
<1>2. /\ m \in Bnode /\ m.kind = n.kind /\ m.goal = n.goal /\ m.errorStop = n.errorStop
      /\ m.running = n.running /\ m.sdw = n.sdw /\ m.kill = n.kill
      /\ m.kind = "fs" /\ CleanExit(n, p, how) => m.needsSalvage = FALSE /\ m.salFile = FALSE
      /\ ~(m.kind = "fs" /\ CleanExit(n, p, how)) => m = n
    <2>1. CASE CleanExit(n, p, how)
        <3>1. m = SetSalFlag(n, FALSE)
            BY <2>1
        <3> HIDE DEF m
        <3> QED
            BY <2>1, <3>1, SalFlagFacts
    <2>2. CASE ~CleanExit(n, p, how)
        <3>1. m = n
            BY <2>2
        <3> HIDE DEF m
        <3> QED
            BY <2>2, <3>1
    <2> QED
        BY <2>1, <2>2
<1>3. CleanExit(n, p, how) => p = "file" \/ p = "salv"
    BY DEF CleanExit
<1> HIDE DEF m
<1>4. /\ x \in Bnode /\ x.kind = n.kind /\ x.goal = n.goal /\ x.errorStop = n.errorStop
      /\ x.running = n.running \ {p} /\ x.sdw = n.sdw \ {p} /\ x.kill = n.kill \ {p}
      /\ x.needsSalvage = m.needsSalvage /\ x.salFile = m.salFile
    <2>1. m.running \ {p} \in SUBSET Proc /\ m.sdw \ {p} \in SUBSET Proc /\ m.kill \ {p} \in SUBSET Proc
        BY <1>2, BnodeFields
    <2> QED
        BY <1>2, <2>1 DEF Bnode
<1> HIDE DEF x
<1>5. Sound(x)
    <2>1. CASE m.kind = "fs" /\ CleanExit(n, p, how)
        <3>1. {"file", "salv"} \cap n.running = {p}
            BY <2>1, <1>3 DEF Sound
        <3> QED
            BY <2>1, <3>1, <1>2, <1>4 DEF Sound
    <2>2. CASE ~(m.kind = "fs" /\ CleanExit(n, p, how))
        BY <2>2, <1>2, <1>4 DEF Sound
    <2> QED
        BY <2>1, <2>2
<1>6. /\ r \in Bnode /\ Sound(r)
      /\ r.kind = x.kind /\ r.goal = x.goal /\ r.errorStop = x.errorStop
      /\ x.running \subseteq r.running /\ x.sdw \subseteq r.sdw /\ r.kill = x.kill
      /\ x.kind = "fs" /\ x.needsSalvage => r.needsSalvage
      /\ x.kind = "fs" /\ x.needsSalvage /\ "file" \in r.running => "file" \in x.running
    BY <1>1, <1>4, <1>5, NudgeFacts
<1> HIDE DEF r
<1>7. ~CleanExit(n, p, how) => m.needsSalvage = n.needsSalvage
    BY <1>2
<1> QED
    BY <1>4, <1>6, <1>7 DEF r

\* fs_create and dafs_create make a bnode without processes; its flag is the file.
LEMMA NewFacts ==
    ASSUME NEW kind \in Kind, NEW salFile \in BOOLEAN
    PROVE  LET r == NewBnode(kind, salFile) IN
           /\ r \in Bnode /\ Sound(r) /\ r.kind = kind /\ r.running = {}
           /\ kind = "fs" => r.needsSalvage = salFile
<1> DEFINE n == [kind |-> kind, goal |-> 0, running |-> {}, sdw |-> {}, kill |-> {},
                 needsSalvage |-> FALSE, salFile |-> salFile, timer |-> TRUE,
                 waited |-> 0, errorStop |-> FALSE, errorStopCount |-> 0,
                 errorStopDelay |-> 0, rsCount |-> 0, emergency |-> FALSE]
           x == [n EXCEPT !.needsSalvage = RestoreSalFlag(n)]
           r == NewBnode(kind, salFile)
<1>1. n \in Bnode /\ n.kind = kind /\ n.salFile = salFile
    BY BosFsAssumption DEF Bnode
<1>2. r = SetNeedsClock(x)
    BY Zenon DEF NewBnode
<1>3. n.running = {} /\ n.sdw = {} /\ n.kill = {}
    OBVIOUS
<1> HIDE DEF n
<1>4. RestoreSalFlag(n) \in BOOLEAN /\ (kind = "fs" => RestoreSalFlag(n) = salFile)
    BY <1>1 DEF RestoreSalFlag
<1>5. /\ x \in Bnode /\ x.kind = kind /\ x.running = {} /\ x.sdw = {} /\ x.kill = {}
      /\ x.salFile = salFile /\ (kind = "fs" => x.needsSalvage = salFile)
    BY <1>1, <1>3, <1>4 DEF Bnode
<1> HIDE DEF x, r
<1>6. r \in Bnode /\ r = [x EXCEPT !.timer = NeedsClock(x)]
    BY <1>2, <1>5, ClockFacts
<1>7. /\ r.kind = kind /\ r.running = {} /\ r.sdw = {} /\ r.kill = {}
      /\ r.salFile = salFile /\ (kind = "fs" => r.needsSalvage = salFile)
    BY <1>5, <1>6 DEF Bnode
<1> QED
    BY <1>6, <1>7 DEF r, Sound

-----------------------------------------------------------------------------
(* Steps.                                                                  *)

\* At most one spawn fails in a step.
LEMMA FailuresFacts ==
    ASSUME NEW fail \in Failures
    PROVE  fail \in SUBSET Proc /\ Cardinality(fail) \in Nat
<1>1. fail = {} \/ \E p \in Proc : fail = {p}
    BY DEF Failures
<1>2. CASE fail = {}
    BY <1>2, FS_EmptySet
<1>3. ASSUME NEW p \in Proc, fail = {p} PROVE fail \in SUBSET Proc /\ Cardinality(fail) \in Nat
    BY <1>3, FS_Singleton
<1> QED
    BY <1>1, <1>2, <1>3

\* The parts of the type invariant that a handler of the bnode touches.
BnodeTypeOK ==
    /\ b \in Bnode
    /\ proc \in [Proc -> {"none", "up", "exited", "signalled"}]
    /\ \A p \in Proc : p \in b.running <=> proc[p] # "none"
    /\ spawnFailed \in BOOLEAN /\ faults \in Nat

\* A handler of the bnode leaves processes that agree with the flags.
LEMMA BecomeFacts ==
    ASSUME TypeOK, NEW n \in Bnode, NEW kept \in SUBSET b.running, NEW fail \in Failures,
           Become(n, kept, fail)
    PROVE  /\ b' = n
           /\ BnodeTypeOK'
           /\ \A p \in Proc : proc'[p] = IF p \notin n.running THEN "none"
                                         ELSE IF p \in kept THEN proc[p] ELSE "up"
<1>1. b' = n
    BY DEF Become
<1>2. proc' = [p \in Proc |-> IF p \notin n.running THEN "none"
                              ELSE IF p \in kept THEN proc[p] ELSE "up"]
    BY <1>1 DEF Become
<1>3. \A p \in Proc : proc'[p] = IF p \notin n.running THEN "none"
                                 ELSE IF p \in kept THEN proc[p] ELSE "up"
    BY <1>2
<1>4. ASSUME NEW p \in Proc
      PROVE  proc'[p] \in {"none", "up", "exited", "signalled"} /\ (p \in n.running <=> proc'[p] # "none")
    BY <1>3 DEF TypeOK
<1>5. proc' \in [Proc -> {"none", "up", "exited", "signalled"}]
    BY <1>2, <1>4
<1>6. faults' \in Nat /\ spawnFailed' \in BOOLEAN
    BY FailuresFacts DEF Become, TypeOK
<1> QED
    BY <1>1, <1>3, <1>4, <1>5, <1>6 DEF BnodeTypeOK

\* A handler that does not give up the salvage flag, starts no file server beside it, and
\* keeps what it asked of the processes it keeps, keeps what is known of killed ones.
LEMMA BecomeSalvaged ==
    ASSUME TypeOK, Salvaged, NEW n \in Bnode, Sound(n), NEW kept \in SUBSET b.running,
           NEW fail \in Failures, Become(n, kept, fail), dirty' = dirty, n.kind = b.kind,
           b.kind = "fs" /\ dirty => n.needsSalvage /\ ("file" \in n.running => "file" \in kept),
           kept \cap b.sdw \subseteq n.sdw
    PROVE  Salvaged'
<1>1. /\ b' = n
      /\ \A p \in Proc : proc'[p] = IF p \notin n.running THEN "none"
                                    ELSE IF p \in kept THEN proc[p] ELSE "up"
    BY BecomeFacts
<1>2. "file" \in Proc /\ "salv" \in Proc
    BY DEF Proc
<1>3. b'.kind = "fs" /\ dirty' => b'.needsSalvage /\ proc'["file"] \in {"none", "signalled"}
    BY <1>1, <1>2 DEF Salvaged
<1>4. dirty' /\ proc'["salv"] \in {"exited", "signalled"} => "salv" \in b'.sdw
    BY <1>1, <1>2 DEF Salvaged
<1> QED
    BY <1>3, <1>4 DEF Salvaged

\* A timeout of the bnode.
LEMMA TimeoutStep ==
    ASSUME Inv, Timeout
    PROVE  Inv' /\ (Salvaged => Salvaged')
<1> DEFINE w == IF b.waited <= FSSDTIME THEN b.waited + 1 ELSE b.waited
           n == [b EXCEPT !.waited = w]
<1>1. PICK fail \in Failures : Become(fs_timeout(n, fail), b.running, fail)
    BY DEF Timeout
<1>2. b \in Bnode /\ Sound(b)
    BY DEF Inv, TypeOK
<1>3. w \in 0 .. FSSDTIME + 1
    BY <1>2, BnodeFields, BosFsAssumption
<1> HIDE DEF w
<1>4. /\ n \in Bnode /\ Sound(n) /\ n.kind = b.kind /\ n.goal = b.goal
      /\ n.errorStop = b.errorStop /\ n.running = b.running /\ n.sdw = b.sdw
      /\ n.needsSalvage = b.needsSalvage
    BY <1>2, <1>3 DEF Bnode, Sound
<1> HIDE DEF n
<1> DEFINE r == fs_timeout(n, fail)
<1>5. fail \in SUBSET Proc
    BY FailuresFacts
<1>6. /\ r \in Bnode /\ Sound(r) /\ Keeps(n, r)
      /\ \/ r.goal = n.goal /\ r.errorStop = n.errorStop
         \/ n.errorStop /\ r.goal = 1 /\ r.errorStop = FALSE
    BY <1>4, <1>5, TimeoutFacts
<1>7. Become(r, b.running, fail)
    BY <1>1
<1> HIDE DEF r
<1>8. b' = r /\ BnodeTypeOK'
    BY <1>6, <1>7, BecomeFacts DEF Inv
<1>9. /\ rpc' \in {"idle", "awake", "asleep"}
      /\ UNCHANGED <<wanted, crossed, dirty, calls, reboots>>
      /\ rpc = "idle" <=> rpc' = "idle"
    BY DEF Timeout, Check, Inv, TypeOK
<1>10. TypeOK' /\ Sound(b')
    BY <1>6, <1>8, <1>9 DEF BnodeTypeOK, Inv, TypeOK, Sound
<1>11. Goals'
    BY <1>4, <1>6, <1>8, <1>9 DEF Inv, Goals, GoalIsWanted
<1>12. ASSUME Salvaged PROVE Salvaged'
    <2>1. b.kind = "fs" /\ dirty => r.needsSalvage /\ ("file" \in r.running => "file" \in b.running)
        BY <1>4, <1>6, <1>12 DEF Salvaged, Keeps
    <2>2. b.running \cap b.sdw \subseteq r.sdw /\ r.kind = b.kind
        BY <1>4, <1>6 DEF Keeps
    <2> QED
        BY <1>4, <1>6, <1>7, <1>9, <1>12, <2>1, <2>2, BecomeSalvaged DEF Inv
<1> QED
    BY <1>10, <1>11, <1>12 DEF Inv

\* The exit of a process: what bproc counts and what fs_procexit does.
LEMMA ProcExitStep ==
    ASSUME Inv, NEW p \in Proc, ProcExit(p)
    PROVE  Inv' /\ (Salvaged => Salvaged')
<1>1. PICK fail \in Failures, fresh \in BOOLEAN :
          Become(fs_procexit(CountRestart(b, fresh), p, proc[p], fail), b.running \ {p}, fail)
    BY DEF ProcExit
<1>2. b \in Bnode /\ Sound(b) /\ p \in b.running /\ proc[p] \in {"exited", "signalled"}
    BY DEF Inv, TypeOK, ProcExit
<1> DEFINE n == CountRestart(b, fresh)
<1>3. /\ n \in Bnode /\ Sound(n)
      /\ n.kind = b.kind /\ n.running = b.running /\ n.sdw = b.sdw /\ n.kill = b.kill
      /\ n.needsSalvage = b.needsSalvage
      /\ \/ n.goal = b.goal /\ n.errorStop = b.errorStop
         \/ b.goal = 1 /\ n.goal = 0 /\ n.errorStop = TRUE
    BY <1>2, CountFacts
<1> HIDE DEF n
<1> DEFINE r == fs_procexit(n, p, proc[p], fail)
<1>4. fail \in SUBSET Proc /\ p \in n.running
    BY <1>2, <1>3, FailuresFacts
<1>5. /\ r \in Bnode /\ Sound(r)
      /\ r.kind = n.kind /\ r.goal = n.goal /\ r.errorStop = n.errorStop
      /\ n.running \ {p} \subseteq r.running /\ n.sdw \ {p} \subseteq r.sdw
      /\ n.kind = "fs" /\ n.needsSalvage /\ ~CleanExit(n, p, proc[p]) =>
            /\ r.needsSalvage
            /\ "file" \in r.running => "file" \in n.running \ {p}
    BY <1>3, <1>4, ExitFacts
<1>6. Become(r, b.running \ {p}, fail)
    BY <1>1 DEF n
<1> HIDE DEF r
<1>7. b' = r /\ BnodeTypeOK'
    BY <1>5, <1>6, BecomeFacts DEF Inv
<1>8. /\ rpc' \in {"idle", "awake", "asleep"}
      /\ UNCHANGED <<wanted, crossed, dirty, calls, reboots>>
      /\ rpc = "idle" <=> rpc' = "idle"
    BY DEF ProcExit, Check, Inv, TypeOK
<1>9. TypeOK' /\ Sound(b')
    BY <1>5, <1>7, <1>8 DEF BnodeTypeOK, Inv, TypeOK, Sound
<1>10. Goals'
    <2>1. /\ r.errorStop => b.errorStop \/ b.goal = 1
          /\ r.goal = 1 => b.goal = 1
          /\ r.goal = 0 => (b.goal = 0 /\ r.errorStop = b.errorStop) \/ r.errorStop
        BY <1>2, <1>3, <1>5 DEF Bnode
    <2>2. wanted \in 0 .. 1 /\ Goals
        BY DEF Inv, TypeOK
    <2>3. r.errorStop => wanted = 1 \/ crossed
        BY <2>1, <2>2 DEF Goals, GoalIsWanted
    <2>4. r.goal = 0 /\ wanted = 1 => r.errorStop \/ rpc # "idle"
        BY <2>1, <2>2 DEF Goals, GoalIsWanted
    <2> QED
        BY <1>7, <1>8, <2>1, <2>2, <2>3, <2>4 DEF Goals, GoalIsWanted
<1>11. ASSUME Salvaged PROVE Salvaged'
    <2>1. b.kind = "fs" /\ dirty => ~CleanExit(n, p, proc[p])
        BY <1>2, <1>3, <1>11 DEF Salvaged, CleanExit
    <2>2. b.kind = "fs" /\ dirty =>
              r.needsSalvage /\ ("file" \in r.running => "file" \in b.running \ {p})
        BY <1>3, <1>5, <1>11, <2>1 DEF Salvaged
    <2>3. (b.running \ {p}) \cap b.sdw \subseteq r.sdw /\ b.running \ {p} \in SUBSET b.running
        BY <1>3, <1>5
    <2> QED
        BY <1>3, <1>5, <1>6, <1>8, <1>11, <2>2, <2>3, BecomeSalvaged DEF Inv
<1> QED
    BY <1>9, <1>10, <1>11 DEF Inv

\* A status set by a call or by the end of a restart: bnode_SetStat with a goal that is
\* the one asked for, or the stop of a restart, or its start after a stop that crossed it.
LEMMA SetStatStep ==
    ASSUME Inv, NEW n \in {b, ResetErrorCount(b)}, NEW goal \in Goal, NEW fail \in Failures,
           Become(SetStat(n, goal, fail), b.running, fail),
           wanted' \in 0 .. 1, crossed' \in BOOLEAN,
           goal = 1 /\ wanted' = 0 => crossed',
           goal = 0 /\ wanted' = 1 => rpc' # "idle",
           rpc' # "idle" /\ wanted' = 0 => crossed',
           dirty' = dirty, rpc' \in {"idle", "awake", "asleep"},
           calls' \in Nat, reboots' = reboots
    PROVE  Inv' /\ (Salvaged => Salvaged')
<1>1. b \in Bnode /\ Sound(b)
    BY DEF Inv, TypeOK
<1>2. /\ n \in Bnode /\ Sound(n) /\ n.kind = b.kind /\ n.running = b.running
      /\ n.sdw = b.sdw /\ n.needsSalvage = b.needsSalvage
    BY <1>1, ResetFacts
<1>3. fail \in SUBSET Proc
    BY FailuresFacts
<1> DEFINE r == SetStat(n, goal, fail)
<1>4. r \in Bnode /\ Sound(r) /\ Keeps(n, r) /\ r.goal = goal /\ r.errorStop = FALSE
    BY <1>2, <1>3, SetStatFacts
<1>5. Become(r, b.running, fail)
    OBVIOUS
<1> HIDE DEF r
<1>6. b' = r /\ BnodeTypeOK'
    BY <1>4, <1>5, BecomeFacts DEF Inv
<1>7. dirty' \in BOOLEAN /\ reboots' \in Nat
    BY DEF Inv, TypeOK
<1>8. TypeOK' /\ Sound(b')
    <2>1. b'.kill \subseteq b'.sdw /\ b'.sdw \subseteq b'.running /\ Sound(b')
        BY <1>4, <1>6 DEF Sound
    <2> QED
        BY <1>6, <1>7, <2>1 DEF BnodeTypeOK, TypeOK
<1>9. Goals'
    BY <1>4, <1>6 DEF Goals, GoalIsWanted
<1>10. ASSUME Salvaged PROVE Salvaged'
    <2>1. b.kind = "fs" /\ dirty => r.needsSalvage /\ ("file" \in r.running => "file" \in b.running)
        BY <1>2, <1>4, <1>10 DEF Salvaged, Keeps
    <2>2. b.running \cap b.sdw \subseteq r.sdw /\ r.kind = b.kind
        BY <1>2, <1>4 DEF Keeps
    <2> QED
        BY <1>2, <1>4, <1>5, <1>10, <2>1, <2>2, BecomeSalvaged DEF Inv
<1> QED
    BY <1>8, <1>9, <1>10 DEF Inv

\* A process ends or fails by itself: the bnode does not change.
LEMMA ProcEndsStep ==
    ASSUME Inv, NEW p \in Proc, NEW how \in {"exited", "signalled"}, ProcEnds(p, how)
    PROVE  Inv' /\ (Salvaged => Salvaged')
<1>1. /\ proc[p] = "up"
      /\ proc' = [proc EXCEPT ![p] = how]
      /\ UNCHANGED <<b, rpc, wanted, crossed, spawnFailed, faults, calls, reboots>>
    BY DEF ProcEnds
<1>2. /\ p = "file" /\ how = "signalled" => dirty' = TRUE
      /\ p = "salv" /\ "salv" \notin b.sdw => dirty' = FALSE
      /\ ~(p = "file" /\ how = "signalled") /\ ~(p = "salv" /\ "salv" \notin b.sdw)
            => dirty' = dirty
      /\ dirty' \in BOOLEAN
    BY DEF ProcEnds, Inv, TypeOK
<1>3. /\ \A q \in Proc : proc'[q] = IF q = p THEN how ELSE proc[q]
      /\ proc' \in [Proc -> {"none", "up", "exited", "signalled"}]
    BY <1>1 DEF Inv, TypeOK
<1>4. Inv'
    BY <1>1, <1>2, <1>3 DEF Inv, TypeOK, Sound, Goals, GoalIsWanted, Bnode
<1>5. ASSUME Salvaged PROVE Salvaged'
    <2>1. "file" \in Proc /\ "salv" \in Proc /\ p \in b.running
        BY <1>1 DEF Proc, Inv, TypeOK
    <2>2. CASE p = "file"
        <3>1. "salv" \notin b.running
            BY <2>1, <2>2 DEF Inv, Sound
        <3>2. proc'["salv"] = "none" /\ proc'["file"] = how
            BY <1>3, <2>1, <2>2, <3>1 DEF Inv, TypeOK
        <3>3. how = "exited" => dirty' = dirty
            BY <1>2, <2>2
        <3> QED
            BY <1>1, <1>5, <2>1, <2>2, <3>2, <3>3 DEF Salvaged, Inv, Sound
    <2>3. CASE p = "salv" /\ "salv" \notin b.sdw
        BY <1>2, <2>3 DEF Salvaged
    <2>4. CASE p # "file" /\ ~(p = "salv" /\ "salv" \notin b.sdw)
        <3>1. dirty' = dirty
            BY <1>2, <2>4
        <3>2. proc'["file"] = proc["file"] /\ (p # "salv" => proc'["salv"] = proc["salv"])
            BY <1>3, <2>1, <2>4
        <3> QED
            BY <1>1, <1>5, <2>4, <3>1, <3>2 DEF Salvaged
    <2> QED
        BY <2>2, <2>3, <2>4
<1> QED
    BY <1>4, <1>5

\* The failure of a salvager is not told from its end, so that a killed file server is
\* known as such only if salvagers do not fail.
LEMMA ProcFailsStep ==
    ASSUME Inv, NEW p \in Proc, NEW how \in {"exited", "signalled"}, ProcFails(p, how)
    PROVE  Inv' /\ (Salvaged /\ "salv" \notin Fallible => Salvaged')
<1>1. /\ proc[p] = "up" /\ p \in Fallible /\ faults' = faults + 1
      /\ proc' = [proc EXCEPT ![p] = how]
      /\ dirty' = (dirty \/ (p = "file" /\ how = "signalled"))
      /\ UNCHANGED <<b, rpc, wanted, crossed, spawnFailed, calls, reboots>>
    BY DEF ProcFails
<1>2. dirty' \in BOOLEAN /\ faults' \in Nat
    BY <1>1 DEF Inv, TypeOK
<1>3. /\ \A q \in Proc : proc'[q] = IF q = p THEN how ELSE proc[q]
      /\ proc' \in [Proc -> {"none", "up", "exited", "signalled"}]
    BY <1>1 DEF Inv, TypeOK
<1>4. Inv'
    BY <1>1, <1>2, <1>3 DEF Inv, TypeOK, Sound, Goals, GoalIsWanted, Bnode
<1>5. ASSUME Salvaged, "salv" \notin Fallible PROVE Salvaged'
    <2>1. "file" \in Proc /\ "salv" \in Proc /\ p \in b.running /\ p # "salv"
        BY <1>1, <1>5 DEF Proc, Inv, TypeOK
    <2>2. CASE p = "file"
        <3>1. "salv" \notin b.running
            BY <2>1, <2>2 DEF Inv, Sound
        <3>2. proc'["salv"] = "none" /\ proc'["file"] = how
            BY <1>3, <2>1, <2>2, <3>1 DEF Inv, TypeOK
        <3>3. how = "exited" => dirty' = dirty
            BY <1>1, <2>2 DEF Inv, TypeOK
        <3> QED
            BY <1>1, <1>5, <2>1, <2>2, <3>2, <3>3 DEF Salvaged, Inv, Sound
    <2>3. CASE p # "file"
        <3>1. dirty' = dirty
            BY <1>1, <2>3 DEF Inv, TypeOK
        <3>2. proc'["file"] = proc["file"] /\ proc'["salv"] = proc["salv"]
            BY <1>3, <2>1, <2>3
        <3> QED
            BY <1>1, <1>5, <3>1, <3>2 DEF Salvaged
    <2> QED
        BY <2>2, <2>3
<1> QED
    BY <1>4, <1>5

\* A bnode that has just been created is told to stop and then given its goal.
Started(n, goal) == SetStat(SetStat(n, 0, {}), goal, {})

\* It keeps the salvage flag, and no file server is started while the flag is set.
LEMMA StartedFacts ==
    ASSUME NEW n \in Bnode, Sound(n), n.running = {}, NEW goal \in Goal
    PROVE  LET r == Started(n, goal) IN
           /\ r \in Bnode /\ Sound(r) /\ r.kind = n.kind /\ r.goal = goal /\ r.errorStop = FALSE
           /\ n.kind = "fs" /\ n.needsSalvage => r.needsSalvage /\ "file" \notin r.running
<1> DEFINE m == SetStat(n, 0, {})
           r == SetStat(m, goal, {})
<1>1. {} \in SUBSET Proc
    OBVIOUS
<1>2. m \in Bnode /\ Sound(m) /\ Keeps(n, m)
    BY <1>1, SetStatFacts, GoalFacts
<1> HIDE DEF m
<1>3. r \in Bnode /\ Sound(r) /\ Keeps(m, r) /\ r.goal = goal /\ r.errorStop = FALSE
    BY <1>1, <1>2, SetStatFacts
<1> HIDE DEF r
<1>4. /\ r \in Bnode /\ Sound(r) /\ r.kind = n.kind /\ r.goal = goal /\ r.errorStop = FALSE
      /\ n.kind = "fs" /\ n.needsSalvage => r.needsSalvage /\ "file" \notin r.running
    BY <1>2, <1>3 DEF Keeps
<1> QED
    BY <1>4 DEF r, m, Started

\* A reboot: the file SALVAGE.<instance> tells the new bnode of a file server that ran.
LEMMA RebootStep ==
    ASSUME Inv, NEW goal \in Goal, Reboot(goal)
    PROVE  Inv' /\ (Salvaged => Salvaged')
<1> DEFINE k == NewBnode(b.kind, b.salFile)
           n == Started(k, goal)
<1>1. /\ reboots' = reboots + 1 /\ b' = n
      /\ proc' = [p \in Proc |-> IF p \in n.running THEN "up" ELSE "none"]
      /\ dirty' = (dirty \/ proc["file"] = "up")
      /\ wanted' = goal /\ crossed' = FALSE /\ rpc' = "idle"
      /\ UNCHANGED <<spawnFailed, faults, calls>>
    BY DEF Reboot, Started
<1>2. b.kind \in Kind /\ b.salFile \in BOOLEAN /\ b \in Bnode /\ Sound(b)
    BY BnodeFields DEF Inv, TypeOK
<1>3. /\ n \in Bnode /\ Sound(n) /\ n.kind = b.kind /\ n.goal = goal /\ n.errorStop = FALSE
      /\ b.kind = "fs" /\ b.salFile => n.needsSalvage /\ "file" \notin n.running
    <2>1. /\ k \in Bnode /\ Sound(k) /\ k.kind = b.kind /\ k.running = {}
          /\ b.kind = "fs" => k.needsSalvage = b.salFile
        BY <1>2, NewFacts
    <2> HIDE DEF k
    <2>2. /\ n \in Bnode /\ Sound(n) /\ n.kind = k.kind /\ n.goal = goal /\ n.errorStop = FALSE
          /\ k.kind = "fs" /\ k.needsSalvage => n.needsSalvage /\ "file" \notin n.running
        BY <2>1, StartedFacts
    <2> HIDE DEF n
    <2> QED
        BY <2>1, <2>2
<1> HIDE DEF n, k
<1>4. /\ proc' \in [Proc -> {"none", "up", "exited", "signalled"}]
      /\ \A p \in Proc : proc'[p] = IF p \in n.running THEN "up" ELSE "none"
    BY <1>1
<1>5. reboots' \in Nat /\ wanted' \in 0 .. 1
    BY <1>1, GoalFacts DEF Inv, TypeOK
<1>9. dirty' \in BOOLEAN /\ crossed' \in BOOLEAN
    BY <1>1 DEF Inv, TypeOK
<1>6. TypeOK' /\ Sound(b')
    <2>1. n.kill \subseteq n.sdw /\ n.sdw \subseteq n.running
        BY <1>3 DEF Sound
    <2>2. \A p \in Proc : p \in n.running <=> proc'[p] # "none"
        BY <1>4
    <2> QED
        BY <1>1, <1>3, <1>4, <1>5, <1>9, <2>1, <2>2 DEF Inv, TypeOK
<1>7. Goals'
    BY <1>1, <1>3 DEF Goals, GoalIsWanted
<1>8. ASSUME Salvaged PROVE Salvaged'
    <2>1. "file" \in Proc /\ "salv" \in Proc
        BY DEF Proc
    <2>2. b.kind = "fs" /\ (dirty \/ proc["file"] = "up") => b.salFile
        BY <1>2, <1>8, <2>1 DEF Salvaged, Inv, TypeOK, Sound
    <2>3. n.kind = "fs" /\ dirty' => n.needsSalvage /\ proc'["file"] = "none"
        BY <1>1, <1>3, <1>4, <2>1, <2>2
    <2>4. proc'["salv"] \notin {"exited", "signalled"}
        BY <1>4, <2>1
    <2> QED
        BY <1>1, <2>3, <2>4 DEF Salvaged
<1> QED
    BY <1>6, <1>7, <1>8 DEF Inv

\* The bnode when the bos server first starts.
LEMMA InitInv ==
    ASSUME Init
    PROVE  Inv /\ Salvaged
<1>1. PICK kind \in Kinds :
          LET n == SetStat(SetStat(NewBnode(kind, FALSE), 0, {}), 1, {})
          IN  b = n /\ proc = [p \in Proc |-> IF p \in n.running THEN "up" ELSE "none"]
    BY DEF Init
<1> DEFINE k == NewBnode(kind, FALSE)
           n == Started(k, 1)
<1>2. b = n /\ proc = [p \in Proc |-> IF p \in n.running THEN "up" ELSE "none"]
    BY <1>1 DEF Started
<1>3. kind \in Kind
    BY BosFsAssumption DEF Kind
<1>4. k \in Bnode /\ Sound(k) /\ k.running = {}
    BY <1>3, NewFacts
<1> HIDE DEF k
<1>5. n \in Bnode /\ Sound(n) /\ n.goal = 1 /\ n.errorStop = FALSE
    BY <1>4, StartedFacts, GoalFacts
<1> HIDE DEF n
<1>6. /\ rpc = "idle" /\ wanted = 1 /\ crossed = FALSE /\ dirty = FALSE /\ spawnFailed = FALSE
      /\ faults = 0 /\ calls = 0 /\ reboots = 0
    BY DEF Init
<1>7. /\ proc \in [Proc -> {"none", "up", "exited", "signalled"}]
      /\ \A p \in Proc : p \in b.running <=> proc[p] # "none"
    BY <1>2
<1>8. b.kill \subseteq b.sdw /\ b.sdw \subseteq b.running
    BY <1>2, <1>5 DEF Sound
<1>9. TypeOK
    <2>1. /\ rpc \in {"idle", "awake", "asleep"} /\ wanted \in 0 .. 1
          /\ faults \in Nat /\ calls \in Nat /\ reboots \in Nat
        BY <1>6
    <2>2. dirty \in BOOLEAN /\ spawnFailed \in BOOLEAN /\ crossed \in BOOLEAN
        BY <1>6, Zenon
    <2>3. b \in Bnode
        BY <1>2, <1>5
    <2> QED
        BY <1>7, <1>8, <2>1, <2>2, <2>3 DEF TypeOK
<1>10. Goals /\ Salvaged
    BY <1>2, <1>5, <1>6 DEF Goals, GoalIsWanted, Salvaged
<1> QED
    BY <1>2, <1>5, <1>9, <1>10 DEF Inv

\* Every step keeps the invariant; what is known of killed file servers it keeps if the
\* salvager does not fail.
LEMMA NextInv ==
    ASSUME Inv, [Next]_vars
    PROVE  Inv' /\ (Salvaged /\ "salv" \notin Fallible => Salvaged')
<1>1. CASE Timeout
    BY <1>1, TimeoutStep
<1>2. ASSUME NEW p \in Proc, ProcExit(p)
      PROVE  Inv' /\ (Salvaged => Salvaged')
    BY <1>2, ProcExitStep
<1>3. ASSUME NEW goal \in 0 .. 1, NEW reset \in BOOLEAN, Call(goal, reset)
      PROVE  Inv' /\ (Salvaged => Salvaged')
    <2> DEFINE n == IF reset THEN ResetErrorCount(b) ELSE b
    <2>1. PICK fail \in Failures : Become(SetStat(n, goal, fail), b.running, fail)
        BY <1>3 DEF Call
    <2>2. /\ wanted' = goal /\ dirty' = dirty /\ rpc' \in {"idle", "awake", "asleep"}
          /\ calls' \in Nat /\ reboots' = reboots
        BY <1>3 DEF Call, Check, Inv, TypeOK
    <2>5. crossed' = (goal = 0 /\ rpc # "idle") /\ (rpc = "idle" <=> rpc' = "idle")
        BY <1>3 DEF Call, Check
    <2>6. crossed' \in BOOLEAN /\ (rpc' # "idle" /\ goal = 0 => crossed')
        BY <2>5, Zenon
    <2>3. goal \in Goal
        BY DEF Goal
    <2>4. n \in {b, ResetErrorCount(b)}
        OBVIOUS
    <2> HIDE DEF n
    <2> QED
        BY <2>1, <2>2, <2>3, <2>4, <2>6, GoalFacts, SetStatStep
<1>4. CASE Restart
    <2>1. {} \in Failures /\ b \in {b, ResetErrorCount(b)}
        BY DEF Failures
    <2>2. /\ Become(SetStat(b, 0, {}), b.running, {})
          /\ wanted' = 1 /\ crossed' = FALSE /\ dirty' = dirty /\ rpc' = "awake"
          /\ calls' \in Nat /\ reboots' = reboots
        BY <1>4 DEF Restart, Inv, TypeOK
    <2>3. crossed' \in BOOLEAN
        BY <2>2, Zenon
    <2> QED
        BY <2>1, <2>2, <2>3, GoalFacts, SetStatStep
<1>5. CASE WaitStatus
    <2>1. CASE rpc' = "asleep" /\ UNCHANGED <<b, proc, spawnFailed, faults>>
        BY <1>5, <2>1 DEF WaitStatus, Inv, TypeOK, Sound, Goals, GoalIsWanted, Salvaged
    <2>2. CASE /\ \E fail \in Failures :
                    Become(SetStat(ResetErrorCount(b), 1, fail), b.running, fail)
               /\ rpc' = "idle"
        <3>1. PICK fail \in Failures :
                  Become(SetStat(ResetErrorCount(b), 1, fail), b.running, fail)
            BY <2>2
        <3>2. /\ dirty' = dirty /\ calls' \in Nat /\ reboots' = reboots
              /\ wanted' \in 0 .. 1 /\ (wanted' = 0 => crossed')
            BY <1>5 DEF WaitStatus, Inv, TypeOK, Goals
        <3>4. crossed' \in BOOLEAN
            BY <1>5 DEF WaitStatus, Inv, TypeOK
        <3>3. ResetErrorCount(b) \in {b, ResetErrorCount(b)} /\ rpc' \in {"idle", "awake", "asleep"}
            BY <2>2
        <3> QED
            BY <2>2, <3>1, <3>2, <3>3, <3>4, GoalFacts, SetStatStep
    <2> QED
        BY <1>5, <2>1, <2>2 DEF WaitStatus
<1>6. ASSUME NEW p \in Proc, NEW how \in {"exited", "signalled"}, ProcEnds(p, how)
      PROVE  Inv' /\ (Salvaged => Salvaged')
    BY <1>6, ProcEndsStep
<1>7. ASSUME NEW p \in Proc, NEW how \in {"exited", "signalled"}, ProcFails(p, how)
      PROVE  Inv' /\ (Salvaged /\ "salv" \notin Fallible => Salvaged')
    BY <1>7, ProcFailsStep
<1>8. ASSUME NEW goal \in 0 .. 1, Reboot(goal)
      PROVE  Inv' /\ (Salvaged => Salvaged')
    <2>1. goal \in Goal
        BY DEF Goal
    <2> QED
        BY <1>8, <2>1, RebootStep
<1>9. CASE UNCHANGED vars
    BY <1>9 DEF vars, Inv, TypeOK, Sound, Goals, GoalIsWanted, Salvaged
<1> QED
    BY <1>1, <1>2, <1>3, <1>4, <1>5, <1>6, <1>7, <1>8, <1>9 DEF Next

-----------------------------------------------------------------------------
(* Theorems.                                                               *)

\* The inductive invariant holds always.
LEMMA InvCorrect == Spec => []Inv
<1>1. Init => Inv
    BY InitInv
<1>2. Inv /\ [Next]_vars => Inv'
    BY NextInv
<1> QED
    BY <1>1, <1>2, PTL DEF Spec

\* The flags of the bnode agree with each other and with the processes there are, in
\* every state: xxxKillSent implies xxxSDW, which implies xxxRunning (fsbnodeops.c).
THEOREM TypeCorrect == Spec => []TypeOK
<1>1. Inv => TypeOK
    BY DEF Inv
<1> QED
    BY <1>1, InvCorrect, PTL

\* While the salvager runs, no file server, volume server or scanner does, whatever
\* fails, is killed, is asked for or is rebooted (NudgeProcs, fsbnodeops.c:909).
THEOREM SalvagerAloneCorrect == Spec => []SalvagerAlone
<1>1. Inv => SalvagerAlone
    <2> SUFFICES ASSUME Inv, proc["salv"] = "up", NEW p \in {"file", "vol", "scan"}
                 PROVE  proc[p] # "up"
        BY DEF SalvagerAlone
    <2>1. "salv" \in Proc /\ p \in Proc
        BY DEF Proc
    <2>2. "salv" \in b.running
        BY <2>1 DEF Inv, TypeOK
    <2>3. p \notin b.running
        BY <2>2 DEF Inv, Sound
    <2> QED
        BY <2>1, <2>3 DEF Inv, TypeOK
<1> QED
    BY <1>1, InvCorrect, PTL

\* No timer, exit or retry after errors changes what administrators asked for last: the
\* only stop that is undone is one that came while SBOZO_Restart was waiting, and a bnode
\* that is to run is stopped only by such a wait or for errors (bosoprocs.c, bnode.c).
THEOREM GoalIsWantedCorrect == Spec => []GoalIsWanted
<1>1. Inv => GoalIsWanted
    BY DEF Inv, Goals
<1> QED
    BY <1>1, InvCorrect, PTL

\* If salvagers end only when their work is done or they are asked to, no file server
\* follows a killed one before a salvage has ended.  The assumption is needed: fs_procexit
\* (fsbnodeops.c:842) takes any end of a salvager that was not asked for as a salvage done.
THEOREM KilledIsSalvagedCorrect ==
    ASSUME "salv" \notin Fallible
    PROVE  Spec => []KilledIsSalvaged
<1>1. Init => Inv /\ Salvaged
    BY InitInv
<1>2. (Inv /\ Salvaged) /\ [Next]_vars => (Inv /\ Salvaged)'
    BY NextInv
<1>3. Salvaged => KilledIsSalvaged
    BY DEF Salvaged, KilledIsSalvaged
<1> QED
    BY <1>1, <1>2, <1>3, PTL DEF Spec

=============================================================================
