------------------------------- MODULE BosFs -------------------------------
(***************************************************************************)
(* The bos server's node for a file server: the processes it starts, stops *)
(* and restarts (src/bozo/fsbnodeops.c), the thread that sees their exits  *)
(* and runs the timeouts (bproc in src/bozo/bnode.c), and the calls of     *)
(* administrators (src/bozo/bosoprocs.c).                                  *)
(*                                                                         *)
(* All threads of the bos server are LWPs, which give up the processor     *)
(* only where they wait; a call, an exit and a timeout are one action      *)
(* each.  A process that has ended stays until bproc has seen it, which is *)
(* where the actions of the operating system and of bproc interleave.      *)
(***************************************************************************)
EXTENDS Integers, FiniteSets

CONSTANTS
    Kinds,                  \* subset of {"fs", "dafs"}: fs_create, dafs_create
    Scanner,                \* a scanner is configured (scancmd)
    Fallible,               \* processes that may end without being asked to
    Stubborn,               \* processes that may ignore SIGTERM and SIGQUIT
    SDTIME, FSSDTIME,       \* in timeouts: how long a process has to end
    RestartLimit,           \* restarts within 30 seconds (10)
    BNODE_ERROR_COUNT_MAX, BNODE_ERROR_DELAY_MAX,
    MaxFaults,              \* bound: failures of processes and of spawns
    MaxCalls,               \* bound: calls of administrators
    MaxReboots              \* bound: reboots of the machine

Proc == {"file", "vol", "salv", "scan", "salsrv"}

ASSUME BosFsAssumption ==
    /\ Kinds \subseteq {"fs", "dafs"} /\ Kinds # {}
    /\ Scanner \in BOOLEAN
    /\ Fallible \subseteq Proc /\ Stubborn \subseteq Proc
    /\ SDTIME \in Nat /\ FSSDTIME \in Nat /\ SDTIME <= FSSDTIME
    /\ RestartLimit \in Nat
    /\ BNODE_ERROR_COUNT_MAX \in Nat /\ BNODE_ERROR_DELAY_MAX \in Nat \ {0}
    /\ MaxFaults \in Nat /\ MaxCalls \in Nat /\ MaxReboots \in Nat

VARIABLES
    b,          \* struct fsbnode, and the file SALVAGE.<instance>
    proc,       \* the processes, as the operating system has them
    rpc,        \* the thread of SBOZO_Restart: "idle", "awake" or "asleep"
    wanted,     \* history: the goal that was asked for last
    crossed,    \* history: that was a stop, and came while a SBOZO_Restart was under way
    dirty,      \* history: a file server was killed and no salvage has ended since
    spawnFailed,
    faults, calls, reboots

vars == <<b, proc, rpc, wanted, crossed, dirty, spawnFailed, faults, calls, reboots>>

-----------------------------------------------------------------------------
(* The bnode.  running, sdw and kill are the sets of the processes whose   *)
(* flags xxxRunning, xxxSDW and xxxKillSent are set.  timer is             *)
(* BNODE_NEEDTIMEOUT, waited counts the timeouts since timeSDStarted.      *)

Kind == {"fs", "dafs"}

Bnode ==
    [kind : Kind, goal : 0 .. 1, running : SUBSET Proc, sdw : SUBSET Proc,
     kill : SUBSET Proc, needsSalvage : BOOLEAN, salFile : BOOLEAN,
     timer : BOOLEAN, waited : 0 .. FSSDTIME + 1, errorStop : BOOLEAN,
     errorStopCount : 0 .. BNODE_ERROR_COUNT_MAX,
     errorStopDelay : 0 .. BNODE_ERROR_DELAY_MAX,
     rsCount : 0 .. RestartLimit + 1, emergency : BOOLEAN]

\* The servers that run besides the file server.
Helpers(n) ==
    {"vol"} \cup (IF n.kind = "dafs" THEN {"salsrv"} ELSE {})
            \cup (IF Scanner THEN {"scan"} ELSE {})

SetSalFlag(n, flag) ==
    IF n.kind = "dafs" THEN n ELSE [n EXCEPT !.needsSalvage = flag, !.salFile = flag]

\* Mutant: the flag does not survive a reboot.
RestoreSalFlag_Never(n) == FALSE
RestoreSalFlag(n) == n.kind = "fs" /\ n.salFile

ResetErrorCount(n) == [n EXCEPT !.errorStopCount = 0, !.errorStopDelay = 0]

\* Someone has been asked to end and has not been killed.
Ending(n) == n.sdw \ n.kill # {}

AllUp(n) == ({"file"} \cup Helpers(n)) \subseteq n.running

NeedsClock(n) ==
    \/ Ending(n)
    \/ /\ n.goal = 1
       /\ AllUp(n) => n.errorStopCount > 0
    \/ /\ n.goal = 0
       /\ n.running = {} => n.errorStop /\ n.errorStopDelay > 0

SetNeedsClock(n) == [n EXCEPT !.timer = NeedsClock(n)]

\* bnode_NewProc for each process of S; those of fail cannot be spawned.
StartProcs(n, S, fail) ==
    LET new == (S \ n.running) \ fail
        m   == [n EXCEPT !.running = @ \cup new]
    IN  IF "file" \in new THEN SetSalFlag(m, TRUE) ELSE m

\* bnode_StopProc for each process of S that runs.
StopProcs(n, S) ==
    LET new == (S \cap n.running) \ n.sdw
    IN  [n EXCEPT !.sdw = @ \cup new, !.waited = IF new = {} THEN @ ELSE 0]

\* An open partition must be salvaged: the file server is down and crashed.
MustSalvage(n) == n.needsSalvage /\ n.kind = "fs"

\* Mutant: a process that was asked to end counts as gone.
InUse_Asked(n) == (n.running \ n.sdw) \cap {"vol", "scan"} # {}

\* The volume server and the scanner must be gone before the salvager runs.
InUse(n) == n.running \cap {"vol", "scan"} # {}

NudgeProcs(n, fail) ==
    CASE n.goal = 0 ->
           SetNeedsClock(StopProcs(n, n.running))
      \* Never reached (SalvagerAlone); what it does to the salvager is left out.
      [] n.goal = 1 /\ "file" \in n.running /\ "salv" \in n.running ->
           SetNeedsClock([n EXCEPT !.goal = 0, !.emergency = TRUE])
      [] n.goal = 1 /\ "file" \in n.running /\ "salv" \notin n.running ->
           SetNeedsClock(StartProcs(n, Helpers(n), fail))
      [] n.goal = 1 /\ "file" \notin n.running /\ ~MustSalvage(n) ->
           SetNeedsClock(StartProcs(n, {"file"} \cup Helpers(n), fail))
      [] n.goal = 1 /\ "file" \notin n.running /\ MustSalvage(n) ->
           IF InUse(n)
           THEN StopProcs(n, {"vol", "scan"})
           ELSE SetNeedsClock(StartProcs(n, {"salv"}, fail))

\* Mutant: the error stop is not ended by a call.
SetStat_Retries(n, goal, fail) == NudgeProcs([n EXCEPT !.goal = goal], fail)
SetStat(n, goal, fail) ==
    [NudgeProcs([n EXCEPT !.goal = goal], fail) EXCEPT !.errorStop = FALSE]

fs_getstat(n) ==
    CASE n.sdw # {} -> "shutting down"
      [] n.sdw = {} /\ ("salv" \in n.running \/ AllUp(n)) -> "normal"
      [] n.sdw = {} /\ n.running = {} -> "shutdown"
      [] OTHER -> "starting up"

TimeToEnd(p) == IF p = "file" THEN FSSDTIME ELSE SDTIME

\* Mutant: the volume server is never killed.
fs_timeout_NoVol(n, fail) ==
    LET k == [n EXCEPT !.kill = @ \cup {p \in n.sdw \ {"vol"} : n.waited > TimeToEnd(p)}]
    IN  SetNeedsClock(IF k.errorStop /\ k.running = {}
                      THEN SetStat(k, 1, fail)
                      ELSE ResetErrorCount(k))
fs_timeout(n, fail) ==
    LET k == [n EXCEPT !.kill = @ \cup {p \in n.sdw : n.waited > TimeToEnd(p)}]
    IN  SetNeedsClock(IF k.errorStop /\ k.running = {}
                      THEN SetStat(k, 1, fail)
                      ELSE ResetErrorCount(k))

\* Mutant: xxxKillSent is not reset.
fs_procexit_KeepsKill(n, p, how, fail) ==
    NudgeProcs([n EXCEPT !.running = @ \ {p}, !.sdw = @ \ {p}], fail)
\* Mutant: the salvage flag is not reset.
fs_procexit_KeepsFlag(n, p, how, fail) ==
    NudgeProcs([n EXCEPT !.running = @ \ {p}, !.sdw = @ \ {p}, !.kill = @ \ {p}], fail)
fs_procexit(n, p, how, fail) ==
    LET clean == \/ p = "file" /\ "file" \in n.sdw \ n.kill /\ how = "exited"
                 \/ p = "salv" /\ "salv" \notin n.sdw
        m     == IF clean THEN SetSalFlag(n, FALSE) ELSE n
    IN  NudgeProcs([m EXCEPT !.running = @ \ {p}, !.sdw = @ \ {p}, !.kill = @ \ {p}],
                   fail)

\* bproc counts the exits of the last 30 seconds; after too many it stops the
\* bnode, to try again after a delay.
CountRestart(n, fresh) ==
    LET count == IF fresh THEN 0 ELSE n.rsCount
        delay == IF n.errorStopDelay = 0 THEN 1 ELSE 2 * n.errorStopDelay
        m     == [n EXCEPT !.rsCount = IF n.goal = 1 /\ count <= RestartLimit
                                       THEN count + 1 ELSE count]
    IN  IF n.goal = 0 \/ count <= RestartLimit THEN m
        ELSE IF n.errorStopCount >= BNODE_ERROR_COUNT_MAX
        THEN [m EXCEPT !.errorStopDelay = 0, !.errorStop = TRUE, !.goal = 0]
        ELSE [m EXCEPT !.errorStopCount = @ + 1, !.errorStop = TRUE, !.goal = 0,
                       !.errorStopDelay =
                           IF delay > BNODE_ERROR_DELAY_MAX
                           THEN BNODE_ERROR_DELAY_MAX ELSE delay]

\* fs_create, dafs_create.
NewBnode(kind, salFile) ==
    LET n == [kind |-> kind, goal |-> 0, running |-> {}, sdw |-> {}, kill |-> {},
              needsSalvage |-> FALSE, salFile |-> salFile, timer |-> TRUE,
              waited |-> 0, errorStop |-> FALSE, errorStopCount |-> 0,
              errorStopDelay |-> 0, rsCount |-> 0, emergency |-> FALSE]
    IN  SetNeedsClock([n EXCEPT !.needsSalvage = RestoreSalFlag(n)])

-----------------------------------------------------------------------------
(* Steps.                                                                  *)

\* The sets of spawns that may fail.
Failures == {{}} \cup (IF faults < MaxFaults THEN {{p} : p \in Proc} ELSE {})

\* The bnode becomes n; kept are the processes that ran before and still do.
Become(n, kept, fail) ==
    /\ b' = n
    /\ proc' = [p \in Proc |-> IF p \notin b'.running THEN "none"
                               ELSE IF p \in kept THEN proc[p] ELSE "up"]
    /\ faults' = faults + Cardinality(fail)
    /\ spawnFailed' = (spawnFailed \/ fail # {})

\* bnode_Check.
\* Mutant: waiting threads are not woken.
Check_Lost == rpc' = rpc
Check == rpc' = IF rpc = "asleep" THEN "awake" ELSE rpc

\* bproc: the timer of the bnode has run out.
Timeout ==
    /\ b.timer
    /\ \E fail \in Failures :
         LET n == [b EXCEPT !.waited = IF @ <= FSSDTIME THEN @ + 1 ELSE @]
         IN  Become(fs_timeout(n, fail), b.running, fail)
    /\ Check
    /\ UNCHANGED <<wanted, crossed, dirty, calls, reboots>>

\* bproc: waitpid returns process p.
ProcExit(p) ==
    /\ proc[p] \in {"exited", "signalled"}
    /\ \E fail \in Failures, n \in {CountRestart(b, fresh) : fresh \in BOOLEAN} :
         Become(fs_procexit(n, p, proc[p], fail), b.running \ {p}, fail)
    /\ Check
    /\ UNCHANGED <<wanted, crossed, dirty, calls, reboots>>

\* SBOZO_SetStatus, SBOZO_SetTStatus (which resets the error count).
Call(goal, reset) ==
    /\ calls < MaxCalls
    /\ calls' = calls + 1
    /\ \E fail \in Failures :
         Become(SetStat(IF reset THEN ResetErrorCount(b) ELSE b, goal, fail),
                b.running, fail)
    /\ wanted' = goal /\ crossed' = (goal = 0 /\ rpc # "idle")
    /\ Check
    /\ UNCHANGED <<dirty, reboots>>

\* SBOZO_Restart up to its wait: the administrator asks for a bnode that runs.
Restart ==
    /\ calls < MaxCalls /\ rpc = "idle"
    /\ calls' = calls + 1
    /\ Become(SetStat(b, 0, {}), b.running, {})
    /\ wanted' = 1 /\ crossed' = FALSE
    /\ rpc' = "awake"
    /\ UNCHANGED <<dirty, reboots>>

\* bnode_WaitStatus, and the rest of SBOZO_Restart, which starts the bnode even if
\* someone has asked for a stop meanwhile.
WaitStatus ==
    /\ rpc = "awake"
    /\ \/ /\ fs_getstat(b) # "shutdown" /\ b.goal = 0
          /\ rpc' = "asleep"
          /\ UNCHANGED <<b, proc, spawnFailed, faults>>
       \/ /\ fs_getstat(b) = "shutdown" \/ b.goal # 0
          /\ \E fail \in Failures :
               Become(SetStat(ResetErrorCount(b), 1, fail), b.running, fail)
          /\ rpc' = "idle"
    /\ UNCHANGED <<wanted, crossed, dirty, calls, reboots>>

\* A process ends because it was asked to or killed, or because its work is done.
ProcEnds(p, how) ==
    /\ proc[p] = "up"
    /\ \/ p \in b.sdw
       \/ p = "salv" /\ how = "exited"
    /\ proc' = [proc EXCEPT ![p] = how]
    /\ dirty' = \/ p = "file" /\ how = "signalled"
                \/ dirty /\ ~(p = "salv" /\ "salv" \notin b.sdw)
    /\ UNCHANGED <<b, rpc, wanted, crossed, spawnFailed, faults, calls, reboots>>

\* A process fails.
ProcFails(p, how) ==
    /\ proc[p] = "up" /\ p \in Fallible /\ p \notin b.sdw
    /\ faults < MaxFaults
    /\ faults' = faults + 1
    /\ proc' = [proc EXCEPT ![p] = how]
    /\ dirty' = (dirty \/ (p = "file" /\ how = "signalled"))
    /\ UNCHANGED <<b, rpc, wanted, crossed, spawnFailed, calls, reboots>>

\* The machine reboots; the bos server creates the bnode again and sets the
\* goal that BosConfig names.
Reboot(goal) ==
    /\ reboots < MaxReboots
    /\ reboots' = reboots + 1
    /\ LET n == SetStat(SetStat(NewBnode(b.kind, b.salFile), 0, {}), goal, {})
       IN  /\ b' = n
           /\ proc' = [p \in Proc |-> IF p \in n.running THEN "up" ELSE "none"]
           \* A file server that has ended by itself has closed its partitions.
           /\ dirty' = (dirty \/ proc["file"] = "up")
    /\ wanted' = goal /\ crossed' = FALSE
    /\ rpc' = "idle"
    /\ UNCHANGED <<spawnFailed, faults, calls>>

Init ==
    /\ \E kind \in Kinds :
         LET n == SetStat(SetStat(NewBnode(kind, FALSE), 0, {}), 1, {})
         IN  /\ b = n
             /\ proc = [p \in Proc |-> IF p \in n.running THEN "up" ELSE "none"]
    /\ rpc = "idle" /\ wanted = 1 /\ crossed = FALSE
    /\ dirty = FALSE /\ spawnFailed = FALSE
    /\ faults = 0 /\ calls = 0 /\ reboots = 0

Next ==
    \/ Timeout
    \/ \E p \in Proc : ProcExit(p)
    \/ \E goal \in 0 .. 1, reset \in BOOLEAN : Call(goal, reset)
    \/ Restart
    \/ WaitStatus
    \/ \E p \in Proc, how \in {"exited", "signalled"} : ProcEnds(p, how)
    \/ \E p \in Proc, how \in {"exited", "signalled"} : ProcFails(p, how)
    \/ \E goal \in 0 .. 1 : Reboot(goal)

(***************************************************************************)
(* Fairness: bproc runs its timers and waits for children in a loop, and a *)
(* thread that was woken is run.  A process that was sent SIGKILL ends;    *)
(* one that was asked to end does so unless it is stubborn; the salvager   *)
(* finishes.  Nothing makes administrators call or processes fail.         *)
(***************************************************************************)
EndsSurely(p) ==
    /\ p \in b.kill \/ (p \in b.sdw /\ p \notin Stubborn) \/ p = "salv"
    /\ \E how \in {"exited", "signalled"} : ProcEnds(p, how)

Fairness ==
    /\ WF_vars(Timeout)
    /\ WF_vars(WaitStatus)
    /\ WF_vars(\E p \in Proc : ProcExit(p))
    /\ WF_vars(\E p \in Proc : EndsSurely(p))

Spec == Init /\ [][Next]_vars

FairSpec == Spec /\ Fairness

-----------------------------------------------------------------------------
(* Properties.                                                             *)

\* The flags of a bnode agree with each other and with the processes there are:
\* xxxKillSent implies xxxSDW, which implies xxxRunning (fsbnodeops.c).
TypeOK ==
    /\ b \in Bnode
    /\ proc \in [Proc -> {"none", "up", "exited", "signalled"}]
    /\ \A p \in Proc : p \in b.running <=> proc[p] # "none"
    /\ b.kill \subseteq b.sdw /\ b.sdw \subseteq b.running
    /\ rpc \in {"idle", "awake", "asleep"}
    /\ wanted \in 0 .. 1 /\ crossed \in BOOLEAN /\ dirty \in BOOLEAN /\ spawnFailed \in BOOLEAN
    /\ faults \in Nat /\ calls \in Nat /\ reboots \in Nat

\* The salvager has the partitions for itself: while it runs, no file server,
\* volume server or scanner does.
SalvagerAlone ==
    proc["salv"] = "up" => \A p \in {"file", "vol", "scan"} : proc[p] # "up"

\* A file server that was killed, by a signal or by a reboot, is not followed
\* by another one before a salvage has ended (fs, not dafs).
KilledIsSalvaged ==
    b.kind = "fs" /\ dirty => proc["file"] # "up"

\* No exit, timer or retry after errors changes what administrators asked for last.  A
\* bnode that was stopped is to run only if the stop came while SBOZO_Restart waited for
\* the bnode to shut down, which then undoes it (bosoprocs.c:1056); one that was asked to
\* run is to stop only during such a wait or for errors.
GoalIsWanted ==
    /\ b.goal = 1 /\ wanted = 0 => crossed
    /\ b.goal = 0 /\ wanted = 1 => b.errorStop \/ rpc # "idle"

\* A bnode that is to stop, stops, whatever its processes do.
StopsInTheEnd == b.goal = 0 ~> (b.running = {} \/ b.goal = 1)

\* SBOZO_Restart does not wait for ever.
RestartReturns == rpc # "idle" ~> rpc = "idle"

Serving(n) == AllUp(n) /\ n.sdw = {}

\* A process that was told to end neither ends nor is killed.
Hangs == \E p \in b.sdw \ b.kill : proc[p] = "up"

\* A bnode that is to run, runs in the end, if no process hangs and every
\* process could be spawned.
ServesInTheEnd ==
    (<>[](b.goal = 1) /\ []<>~Hangs /\ []~spawnFailed) => <>[]Serving(b)

\* The comment on fs_timeout: it is called to SIGKILL a process if it does not
\* terminate normally.
HangingIsKilled == Hangs ~> ~Hangs

=============================================================================
