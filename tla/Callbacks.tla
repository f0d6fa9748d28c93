------------------------------ MODULE Callbacks ------------------------------
(***************************************************************************)
(* Callback promises of the file server (viced/callback.c), as its calls    *)
(* (viced/afsfileprocs.c), its fsync thread and its host check use them.    *)
(*                                                                          *)
(* A client that fetches a file gets a promise to be told when it changes;  *)
(* the server keeps a CallBack for it.  An update breaks the promises of    *)
(* the other clients before it returns.  A client that cannot be reached is *)
(* marked VENUSDOWN, and what it was not told is kept as a delayed callback *)
(* (or as a reset that is due, when RESETDONE is off): CallPreamble must    *)
(* deliver it before it lets another call of that client in.                *)
(*                                                                          *)
(* H_LOCK is held between two calls that drop it, so a step runs from one   *)
(* of those to the next: an RPC to a client, or h_Lock_r, which always      *)
(* drops H_LOCK before it asks for the lock of a host.  All files are in    *)
(* one volume.                                                              *)
(***************************************************************************)
EXTENDS Naturals, FiniteSets, FiniteSetsExt

CONSTANTS Hosts,         \* clients
          Files,         \* files of the volume
          Volume,        \* the fid (volume, 0, 0), which stands for all of them
          Calls,         \* threads that serve calls
          Fsync,         \* the thread FsyncCheckLWP
          None,
          MAX_CB_HOSTS,  \* hosts told by one multi_Rx
          AFSCBMAX,      \* fids in one RXAFSCB_CallBack
          nblks,         \* callback entries of the server
          MaxChanges     \* bound: times the volume comes back with other contents

ASSUME CallbackConstants ==
    /\ MAX_CB_HOSTS \in Nat \ {0} /\ AFSCBMAX \in Nat \ {0} /\ nblks \in Nat \ {0}
    /\ MaxChanges \in Nat
    /\ Volume \notin Files /\ Fsync \notin Calls
    /\ None \notin Hosts \cup Files \cup Calls \cup {Volume, Fsync}

VARIABLES flags,    \* hostFlags of each host
          cbs,      \* the CallBack entries
          lock,     \* the thread that holds the lock of a host
          thread,   \* what each thread is doing
          promise,  \* what each client believes of each file
          changes   \* times the volume changed

vars == <<flags, cbs, lock, thread, promise, changes>>

Threads == Calls \cup {Fsync}
Fids == Files \cup {Volume}

\* NORMAL stands for CB_NORMAL, CB_BULK and CB_VOLUME; BREAKING is NORMAL with
\* CBFLAG_BREAKING; LATER is CB_DELAYED on a FileEntry with FE_LATER, which FindFE skips.
Status == {"NORMAL", "BREAKING", "DELAYED", "LATER"}
CallBack == [h : Hosts, f : Fids, st : Status]
HostFlags == {"VENUSDOWN", "RESETDONE", "HFE_LATER", "HCBREAK"}

PC == {"idle", "init", "bulk", "work", "break", "breakall", "multi", "alloc",
       "clear", "reply", "enum", "wait"}

\* h: the host whose call this is; f: the fid it works on; set: what an RPC under way
\* is to tell (callbacks in "bulk", hosts in "multi" and "enum"); target: a host it
\* locks, or wants to; victim: a host whose callbacks it clears; valid: no break
\* reached the client since it sent the call; old: the file changed after it was read.
Thread == [pc : PC, h : Hosts \cup {None}, f : Fids \cup {None},
           set : (SUBSET Hosts) \cup (SUBSET CallBack),
           target : Hosts \cup {None}, victim : Hosts \cup {None},
           type : {"NORMAL", "DELAYED"}, try : 0..2, valid : BOOLEAN, old : BOOLEAN]

Idle == [pc |-> "idle", h |-> None, f |-> None, set |-> {}, target |-> None,
         victim |-> None, type |-> "NORMAL", try |-> 0, valid |-> FALSE, old |-> FALSE]

\* A host is known and reset, or its first InitCallBackState failed and it may still
\* have promises of an earlier run of the server.
Init ==
    /\ flags \in [Hosts -> {{"RESETDONE"}, {"VENUSDOWN"}}]
    /\ promise \in [Hosts -> [Files -> {"none", "stale"}]]
    /\ \A h \in Hosts, f \in Files : promise[h][f] = "stale" => flags[h] = {"VENUSDOWN"}
    /\ cbs = {}
    /\ changes = 0
    /\ lock = [h \in Hosts |-> None]
    /\ thread = [t \in Threads |-> Idle]

---------------------------------------------------------------------------
\* The client.

\* It drops its promises on F (all of them, when told of the volume).
ClearCallBack(h, F) ==
    [promise EXCEPT ![h] = [f \in Files |-> IF f \in F \/ Volume \in F THEN "none" ELSE @[f]]]

\* ... and will not take a promise from a call that is under way (afs_allCBs; the client
\* may be less careful about calls on files it has not cached).
Raced(h) ==
    [t \in Threads |-> IF thread[t].h = h THEN [thread[t] EXCEPT !.valid = FALSE] ELSE thread[t]]

\* An RPC to a client succeeds, or fails before or after the client ran it.
Outcome == {[ok |-> TRUE, told |-> TRUE], [ok |-> FALSE, told |-> TRUE], [ok |-> FALSE, told |-> FALSE]}

\* What the RPC with outcome r that tells h of F leaves of the promises and the threads.
Promises(h, F, r) == IF r.told THEN ClearCallBack(h, F) ELSE promise
Pending(h, r) == IF r.told THEN Raced(h) ELSE thread

\* The reply of a fetch reaches the client, or is lost.
Reply(t) ==
    LET c == thread[t] IN
    /\ c.pc = "reply"
    /\ \/ c.valid /\ promise' = [promise EXCEPT ![c.h][c.f] = IF c.old THEN "stale" ELSE "good"]
       \/ UNCHANGED promise
    /\ thread' = [thread EXCEPT ![t] = Idle]
    /\ UNCHANGED <<flags, cbs, lock>>

\* A promise expires at the client ...
Expire(h, f) ==
    /\ promise[h][f] # "none"
    /\ promise' = [promise EXCEPT ![h][f] = "none"]
    /\ UNCHANGED <<flags, cbs, lock, thread>>

\* ... ServerBias before the server deletes its callback.
CleanupTimedOutCallBacks(cb) ==
    /\ cb \in cbs
    /\ \A f \in Files : cb.f \in {f, Volume} => promise[cb.h][f] = "none"
    /\ \A t \in Calls : ~(thread[t].h = cb.h /\ thread[t].pc = "reply")
    /\ cbs' = cbs \ {cb}
    /\ UNCHANGED <<flags, lock, thread, promise>>

---------------------------------------------------------------------------
\* CallPreamble and BreakDelayedCallBacks_r.

Of(h) == {cb \in cbs : cb.h = h}
Delayed(h) == {cb \in Of(h) : cb.st \in {"DELAYED", "LATER"}}

\* The call may go on.
Served(t, c, th) ==
    /\ thread' = [th EXCEPT ![t] = [Idle EXCEPT !.pc = "work", !.h = c.h, !.valid = c.valid]]
    /\ lock' = [lock EXCEPT ![c.h] = None]

\* The call is refused, unless MultiProbeAlternateAddress_r finds another address of
\* the host: then it is tried once more, with the reset that is due since the failure.
Failed(t, c, th) ==
    \/ /\ thread' = [th EXCEPT ![t] = Idle]
       /\ lock' = [lock EXCEPT ![c.h] = None]
    \/ /\ c.try = 1
       /\ thread' = [th EXCEPT ![t] = [c EXCEPT !.pc = "init", !.set = {}, !.try = 2]]
       /\ UNCHANGED lock

\* Sends a reset when one is due, else up to AFSCBMAX delayed callbacks.
BreakDelayedCallBacks(t, c, th) ==
    \/ /\ "RESETDONE" \notin flags[c.h]
       /\ thread' = [th EXCEPT ![t] = [c EXCEPT !.pc = "init"]]
       /\ lock' = [lock EXCEPT ![c.h] = t]
       /\ UNCHANGED <<flags, cbs>>
    \/ /\ "RESETDONE" \in flags[c.h]
       /\ IF Delayed(c.h) = {}
          THEN /\ Served(t, c, th)
               /\ flags' = [flags EXCEPT ![c.h] = @ \ {"VENUSDOWN", "HFE_LATER"}]
               /\ UNCHANGED cbs
          ELSE \E S \in SUBSET Delayed(c.h) :
               /\ Cardinality(S) = Min({AFSCBMAX, Cardinality(Delayed(c.h))})
               /\ cbs' = cbs \ S
               /\ flags' = [flags EXCEPT ![c.h] = @ \ {"VENUSDOWN"}]
               /\ thread' = [th EXCEPT ![t] = [c EXCEPT !.pc = "bulk", !.set = S]]
               /\ lock' = [lock EXCEPT ![c.h] = t]

CallPreamble(t, h) ==
    LET c == [Idle EXCEPT !.h = h, !.try = 1, !.valid = TRUE] IN
    /\ thread[t] = Idle
    /\ lock[h] = None
    /\ IF flags[h] \cap {"VENUSDOWN", "HFE_LATER"} # {}
       THEN BreakDelayedCallBacks(t, c, thread)
       ELSE Served(t, c, thread) /\ UNCHANGED <<flags, cbs>>
    /\ UNCHANGED promise

InitReply(t) ==
    LET c == thread[t] IN
    /\ c.pc = "init"
    /\ \E r \in Outcome : LET th == Pending(c.h, r) IN
        /\ promise' = Promises(c.h, {Volume}, r)
        /\ IF r.ok
           THEN /\ flags' = [flags EXCEPT ![c.h] = (@ \cup {"RESETDONE"}) \ {"VENUSDOWN", "HFE_LATER"}]
                /\ Served(t, th[t], th)
           ELSE /\ flags' = [flags EXCEPT ![c.h] = @ \cup {"VENUSDOWN"}]
                /\ Failed(t, th[t], th)
    /\ UNCHANGED cbs

BulkReply(t) ==
    LET c == thread[t]
        full == Cardinality(c.set) = AFSCBMAX
    IN  /\ c.pc = "bulk"
        /\ \E r \in Outcome : LET th == Pending(c.h, r) IN
            /\ promise' = Promises(c.h, {cb.f : cb \in c.set}, r)
            /\ \/ r.ok /\ full /\ BreakDelayedCallBacks(t, [th[t] EXCEPT !.set = {}], th)
               \/ /\ r.ok /\ ~full
                  /\ flags' = [flags EXCEPT ![c.h] = @ \ {"HFE_LATER"}]
                  /\ Served(t, th[t], th)
                  /\ UNCHANGED cbs
               \/ /\ ~r.ok
                  /\ flags' = [flags EXCEPT ![c.h] = (@ \cup {"VENUSDOWN"}) \ {"RESETDONE"}]
                  /\ cbs' = cbs \ Of(c.h)
                  /\ Failed(t, th[t], th)

---------------------------------------------------------------------------
\* What a call does once it is let in.

\* Threads that hold the vnode of f: a fetch until it has its callback, an update
\* (read lock, after VVnodeWriteToRead) until BreakCallBack returns.
Holders(f) == {t \in Calls : thread[t].f = f /\ thread[t].pc # "reply"}

\* FetchStatus and FetchData read the vnode and ask for a callback.
Fetch(t, f) ==
    /\ thread[t].pc = "work"
    /\ thread' = [thread EXCEPT ![t] = [@ EXCEPT !.pc = "alloc", !.f = f, !.target = thread[t].h]]
    /\ UNCHANGED <<flags, cbs, lock, promise>>

\* What clients know of the files F is out of date, but for host h.
Changed(F, h) ==
    promise' = [x \in Hosts |-> [f \in Files |->
        IF x # h /\ f \in F /\ promise[x][f] = "good" THEN "stale" ELSE promise[x][f]]]
Outdated(F, h) ==
    [t \in Threads |-> [thread[t] EXCEPT !.old =
        @ \/ (thread[t].pc = "reply" /\ thread[t].f \in F /\ thread[t].h # h)]]

\* StoreData, StoreStatus, StoreACL, ... change the vnode, and the caller knows.
\* RemoveFile and Rename change a file that keeps other names: all are told.  A file that
\* loses its last name is left out: DeleteFileCallBacks drops its entries, delayed ones
\* too, and tells nobody.
Update(t, f, all) ==
    LET h == IF all THEN None ELSE thread[t].h IN
    /\ thread[t].pc = "work"
    /\ Holders(f) = {}
    /\ Changed({f}, h)
    /\ thread' = [Outdated({f}, h) EXCEPT ![t] =
           [@ EXCEPT !.pc = IF all THEN "breakall" ELSE "break", !.f = f, !.valid = FALSE]]
    /\ UNCHANGED <<flags, cbs, lock>>

\* BreakCallBack: the loop over the entries C with CBFLAG_BREAKING, up to the next
\* MultiBreakCallBack_r.
Sweep(t, C) ==
    LET B == {cb \in C : cb.f = thread[t].f /\ cb.st = "BREAKING"}
        down == {cb \in B : "VENUSDOWN" \in flags[cb.h]}
        up == B \ down
    IN  \E S \in SUBSET up, D \in SUBSET down :
            /\ Cardinality(S) = Min({MAX_CB_HOSTS, Cardinality(up)})
            /\ Cardinality(S) < MAX_CB_HOSTS => D = down
            /\ cbs' = (C \ (S \cup D)) \cup {[cb EXCEPT !.st = "DELAYED"] : cb \in D}
            /\ thread' = [thread EXCEPT ![t] =
                   IF S = {} THEN Idle ELSE [@ EXCEPT !.pc = "multi", !.set = {cb.h : cb \in S}]]

BreakCallBack(t) ==
    LET c == thread[t]
        B == {cb \in cbs : cb.f = c.f /\ cb.st = "NORMAL" /\ (cb.h # c.h \/ c.pc = "breakall")}
    IN  /\ c.pc \in {"break", "breakall"}
        /\ Sweep(t, (cbs \ B) \cup {[cb EXCEPT !.st = "BREAKING"] : cb \in B})
        /\ UNCHANGED <<flags, lock, promise>>

\* MultiBreakCallBack_r: the RPC to x returns.  The lock of x is taken only to mark it down.
MultiReply(t, x) ==
    LET c == thread[t] IN
    /\ c.pc = "multi" /\ x \in c.set
    /\ \E r \in Outcome : LET th == Pending(x, r) IN
        /\ promise' = Promises(x, {c.f}, r)
        /\ IF r.ok
           THEN /\ thread' = [th EXCEPT ![t].set = @ \ {x}]
                /\ UNCHANGED <<flags, lock>>
           ELSE /\ lock[x] = None
                /\ lock' = [lock EXCEPT ![x] = t]
                /\ flags' = [flags EXCEPT ![x] = @ \cup {"VENUSDOWN"}]
                /\ thread' = [th EXCEPT ![t] = [th[t] EXCEPT !.pc = "alloc", !.set = c.set \ {x},
                                                             !.target = x, !.type = "DELAYED"]]
    /\ UNCHANGED cbs

\* Mutant: the loop starts over with all callbacks of the file.
MultiEnd_Restarts(t) ==
    LET B == {cb \in cbs : cb.f = thread[t].f /\ cb.st = "NORMAL"} IN
    /\ t \in Calls /\ thread[t].pc = "multi" /\ thread[t].set = {}
    /\ Sweep(t, (cbs \ B) \cup {[cb EXCEPT !.st = "BREAKING"] : cb \in B})
    /\ UNCHANGED <<flags, lock, promise>>

\* ... and when all have, the loop of BreakCallBack goes on.
MultiEnd(t) ==
    /\ t \in Calls /\ thread[t].pc = "multi" /\ thread[t].set = {}
    /\ Sweep(t, cbs)
    /\ UNCHANGED <<flags, lock, promise>>

\* GiveUpCallBacks; clients call it for files they neither have a promise on nor fetch.
GiveUpCallBacks(t, f) ==
    LET h == thread[t].h IN
    /\ thread[t].pc = "work" /\ lock[h] = None
    /\ promise[h][f] = "none"
    /\ \A u \in Calls : ~(thread[u].h = h /\ thread[u].f = f)
    /\ cbs' = {cb \in cbs : ~(cb.h = h /\ cb.f = f /\ cb.st # "LATER")}
    /\ thread' = [thread EXCEPT ![t] = Idle]
    /\ UNCHANGED <<flags, lock, promise>>

\* GiveUpAllCallBacks, for a client that has no promise.
GiveUpAllCallBacks(t) ==
    LET h == thread[t].h IN
    /\ thread[t].pc = "work"
    /\ \A f \in Files : promise[h][f] = "none"
    /\ \A u \in Calls \ {t} : thread[u].h # h
    /\ cbs' = cbs \ Of(h)
    /\ thread' = [thread EXCEPT ![t] = Idle]
    /\ UNCHANGED <<flags, lock, promise>>

---------------------------------------------------------------------------
\* AddCallBack1_r and GetSomeSpace_r.

\* Mutant: a fetch turns a delayed callback back into a normal one.
AddCallBack_Normal(h, f, type) ==
    cbs' = {cb \in cbs : ~(cb.h = h /\ cb.f = f /\ cb.st # "LATER")} \cup {[h |-> h, f |-> f, st |-> type]}

\* An entry of host h for f that FindFE finds keeps its status when it is delayed, and
\* its flag; else there is a new one.  (One that is BREAKING and becomes delayed keeps the
\* flag in the code, so that its host may be told once more than here.)
AddCallBack(h, f, type) ==
    LET old == {cb \in cbs : cb.h = h /\ cb.f = f /\ cb.st # "LATER"}
        st == IF type = "DELAYED" \/ \E cb \in old : cb.st = "DELAYED" THEN "DELAYED"
              ELSE IF old # {} THEN (CHOOSE cb \in old : TRUE).st ELSE type
    IN  cbs' = (cbs \ old) \cup {[h |-> h, f |-> f, st |-> st]}

\* A fetch is done with it; MultiBreakCallBack_r goes on.
Added(c) == [c EXCEPT !.pc = IF c.type = "NORMAL" THEN "reply" ELSE "multi",
                      !.target = None, !.type = "NORMAL"]

AddCallBack1(t) ==
    LET c == thread[t] IN
    /\ c.pc = "alloc" /\ lock[c.target] \in {None, t}
    /\ Cardinality(cbs) < nblks
    /\ AddCallBack(c.target, c.f, c.type)
    /\ thread' = [thread EXCEPT ![t] = Added(c)]
    /\ lock' = [lock EXCEPT ![c.target] = None]
    /\ UNCHANGED <<flags, promise>>

\* Hosts whose callbacks can make space: any other that is not locked, else the same one.
Victims(h) ==
    LET others == {x \in Hosts \ {h} : Of(x) # {} /\ lock[x] = None}
    IN  IF others # {} THEN others ELSE {h}

\* ClearHostCallbacks_r: a host that is up is told with a reset, one that is down later.
GetSomeSpace(t) ==
    LET c == thread[t] IN
    /\ c.pc = "alloc" /\ lock[c.target] \in {None, t}
    /\ Cardinality(cbs) >= nblks
    /\ \E v \in Victims(c.target) :
        /\ cbs' = cbs \ Of(v)
        /\ IF "VENUSDOWN" \in flags[v]
           THEN /\ flags' = [flags EXCEPT ![v] = @ \ {"RESETDONE"}]
                /\ lock' = [lock EXCEPT ![c.target] = t]
                /\ UNCHANGED thread
           ELSE /\ thread' = [thread EXCEPT ![t] = [c EXCEPT !.pc = "clear", !.victim = v]]
                /\ lock' = [lock EXCEPT ![c.target] = t, ![v] = t]
                /\ UNCHANGED flags
    /\ UNCHANGED promise

ClearReply(t) ==
    LET c == thread[t] IN
    /\ c.pc = "clear"
    /\ \E r \in Outcome : LET th == Pending(c.victim, r) IN
        /\ promise' = Promises(c.victim, {Volume}, r)
        /\ flags' = [flags EXCEPT ![c.victim] =
               IF r.ok THEN @ \cup {"RESETDONE"} ELSE (@ \cup {"VENUSDOWN"}) \ {"RESETDONE"}]
        /\ thread' = [th EXCEPT ![t] = [@ EXCEPT !.pc = "alloc", !.victim = None]]
        /\ lock' = IF c.victim = c.target THEN lock ELSE [lock EXCEPT ![c.victim] = None]
    /\ UNCHANGED cbs

---------------------------------------------------------------------------
\* The callbacks of a whole volume, and the host check.

\* The volume comes back with other contents (no call was using it): its callbacks are
\* left to the fsync thread.
BreakVolumeCallBacksLater ==
    /\ changes < MaxChanges
    /\ changes' = changes + 1
    /\ \A f \in Files : Holders(f) = {}
    /\ Changed(Files, None)
    /\ thread' = Outdated(Files, None)
    /\ cbs' = {[cb EXCEPT !.st = "LATER"] : cb \in cbs}
    /\ flags' = [h \in Hosts |-> IF Of(h) = {} THEN flags[h] ELSE flags[h] \cup {"HFE_LATER"}]
    /\ UNCHANGED lock

\* FsyncCheckLWP: BreakLaterCallBacks takes the entries out and marks their hosts.
BreakLaterCallBacks ==
    LET later == {cb \in cbs : cb.st = "LATER"} IN
    /\ thread[Fsync] = Idle /\ later # {}
    /\ cbs' = cbs \ later
    /\ flags' = [h \in Hosts |-> IF later \cap Of(h) = {} THEN flags[h] ELSE flags[h] \cup {"HCBREAK"}]
    /\ thread' = [thread EXCEPT ![Fsync] = [@ EXCEPT !.pc = "enum", !.f = Volume]]
    /\ UNCHANGED <<lock, promise>>

\* MultiBreakVolumeCallBack_r for a marked host: one that is down is to be reset, once
\* it is locked; one that is up is told with the next MultiBreakCallBack_r.
MultiBreakVolumeCallBack(x) ==
    LET c == thread[Fsync] IN
    /\ c.pc = "enum" /\ "HCBREAK" \in flags[x]
    /\ \/ /\ "VENUSDOWN" \in flags[x]
          /\ thread' = [thread EXCEPT ![Fsync] = [c EXCEPT !.pc = "wait", !.target = x]]
          /\ UNCHANGED flags
       \/ /\ "VENUSDOWN" \notin flags[x] /\ Cardinality(c.set) = MAX_CB_HOSTS
          /\ thread' = [thread EXCEPT ![Fsync] = [c EXCEPT !.pc = "multi", !.victim = x]]
          /\ UNCHANGED flags
       \/ /\ "VENUSDOWN" \notin flags[x] /\ Cardinality(c.set) < MAX_CB_HOSTS
          /\ thread' = [thread EXCEPT ![Fsync] = [c EXCEPT !.set = @ \cup {x}]]
          /\ flags' = [flags EXCEPT ![x] = @ \ {"HCBREAK"}]
    /\ UNCHANGED <<cbs, lock, promise>>

\* h_Lock_r has the lock of the host that was down.
DeleteAllCallBacks ==
    LET c == thread[Fsync] IN
    /\ c.pc = "wait" /\ lock[c.target] = None
    /\ cbs' = cbs \ Of(c.target)
    /\ flags' = [flags EXCEPT ![c.target] = @ \ {"RESETDONE", "HCBREAK"}]
    /\ thread' = [thread EXCEPT ![Fsync] = [c EXCEPT !.pc = "enum", !.target = None]]
    /\ UNCHANGED <<lock, promise>>

\* Mutant: goes on with the host that did not fit even if there was none.
NextHosts_Unchecked ==
    LET c == thread[Fsync] IN
    /\ c.pc = "multi" /\ c.set = {}
    /\ thread' = [thread EXCEPT ![Fsync] = [c EXCEPT !.pc = "enum", !.set = {c.victim}, !.victim = None]]
    /\ flags' = IF c.victim = None THEN flags ELSE [flags EXCEPT ![c.victim] = @ \ {"HCBREAK"}]
    /\ UNCHANGED <<cbs, lock, promise>>

\* A full MultiBreakCallBack_r is done: the host that did not fit is the first of the next
\* (or is looked at again, if the space for a delayed callback had to be made meanwhile).
NextHosts ==
    LET c == thread[Fsync]
        x == c.victim
    IN  /\ c.pc = "multi" /\ c.set = {}
        /\ thread' = [thread EXCEPT ![Fsync] =
               [c EXCEPT !.pc = "enum", !.set = {x} \ {None}, !.victim = None]]
        /\ flags' = IF x = None THEN flags ELSE [flags EXCEPT ![x] = @ \ {"HCBREAK"}]
        /\ UNCHANGED <<cbs, lock, promise>>

\* No host is marked any more: the left-overs, and the end.
LeftOvers ==
    LET c == thread[Fsync] IN
    /\ c.pc = "enum" /\ \A h \in Hosts : "HCBREAK" \notin flags[h]
    /\ thread' = [thread EXCEPT ![Fsync] = IF c.set = {} THEN Idle ELSE [c EXCEPT !.pc = "multi"]]
    /\ UNCHANGED <<flags, cbs, lock, promise>>

\* CheckHost_r: a host that has been silent for 15 minutes does not answer a probe.  The
\* step is the end of the probe: the callbacks the host had when it began may be gone, and
\* calls may have been let in after LastCall was tested, while h_Lock_r waited.
CheckHost(x) ==
    /\ lock[x] = None
    /\ "VENUSDOWN" \notin flags[x]
    /\ flags' = [flags EXCEPT ![x] = @ \cup {"VENUSDOWN"}]
    /\ UNCHANGED <<cbs, lock, thread, promise>>

---------------------------------------------------------------------------
Step ==
    \/ \E t \in Calls :
        \/ \E h \in Hosts : CallPreamble(t, h)
        \/ InitReply(t) \/ BulkReply(t)
        \/ \E f \in Files : Fetch(t, f) \/ GiveUpCallBacks(t, f)
        \/ \E f \in Files, all \in BOOLEAN : Update(t, f, all)
        \/ GiveUpAllCallBacks(t) \/ BreakCallBack(t) \/ MultiEnd(t) \/ Reply(t)
    \/ \E t \in Calls \cup {Fsync} :
        \/ \E x \in Hosts : MultiReply(t, x)
        \/ AddCallBack1(t) \/ GetSomeSpace(t) \/ ClearReply(t)
    \/ \E h \in Hosts, f \in Files : Expire(h, f)
    \/ \E cb \in cbs : CleanupTimedOutCallBacks(cb)
    \/ BreakLaterCallBacks \/ DeleteAllCallBacks \/ NextHosts \/ LeftOvers
    \/ \E x \in Hosts : MultiBreakVolumeCallBack(x) \/ CheckHost(x)

Next == BreakVolumeCallBacksLater \/ (Step /\ UNCHANGED changes)

Spec == Init /\ [][Next]_vars

\* A thread that breaks callbacks is scheduled, its RPCs end by their dead time, and the
\* lock of a host that did not answer is released by a thread that waits for an RPC too.
Breaks(t) ==
    /\ \/ BreakCallBack(t) \/ MultiEnd(t) \/ AddCallBack1(t)
       \/ \E x \in Hosts : MultiReply(t, x)
    /\ UNCHANGED changes

FairSpec == Spec /\ \A t \in Calls : WF_vars(Breaks(t))

---------------------------------------------------------------------------
\* Flags, entries, locks and threads keep their types; in particular the fsync thread
\* never goes on with a host it has not got (MultiBreakVolumeCallBack_r).
TypeOK ==
    /\ flags \in [Hosts -> SUBSET HostFlags]
    /\ cbs \subseteq CallBack
    /\ lock \in [Hosts -> Threads \cup {None}]
    /\ thread \in [Threads -> Thread]
    /\ promise \in [Hosts -> [Files -> {"none", "good", "stale"}]]
    /\ changes \in 0..MaxChanges

\* The client relies, or will when a reply arrives, on a version that is not current.
Stale(h, f) ==
    \/ promise[h][f] = "stale"
    \/ \E t \in Calls : LET c == thread[t] IN
            c.pc = "reply" /\ c.h = h /\ c.f = f /\ c.old /\ c.valid

\* A thread is about to tell h of f, or is telling it, or records that it could not.
BeingTold(h, f) ==
    \E t \in Threads : LET c == thread[t] IN
        \/ c.pc = "init" /\ c.h = h
        \/ c.pc = "bulk" /\ c.h = h /\ \E cb \in c.set : cb.f \in {f, Volume}
        \/ c.pc = "clear" /\ c.victim = h
        \/ c.f \in {f, Volume} /\ c.pc \in {"multi", "alloc", "clear", "enum", "wait"}
             /\ (h \in c.set \/ (c.target = h /\ c.type = "DELAYED"))
        \/ (c.pc = "breakall" \/ (c.pc = "break" /\ c.h # h)) /\ c.f = f /\ \E cb \in Of(h) : cb.f = f /\ cb.st = "NORMAL"

Owed(h, f) ==
    \/ "RESETDONE" \notin flags[h]
    \/ "HCBREAK" \in flags[h]
    \/ \E cb \in Of(h) : cb.f \in {f, Volume} /\ cb.st # "NORMAL"

\* Whenever a client relies on a version that is out of date, the server is telling it or
\* has a record that it must: no interleaving of updates, fetches, failed breaks, delayed
\* breaks, volume breaks and space reclaims drops the last trace of a promise that was
\* not broken (callback.c, except for DeleteFileCallBacks: files that exist).
StaleIsRemembered ==
    \A h \in Hosts, f \in Files : Stale(h, f) => BeingTold(h, f) \/ Owed(h, f)

\* An update returns although clients go on asking for the callbacks it breaks: the entries
\* added while BreakCallBack drops H_LOCK are not among those it marked
\* (callback.c:840-843).
UpdatesReturn ==
    \A t \in Calls : thread[t].pc \in {"break", "breakall"} ~> thread[t].pc = "idle"

\* A client that calls is told first: a host that CallPreamble lets in without a break
\* (not VENUSDOWN, not HFE_LATER) relies on nothing that is out of date, but for what a
\* thread is telling it now (callback.c:73-78: BreakDelayedCallBacks must complete
\* before any requests from that host are handled).
CallersAreTold ==
    \A h \in Hosts, f \in Files :
        (Stale(h, f) /\ flags[h] \cap {"VENUSDOWN", "HFE_LATER", "HCBREAK"} = {}
           /\ \A cb \in Of(h) : cb.st # "LATER")
        => BeingTold(h, f) \/ \E cb \in Of(h) : cb.f = f /\ cb.st = "BREAKING"
=============================================================================
