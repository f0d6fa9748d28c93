-------------------------- MODULE CallbacksProofs --------------------------
(***************************************************************************)
(* Proofs about the callback promises of the file server, for any sets of  *)
(* clients, files and calls, and any sizes of its tables.                  *)
(***************************************************************************)
EXTENDS Callbacks, TLAPS

-----------------------------------------------------------------------------
(* The inductive invariant.                                                *)

\* What thread t with the record c may be in the middle of: which fields its step
\* needs, which locks of hosts it holds, and that a reset it sends is due.
ThreadOK(t, c) ==
    /\ t \in Calls =>
         /\ c.pc \notin {"enum", "wait"}
         /\ c.pc # "idle" => c.h \in Hosts
         /\ c.pc \in {"break", "breakall", "multi", "alloc", "clear", "reply"} => c.f \in Files
    /\ t = Fsync =>
         /\ c.pc \in {"idle", "enum", "wait", "multi", "alloc", "clear"}
         /\ c.pc # "idle" => c.f = Volume
    /\ c.type = "DELAYED" => c.pc \in {"alloc", "clear"}
    /\ c.pc \in {"alloc", "clear"} =>
         /\ c.target \in Hosts
         /\ c.type = "NORMAL" => t \in Calls /\ c.target = c.h /\ c.set = {}
    /\ c.pc = "wait" => c.target \in Hosts
    /\ c.pc = "work" => c.set = {}
    /\ c.pc = "clear" => c.victim \in Hosts /\ lock[c.victim] = t
    /\ c.pc \in {"init", "bulk"} => lock[c.h] = t
    /\ c.pc = "init" => "RESETDONE" \notin flags[c.h]
    /\ c.old => c.pc = "reply"
    /\ c.pc = "bulk" => c.set \subseteq CallBack
    /\ c.pc # "bulk" => c.set \subseteq Hosts

ThreadsOK == \A t \in Threads : ThreadOK(t, thread[t])

\* FindFE and FindCB find at most one entry of a host for a file.
OneEntryIn(C) ==
    \A x, y \in C : x.h = y.h /\ x.f = y.f /\ x.st # "LATER" /\ y.st # "LATER" => x = y
OneEntry == OneEntryIn(cbs)

\* The client has a promise, or a reply that gives it one is under way.
Relies(h, f) ==
    \/ promise[h][f] # "none"
    \/ \E t \in Calls : LET c == thread[t] IN
            c.pc = "reply" /\ c.h = h /\ c.f = f /\ c.valid

\* A thread with the record c is telling h of f, or records that it could not.
Telling(c, h, f) ==
    \/ c.pc = "init" /\ c.h = h
    \/ c.pc = "bulk" /\ c.h = h /\ \E cb \in c.set : cb.f \in {f, Volume}
    \/ c.pc = "clear" /\ c.victim = h
    \/ /\ c.f \in {f, Volume} /\ c.pc \in {"multi", "alloc", "clear", "enum", "wait"}
       /\ h \in c.set \/ (c.target = h /\ c.type = "DELAYED")

\* A thread with the record c is about to break the normal callbacks of h on f.
Breaking(c, h, f) ==
    (c.pc = "breakall" \/ (c.pc = "break" /\ c.h # h)) /\ c.f = f

Normal(h, f) == \E cb \in cbs : cb.h = h /\ cb.f = f /\ cb.st = "NORMAL"

Covered(h, f) == Owed(h, f) \/ \E t \in Threads : Telling(thread[t], h, f)
AboutToBreak(h, f) == \E t \in Threads : Breaking(thread[t], h, f)

\* Every promise has an entry of the server, or is being broken; and a stale one is
\* being broken, or its entry is about to be.
RememberedAt(h, f) ==
    /\ Relies(h, f) => Covered(h, f) \/ Normal(h, f)
    /\ Stale(h, f) => Covered(h, f) \/ (Normal(h, f) /\ AboutToBreak(h, f))

Remembered == \A h \in Hosts, f \in Files : RememberedAt(h, f)

Inv == TypeOK /\ ThreadsOK /\ OneEntry /\ Remembered

-----------------------------------------------------------------------------
(* How a step of a thread t leaves the other threads.                      *)

\* The records c and d differ at most in what the client knows of the call.
Same(c, d) ==
    /\ d.pc = c.pc /\ d.h = c.h /\ d.f = c.f /\ d.set = c.set /\ d.target = c.target
    /\ d.victim = c.victim /\ d.type = c.type

\* The other threads are where they were; a break may have reached their clients.
Others(t) ==
    \A u \in Threads \ {t} :
        /\ Same(thread[u], thread'[u])
        /\ thread'[u].valid => thread[u].valid
        /\ thread'[u].old => thread[u].pc = "reply"

\* No file has changed.
Unaged(t) == \A u \in Threads \ {t} : thread'[u].old => thread[u].old

\* A step takes or gives up only locks that are free or its own, and a reset is
\* reported done only under the lock of the host.
LockStep(t) ==
    \A x \in Hosts : lock'[x] = lock[x] \/ lock[x] \in {None, t}
ResetStep(t) ==
    \A x \in Hosts : "RESETDONE" \in flags'[x] => "RESETDONE" \in flags[x] \/ lock[x] = t

\* What the step must leave of the reasons to remember the promise of h on f.
Keeps(t, h, f) ==
    /\ Owed(h, f) => Covered(h, f)'
    /\ t \in Threads /\ Telling(thread[t], h, f) => Covered(h, f)'
    /\ Normal(h, f) => Normal(h, f)' \/ Covered(h, f)'
    /\ t \in Threads /\ Breaking(thread[t], h, f) /\ Normal(h, f) =>
          Covered(h, f)' \/ AboutToBreak(h, f)'

\* A promise that is out of date is one.
LEMMA StaleRelies ==
    ASSUME NEW h, NEW f, Stale(h, f)
    PROVE  Relies(h, f)
BY DEF Stale, Relies

\* The threads have names of their own.
LEMMA ThreadNames ==
    None \notin Threads /\ Fsync \notin Calls /\ Fsync \in Threads /\ Calls \subseteq Threads
BY CallbackConstants DEF Threads

\* Threads that a step leaves alone stay well formed.
LEMMA ThreadsStep ==
    ASSUME ThreadsOK, NEW t, Others(t), LockStep(t), ResetStep(t),
           t \in Threads => ThreadOK(t, thread[t])'
    PROVE  ThreadsOK'
<1> SUFFICES ASSUME NEW u \in Threads PROVE ThreadOK(u, thread[u])'
    BY DEF ThreadsOK, Threads
<1>1. CASE u = t
    BY <1>1
<1>2. CASE u # t
    <2>1. ThreadOK(u, thread[u]) /\ Same(thread[u], thread'[u]) /\ u # None
          /\ (thread'[u].old => thread[u].pc = "reply")
        BY <1>2, ThreadNames DEF ThreadsOK, Others
    <2>2. \A x \in Hosts : lock[x] = u => lock'[x] = u /\ ("RESETDONE" \in flags'[x] => "RESETDONE" \in flags[x])
        BY <1>2, <2>1 DEF LockStep, ResetStep
    <2>3. thread[u].pc \in {"init", "bulk"} => thread[u].h \in Hosts
        BY <2>1, ThreadNames DEF ThreadOK, Threads
    <2> QED
        BY <2>1, <2>2, <2>3 DEF ThreadOK, Same
<1> QED
    BY <1>1, <1>2

\* Whoever was telling a client still does, if the step does not end it.
LEMMA CoveredStep ==
    ASSUME NEW t, Others(t), NEW h \in Hosts, NEW f \in Files, Keeps(t, h, f), Covered(h, f)
    PROVE  Covered(h, f)'
<1>1. CASE Owed(h, f)
    BY <1>1 DEF Keeps
<1>2. ASSUME NEW u \in Threads, Telling(thread[u], h, f) PROVE Covered(h, f)'
    <2>1. CASE u = t
        BY <1>2, <2>1 DEF Keeps
    <2>2. CASE u # t
        <3>1. Same(thread[u], thread'[u])
            BY <2>2 DEF Others
        <3>2. Telling(thread'[u], h, f)
            BY <1>2, <3>1 DEF Telling, Same
        <3> QED
            BY <3>2 DEF Covered, Threads
    <2> QED
        BY <2>1, <2>2
<1> QED
    BY <1>1, <1>2 DEF Covered

\* A step that lets no promise go out of date, and makes none without an entry, remembers
\* all of them, if it keeps what there is to remember.
LEMMA RememberedAtStep ==
    ASSUME Remembered, NEW t, Others(t), NEW h \in Hosts, NEW f \in Files,
           Relies(h, f)' => Relies(h, f) \/ Covered(h, f)' \/ Normal(h, f)',
           Stale(h, f)' => Stale(h, f), Relies(h, f)' => Keeps(t, h, f)
    PROVE  RememberedAt(h, f)'
<1> SUFFICES ASSUME Relies(h, f)' PROVE RememberedAt(h, f)'
    <2>1. Stale(h, f)' => Relies(h, f)'
        BY StaleRelies DEF Stale, Relies
    <2> QED
        BY <2>1 DEF RememberedAt
<1>1. /\ Keeps(t, h, f) /\ RememberedAt(h, f)
      /\ Relies(h, f) \/ Covered(h, f)' \/ Normal(h, f)'
    BY DEF Remembered
<1>2. Covered(h, f) => Covered(h, f)'
    BY <1>1, CoveredStep
<1>3. Normal(h, f) => Normal(h, f)' \/ Covered(h, f)'
    BY <1>1 DEF Keeps
<1>4. AboutToBreak(h, f) /\ Normal(h, f) => Covered(h, f)' \/ AboutToBreak(h, f)'
    <2> SUFFICES ASSUME NEW u \in Threads, Breaking(thread[u], h, f), Normal(h, f)
                 PROVE  Covered(h, f)' \/ AboutToBreak(h, f)'
        BY DEF AboutToBreak
    <2>1. CASE u = t
        BY <1>1, <2>1 DEF Keeps
    <2>2. CASE u # t
        <3>1. Same(thread[u], thread'[u])
            BY <2>2 DEF Others
        <3>2. Breaking(thread'[u], h, f)
            BY <3>1 DEF Breaking, Same
        <3> QED
            BY <3>2 DEF AboutToBreak, Threads
    <2> QED
        BY <2>1, <2>2
<1> QED
    BY <1>1, <1>2, <1>3, <1>4 DEF RememberedAt

\* The same for a step that gives out no reply.
LEMMA RememberedStep ==
    ASSUME Remembered, NEW t, Others(t), Unaged(t),
           t \in Threads => thread'[t].pc # "reply",
           \A h \in Hosts, f \in Files : promise'[h][f] \in {"none", promise[h][f]},
           \A h \in Hosts, f \in Files : Relies(h, f)' => Keeps(t, h, f)
    PROVE  Remembered'
<1> SUFFICES ASSUME NEW h \in Hosts, NEW f \in Files PROVE RememberedAt(h, f)'
    BY DEF Remembered
<1>1. ASSUME NEW u \in Calls, thread'[u].pc = "reply"
      PROVE  /\ u # t /\ thread[u].pc = "reply" /\ thread[u].h = thread'[u].h
             /\ thread[u].f = thread'[u].f /\ (thread'[u].valid => thread[u].valid)
             /\ (thread'[u].old => thread[u].old)
    <2>1. u \in Threads /\ u # t
        BY <1>1, ThreadNames
    <2> QED
        BY <1>1, <2>1 DEF Others, Unaged, Same
<1>2. Relies(h, f)' => Relies(h, f)
    BY <1>1 DEF Relies
<1>3. Stale(h, f)' => Stale(h, f)
    BY <1>1 DEF Stale
<1> QED
    BY <1>2, <1>3, RememberedAtStep

-----------------------------------------------------------------------------
(* RPCs to a client.                                                       *)

\* The record d is c after its client may have been told.
Heard(c, d) ==
    Same(c, d) /\ d.old = c.old /\ d.try = c.try /\ (d.valid => c.valid)

\* What an RPC leaves of the threads: those of the host it told learn of it.
LEMMA PendingFacts ==
    ASSUME TypeOK, NEW x \in Hosts, NEW r \in Outcome
    PROVE  /\ Pending(x, r) \in [Threads -> Thread]
           /\ \A u \in Threads : Heard(thread[u], Pending(x, r)[u])
           /\ r.told => \A u \in Threads : thread[u].h = x => ~Pending(x, r)[u].valid
<1> DEFINE raced == Raced(x)
<1>1. thread \in [Threads -> Thread]
    BY DEF TypeOK
<1>2. ASSUME NEW u \in Threads
      PROVE  /\ raced[u] \in Thread
             /\ Heard(thread[u], raced[u])
             /\ thread[u].h = x => ~raced[u].valid
    <2>1. raced[u] = IF thread[u].h = x THEN [thread[u] EXCEPT !.valid = FALSE] ELSE thread[u]
        BY DEF Raced
    <2>2. thread[u] \in Thread
        BY <1>1
    <2>3. CASE thread[u].h = x
        <3>1. raced[u] = [thread[u] EXCEPT !.valid = FALSE]
            BY <2>1, <2>3
        <3>2. /\ raced[u] \in Thread /\ raced[u].valid = FALSE
              /\ raced[u].old = thread[u].old /\ raced[u].try = thread[u].try
            BY <2>2, <3>1 DEF Thread
        <3>3. Same(thread[u], raced[u])
            BY <2>2, <3>1 DEF Thread, Same
        <3> QED
            BY <3>2, <3>3 DEF Heard
    <2>4. CASE thread[u].h # x
        BY <2>1, <2>2, <2>4 DEF Same, Heard
    <2> QED
        BY <2>3, <2>4
<1>3. raced \in [Threads -> Thread]
    <2>1. raced = [u \in Threads |-> raced[u]]
        BY DEF Raced
    <2> QED
        BY <1>2, <2>1
<1>4. Pending(x, r) = IF r.told THEN raced ELSE thread
    BY DEF Pending
<1> HIDE DEF raced
<1>5. CASE r.told
    BY <1>2, <1>3, <1>4, <1>5
<1>6. CASE ~r.told
    BY <1>1, <1>4, <1>6 DEF Same, Heard
<1> QED
    BY <1>5, <1>6

\* What it leaves of the promises: a client that was told of a file has none on it.
LEMMA PromisesFacts ==
    ASSUME TypeOK, NEW x \in Hosts, NEW F, NEW r \in Outcome
    PROVE  /\ Promises(x, F, r) \in [Hosts -> [Files -> {"none", "good", "stale"}]]
           /\ \A h \in Hosts, f \in Files :
                /\ Promises(x, F, r)[h][f] \in {"none", promise[h][f]}
                /\ r.told /\ h = x /\ (f \in F \/ Volume \in F) => Promises(x, F, r)[h][f] = "none"
<1> DEFINE told == [f \in Files |-> IF f \in F \/ Volume \in F THEN "none" ELSE promise[x][f]]
           cleared == [promise EXCEPT ![x] = told]
<1>1. promise \in [Hosts -> [Files -> {"none", "good", "stale"}]]
    BY DEF TypeOK
<1>2. told \in [Files -> {"none", "good", "stale"}]
    BY <1>1
<1>3. \A f \in Files : told[f] = IF f \in F \/ Volume \in F THEN "none" ELSE promise[x][f]
    OBVIOUS
<1>4. ClearCallBack(x, F) = cleared
    BY <1>1 DEF ClearCallBack
<1> HIDE DEF told
<1>5. /\ cleared \in [Hosts -> [Files -> {"none", "good", "stale"}]]
      /\ cleared[x] = told /\ \A h \in Hosts : h # x => cleared[h] = promise[h]
    BY <1>1, <1>2
<1> HIDE DEF cleared
<1>6. CASE r.told
    <2>1. Promises(x, F, r) = cleared
        BY <1>4, <1>6 DEF Promises
    <2> QED
        BY <2>1, <1>3, <1>5
<1>7. CASE ~r.told
    <2>1. Promises(x, F, r) = promise
        BY <1>7 DEF Promises
    <2> QED
        BY <2>1, <1>1, <1>7
<1> QED
    BY <1>6, <1>7

\* An RPC that succeeds was run.
LEMMA OutcomeFacts ==
    ASSUME NEW r \in Outcome
    PROVE  (r.ok = TRUE /\ r.told = TRUE) \/ r.ok = FALSE
<1>1. CASE r = [ok |-> TRUE, told |-> TRUE]
    BY <1>1
<1>2. CASE r = [ok |-> FALSE, told |-> TRUE] \/ r = [ok |-> FALSE, told |-> FALSE]
    BY <1>2
<1> QED
    BY <1>1, <1>2 DEF Outcome

\* A client that was told of a file relies on nothing.
LEMMA ToldRelies ==
    ASSUME NEW x \in Hosts, NEW f \in Files, promise'[x][f] = "none",
           \A u \in Calls : thread'[u].h = x /\ thread'[u].pc = "reply" => ~thread'[u].valid
    PROVE  ~Relies(x, f)'
BY DEF Relies

\* A step that gives thread t the record d, after an RPC or without one.
LEMMA OneThread ==
    ASSUME ThreadsOK, NEW t \in Threads, NEW th \in [Threads -> Thread], NEW d \in Thread,
           \A u \in Threads : Heard(thread[u], th[u]),
           thread' = [th EXCEPT ![t] = d]
    PROVE  /\ thread' \in [Threads -> Thread] /\ thread'[t] = d
           /\ \A u \in Threads \ {t} : thread'[u] = th[u]
           /\ Others(t) /\ Unaged(t)
<1>1. /\ thread' \in [Threads -> Thread] /\ thread'[t] = d
      /\ \A u \in Threads \ {t} : thread'[u] = th[u]
    OBVIOUS
<1>2. ASSUME NEW u \in Threads \ {t}
      PROVE  /\ Same(thread[u], thread'[u])
             /\ thread'[u].valid => thread[u].valid
             /\ thread'[u].old => thread[u].pc = "reply"
             /\ thread'[u].old => thread[u].old
    <2>1. Heard(thread[u], thread'[u])
        BY <1>1
    <2>2. thread[u].old => thread[u].pc = "reply"
        BY DEF ThreadsOK, ThreadOK
    <2> QED
        BY <2>1, <2>2 DEF Heard
<1> QED
    BY <1>1, <1>2 DEF Others, Unaged

\* No RPC was made.
LEMMA HeardSelf ==
    ASSUME TypeOK
    PROVE  thread \in [Threads -> Thread] /\ \A u \in Threads : Heard(thread[u], thread[u])
BY DEF TypeOK, Heard, Same

\* The fields of a thread.
LEMMA ThreadFields ==
    ASSUME NEW c \in Thread
    PROVE  /\ c.pc \in PC /\ c.h \in Hosts \cup {None} /\ c.f \in Fids \cup {None}
           /\ c.set \in (SUBSET Hosts) \cup (SUBSET CallBack)
           /\ c.target \in Hosts \cup {None} /\ c.victim \in Hosts \cup {None}
           /\ c.type \in {"NORMAL", "DELAYED"} /\ c.try \in 0..2
           /\ c.valid \in BOOLEAN /\ c.old \in BOOLEAN
BY DEF Thread

\* The record of an idle thread.
LEMMA IdleFacts ==
    /\ Idle \in Thread
    /\ Idle.pc = "idle" /\ Idle.h = None /\ Idle.f = None /\ Idle.set = {} /\ Idle.target = None
    /\ Idle.victim = None /\ Idle.type = "NORMAL" /\ Idle.try = 0 /\ Idle.valid = FALSE
    /\ Idle.old = FALSE
<1>1. /\ Idle.pc = "idle" /\ Idle.h = None /\ Idle.f = None /\ Idle.set = {} /\ Idle.target = None
      /\ Idle.victim = None /\ Idle.type = "NORMAL" /\ Idle.try = 0 /\ Idle.valid = FALSE
      /\ Idle.old = FALSE
    BY DEF Idle
<1>2. Idle \in Thread
    BY DEF Idle, Thread, PC
<1> QED
    BY <1>1, <1>2

\* An idle thread is well formed.
LEMMA IdleOK ==
    ASSUME NEW t \in Threads, thread'[t] = Idle
    PROVE  ThreadOK(t, thread[t])'
BY IdleFacts DEF ThreadOK

\* A change of one host's lock keeps the table typed.
LEMMA LockFacts ==
    ASSUME TypeOK, NEW t \in Threads, NEW x \in Hosts, lock[x] \in {None, t},
           NEW v \in {None, t}, lock' = [lock EXCEPT ![x] = v]
    PROVE  lock' \in [Hosts -> Threads \cup {None}] /\ LockStep(t) /\ lock'[x] = v
BY DEF TypeOK, LockStep

-----------------------------------------------------------------------------
(* CallPreamble and BreakDelayedCallBacks_r.                               *)

\* A call that is let in.
LEMMA ServedFacts ==
    ASSUME TypeOK, ThreadsOK, NEW t \in Calls, NEW c \in Thread, c.h \in Hosts,
           lock[c.h] \in {None, t}, NEW th \in [Threads -> Thread],
           \A u \in Threads : Heard(thread[u], th[u]), Served(t, c, th)
    PROVE  /\ thread' \in [Threads -> Thread] /\ thread'[t].pc = "work" /\ thread'[t].h = c.h
           /\ \A u \in Threads \ {t} : thread'[u] = th[u]
           /\ Others(t) /\ Unaged(t) /\ ThreadOK(t, thread[t])'
           /\ lock' \in [Hosts -> Threads \cup {None}] /\ LockStep(t)
<1> DEFINE d == [Idle EXCEPT !.pc = "work", !.h = c.h, !.valid = c.valid]
<1>1. t \in Threads /\ t # Fsync
    BY ThreadNames
<1>2. d \in Thread
    BY ThreadFields, IdleFacts DEF Thread, PC
<1>3. /\ d.pc = "work" /\ d.h = c.h /\ d.f = None /\ d.set = {} /\ d.target = None
      /\ d.victim = None /\ d.type = "NORMAL" /\ d.old = FALSE
    BY IdleFacts DEF Thread
<1>4. thread' = [th EXCEPT ![t] = d] /\ lock' = [lock EXCEPT ![c.h] = None]
    BY DEF Served
<1> HIDE DEF d
<1>5. /\ thread' \in [Threads -> Thread] /\ thread'[t] = d
      /\ \A u \in Threads \ {t} : thread'[u] = th[u]
      /\ Others(t) /\ Unaged(t)
    BY <1>1, <1>2, <1>4, OneThread
<1>6. ThreadOK(t, thread[t])'
    BY <1>1, <1>3, <1>5 DEF ThreadOK
<1>7. lock' \in [Hosts -> Threads \cup {None}] /\ LockStep(t)
    BY <1>1, <1>4, LockFacts
<1> QED
    BY <1>3, <1>5, <1>6, <1>7

\* A call that is refused, or tried once more with a reset.
LEMMA FailedFacts ==
    ASSUME TypeOK, ThreadsOK, NEW t \in Calls, NEW c \in Thread, c.h \in Hosts,
           lock[c.h] = t, c.type = "NORMAL", c.old = FALSE,
           "RESETDONE" \notin flags'[c.h], NEW th \in [Threads -> Thread],
           \A u \in Threads : Heard(thread[u], th[u]), Failed(t, c, th)
    PROVE  /\ thread' \in [Threads -> Thread] /\ thread'[t].pc # "reply"
           /\ \A u \in Threads \ {t} : thread'[u] = th[u]
           /\ Others(t) /\ Unaged(t) /\ ThreadOK(t, thread[t])'
           /\ lock' \in [Hosts -> Threads \cup {None}] /\ LockStep(t)
<1>1. t \in Threads /\ t # Fsync
    BY ThreadNames
<1>2. CASE thread' = [th EXCEPT ![t] = Idle] /\ lock' = [lock EXCEPT ![c.h] = None]
    <2>1. /\ thread' \in [Threads -> Thread] /\ thread'[t] = Idle
          /\ \A u \in Threads \ {t} : thread'[u] = th[u]
          /\ Others(t) /\ Unaged(t)
        BY <1>1, <1>2, IdleFacts, OneThread
    <2>2. lock' \in [Hosts -> Threads \cup {None}] /\ LockStep(t)
        BY <1>1, <1>2, LockFacts
    <2> QED
        BY <1>1, <2>1, <2>2, IdleOK, IdleFacts
<1>3. CASE /\ thread' = [th EXCEPT ![t] = [c EXCEPT !.pc = "init", !.set = {}, !.try = 2]]
           /\ lock' = lock
    <2> DEFINE d == [c EXCEPT !.pc = "init", !.set = {}, !.try = 2]
    <2>1. 2 \in 0..2
        OBVIOUS
    <2>2. d \in Thread
        BY <2>1 DEF Thread, PC
    <2>3. d.pc = "init" /\ d.h = c.h /\ d.set = {} /\ d.type = "NORMAL" /\ d.old = FALSE
        BY DEF Thread
    <2>6. thread' = [th EXCEPT ![t] = d]
        BY <1>3
    <2> HIDE DEF d
    <2>4. /\ thread' \in [Threads -> Thread] /\ thread'[t] = d
          /\ \A u \in Threads \ {t} : thread'[u] = th[u]
          /\ Others(t) /\ Unaged(t)
        BY <1>1, <2>2, <2>6, OneThread
    <2>5. ThreadOK(t, thread[t])'
        <3>1. lock'[d.h] = t /\ "RESETDONE" \notin flags'[d.h]
            BY <1>3, <2>3
        <3> QED
            BY <1>1, <2>3, <2>4, <3>1 DEF ThreadOK
    <2> QED
        BY <1>3, <2>3, <2>4, <2>5 DEF TypeOK, LockStep
<1> QED
    BY <1>2, <1>3 DEF Failed

\* What a host is owed depends on its flags for a reset and on its entries.
LEMMA OwedStep ==
    ASSUME NEW h \in Hosts, NEW f \in Files, Owed(h, f),
           "RESETDONE" \in flags'[h] => "RESETDONE" \in flags[h],
           "HCBREAK" \in flags[h] => "HCBREAK" \in flags'[h],
           \A cb \in cbs : cb.h = h /\ cb.f \in {f, Volume} /\ cb.st # "NORMAL" => cb \in cbs'
    PROVE  Owed(h, f)'
BY DEF Owed, Of

\* One flag or another of one host is set or cleared.
LEMMA FlagFacts ==
    ASSUME TypeOK, NEW x \in Hosts, NEW S \in SUBSET HostFlags, flags' = [flags EXCEPT ![x] = S]
    PROVE  /\ flags' \in [Hosts -> SUBSET HostFlags] /\ flags'[x] = S
           /\ \A h \in Hosts \ {x} : flags'[h] = flags[h]
BY DEF TypeOK

\* What is taken out of the entries to be told at once, is being told.
LEMMA BreakDelayedFacts ==
    ASSUME TypeOK, ThreadsOK, NEW t \in Calls, NEW c \in Thread, c.h \in Hosts,
           lock[c.h] \in {None, t}, c.type = "NORMAL", c.old = FALSE, c.set = {},
           NEW th \in [Threads -> Thread], \A u \in Threads : Heard(thread[u], th[u]),
           BreakDelayedCallBacks(t, c, th)
    PROVE  /\ thread' \in [Threads -> Thread] /\ thread'[t].pc # "reply"
           /\ \A u \in Threads \ {t} : thread'[u] = th[u]
           /\ Others(t) /\ Unaged(t) /\ ThreadOK(t, thread[t])'
           /\ lock' \in [Hosts -> Threads \cup {None}] /\ LockStep(t) /\ ResetStep(t)
           /\ flags' \in [Hosts -> SUBSET HostFlags] /\ cbs' \subseteq cbs
           /\ \A h \in Hosts, f \in Files : Owed(h, f) => Covered(h, f)'
           /\ \A h \in Hosts, f \in Files : Normal(h, f) => Normal(h, f)'
<1>1. t \in Threads /\ t # Fsync /\ flags[c.h] \in SUBSET HostFlags
    BY ThreadNames DEF TypeOK
<1>2. CASE /\ "RESETDONE" \notin flags[c.h]
           /\ thread' = [th EXCEPT ![t] = [c EXCEPT !.pc = "init"]]
           /\ lock' = [lock EXCEPT ![c.h] = t]
           /\ UNCHANGED <<flags, cbs>>
    <2> DEFINE d == [c EXCEPT !.pc = "init"]
    <2>1. d \in Thread
        BY DEF Thread, PC
    <2>2. d.pc = "init" /\ d.h = c.h /\ d.set = {} /\ d.type = "NORMAL" /\ d.old = FALSE
        BY DEF Thread
    <2>3. thread' = [th EXCEPT ![t] = d]
        BY <1>2
    <2> HIDE DEF d
    <2>4. /\ thread' \in [Threads -> Thread] /\ thread'[t] = d
          /\ \A u \in Threads \ {t} : thread'[u] = th[u]
          /\ Others(t) /\ Unaged(t)
        BY <1>1, <2>1, <2>3, OneThread
    <2>5. lock' \in [Hosts -> Threads \cup {None}] /\ LockStep(t) /\ lock'[c.h] = t
        BY <1>1, <1>2, LockFacts
    <2>6. ThreadOK(t, thread[t])'
        <3>1. lock'[d.h] = t /\ "RESETDONE" \notin flags'[d.h]
            BY <1>2, <2>2, <2>5
        <3> QED
            BY <1>1, <2>2, <2>4, <3>1 DEF ThreadOK
    <2>7. /\ \A h \in Hosts, f \in Files : Owed(h, f) => Owed(h, f)'
          /\ \A h \in Hosts, f \in Files : Normal(h, f) => Normal(h, f)'
        BY <1>2 DEF Owed, Of, Normal
    <2>8. ResetStep(t) /\ flags' \in [Hosts -> SUBSET HostFlags] /\ cbs' \subseteq cbs
        BY <1>2 DEF ResetStep, TypeOK
    <2> QED
        BY <2>2, <2>4, <2>5, <2>6, <2>7, <2>8 DEF Covered
<1>3. CASE /\ Served(t, c, th)
           /\ flags' = [flags EXCEPT ![c.h] = @ \ {"VENUSDOWN", "HFE_LATER"}]
           /\ UNCHANGED cbs
    <2>1. /\ thread' \in [Threads -> Thread] /\ thread'[t].pc = "work"
          /\ \A u \in Threads \ {t} : thread'[u] = th[u]
          /\ Others(t) /\ Unaged(t) /\ ThreadOK(t, thread[t])'
          /\ lock' \in [Hosts -> Threads \cup {None}] /\ LockStep(t)
        BY <1>3, ServedFacts
    <2>2. /\ flags' \in [Hosts -> SUBSET HostFlags]
          /\ \A h \in Hosts : "RESETDONE" \in flags'[h] <=> "RESETDONE" \in flags[h]
          /\ \A h \in Hosts : "HCBREAK" \in flags'[h] <=> "HCBREAK" \in flags[h]
        BY <1>3 DEF TypeOK
    <2>3. /\ \A h \in Hosts, f \in Files : Owed(h, f) => Owed(h, f)'
          /\ \A h \in Hosts, f \in Files : Normal(h, f) => Normal(h, f)'
        BY <1>3, <2>2 DEF Owed, Of, Normal
    <2> QED
        BY <1>3, <2>1, <2>2, <2>3 DEF Covered, ResetStep
<1>4. ASSUME NEW S \in SUBSET Delayed(c.h),
             cbs' = cbs \ S,
             flags' = [flags EXCEPT ![c.h] = @ \ {"VENUSDOWN"}],
             thread' = [th EXCEPT ![t] = [c EXCEPT !.pc = "bulk", !.set = S]],
             lock' = [lock EXCEPT ![c.h] = t]
      PROVE  /\ thread' \in [Threads -> Thread] /\ thread'[t].pc # "reply"
             /\ \A u \in Threads \ {t} : thread'[u] = th[u]
             /\ Others(t) /\ Unaged(t) /\ ThreadOK(t, thread[t])'
             /\ lock' \in [Hosts -> Threads \cup {None}] /\ LockStep(t) /\ ResetStep(t)
             /\ flags' \in [Hosts -> SUBSET HostFlags] /\ cbs' \subseteq cbs
             /\ \A h \in Hosts, f \in Files : Owed(h, f) => Covered(h, f)'
             /\ \A h \in Hosts, f \in Files : Normal(h, f) => Normal(h, f)'
    <2> DEFINE d == [c EXCEPT !.pc = "bulk", !.set = S]
    <2>1. S \subseteq CallBack /\ \A cb \in S : cb.h = c.h /\ cb.st \in {"DELAYED", "LATER"}
        BY DEF Delayed, Of, TypeOK
    <2>2. d \in Thread
        BY <2>1 DEF Thread, PC
    <2>3. d.pc = "bulk" /\ d.h = c.h /\ d.set = S /\ d.type = "NORMAL" /\ d.old = FALSE
        BY DEF Thread
    <2>4. thread' = [th EXCEPT ![t] = d]
        BY <1>4
    <2> HIDE DEF d
    <2>5. /\ thread' \in [Threads -> Thread] /\ thread'[t] = d
          /\ \A u \in Threads \ {t} : thread'[u] = th[u]
          /\ Others(t) /\ Unaged(t)
        BY <1>1, <2>2, <2>4, OneThread
    <2>6. lock' \in [Hosts -> Threads \cup {None}] /\ LockStep(t) /\ lock'[c.h] = t
        BY <1>1, <1>4, LockFacts
    <2>7. ThreadOK(t, thread[t])'
        <3>1. lock'[d.h] = t /\ d.set \subseteq CallBack
            BY <2>1, <2>3, <2>6
        <3> QED
            BY <1>1, <2>3, <2>5, <3>1 DEF ThreadOK
    <2>8. /\ flags' \in [Hosts -> SUBSET HostFlags]
          /\ \A h \in Hosts : "RESETDONE" \in flags'[h] <=> "RESETDONE" \in flags[h]
          /\ \A h \in Hosts : "HCBREAK" \in flags'[h] <=> "HCBREAK" \in flags[h]
        BY <1>4 DEF TypeOK
    <2>9. ASSUME NEW h \in Hosts, NEW f \in Files, Owed(h, f) PROVE Covered(h, f)'
        <3>1. CASE \E cb \in S : cb.h = h /\ cb.f \in {f, Volume}
            <4>1. Telling(d, h, f)
                BY <2>1, <2>3, <3>1 DEF Telling
            <4>2. Telling(thread[t], h, f)'
                BY <2>5, <4>1 DEF Telling
            <4> QED
                BY <1>1, <4>2 DEF Covered, Threads
        <3>2. CASE ~\E cb \in S : cb.h = h /\ cb.f \in {f, Volume}
            <4>1. Owed(h, f)'
                BY <1>4, <2>8, <2>9, <3>2, OwedStep
            <4> QED
                BY <4>1 DEF Covered
        <3> QED
            BY <3>1, <3>2
    <2>10. \A h \in Hosts, f \in Files : Normal(h, f) => Normal(h, f)'
        BY <1>4, <2>1 DEF Normal
    <2> QED
        BY <1>4, <2>3, <2>5, <2>6, <2>7, <2>8, <2>9, <2>10 DEF ResetStep
<1> QED
    BY <1>2, <1>3, <1>4 DEF BreakDelayedCallBacks

\* Fewer entries are no more of them for a host and a file.
LEMMA OneEntrySubset ==
    ASSUME OneEntry, cbs' \subseteq cbs
    PROVE  OneEntry'
BY DEF OneEntry, OneEntryIn

\* A client of whom no reply is under way and who has no promise relies on nothing.
LEMMA ToldStep ==
    ASSUME NEW t \in Threads, thread'[t].pc # "reply", NEW x \in Hosts, NEW f \in Files,
           NEW th, \A u \in Threads \ {t} : thread'[u] = th[u],
           \A u \in Threads : Heard(thread[u], th[u]),
           \A u \in Threads : thread[u].h = x => ~th[u].valid,
           promise'[x][f] = "none"
    PROVE  ~Relies(x, f)'
<1>1. ASSUME NEW u \in Calls, thread'[u].h = x, thread'[u].pc = "reply"
      PROVE  ~thread'[u].valid
    <2>1. u \in Threads \ {t}
        BY <1>1, ThreadNames
    <2>2. thread'[u] = th[u] /\ thread[u].h = x
        BY <1>1, <2>1 DEF Heard, Same
    <2> QED
        BY <2>1, <2>2
<1> QED
    BY <1>1, ToldRelies

\* CallPreamble lets a call in or sends what the host is owed first.
LEMMA CallPreambleStep ==
    ASSUME Inv, NEW t \in Calls, NEW x \in Hosts, CallPreamble(t, x), changes' = changes
    PROVE  Inv'
<1> DEFINE c == [Idle EXCEPT !.h = x, !.try = 1, !.valid = TRUE]
<1>1. t \in Threads /\ thread[t] = Idle /\ lock[x] = None /\ promise' = promise
    BY ThreadNames DEF CallPreamble
<1>2. \/ BreakDelayedCallBacks(t, c, thread)
      \/ Served(t, c, thread) /\ UNCHANGED <<flags, cbs>>
    BY DEF CallPreamble
<1>3. c \in Thread
    <2>1. 1 \in 0..2
        OBVIOUS
    <2> QED
        BY <2>1, IdleFacts DEF Thread
<1>4. c.h = x /\ c.type = "NORMAL" /\ c.old = FALSE /\ c.set = {}
    BY IdleFacts DEF Thread
<1> HIDE DEF c
<1>5. thread \in [Threads -> Thread] /\ \A u \in Threads : Heard(thread[u], thread[u])
    BY HeardSelf DEF Inv
<1>6. /\ thread' \in [Threads -> Thread] /\ thread'[t].pc # "reply"
      /\ Others(t) /\ Unaged(t) /\ ThreadOK(t, thread[t])'
      /\ lock' \in [Hosts -> Threads \cup {None}] /\ LockStep(t) /\ ResetStep(t)
      /\ flags' \in [Hosts -> SUBSET HostFlags] /\ cbs' \subseteq cbs
      /\ \A h \in Hosts, f \in Files : Owed(h, f) => Covered(h, f)'
      /\ \A h \in Hosts, f \in Files : Normal(h, f) => Normal(h, f)'
    <2>1. CASE BreakDelayedCallBacks(t, c, thread)
        BY <1>1, <1>3, <1>4, <1>5, <2>1, BreakDelayedFacts DEF Inv
    <2>2. CASE Served(t, c, thread) /\ UNCHANGED <<flags, cbs>>
        <3>1. /\ thread' \in [Threads -> Thread] /\ thread'[t].pc = "work"
              /\ Others(t) /\ Unaged(t) /\ ThreadOK(t, thread[t])'
              /\ lock' \in [Hosts -> Threads \cup {None}] /\ LockStep(t)
            BY <1>1, <1>3, <1>4, <1>5, <2>2, ServedFacts DEF Inv
        <3>2. /\ \A h \in Hosts, f \in Files : Owed(h, f) => Owed(h, f)'
              /\ \A h \in Hosts, f \in Files : Normal(h, f) => Normal(h, f)'
            BY <2>2 DEF Owed, Of, Normal
        <3> QED
            BY <2>2, <3>1, <3>2 DEF Covered, ResetStep, Inv, TypeOK
    <2> QED
        BY <1>2, <2>1, <2>2
<1>7. TypeOK'
    BY <1>1, <1>6 DEF Inv, TypeOK
<1>8. ThreadsOK'
    BY <1>6, ThreadsStep DEF Inv
<1>9. OneEntry'
    BY <1>6, OneEntrySubset DEF Inv
<1>10. Remembered'
    <2>1. ASSUME NEW h \in Hosts, NEW f \in Files PROVE Keeps(t, h, f)
        <3>1. ~Telling(thread[t], h, f) /\ ~Breaking(thread[t], h, f)
            BY <1>1, IdleFacts DEF Telling, Breaking
        <3> QED
            BY <1>6, <3>1 DEF Keeps
    <2> QED
        BY <1>1, <1>6, <2>1, RememberedStep DEF Inv
<1> QED
    BY <1>7, <1>8, <1>9, <1>10 DEF Inv

\* A reset was sent: a host that got it relies on nothing, one that may not have got it
\* still has one due.
LEMMA InitReplyStep ==
    ASSUME Inv, NEW t \in Calls, InitReply(t), changes' = changes
    PROVE  Inv'
<1> DEFINE c == thread[t]
           x == c.h
<1>1. t \in Threads /\ c \in Thread /\ ThreadOK(t, c) /\ c.pc = "init" /\ cbs' = cbs
    BY ThreadNames DEF InitReply, Inv, TypeOK, ThreadsOK
<1>2. x \in Hosts /\ lock[x] = t /\ "RESETDONE" \notin flags[x] /\ c.type = "NORMAL" /\ c.old = FALSE
    BY <1>1, ThreadFields DEF ThreadOK
<1>3. PICK r \in Outcome :
         LET th == Pending(x, r) IN
         /\ promise' = Promises(x, {Volume}, r)
         /\ IF r.ok
            THEN /\ flags' = [flags EXCEPT ![x] = (@ \cup {"RESETDONE"}) \ {"VENUSDOWN", "HFE_LATER"}]
                 /\ Served(t, th[t], th)
            ELSE /\ flags' = [flags EXCEPT ![x] = @ \cup {"VENUSDOWN"}]
                 /\ Failed(t, th[t], th)
    BY DEF InitReply
<1> DEFINE th == Pending(x, r)
<1>4. /\ th \in [Threads -> Thread] /\ \A u \in Threads : Heard(thread[u], th[u])
      /\ r.told => \A u \in Threads : thread[u].h = x => ~th[u].valid
    BY <1>2, PendingFacts DEF Inv
<1>5. /\ promise' \in [Hosts -> [Files -> {"none", "good", "stale"}]]
      /\ \A h \in Hosts, f \in Files :
           /\ promise'[h][f] \in {"none", promise[h][f]}
           /\ r.told /\ h = x => promise'[h][f] = "none"
    BY <1>2, <1>3, PromisesFacts DEF Inv
<1>6. /\ th[t] \in Thread /\ th[t].h = x /\ th[t].type = "NORMAL" /\ th[t].old = FALSE
    BY <1>1, <1>2, <1>4 DEF Heard, Same
<1> HIDE DEF th
<1>7. /\ thread' \in [Threads -> Thread] /\ thread'[t].pc # "reply"
      /\ \A u \in Threads \ {t} : thread'[u] = th[u]
      /\ Others(t) /\ Unaged(t) /\ ThreadOK(t, thread[t])'
      /\ lock' \in [Hosts -> Threads \cup {None}] /\ LockStep(t)
      /\ flags' \in [Hosts -> SUBSET HostFlags]
      /\ \A h \in Hosts \ {x} : flags'[h] = flags[h]
      /\ ~r.ok => "RESETDONE" \notin flags'[x]
    <2>1. CASE r.ok
        <3>1. /\ flags' = [flags EXCEPT ![x] = (@ \cup {"RESETDONE"}) \ {"VENUSDOWN", "HFE_LATER"}]
              /\ Served(t, th[t], th)
            BY <1>3, <2>1 DEF th
        <3>2. /\ flags' \in [Hosts -> SUBSET HostFlags]
              /\ \A h \in Hosts \ {x} : flags'[h] = flags[h]
            BY <1>2, <3>1 DEF Inv, TypeOK, HostFlags
        <3>3. /\ thread' \in [Threads -> Thread] /\ thread'[t].pc = "work"
              /\ \A u \in Threads \ {t} : thread'[u] = th[u]
              /\ Others(t) /\ Unaged(t) /\ ThreadOK(t, thread[t])'
              /\ lock' \in [Hosts -> Threads \cup {None}] /\ LockStep(t)
            BY <1>2, <1>4, <1>6, <3>1, ServedFacts DEF Inv
        <3> QED
            BY <2>1, <3>2, <3>3
    <2>2. CASE ~r.ok
        <3>1. flags' = [flags EXCEPT ![x] = @ \cup {"VENUSDOWN"}] /\ Failed(t, th[t], th)
            BY <1>3, <2>2 DEF th
        <3>2. /\ flags' \in [Hosts -> SUBSET HostFlags] /\ "RESETDONE" \notin flags'[x]
              /\ \A h \in Hosts \ {x} : flags'[h] = flags[h]
            BY <1>2, <3>1 DEF Inv, TypeOK, HostFlags
        <3>3. /\ thread' \in [Threads -> Thread] /\ thread'[t].pc # "reply"
              /\ \A u \in Threads \ {t} : thread'[u] = th[u]
              /\ Others(t) /\ Unaged(t) /\ ThreadOK(t, thread[t])'
              /\ lock' \in [Hosts -> Threads \cup {None}] /\ LockStep(t)
            BY <1>2, <1>4, <1>6, <3>1, <3>2, FailedFacts DEF Inv
        <3> QED
            BY <3>2, <3>3
    <2> QED
        BY <2>1, <2>2
<1>8. TypeOK'
    BY <1>1, <1>5, <1>7 DEF Inv, TypeOK
<1>9. ThreadsOK'
    <2>1. ResetStep(t)
        BY <1>2, <1>7 DEF ResetStep
    <2> QED
        BY <1>7, <2>1, ThreadsStep DEF Inv
<1>10. OneEntry'
    BY <1>1, OneEntrySubset DEF Inv
<1>11. Remembered'
    <2>1. ASSUME NEW h \in Hosts, NEW f \in Files, Relies(h, f)' PROVE Keeps(t, h, f)
        <3>1. CASE h = x
            <4>1. ~r.ok
                BY <1>1, <1>4, <1>5, <1>7, <2>1, <3>1, OutcomeFacts, ToldStep
            <4>2. Owed(h, f)'
                BY <1>7, <3>1, <4>1 DEF Owed
            <4> QED
                BY <4>2 DEF Keeps, Covered
        <3>2. CASE h # x
            <4>1. Owed(h, f) => Owed(h, f)'
                BY <1>1, <1>7, <3>2, OwedStep
            <4>2. ~Telling(thread[t], h, f) /\ ~Breaking(thread[t], h, f)
                BY <1>1, <3>2 DEF Telling, Breaking
            <4>3. Normal(h, f) => Normal(h, f)'
                BY <1>1 DEF Normal
            <4> QED
                BY <4>1, <4>2, <4>3 DEF Keeps, Covered
        <3> QED
            BY <3>1, <3>2
    <2> QED
        BY <1>5, <1>7, <2>1, RememberedStep DEF Inv
<1> QED
    BY <1>8, <1>9, <1>10, <1>11 DEF Inv

\* Delayed callbacks were sent: a host that got them relies on none of those files, one
\* that may not have got them has a reset due.
LEMMA BulkReplyStep ==
    ASSUME Inv, NEW t \in Calls, BulkReply(t), changes' = changes
    PROVE  Inv'
<1> DEFINE c == thread[t]
           x == c.h
           F == {cb.f : cb \in c.set}
           full == Cardinality(c.set) = AFSCBMAX
<1>1. t \in Threads /\ c \in Thread /\ ThreadOK(t, c) /\ c.pc = "bulk"
    BY ThreadNames DEF BulkReply, Inv, TypeOK, ThreadsOK
<1>2. x \in Hosts /\ lock[x] = t /\ c.type = "NORMAL" /\ c.old = FALSE
    BY <1>1, ThreadFields DEF ThreadOK
<1>3. PICK r \in Outcome :
         LET th == Pending(x, r) IN
         /\ promise' = Promises(x, F, r)
         /\ \/ r.ok /\ full /\ BreakDelayedCallBacks(t, [th[t] EXCEPT !.set = {}], th)
            \/ /\ r.ok /\ ~full
               /\ flags' = [flags EXCEPT ![x] = @ \ {"HFE_LATER"}]
               /\ Served(t, th[t], th)
               /\ UNCHANGED cbs
            \/ /\ ~r.ok
               /\ flags' = [flags EXCEPT ![x] = (@ \cup {"VENUSDOWN"}) \ {"RESETDONE"}]
               /\ cbs' = cbs \ Of(x)
               /\ Failed(t, th[t], th)
    BY Zenon DEF BulkReply
<1> DEFINE th == Pending(x, r)
           d == [th[t] EXCEPT !.set = {}]
<1>4. /\ th \in [Threads -> Thread] /\ \A u \in Threads : Heard(thread[u], th[u])
      /\ r.told => \A u \in Threads : thread[u].h = x => ~th[u].valid
    BY <1>2, PendingFacts DEF Inv
<1> HIDE DEF F, full
<1>5. /\ promise' \in [Hosts -> [Files -> {"none", "good", "stale"}]]
      /\ \A h \in Hosts, f \in Files :
           /\ promise'[h][f] \in {"none", promise[h][f]}
           /\ r.told /\ h = x /\ (f \in F \/ Volume \in F) => promise'[h][f] = "none"
    BY <1>2, <1>3, PromisesFacts DEF Inv
<1>6. /\ th[t] \in Thread /\ th[t].h = x /\ th[t].type = "NORMAL" /\ th[t].old = FALSE
    BY <1>1, <1>2, <1>4 DEF Heard, Same
<1>7. \/ r.ok /\ BreakDelayedCallBacks(t, d, th)
      \/ /\ r.ok /\ flags' = [flags EXCEPT ![x] = @ \ {"HFE_LATER"}]
         /\ Served(t, th[t], th) /\ UNCHANGED cbs
      \/ /\ ~r.ok /\ flags' = [flags EXCEPT ![x] = (@ \cup {"VENUSDOWN"}) \ {"RESETDONE"}]
         /\ cbs' = cbs \ Of(x) /\ Failed(t, th[t], th)
    BY <1>3
<1> HIDE DEF th
<1>8. d \in Thread /\ d.h = x /\ d.type = "NORMAL" /\ d.old = FALSE /\ d.set = {}
    BY <1>6 DEF Thread
<1> HIDE DEF d
<1>9. /\ thread' \in [Threads -> Thread] /\ thread'[t].pc # "reply"
      /\ \A u \in Threads \ {t} : thread'[u] = th[u]
      /\ Others(t) /\ Unaged(t) /\ ThreadOK(t, thread[t])'
      /\ lock' \in [Hosts -> Threads \cup {None}] /\ LockStep(t) /\ ResetStep(t)
      /\ flags' \in [Hosts -> SUBSET HostFlags] /\ cbs' \subseteq cbs
      /\ \A h \in Hosts, f \in Files : Owed(h, f) => Covered(h, f)'
      /\ \A h \in Hosts, f \in Files : Normal(h, f) => Normal(h, f)' \/ Covered(h, f)'
      /\ ~r.ok => "RESETDONE" \notin flags'[x]
    <2>1. CASE r.ok /\ BreakDelayedCallBacks(t, d, th)
        BY <1>2, <1>4, <1>8, <2>1, BreakDelayedFacts DEF Inv
    <2>2. CASE /\ r.ok /\ flags' = [flags EXCEPT ![x] = @ \ {"HFE_LATER"}]
               /\ Served(t, th[t], th) /\ UNCHANGED cbs
        <3>1. /\ flags' \in [Hosts -> SUBSET HostFlags]
              /\ \A h \in Hosts : "RESETDONE" \in flags'[h] <=> "RESETDONE" \in flags[h]
              /\ \A h \in Hosts : "HCBREAK" \in flags'[h] <=> "HCBREAK" \in flags[h]
            BY <1>2, <2>2 DEF Inv, TypeOK
        <3>2. /\ thread' \in [Threads -> Thread] /\ thread'[t].pc = "work"
              /\ \A u \in Threads \ {t} : thread'[u] = th[u]
              /\ Others(t) /\ Unaged(t) /\ ThreadOK(t, thread[t])'
              /\ lock' \in [Hosts -> Threads \cup {None}] /\ LockStep(t)
            BY <1>2, <1>4, <1>6, <2>2, ServedFacts DEF Inv
        <3>3. /\ \A h \in Hosts, f \in Files : Owed(h, f) => Owed(h, f)'
              /\ \A h \in Hosts, f \in Files : Normal(h, f) => Normal(h, f)'
            BY <2>2, <3>1 DEF Owed, Of, Normal
        <3> QED
            BY <2>2, <3>1, <3>2, <3>3 DEF Covered, ResetStep
    <2>3. CASE /\ ~r.ok /\ flags' = [flags EXCEPT ![x] = (@ \cup {"VENUSDOWN"}) \ {"RESETDONE"}]
               /\ cbs' = cbs \ Of(x) /\ Failed(t, th[t], th)
        <3>1. /\ flags' \in [Hosts -> SUBSET HostFlags] /\ "RESETDONE" \notin flags'[x]
              /\ \A h \in Hosts \ {x} : flags'[h] = flags[h]
            BY <1>2, <2>3 DEF Inv, TypeOK, HostFlags
        <3>2. /\ thread' \in [Threads -> Thread] /\ thread'[t].pc # "reply"
              /\ \A u \in Threads \ {t} : thread'[u] = th[u]
              /\ Others(t) /\ Unaged(t) /\ ThreadOK(t, thread[t])'
              /\ lock' \in [Hosts -> Threads \cup {None}] /\ LockStep(t)
            BY <1>2, <1>4, <1>6, <2>3, <3>1, FailedFacts DEF Inv
        <3>3. ASSUME NEW h \in Hosts, NEW f \in Files
              PROVE  /\ Owed(h, f) => Covered(h, f)'
                     /\ Normal(h, f) => Normal(h, f)' \/ Covered(h, f)'
            <4>1. CASE h = x
                BY <3>1, <4>1 DEF Covered, Owed
            <4>2. CASE h # x
                <5>1. \A cb \in cbs : cb.h = h => cb \in cbs'
                    BY <2>3, <4>2 DEF Of
                <5>2. Owed(h, f) => Owed(h, f)'
                    BY <3>1, <4>2, <5>1, OwedStep
                <5>3. Normal(h, f) => Normal(h, f)'
                    BY <5>1 DEF Normal
                <5> QED
                    BY <5>2, <5>3 DEF Covered
            <4> QED
                BY <4>1, <4>2
        <3> QED
            BY <2>3, <3>1, <3>2, <3>3 DEF ResetStep
    <2> QED
        BY <1>7, <2>1, <2>2, <2>3
<1>10. TypeOK'
    BY <1>5, <1>9 DEF Inv, TypeOK
<1>11. ThreadsOK'
    BY <1>9, ThreadsStep DEF Inv
<1>12. OneEntry'
    BY <1>9, OneEntrySubset DEF Inv
<1>13. Remembered'
    <2>1. ASSUME NEW h \in Hosts, NEW f \in Files, Relies(h, f)' PROVE Keeps(t, h, f)
        <3>1. ~Breaking(thread[t], h, f)
            BY <1>1 DEF Breaking
        <3>2. Telling(thread[t], h, f) => Covered(h, f)'
            <4> SUFFICES ASSUME Telling(thread[t], h, f) PROVE Covered(h, f)'
                OBVIOUS
            <4>1. h = x /\ (f \in F \/ Volume \in F)
                BY <1>1 DEF Telling, F
            <4>2. ~r.ok
                BY <1>1, <1>4, <1>5, <1>9, <2>1, <4>1, OutcomeFacts, ToldStep
            <4> QED
                BY <1>9, <4>1, <4>2 DEF Covered, Owed
        <3> QED
            BY <1>9, <3>1, <3>2 DEF Keeps
    <2> QED
        BY <1>5, <1>9, <2>1, RememberedStep DEF Inv
<1> QED
    BY <1>10, <1>11, <1>12, <1>13 DEF Inv

-----------------------------------------------------------------------------
(* The calls.                                                              *)

\* The parts of the invariant together, for a step of thread t (None: of no thread).
LEMMA InvStep ==
    ASSUME Inv, NEW t, TypeOK', OneEntry', Others(t), Unaged(t), LockStep(t), ResetStep(t),
           t \in Threads => thread'[t].pc # "reply" /\ ThreadOK(t, thread[t])',
           \A h \in Hosts, f \in Files : promise'[h][f] \in {"none", promise[h][f]},
           \A h \in Hosts, f \in Files : Relies(h, f)' => Keeps(t, h, f)
    PROVE  Inv'
<1>1. ThreadsOK'
    BY ThreadsStep DEF Inv
<1>2. Remembered'
    BY RememberedStep DEF Inv
<1> QED
    BY <1>1, <1>2 DEF Inv

\* A step that changes one thread only, which goes on telling whomever it told.
LEMMA QuietStep ==
    ASSUME Inv, NEW t \in Threads, NEW d \in Thread, thread' = [thread EXCEPT ![t] = d],
           UNCHANGED <<flags, cbs, lock, promise, changes>>,
           d.pc # "reply", ThreadOK(t, d),
           \A h \in Hosts, f \in Files : Telling(thread[t], h, f) => Telling(d, h, f),
           \A h \in Hosts, f \in Files : ~Breaking(thread[t], h, f)
    PROVE  Inv'
<1>1. thread \in [Threads -> Thread] /\ \A u \in Threads : Heard(thread[u], thread[u])
    BY HeardSelf DEF Inv
<1>2. /\ thread' \in [Threads -> Thread] /\ thread'[t] = d
      /\ Others(t) /\ Unaged(t)
    BY <1>1, OneThread DEF Inv
<1>3. TypeOK' /\ OneEntry' /\ LockStep(t) /\ ResetStep(t)
    BY <1>2 DEF Inv, TypeOK, OneEntry, OneEntryIn, LockStep, ResetStep
<1>4. ThreadOK(t, thread[t])'
    BY <1>2 DEF ThreadOK
<1>5. \A h \in Hosts, f \in Files : promise'[h][f] \in {"none", promise[h][f]}
    OBVIOUS
<1>6. ASSUME NEW h \in Hosts, NEW f \in Files PROVE Keeps(t, h, f)
    <2>1. Owed(h, f) => Owed(h, f)'
        BY DEF Owed, Of
    <2>2. Normal(h, f) => Normal(h, f)'
        BY DEF Normal
    <2>3. Telling(thread[t], h, f) => Covered(h, f)'
        <3> SUFFICES ASSUME Telling(thread[t], h, f) PROVE Covered(h, f)'
            OBVIOUS
        <3>1. Telling(thread[t], h, f)'
            BY <1>2 DEF Telling
        <3> QED
            BY <3>1 DEF Covered, Threads
    <2> QED
        BY <2>1, <2>2, <2>3 DEF Keeps, Covered
<1> QED
    BY <1>2, <1>3, <1>4, <1>5, <1>6, InvStep

\* A fetch has read the vnode and asks for a callback.
LEMMA FetchStep ==
    ASSUME Inv, NEW t \in Calls, NEW f \in Files, Fetch(t, f), changes' = changes
    PROVE  Inv'
<1> DEFINE c == thread[t]
           d == [c EXCEPT !.pc = "alloc", !.f = f, !.target = c.h]
<1>1. t \in Threads /\ t # Fsync /\ c \in Thread /\ ThreadOK(t, c) /\ c.pc = "work"
    BY ThreadNames DEF Fetch, Inv, TypeOK, ThreadsOK
<1>2. c.h \in Hosts /\ c.set = {} /\ c.type = "NORMAL" /\ c.old = FALSE
    BY <1>1, ThreadFields DEF ThreadOK
<1>3. thread' = [thread EXCEPT ![t] = d] /\ UNCHANGED <<flags, cbs, lock, promise>>
    BY DEF Fetch
<1>4. d \in Thread
    BY <1>1, <1>2 DEF Thread, PC, Fids
<1>5. /\ d.pc = "alloc" /\ d.f = f /\ d.target = c.h /\ d.h = c.h /\ d.set = {}
      /\ d.type = "NORMAL" /\ d.old = FALSE
    BY <1>1, <1>2 DEF Thread
<1> HIDE DEF d
<1>6. ThreadOK(t, d)
    BY <1>1, <1>2, <1>5 DEF ThreadOK
<1>7. ASSUME NEW h \in Hosts, NEW g \in Files PROVE ~Telling(c, h, g) /\ ~Breaking(c, h, g)
    BY <1>1 DEF Telling, Breaking
<1> QED
    BY <1>1, <1>3, <1>4, <1>5, <1>6, <1>7, QuietStep

\* What the clients know of a file that changed.
LEMMA OutdatedFacts ==
    ASSUME TypeOK, NEW F, NEW h
    PROVE  /\ Outdated(F, h) \in [Threads -> Thread]
           /\ \A u \in Threads :
                /\ Same(thread[u], Outdated(F, h)[u])
                /\ Outdated(F, h)[u].valid = thread[u].valid
                /\ Outdated(F, h)[u].old =
                      (thread[u].old \/ (thread[u].pc = "reply" /\ thread[u].f \in F /\ thread[u].h # h))
<1> DEFINE o(u) == thread[u].old \/ (thread[u].pc = "reply" /\ thread[u].f \in F /\ thread[u].h # h)
           out == Outdated(F, h)
<1>1. out = [u \in Threads |-> [thread[u] EXCEPT !.old = o(u)]]
    BY DEF Outdated
<1>2. ASSUME NEW u \in Threads
      PROVE  /\ out[u] \in Thread /\ Same(thread[u], out[u]) /\ out[u].valid = thread[u].valid
             /\ out[u].old = o(u)
    <2>1. out[u] = [thread[u] EXCEPT !.old = o(u)] /\ thread[u] \in Thread
        BY <1>1 DEF TypeOK
    <2>2. o(u) \in BOOLEAN
        OBVIOUS
    <2> HIDE DEF o, out
    <2> QED
        BY <2>1, <2>2 DEF Thread, Same
<1>3. out \in [Threads -> Thread]
    BY <1>1, <1>2
<1> QED
    BY <1>2, <1>3

\* An update changes the vnode: the other clients' promises on it are out of date, and
\* the call is about to break the callbacks that stand for them.
LEMMA UpdateStep ==
    ASSUME Inv, NEW t \in Calls, NEW g \in Files, NEW all \in BOOLEAN, Update(t, g, all),
           changes' = changes
    PROVE  Inv'
<1> DEFINE c == thread[t]
           y == IF all THEN None ELSE c.h
           th == Outdated({g}, y)
           d == [th[t] EXCEPT !.pc = IF all THEN "breakall" ELSE "break", !.f = g, !.valid = FALSE]
<1>1. t \in Threads /\ t # Fsync /\ c \in Thread /\ ThreadOK(t, c) /\ c.pc = "work"
    BY ThreadNames DEF Update, Inv, TypeOK, ThreadsOK
<1>2. c.h \in Hosts /\ c.set = {} /\ c.type = "NORMAL" /\ c.old = FALSE
    BY <1>1, ThreadFields DEF ThreadOK
<1>3. /\ thread' = [th EXCEPT ![t] = d] /\ Changed({g}, y)
      /\ UNCHANGED <<flags, cbs, lock, changes>>
    BY DEF Update
<1>4. /\ th \in [Threads -> Thread]
      /\ \A u \in Threads :
           /\ Same(thread[u], th[u]) /\ th[u].valid = thread[u].valid
           /\ th[u].old = (thread[u].old \/ (thread[u].pc = "reply" /\ thread[u].f \in {g} /\ thread[u].h # y))
    BY OutdatedFacts DEF Inv
<1>5. /\ th[t] \in Thread /\ th[t].h = c.h /\ th[t].set = {} /\ th[t].type = "NORMAL"
      /\ th[t].old = FALSE
    BY <1>1, <1>2, <1>4 DEF Same
<1> HIDE DEF th
<1>6. d \in Thread
    BY <1>5 DEF Thread, PC, Fids
<1>7. /\ d.pc = (IF all THEN "breakall" ELSE "break") /\ d.f = g /\ d.h = c.h
      /\ d.set = {} /\ d.type = "NORMAL" /\ d.old = FALSE
    BY <1>5 DEF Thread
<1> HIDE DEF d
<1>8. /\ thread' \in [Threads -> Thread] /\ thread'[t] = d
      /\ \A u \in Threads \ {t} : thread'[u] = th[u]
    BY <1>1, <1>3, <1>4, <1>6
<1>9. Others(t)
    <2> SUFFICES ASSUME NEW u \in Threads \ {t}
                 PROVE  /\ Same(thread[u], thread'[u])
                        /\ thread'[u].valid => thread[u].valid
                        /\ thread'[u].old => thread[u].pc = "reply"
        BY DEF Others
    <2>1. thread[u].old => thread[u].pc = "reply"
        BY DEF Inv, ThreadsOK, ThreadOK
    <2> QED
        BY <1>4, <1>8, <2>1
<1>10. ThreadOK(t, thread[t])'
    BY <1>1, <1>2, <1>7, <1>8 DEF ThreadOK
<1>11. LockStep(t) /\ ResetStep(t)
    BY <1>3 DEF LockStep, ResetStep
<1>12. /\ promise' \in [Hosts -> [Files -> {"none", "good", "stale"}]]
       /\ \A h \in Hosts, f \in Files :
            promise'[h][f] = IF h # y /\ f \in {g} /\ promise[h][f] = "good" THEN "stale" ELSE promise[h][f]
    BY <1>3 DEF Changed, Inv, TypeOK
<1>13. TypeOK' /\ OneEntry'
    BY <1>3, <1>8, <1>12 DEF Inv, TypeOK, OneEntry, OneEntryIn
<1>14. ThreadsOK'
    BY <1>9, <1>10, <1>11, ThreadsStep DEF Inv
<1>15. Remembered'
    <2> SUFFICES ASSUME NEW h \in Hosts, NEW f \in Files PROVE RememberedAt(h, f)'
        BY DEF Remembered
    <2>1. Keeps(t, h, f)
        <3>1. ~Telling(thread[t], h, f) /\ ~Breaking(thread[t], h, f)
            BY <1>1 DEF Telling, Breaking
        <3>2. (Owed(h, f) => Owed(h, f)') /\ (Normal(h, f) => Normal(h, f)')
            BY <1>3 DEF Owed, Of, Normal
        <3> QED
            BY <3>1, <3>2 DEF Keeps, Covered
    <2>2. ASSUME NEW u \in Calls, thread'[u].pc = "reply"
          PROVE  /\ thread[u].pc = "reply" /\ thread[u].h = thread'[u].h
                 /\ thread[u].f = thread'[u].f /\ (thread'[u].valid => thread[u].valid)
                 /\ thread'[u].old =>
                      thread[u].old \/ (thread[u].f = g /\ thread[u].h # y)
        <3>1. u \in Threads \ {t}
            BY <1>7, <1>8, <2>2, ThreadNames
        <3> QED
            BY <1>4, <1>8, <2>2, <3>1 DEF Same
    <2>3. Relies(h, f)' => Relies(h, f)
        BY <1>12, <2>2 DEF Relies
    <2>4. Stale(h, f)' => Stale(h, f) \/ (f = g /\ h # y)
        BY <1>12, <2>2 DEF Stale
    <2>5. CASE f = g /\ h # y
        <3>1. Breaking(d, h, f)
            BY <1>7, <2>5 DEF Breaking
        <3>2. AboutToBreak(h, f)'
            <4>1. Breaking(thread[t], h, f)'
                BY <1>8, <3>1 DEF Breaking
            <4> QED
                BY <1>1, <4>1 DEF AboutToBreak, Threads
        <3>3. Relies(h, f) => Covered(h, f)' \/ Normal(h, f)'
            <4>1. Covered(h, f) => Covered(h, f)'
                BY <1>9, <2>1, CoveredStep
            <4>2. Normal(h, f) => Normal(h, f)'
                BY <1>3 DEF Normal
            <4> QED
                BY <4>1, <4>2 DEF Inv, Remembered, RememberedAt
        <3>4. Stale(h, f)' => Relies(h, f)'
            BY DEF Stale, Relies
        <3> QED
            BY <2>3, <3>2, <3>3, <3>4 DEF RememberedAt
    <2>6. CASE ~(f = g /\ h # y)
        <3>1. Stale(h, f)' => Stale(h, f)
            BY <2>4, <2>6
        <3> QED
            BY <1>9, <2>1, <2>3, <3>1, RememberedAtStep DEF Inv
    <2> QED
        BY <2>5, <2>6
<1> QED
    BY <1>13, <1>14, <1>15 DEF Inv

-----------------------------------------------------------------------------
(* Breaking the callbacks of a file.                                       *)

\* Marking some of the entries with another status leaves one per host and file.
LEMMA MarkedOne ==
    ASSUME NEW C \in SUBSET CallBack, OneEntryIn(C), NEW D \in SUBSET C,
           \A cb \in D : cb.st # "LATER", NEW s \in Status
    PROVE  /\ (C \ D) \cup {[cb EXCEPT !.st = s] : cb \in D} \subseteq CallBack
           /\ OneEntryIn((C \ D) \cup {[cb EXCEPT !.st = s] : cb \in D})
<1> DEFINE m(cb) == [cb EXCEPT !.st = s]
           M == (C \ D) \cup {m(cb) : cb \in D}
<1>1. ASSUME NEW cb \in D
      PROVE  m(cb) \in CallBack /\ m(cb).h = cb.h /\ m(cb).f = cb.f /\ m(cb).st = s
    BY DEF CallBack
<1>2. \A x \in M : (x \in C /\ x \notin D) \/ \E x0 \in D : x = m(x0)
    OBVIOUS
<1> HIDE DEF m
<1>3. M \subseteq CallBack
    BY <1>1, <1>2
<1>4. ASSUME NEW x \in M, NEW y \in M,
             x.h = y.h, x.f = y.f, x.st # "LATER", y.st # "LATER"
      PROVE  x = y
    <2>1. CASE x \in C /\ x \notin D /\ y \in C /\ y \notin D
        BY <1>4, <2>1 DEF OneEntryIn
    <2>2. CASE x \in C /\ x \notin D /\ \E y0 \in D : y = m(y0)
        BY <1>1, <1>4, <2>2 DEF OneEntryIn
    <2>3. CASE y \in C /\ y \notin D /\ \E x0 \in D : x = m(x0)
        BY <1>1, <1>4, <2>3 DEF OneEntryIn
    <2>4. CASE (\E x0 \in D : x = m(x0)) /\ \E y0 \in D : y = m(y0)
        BY <1>1, <1>4, <2>4 DEF OneEntryIn
    <2> QED
        BY <1>2, <2>1, <2>2, <2>3, <2>4
<1>5. OneEntryIn(M)
    BY <1>4 DEF OneEntryIn
<1> QED
    BY <1>3, <1>5 DEF m

\* The loop of BreakCallBack takes out entries of hosts it then tells, and marks those of
\* hosts that are down as delayed; the others stay.
LEMMA SweepFacts ==
    ASSUME Inv, NEW t \in Calls, NEW C \in SUBSET CallBack, OneEntryIn(C),
           thread[t].pc \in {"break", "breakall", "multi"}, Sweep(t, C),
           UNCHANGED <<flags, lock, promise, changes>>
    PROVE  /\ TypeOK' /\ OneEntry' /\ Others(t) /\ Unaged(t) /\ LockStep(t) /\ ResetStep(t)
           /\ thread'[t].pc # "reply" /\ ThreadOK(t, thread[t])'
           /\ \A cb \in C : cb.st = "NORMAL" => cb \in cbs'
           /\ \A cb \in C, f \in Files :
                cb.f \in {f, Volume} /\ cb.st # "NORMAL" => Covered(cb.h, f)'
<1> DEFINE c == thread[t]
           B == {cb \in C : cb.f = c.f /\ cb.st = "BREAKING"}
           down == {cb \in B : "VENUSDOWN" \in flags[cb.h]}
           up == B \ down
<1>1. /\ t \in Threads /\ t # Fsync /\ c \in Thread /\ ThreadOK(t, c)
      /\ c.h \in Hosts /\ c.f \in Files /\ c.type = "NORMAL" /\ c.old = FALSE
    <2>1. t \in Threads /\ t # Fsync /\ c \in Thread /\ ThreadOK(t, c)
        BY ThreadNames DEF Inv, TypeOK, ThreadsOK
    <2> QED
        BY <2>1, ThreadFields DEF ThreadOK
<1>2. PICK S \in SUBSET up, D \in SUBSET down :
         /\ cbs' = (C \ (S \cup D)) \cup {[cb EXCEPT !.st = "DELAYED"] : cb \in D}
         /\ thread' = [thread EXCEPT ![t] =
                IF S = {} THEN Idle ELSE [c EXCEPT !.pc = "multi", !.set = {cb.h : cb \in S}]]
    BY DEF Sweep
<1> DEFINE e == [c EXCEPT !.pc = "multi", !.set = {cb.h : cb \in S}]
           d == IF S = {} THEN Idle ELSE e
           m(cb) == [cb EXCEPT !.st = "DELAYED"]
           M == (C \ D) \cup {m(cb) : cb \in D}
<1>3. /\ S \subseteq C /\ D \subseteq C /\ \A cb \in S \cup D : cb.f = c.f /\ cb.st = "BREAKING"
    OBVIOUS
<1>4. {cb.h : cb \in S} \subseteq Hosts
    BY <1>3 DEF CallBack
<1>5. e \in Thread
    BY <1>1, <1>4 DEF Thread, PC
<1>6. /\ e.pc = "multi" /\ e.h = c.h /\ e.f = c.f /\ e.set = {cb.h : cb \in S}
      /\ e.type = "NORMAL" /\ e.old = FALSE
    BY <1>1 DEF Thread
<1>7. thread' = [thread EXCEPT ![t] = d]
    BY <1>2
<1> HIDE DEF e
<1>8. d \in Thread /\ d.pc # "reply"
    BY <1>5, <1>6, IdleFacts
<1>9. d = IF S = {} THEN Idle ELSE e
    OBVIOUS
<1> HIDE DEF d
<1>10. /\ thread' \in [Threads -> Thread] /\ thread'[t] = d /\ Others(t) /\ Unaged(t)
    <2>1. thread \in [Threads -> Thread] /\ \A u \in Threads : Heard(thread[u], thread[u])
        BY HeardSelf DEF Inv
    <2> QED
        BY <1>1, <1>7, <1>8, <2>1, OneThread DEF Inv
<1>11. ThreadOK(t, thread[t])'
    <2>1. CASE S = {}
        BY <1>1, <1>9, <1>10, <2>1, IdleOK
    <2>2. CASE S # {}
        BY <1>1, <1>4, <1>6, <1>9, <1>10, <2>2 DEF ThreadOK
    <2> QED
        BY <2>1, <2>2
<1>12. M \subseteq CallBack /\ OneEntryIn(M)
    <2>1. \A cb \in D : cb.st # "LATER"
        BY <1>3
    <2>2. "DELAYED" \in Status
        BY DEF Status
    <2> QED
        BY <1>3, <2>1, <2>2, MarkedOne
<1>13. cbs' \subseteq M
    BY <1>2
<1>14. TypeOK' /\ OneEntry' /\ LockStep(t) /\ ResetStep(t)
    <2>1. cbs' \subseteq CallBack
        BY <1>12, <1>13
    <2>2. OneEntry'
        BY <1>12, <1>13 DEF OneEntry, OneEntryIn
    <2> QED
        BY <1>10, <2>1, <2>2 DEF Inv, TypeOK, LockStep, ResetStep
<1>15. \A cb \in C : cb \notin S /\ cb \notin D => cb \in cbs'
    BY <1>2
<1>16. ASSUME NEW cb \in C, NEW f \in Files, cb.f \in {f, Volume}, cb.st # "NORMAL"
       PROVE  Covered(cb.h, f)'
    <2>1. CASE cb \in S
        <3>1. thread'[t] = e /\ cb.h \in e.set /\ e.f = cb.f
            BY <1>3, <1>6, <1>9, <1>10, <2>1
        <3>2. Telling(e, cb.h, f)
            BY <1>6, <1>16, <3>1 DEF Telling
        <3>3. Telling(thread'[t], cb.h, f)
            BY <3>1, <3>2
        <3> QED
            BY <1>1, <3>3 DEF Covered, Threads
    <2>2. CASE cb \in D
        <3>1. m(cb) \in cbs'
            BY <1>2, <2>2
        <3>2. m(cb).h = cb.h /\ m(cb).f = cb.f /\ m(cb).st = "DELAYED"
            BY DEF CallBack
        <3> HIDE DEF m
        <3> QED
            BY <1>16, <3>1, <3>2 DEF Covered, Owed, Of
    <2>3. CASE cb \notin S /\ cb \notin D
        BY <1>15, <1>16, <2>3 DEF Covered, Owed, Of
    <2> QED
        BY <2>1, <2>2, <2>3
<1>17. \A cb \in C : cb.st = "NORMAL" => cb \in cbs'
    BY <1>3, <1>15
<1> QED
    BY <1>8, <1>10, <1>11, <1>14, <1>16, <1>17

\* An update breaks the callbacks of its file.
LEMMA BreakCallBackStep ==
    ASSUME Inv, NEW t \in Calls, BreakCallBack(t), changes' = changes
    PROVE  Inv'
<1> DEFINE c == thread[t]
           B == {cb \in cbs : cb.f = c.f /\ cb.st = "NORMAL" /\ (cb.h # c.h \/ c.pc = "breakall")}
           m(cb) == [cb EXCEPT !.st = "BREAKING"]
           C == (cbs \ B) \cup {m(cb) : cb \in B}
<1>1. c.pc \in {"break", "breakall"} /\ Sweep(t, C) /\ UNCHANGED <<flags, lock, promise>>
    BY DEF BreakCallBack
<1>2. cbs \in SUBSET CallBack /\ OneEntryIn(cbs)
    BY DEF Inv, TypeOK, OneEntry
<1>3. C \in SUBSET CallBack /\ OneEntryIn(C)
    <2>1. B \in SUBSET cbs /\ \A cb \in B : cb.st # "LATER"
        OBVIOUS
    <2>2. "BREAKING" \in Status
        BY DEF Status
    <2> HIDE DEF B
    <2>3. C \subseteq CallBack /\ OneEntryIn(C)
        BY <1>2, <2>1, <2>2, MarkedOne
    <2> HIDE DEF C
    <2> QED
        BY <2>3
<1>4. \A cb \in B : m(cb) \in C /\ m(cb).h = cb.h /\ m(cb).f = cb.f /\ m(cb).st = "BREAKING"
    BY <1>2 DEF CallBack
<1>5. \A cb \in cbs : cb \in B \/ cb \in C
    OBVIOUS
<1>6. \A cb \in cbs : cb \in B <=> cb.f = c.f /\ cb.st = "NORMAL" /\ (cb.h # c.h \/ c.pc = "breakall")
    OBVIOUS
<1> HIDE DEF C, m, B
<1>7. /\ TypeOK' /\ OneEntry' /\ Others(t) /\ Unaged(t) /\ LockStep(t) /\ ResetStep(t)
      /\ thread'[t].pc # "reply" /\ ThreadOK(t, thread[t])'
      /\ \A cb \in C : cb.st = "NORMAL" => cb \in cbs'
      /\ \A cb \in C, f \in Files :
           cb.f \in {f, Volume} /\ cb.st # "NORMAL" => Covered(cb.h, f)'
    BY <1>1, <1>3, SweepFacts
<1>8. ASSUME NEW h \in Hosts, NEW f \in Files PROVE Keeps(t, h, f)
    <2>1. ~Telling(thread[t], h, f)
        BY <1>1 DEF Telling
    <2>2. Owed(h, f) => Covered(h, f)'
        <3>1. CASE "RESETDONE" \notin flags[h] \/ "HCBREAK" \in flags[h]
            BY <1>1, <3>1 DEF Covered, Owed
        <3>2. ASSUME NEW cb \in cbs, cb.h = h, cb.f \in {f, Volume}, cb.st # "NORMAL"
              PROVE  Covered(h, f)'
            BY <1>5, <1>6, <1>7, <3>2
        <3> QED
            BY <3>1, <3>2 DEF Owed, Of
    <2>3. ASSUME NEW cb \in cbs, cb.h = h, cb.f = f, cb \in B
          PROVE  Covered(h, f)'
        BY <1>4, <1>7, <2>3
    <2>4. Normal(h, f) => Normal(h, f)' \/ Covered(h, f)'
        BY <1>5, <1>7, <2>3 DEF Normal
    <2>5. Breaking(thread[t], h, f) /\ Normal(h, f) => Covered(h, f)'
        BY <1>6, <2>3 DEF Normal, Breaking
    <2> QED
        BY <2>1, <2>2, <2>4, <2>5 DEF Keeps
<1>9. \A h \in Hosts, f \in Files : promise'[h][f] \in {"none", promise[h][f]}
    BY <1>1
<1> QED
    BY <1>7, <1>8, <1>9, InvStep

\* ... and goes on when some of their hosts have answered.
LEMMA MultiEndStep ==
    ASSUME Inv, NEW t \in Calls, MultiEnd(t), changes' = changes
    PROVE  Inv'
<1> DEFINE c == thread[t]
<1>1. c.pc = "multi" /\ c.set = {} /\ Sweep(t, cbs) /\ UNCHANGED <<flags, lock, promise>>
    BY DEF MultiEnd
<1>2. cbs \in SUBSET CallBack /\ OneEntryIn(cbs)
    BY DEF Inv, TypeOK, OneEntry
<1>3. /\ TypeOK' /\ OneEntry' /\ Others(t) /\ Unaged(t) /\ LockStep(t) /\ ResetStep(t)
      /\ thread'[t].pc # "reply" /\ ThreadOK(t, thread[t])'
      /\ \A cb \in cbs : cb.st = "NORMAL" => cb \in cbs'
      /\ \A cb \in cbs, f \in Files :
           cb.f \in {f, Volume} /\ cb.st # "NORMAL" => Covered(cb.h, f)'
    BY <1>1, <1>2, SweepFacts
<1>4. c.type # "DELAYED"
    BY <1>1, ThreadNames DEF Inv, ThreadsOK, ThreadOK
<1>5. ASSUME NEW h \in Hosts, NEW f \in Files PROVE Keeps(t, h, f)
    <2>1. ~Telling(thread[t], h, f) /\ ~Breaking(thread[t], h, f)
        BY <1>1, <1>4 DEF Telling, Breaking
    <2>2. Owed(h, f) => Covered(h, f)'
        <3>1. CASE "RESETDONE" \notin flags[h] \/ "HCBREAK" \in flags[h]
            BY <1>1, <3>1 DEF Covered, Owed
        <3>2. ASSUME NEW cb \in cbs, cb.h = h, cb.f \in {f, Volume}, cb.st # "NORMAL"
              PROVE  Covered(h, f)'
            BY <1>3, <3>2
        <3> QED
            BY <3>1, <3>2 DEF Owed, Of
    <2>3. Normal(h, f) => Normal(h, f)'
        BY <1>3 DEF Normal
    <2> QED
        BY <2>1, <2>2, <2>3 DEF Keeps
<1>6. \A h \in Hosts, f \in Files : promise'[h][f] \in {"none", promise[h][f]}
    BY <1>1
<1> QED
    BY <1>3, <1>5, <1>6, InvStep

\* A host answered MultiBreakCallBack_r, or it is marked down and what it was not told is
\* to be recorded.
LEMMA MultiReplyStep ==
    ASSUME Inv, NEW t \in Threads, NEW x \in Hosts, MultiReply(t, x), changes' = changes
    PROVE  Inv'
<1> DEFINE c == thread[t]
<1>1. c \in Thread /\ ThreadOK(t, c) /\ c.pc = "multi" /\ x \in c.set /\ cbs' = cbs
    BY DEF MultiReply, Inv, TypeOK, ThreadsOK
<1>2. /\ c.type = "NORMAL" /\ c.old = FALSE /\ c.set \subseteq Hosts
      /\ t \in Calls => c.h \in Hosts /\ c.f \in Files
      /\ t = Fsync => c.f = Volume
    BY <1>1, ThreadFields DEF ThreadOK
<1>3. PICK r \in Outcome :
         LET th == Pending(x, r) IN
         /\ promise' = Promises(x, {c.f}, r)
         /\ IF r.ok
            THEN /\ thread' = [th EXCEPT ![t].set = @ \ {x}]
                 /\ UNCHANGED <<flags, lock>>
            ELSE /\ lock[x] = None
                 /\ lock' = [lock EXCEPT ![x] = t]
                 /\ flags' = [flags EXCEPT ![x] = @ \cup {"VENUSDOWN"}]
                 /\ thread' = [th EXCEPT ![t] = [th[t] EXCEPT !.pc = "alloc", !.set = c.set \ {x},
                                                              !.target = x, !.type = "DELAYED"]]
    BY DEF MultiReply
<1> DEFINE th == Pending(x, r)
           d == IF r.ok THEN [th[t] EXCEPT !.set = @ \ {x}]
                ELSE [th[t] EXCEPT !.pc = "alloc", !.set = c.set \ {x}, !.target = x, !.type = "DELAYED"]
<1>4. /\ th \in [Threads -> Thread] /\ \A u \in Threads : Heard(thread[u], th[u])
      /\ r.told => \A u \in Threads : thread[u].h = x => ~th[u].valid
    BY PendingFacts DEF Inv
<1>5. /\ promise' \in [Hosts -> [Files -> {"none", "good", "stale"}]]
      /\ \A h \in Hosts, f \in Files :
           /\ promise'[h][f] \in {"none", promise[h][f]}
           /\ r.told /\ h = x /\ (f \in {c.f} \/ Volume \in {c.f}) => promise'[h][f] = "none"
    BY <1>3, PromisesFacts DEF Inv
<1>6. /\ th[t] \in Thread /\ th[t].pc = "multi" /\ th[t].h = c.h /\ th[t].f = c.f
      /\ th[t].type = "NORMAL" /\ th[t].old = FALSE /\ th[t].set = c.set
    BY <1>1, <1>2, <1>4 DEF Heard, Same
<1>7. thread' = [th EXCEPT ![t] = d]
    <2>1. IF r.ok THEN thread' = [th EXCEPT ![t].set = @ \ {x}]
          ELSE thread' = [th EXCEPT ![t] = [th[t] EXCEPT !.pc = "alloc", !.set = c.set \ {x},
                                                         !.target = x, !.type = "DELAYED"]]
        BY <1>3
    <2> HIDE DEF th
    <2>2. CASE r.ok
        BY <1>4, <2>1, <2>2
    <2>3. CASE ~r.ok
        BY <2>1, <2>3
    <2> QED
        BY <2>2, <2>3
<1>8. /\ r.ok => UNCHANGED <<flags, lock>>
      /\ ~r.ok => /\ lock[x] = None /\ lock' = [lock EXCEPT ![x] = t]
                  /\ flags' = [flags EXCEPT ![x] = @ \cup {"VENUSDOWN"}]
    BY <1>3
<1> HIDE DEF th
<1>9. /\ d \in Thread /\ d.h = c.h /\ d.f = c.f /\ d.old = FALSE /\ d.set = c.set \ {x}
      /\ r.ok => d.pc = "multi" /\ d.type = "NORMAL"
      /\ ~r.ok => d.pc = "alloc" /\ d.type = "DELAYED" /\ d.target = x
    <2>1. c.set \ {x} \in SUBSET Hosts
        BY <1>2
    <2>2. CASE r.ok
        BY <1>6, <2>1, <2>2 DEF Thread
    <2>3. CASE ~r.ok
        BY <1>6, <2>1, <2>3 DEF Thread, PC
    <2> QED
        BY <2>2, <2>3
<1> HIDE DEF d
<1>10. /\ thread' \in [Threads -> Thread] /\ thread'[t] = d
       /\ \A u \in Threads \ {t} : thread'[u] = th[u]
       /\ Others(t) /\ Unaged(t)
    BY <1>4, <1>7, <1>9, OneThread DEF Inv
<1>11. thread'[t].pc # "reply" /\ ThreadOK(t, thread[t])'
    <2>1. d.pc \in {"multi", "alloc"}
        BY <1>9
    <2>2. t \in Calls => d.h \in Hosts /\ d.f \in Files
        BY <1>2, <1>9
    <2>3. t = Fsync => d.f = Volume
        BY <1>2, <1>9
    <2>4. d.set \subseteq Hosts
        BY <1>2, <1>9
    <2> QED
        BY <1>9, <1>10, <2>1, <2>2, <2>3, <2>4 DEF ThreadOK
<1>12. lock' \in [Hosts -> Threads \cup {None}] /\ LockStep(t)
    <2>1. CASE r.ok
        BY <1>8, <2>1 DEF Inv, TypeOK, LockStep
    <2>2. CASE ~r.ok
        BY <1>8, <2>2, LockFacts DEF Inv
    <2> QED
        BY <2>1, <2>2
<1>13. /\ flags' \in [Hosts -> SUBSET HostFlags]
       /\ \A h \in Hosts : "RESETDONE" \in flags'[h] <=> "RESETDONE" \in flags[h]
       /\ \A h \in Hosts : "HCBREAK" \in flags'[h] <=> "HCBREAK" \in flags[h]
    <2>1. CASE r.ok
        BY <1>8, <2>1 DEF Inv, TypeOK
    <2>2. CASE ~r.ok
        <3>1. flags[x] \cup {"VENUSDOWN"} \in SUBSET HostFlags
            BY DEF Inv, TypeOK, HostFlags
        <3>2. /\ flags' \in [Hosts -> SUBSET HostFlags] /\ flags'[x] = flags[x] \cup {"VENUSDOWN"}
              /\ \A h \in Hosts \ {x} : flags'[h] = flags[h]
            BY <1>8, <2>2, <3>1, FlagFacts DEF Inv
        <3> QED
            BY <3>2
    <2> QED
        BY <2>1, <2>2
<1>14. TypeOK' /\ OneEntry' /\ ResetStep(t)
    BY <1>1, <1>5, <1>10, <1>12, <1>13, OneEntrySubset DEF Inv, TypeOK, ResetStep
<1>15. ASSUME NEW h \in Hosts, NEW f \in Files, Relies(h, f)' PROVE Keeps(t, h, f)
    <2>1. Owed(h, f) => Owed(h, f)'
        BY <1>1, <1>13, OwedStep
    <2>2. Normal(h, f) => Normal(h, f)'
        BY <1>1 DEF Normal
    <2>3. ~Breaking(thread[t], h, f)
        BY <1>1 DEF Breaking
    <2>4. Telling(thread[t], h, f) => Covered(h, f)'
        <3> SUFFICES ASSUME Telling(thread[t], h, f) PROVE Covered(h, f)'
            OBVIOUS
        <3>1. c.f \in {f, Volume} /\ h \in c.set
            BY <1>1, <1>2 DEF Telling
        <3>2. Telling(d, h, f)
            <4>1. CASE r.ok
                <5>1. ASSUME h = x PROVE FALSE
                    <6>1. r.told
                        BY <4>1, OutcomeFacts
                    <6>2. promise'[x][f] = "none"
                        BY <1>5, <3>1, <6>1
                    <6>3. \A u \in Threads : thread[u].h = x => ~th[u].valid
                        BY <1>4, <6>1
                    <6>4. ~Relies(x, f)'
                        BY <1>4, <1>10, <1>11, <6>2, <6>3, ToldStep
                    <6> QED
                        BY <1>15, <5>1, <6>4
                <5> QED
                    BY <1>9, <3>1, <4>1, <5>1 DEF Telling
            <4>2. CASE ~r.ok
                BY <1>9, <3>1, <4>2 DEF Telling
            <4> QED
                BY <4>1, <4>2
        <3>3. Telling(thread'[t], h, f)
            BY <1>10, <3>2
        <3> QED
            BY <3>3 DEF Covered, Threads
    <2> QED
        BY <2>1, <2>2, <2>3, <2>4 DEF Keeps, Covered
<1> QED
    BY <1>5, <1>10, <1>11, <1>12, <1>14, <1>15, InvStep

\* A thread that told nobody anything becomes idle, and the entries taken out are of no use.
LEMMA GiveUpStep ==
    ASSUME Inv, NEW t \in Calls, thread[t].pc = "work", thread' = [thread EXCEPT ![t] = Idle],
           cbs' \subseteq cbs, UNCHANGED <<flags, lock, promise, changes>>,
           \A h \in Hosts, f \in Files : Relies(h, f)' =>
               \A cb \in cbs : cb.h = h /\ cb.f \in {f, Volume} => cb \in cbs'
    PROVE  Inv'
<1>1. t \in Threads /\ thread \in [Threads -> Thread] /\ \A u \in Threads : Heard(thread[u], thread[u])
    BY ThreadNames, HeardSelf DEF Inv
<1>2. /\ thread' \in [Threads -> Thread] /\ thread'[t] = Idle
      /\ Others(t) /\ Unaged(t)
    BY <1>1, OneThread, IdleFacts DEF Inv
<1>3. thread'[t].pc # "reply" /\ ThreadOK(t, thread[t])'
    BY <1>1, <1>2, IdleFacts, IdleOK
<1>4. TypeOK' /\ OneEntry' /\ LockStep(t) /\ ResetStep(t)
    BY <1>2, OneEntrySubset DEF Inv, TypeOK, LockStep, ResetStep
<1>5. ASSUME NEW h \in Hosts, NEW f \in Files, Relies(h, f)' PROVE Keeps(t, h, f)
    <2>1. ~Telling(thread[t], h, f) /\ ~Breaking(thread[t], h, f)
        BY DEF Telling, Breaking
    <2>2. Owed(h, f) => Owed(h, f)'
        BY <1>5 DEF Owed, Of
    <2>3. Normal(h, f) => Normal(h, f)'
        BY <1>5 DEF Normal
    <2> QED
        BY <2>1, <2>2, <2>3 DEF Keeps, Covered
<1>6. \A h \in Hosts, f \in Files : promise'[h][f] \in {"none", promise[h][f]}
    OBVIOUS
<1> QED
    BY <1>2, <1>3, <1>4, <1>5, <1>6, InvStep

\* A client gives up a callback it does not rely on.
LEMMA GiveUpCallBacksStep ==
    ASSUME Inv, NEW t \in Calls, NEW g \in Files, GiveUpCallBacks(t, g), changes' = changes
    PROVE  Inv'
<1> DEFINE x == thread[t].h
<1>1. /\ thread[t].pc = "work" /\ promise[x][g] = "none"
      /\ \A u \in Calls : ~(thread[u].h = x /\ thread[u].f = g)
      /\ cbs' = {cb \in cbs : ~(cb.h = x /\ cb.f = g /\ cb.st # "LATER")}
      /\ thread' = [thread EXCEPT ![t] = Idle]
      /\ UNCHANGED <<flags, lock, promise>>
    BY DEF GiveUpCallBacks
<1>2. \A u \in Calls : thread'[u].pc = "reply" => thread'[u] = thread[u]
    BY <1>1, IdleFacts, ThreadNames DEF Inv, TypeOK
<1>3. ASSUME NEW h \in Hosts, NEW f \in Files, Relies(h, f)',
             NEW cb \in cbs, cb.h = h, cb.f \in {f, Volume}
      PROVE  cb \in cbs'
    <2>1. ~(h = x /\ f = g)
        BY <1>1, <1>2, <1>3 DEF Relies
    <2>2. g # Volume
        BY CallbackConstants
    <2> QED
        BY <1>1, <1>3, <2>1, <2>2
<1>4. cbs' \subseteq cbs
    BY <1>1
<1> QED
    BY <1>1, <1>3, <1>4, GiveUpStep

\* A client that relies on nothing gives up all its callbacks.
LEMMA GiveUpAllCallBacksStep ==
    ASSUME Inv, NEW t \in Calls, GiveUpAllCallBacks(t), changes' = changes
    PROVE  Inv'
<1> DEFINE x == thread[t].h
<1>1. /\ thread[t].pc = "work" /\ \A f \in Files : promise[x][f] = "none"
      /\ \A u \in Calls \ {t} : thread[u].h # x
      /\ cbs' = cbs \ Of(x)
      /\ thread' = [thread EXCEPT ![t] = Idle]
      /\ UNCHANGED <<flags, lock, promise>>
    BY DEF GiveUpAllCallBacks
<1>2. \A u \in Calls : thread'[u].pc = "reply" => thread'[u] = thread[u] /\ u # t
    BY <1>1, IdleFacts, ThreadNames DEF Inv, TypeOK
<1>3. ASSUME NEW h \in Hosts, NEW f \in Files, Relies(h, f)',
             NEW cb \in cbs, cb.h = h, cb.f \in {f, Volume}
      PROVE  cb \in cbs'
    <2>1. h # x
        BY <1>1, <1>2, <1>3 DEF Relies
    <2> QED
        BY <1>1, <1>3, <2>1 DEF Of
<1>4. cbs' \subseteq cbs
    BY <1>1
<1> QED
    BY <1>1, <1>3, <1>4, GiveUpStep

-----------------------------------------------------------------------------
(* New entries, and the space for them.                                    *)

\* AddCallBack leaves one entry for the host and file, which is not normal if the one
\* that was found was not, or if a delayed one is added.
LEMMA AddCallBackFacts ==
    ASSUME TypeOK, OneEntry, NEW x \in Hosts, NEW g \in Fids, NEW type \in {"NORMAL", "DELAYED"},
           AddCallBack(x, g, type)
    PROVE  /\ cbs' \subseteq CallBack /\ OneEntry'
           /\ \E n \in cbs' :
                /\ n.h = x /\ n.f = g /\ (type = "DELAYED" => n.st = "DELAYED")
                /\ \A cb \in cbs : cb \notin cbs' =>
                      cb.h = x /\ cb.f = g /\ (cb.st # "NORMAL" => n.st # "NORMAL")
<1> DEFINE old == {cb \in cbs : cb.h = x /\ cb.f = g /\ cb.st # "LATER"}
           any == CHOOSE cb \in old : TRUE
           st == IF type = "DELAYED" \/ \E cb \in old : cb.st = "DELAYED" THEN "DELAYED"
                 ELSE IF old # {} THEN any.st ELSE type
           n == [h |-> x, f |-> g, st |-> st]
<1>1. cbs' = (cbs \ old) \cup {n}
    BY DEF AddCallBack
<1>2. old # {} => any \in old
    OBVIOUS
<1>3. \A cb \in cbs : cb \in old <=> cb.h = x /\ cb.f = g /\ cb.st # "LATER"
    OBVIOUS
<1>4. \A cb \in old : cb \in cbs
    OBVIOUS
<1> HIDE DEF old, any
<1>5. \A cb \in old : cb = any
    BY <1>2, <1>3, <1>4 DEF OneEntry, OneEntryIn
<1>6. st \in Status /\ st # "LATER"
    <2>1. old # {} => any.st \in Status /\ any.st # "LATER"
        BY <1>2, <1>3, <1>4 DEF TypeOK, CallBack
    <2> QED
        BY <2>1 DEF Status
<1>7. \A cb \in old : cb.st # "NORMAL" => st # "NORMAL"
    BY <1>5
<1>8. type = "DELAYED" => st = "DELAYED"
    OBVIOUS
<1> HIDE DEF st
<1>9. n \in CallBack /\ n.h = x /\ n.f = g /\ n.st = st
    BY <1>6 DEF CallBack
<1> HIDE DEF n
<1>10. cbs' \subseteq CallBack
    BY <1>1, <1>9 DEF TypeOK
<1>11. OneEntry'
    <2> SUFFICES ASSUME NEW a \in cbs', NEW b \in cbs',
                        a.h = b.h, a.f = b.f, a.st # "LATER", b.st # "LATER"
                 PROVE  a = b
        BY DEF OneEntry, OneEntryIn
    <2>1. \A cb \in cbs' : cb = n \/ (cb \in cbs /\ ~(cb.h = x /\ cb.f = g /\ cb.st # "LATER"))
        BY <1>1, <1>3
    <2>2. CASE a = n \/ b = n
        BY <1>6, <1>9, <2>1, <2>2
    <2>3. CASE a # n /\ b # n
        BY <2>1, <2>3 DEF OneEntry, OneEntryIn
    <2> QED
        BY <2>2, <2>3
<1>12. \A cb \in cbs : cb \notin cbs' => cb \in old
    BY <1>1
<1>13. \A cb \in cbs : cb \notin cbs' =>
          cb.h = x /\ cb.f = g /\ (cb.st # "NORMAL" => n.st # "NORMAL")
    BY <1>3, <1>7, <1>9, <1>12
<1>14. n \in cbs'
    BY <1>1
<1> QED
    BY <1>8, <1>9, <1>10, <1>11, <1>13, <1>14

\* A fetch gets its callback before its reply, or a callback that was not delivered is
\* recorded.
LEMMA AddCallBack1Step ==
    ASSUME Inv, NEW t \in Threads, AddCallBack1(t), changes' = changes
    PROVE  Inv'
<1> DEFINE c == thread[t]
           x == c.target
           d == Added(c)
<1>1. /\ c \in Thread /\ ThreadOK(t, c) /\ c.pc = "alloc" /\ lock[x] \in {None, t}
      /\ AddCallBack(x, c.f, c.type) /\ thread' = [thread EXCEPT ![t] = d]
      /\ lock' = [lock EXCEPT ![x] = None] /\ UNCHANGED <<flags, promise>>
    BY DEF AddCallBack1, Inv, TypeOK, ThreadsOK
<1>2. /\ x \in Hosts /\ c.type \in {"NORMAL", "DELAYED"} /\ c.old = FALSE /\ c.set \subseteq Hosts
      /\ t \in Calls => c.h \in Hosts /\ c.f \in Files
      /\ t = Fsync => c.f = Volume
      /\ c.type = "NORMAL" => t \in Calls /\ x = c.h /\ c.set = {}
    BY <1>1, ThreadFields DEF ThreadOK
<1>3. t \in Calls \/ t = Fsync
    BY DEF Threads
<1>4. c.f \in Fids
    BY <1>2, <1>3 DEF Fids
<1>5. d \in Thread
    BY <1>1 DEF Added, Thread, PC
<1>6. /\ d.pc = (IF c.type = "NORMAL" THEN "reply" ELSE "multi") /\ d.h = c.h /\ d.f = c.f
      /\ d.set = c.set /\ d.target = None /\ d.type = "NORMAL" /\ d.old = FALSE
    BY <1>1, <1>2 DEF Added, Thread
<1> HIDE DEF d
<1>7. /\ thread' \in [Threads -> Thread] /\ thread'[t] = d /\ Others(t) /\ Unaged(t)
      /\ \A u \in Threads \ {t} : thread'[u] = thread[u]
    <2>1. thread \in [Threads -> Thread] /\ \A u \in Threads : Heard(thread[u], thread[u])
        BY HeardSelf DEF Inv
    <2> QED
        BY <1>1, <1>5, <2>1, OneThread DEF Inv
<1>8. ThreadOK(t, thread[t])'
    <2>1. CASE c.type = "NORMAL"
        BY <1>2, <1>6, <1>7, <2>1, ThreadNames DEF ThreadOK
    <2>2. CASE c.type # "NORMAL"
        BY <1>2, <1>6, <1>7, <2>2 DEF ThreadOK
    <2> QED
        BY <2>1, <2>2
<1>9. lock' \in [Hosts -> Threads \cup {None}] /\ LockStep(t) /\ ResetStep(t)
    BY <1>1, <1>2, LockFacts DEF Inv, ResetStep
<1>10. /\ cbs' \subseteq CallBack /\ OneEntry'
       /\ \E n \in cbs' :
            /\ n.h = x /\ n.f = c.f /\ (c.type = "DELAYED" => n.st = "DELAYED")
            /\ \A cb \in cbs : cb \notin cbs' =>
                  cb.h = x /\ cb.f = c.f /\ (cb.st # "NORMAL" => n.st # "NORMAL")
    BY <1>1, <1>2, <1>4, AddCallBackFacts DEF Inv
<1>11. PICK n \in cbs' :
          /\ n.h = x /\ n.f = c.f /\ (c.type = "DELAYED" => n.st = "DELAYED")
          /\ \A cb \in cbs : cb \notin cbs' =>
                cb.h = x /\ cb.f = c.f /\ (cb.st # "NORMAL" => n.st # "NORMAL")
    BY <1>10
<1>12. TypeOK'
    BY <1>1, <1>7, <1>9, <1>10 DEF Inv, TypeOK
<1>13. ThreadsOK'
    BY <1>7, <1>8, <1>9, ThreadsStep DEF Inv
<1>14. Remembered'
    <2> SUFFICES ASSUME NEW h \in Hosts, NEW f \in Files PROVE RememberedAt(h, f)'
        BY DEF Remembered
    <2>1. h = x /\ c.f \in {f, Volume} /\ n.st # "NORMAL" => Owed(h, f)'
        BY <1>11 DEF Owed, Of
    <2>2. Keeps(t, h, f)
        <3>1. Owed(h, f) => Owed(h, f)'
            <4>1. CASE "RESETDONE" \notin flags[h] \/ "HCBREAK" \in flags[h]
                BY <1>1, <4>1 DEF Owed
            <4>2. ASSUME NEW cb \in cbs, cb.h = h, cb.f \in {f, Volume}, cb.st # "NORMAL"
                  PROVE  Owed(h, f)'
                <5>1. CASE cb \in cbs'
                    BY <4>2, <5>1 DEF Owed, Of
                <5>2. CASE cb \notin cbs'
                    BY <1>11, <2>1, <4>2, <5>2
                <5> QED
                    BY <5>1, <5>2
            <4> QED
                BY <4>1, <4>2 DEF Owed, Of
        <3>2. Normal(h, f) => Normal(h, f)' \/ Owed(h, f)'
            <4> SUFFICES ASSUME NEW cb \in cbs, cb.h = h, cb.f = f, cb.st = "NORMAL"
                         PROVE  Normal(h, f)' \/ Owed(h, f)'
                BY DEF Normal
            <4>1. CASE cb \in cbs'
                BY <4>1 DEF Normal
            <4>2. CASE cb \notin cbs'
                BY <1>11, <2>1, <4>2 DEF Normal
            <4> QED
                BY <4>1, <4>2
        <3>3. ~Breaking(thread[t], h, f)
            BY <1>1 DEF Breaking
        <3>4. Telling(thread[t], h, f) => Covered(h, f)'
            <4> SUFFICES ASSUME Telling(thread[t], h, f) PROVE Covered(h, f)'
                OBVIOUS
            <4>1. c.f \in {f, Volume} /\ (h \in c.set \/ (x = h /\ c.type = "DELAYED"))
                BY <1>1 DEF Telling
            <4>2. CASE x = h /\ c.type = "DELAYED"
                BY <1>11, <2>1, <4>1, <4>2 DEF Covered
            <4>3. CASE h \in c.set
                <5>1. c.type # "NORMAL"
                    BY <1>2, <4>3
                <5>2. Telling(d, h, f)
                    BY <1>6, <4>1, <4>3, <5>1 DEF Telling
                <5>3. Telling(thread'[t], h, f)
                    BY <1>7, <5>2
                <5> QED
                    BY <5>3 DEF Covered, Threads
            <4> QED
                BY <4>1, <4>2, <4>3
        <3> QED
            BY <3>1, <3>2, <3>3, <3>4 DEF Keeps, Covered
    <2>3. ASSUME NEW u \in Calls, thread'[u].pc = "reply", u # t
          PROVE  thread'[u] = thread[u]
        BY <1>7, <2>3, ThreadNames
    <2>4. Relies(h, f)' => Relies(h, f) \/ Covered(h, f)' \/ Normal(h, f)'
        <3> SUFFICES ASSUME Relies(h, f)', ~Relies(h, f)
                     PROVE  Covered(h, f)' \/ Normal(h, f)'
            OBVIOUS
        <3>1. d.pc = "reply" /\ d.h = h /\ d.f = f
            BY <1>1, <1>7, <2>3 DEF Relies
        <3>2. x = h /\ c.f = f
            BY <1>2, <1>6, <3>1
        <3>3. CASE n.st = "NORMAL"
            BY <1>11, <3>2, <3>3 DEF Normal
        <3>4. CASE n.st # "NORMAL"
            BY <2>1, <3>2, <3>4 DEF Covered
        <3> QED
            BY <3>3, <3>4
    <2>5. Stale(h, f)' => Stale(h, f)
        BY <1>1, <1>6, <1>7, <2>3 DEF Stale
    <2> QED
        BY <1>7, <2>2, <2>4, <2>5, RememberedAtStep DEF Inv
<1> QED
    BY <1>10, <1>12, <1>13, <1>14 DEF Inv

\* The host whose callbacks make space is told with a reset, now or when it is back.
LEMMA GetSomeSpaceStep ==
    ASSUME Inv, NEW t \in Threads, GetSomeSpace(t), changes' = changes
    PROVE  Inv'
<1> DEFINE c == thread[t]
           x == c.target
<1>1. /\ c \in Thread /\ ThreadOK(t, c) /\ c.pc = "alloc" /\ lock[x] \in {None, t}
      /\ promise' = promise
    BY DEF GetSomeSpace, Inv, TypeOK, ThreadsOK
<1>2. /\ x \in Hosts /\ c.old = FALSE /\ c.set \subseteq Hosts
      /\ t \in Calls => c.h \in Hosts /\ c.f \in Files
      /\ t = Fsync => c.f = Volume
      /\ c.type = "NORMAL" => t \in Calls /\ x = c.h /\ c.set = {}
    BY <1>1, ThreadFields DEF ThreadOK
<1>3. PICK v \in Victims(x) :
         /\ cbs' = cbs \ Of(v)
         /\ IF "VENUSDOWN" \in flags[v]
            THEN /\ flags' = [flags EXCEPT ![v] = @ \ {"RESETDONE"}]
                 /\ lock' = [lock EXCEPT ![x] = t]
                 /\ UNCHANGED thread
            ELSE /\ thread' = [thread EXCEPT ![t] = [c EXCEPT !.pc = "clear", !.victim = v]]
                 /\ lock' = [lock EXCEPT ![x] = t, ![v] = t]
                 /\ UNCHANGED flags
    BY DEF GetSomeSpace
<1>4. v \in Hosts /\ lock[v] \in {None, t}
    BY <1>1, <1>2 DEF Victims
<1>5. \A cb \in cbs : cb.h # v => cb \in cbs'
    BY <1>3 DEF Of
<1>6. cbs' \subseteq cbs
    BY <1>3
<1>7. OneEntry'
    BY <1>6, OneEntrySubset DEF Inv
<1>8. ASSUME NEW h \in Hosts, NEW f \in Files, h # v PROVE Normal(h, f) => Normal(h, f)'
    BY <1>5, <1>8 DEF Normal
<1>9. ASSUME NEW h \in Hosts, NEW f \in Files PROVE ~Breaking(thread[t], h, f)
    BY <1>1 DEF Breaking
<1>10. \A h \in Hosts, f \in Files : promise'[h][f] \in {"none", promise[h][f]}
    BY <1>1
<1>11. CASE "VENUSDOWN" \in flags[v]
    <2>1. /\ flags' = [flags EXCEPT ![v] = @ \ {"RESETDONE"}]
          /\ lock' = [lock EXCEPT ![x] = t] /\ thread' = thread
        BY <1>3, <1>11
    <2>2. /\ flags' \in [Hosts -> SUBSET HostFlags] /\ "RESETDONE" \notin flags'[v]
          /\ \A h \in Hosts \ {v} : flags'[h] = flags[h]
        BY <1>4, <2>1 DEF Inv, TypeOK
    <2>3. lock' \in [Hosts -> Threads \cup {None}] /\ LockStep(t)
        BY <1>1, <1>2, <2>1, LockFacts DEF Inv
    <2>4. ResetStep(t)
        BY <2>2 DEF ResetStep
    <2>5. Others(t) /\ Unaged(t)
        BY <2>1 DEF Others, Unaged, Same, Inv, ThreadsOK, ThreadOK
    <2>6. thread'[t].pc # "reply" /\ ThreadOK(t, thread[t])'
        BY <1>1, <2>1 DEF ThreadOK
    <2>7. TypeOK'
        BY <1>1, <1>6, <2>1, <2>2, <2>3 DEF Inv, TypeOK
    <2>8. ASSUME NEW h \in Hosts, NEW f \in Files PROVE Keeps(t, h, f)
        <3>1. CASE h = v
            BY <2>2, <3>1 DEF Keeps, Covered, Owed
        <3>2. CASE h # v
            <4>1. Owed(h, f) => Owed(h, f)'
                BY <1>5, <2>2, <3>2, OwedStep
            <4>2. Telling(thread[t], h, f) => Telling(thread'[t], h, f)
                BY <2>1
            <4>3. Telling(thread[t], h, f) => Covered(h, f)'
                BY <4>2 DEF Covered, Threads
            <4> QED
                BY <1>8, <1>9, <3>2, <4>1, <4>3 DEF Keeps, Covered
        <3> QED
            BY <3>1, <3>2
    <2> QED
        BY <1>7, <1>10, <2>3, <2>4, <2>5, <2>6, <2>7, <2>8, InvStep
<1>12. CASE "VENUSDOWN" \notin flags[v]
    <2> DEFINE d == [c EXCEPT !.pc = "clear", !.victim = v]
    <2>1. /\ thread' = [thread EXCEPT ![t] = d]
          /\ lock' = [lock EXCEPT ![x] = t, ![v] = t] /\ flags' = flags
        BY <1>3, <1>12
    <2>2. d \in Thread
        BY <1>1, <1>4 DEF Thread, PC
    <2>3. /\ d.pc = "clear" /\ d.victim = v /\ d.h = c.h /\ d.f = c.f /\ d.set = c.set
          /\ d.target = x /\ d.type = c.type /\ d.old = FALSE
        BY <1>1, <1>2 DEF Thread
    <2> HIDE DEF d
    <2>4. /\ thread' \in [Threads -> Thread] /\ thread'[t] = d /\ Others(t) /\ Unaged(t)
        <3>1. thread \in [Threads -> Thread] /\ \A u \in Threads : Heard(thread[u], thread[u])
            BY HeardSelf DEF Inv
        <3> QED
            BY <2>1, <2>2, <3>1, OneThread DEF Inv
    <2>5. lock' \in [Hosts -> Threads \cup {None}] /\ LockStep(t) /\ lock'[v] = t
        BY <1>1, <1>2, <1>4, <2>1 DEF Inv, TypeOK, LockStep
    <2>6. ResetStep(t)
        BY <2>1 DEF ResetStep
    <2>7. thread'[t].pc # "reply" /\ ThreadOK(t, thread[t])'
        BY <1>2, <1>4, <2>3, <2>4, <2>5 DEF ThreadOK
    <2>8. TypeOK'
        BY <1>1, <1>6, <2>1, <2>4, <2>5 DEF Inv, TypeOK
    <2>9. ASSUME NEW h \in Hosts, NEW f \in Files PROVE Keeps(t, h, f)
        <3>1. CASE h = v
            <4>1. Telling(d, h, f)
                BY <2>3, <3>1 DEF Telling
            <4>2. Telling(thread'[t], h, f)
                BY <2>4, <4>1
            <4>3. Covered(h, f)'
                BY <4>2 DEF Covered, Threads
            <4> QED
                BY <4>3 DEF Keeps
        <3>2. CASE h # v
            <4>1. Owed(h, f) => Owed(h, f)'
                BY <1>5, <2>1, <3>2, OwedStep
            <4>2. Telling(c, h, f) => Telling(d, h, f)
                BY <1>1, <2>3 DEF Telling
            <4>3. Telling(thread[t], h, f) => Telling(thread'[t], h, f)
                BY <2>4, <4>2
            <4>4. Telling(thread[t], h, f) => Covered(h, f)'
                BY <4>3 DEF Covered, Threads
            <4> QED
                BY <1>8, <1>9, <3>2, <4>1, <4>4 DEF Keeps, Covered
        <3> QED
            BY <3>1, <3>2
    <2> QED
        BY <1>7, <1>10, <2>4, <2>5, <2>6, <2>7, <2>8, <2>9, InvStep
<1> QED
    BY <1>11, <1>12

\* The host whose callbacks were cleared has its reset, or one is due.
LEMMA ClearReplyStep ==
    ASSUME Inv, NEW t \in Threads, ClearReply(t), changes' = changes
    PROVE  Inv'
<1> DEFINE c == thread[t]
           v == c.victim
<1>1. c \in Thread /\ ThreadOK(t, c) /\ c.pc = "clear" /\ cbs' = cbs
    BY DEF ClearReply, Inv, TypeOK, ThreadsOK
<1>2. /\ v \in Hosts /\ lock[v] = t /\ c.target \in Hosts /\ c.old = FALSE /\ c.set \subseteq Hosts
      /\ t \in Calls => c.h \in Hosts /\ c.f \in Files
      /\ t = Fsync => c.f = Volume
      /\ c.type = "NORMAL" => t \in Calls /\ c.target = c.h /\ c.set = {}
    BY <1>1, ThreadFields DEF ThreadOK
<1>3. PICK r \in Outcome :
         LET th == Pending(v, r) IN
         /\ promise' = Promises(v, {Volume}, r)
         /\ flags' = [flags EXCEPT ![v] =
                IF r.ok THEN @ \cup {"RESETDONE"} ELSE (@ \cup {"VENUSDOWN"}) \ {"RESETDONE"}]
         /\ thread' = [th EXCEPT ![t] = [@ EXCEPT !.pc = "alloc", !.victim = None]]
         /\ lock' = IF v = c.target THEN lock ELSE [lock EXCEPT ![v] = None]
    BY DEF ClearReply
<1> DEFINE th == Pending(v, r)
           d == [th[t] EXCEPT !.pc = "alloc", !.victim = None]
           S == IF r.ok THEN flags[v] \cup {"RESETDONE"} ELSE (flags[v] \cup {"VENUSDOWN"}) \ {"RESETDONE"}
<1>4. /\ th \in [Threads -> Thread] /\ \A u \in Threads : Heard(thread[u], th[u])
      /\ r.told => \A u \in Threads : thread[u].h = v => ~th[u].valid
    BY <1>2, PendingFacts DEF Inv
<1>5. /\ promise' \in [Hosts -> [Files -> {"none", "good", "stale"}]]
      /\ \A h \in Hosts, f \in Files :
           /\ promise'[h][f] \in {"none", promise[h][f]}
           /\ r.told /\ h = v => promise'[h][f] = "none"
    BY <1>2, <1>3, PromisesFacts DEF Inv
<1>6. /\ th[t] \in Thread /\ th[t].h = c.h /\ th[t].f = c.f /\ th[t].target = c.target
      /\ th[t].type = c.type /\ th[t].old = FALSE /\ th[t].set = c.set
    BY <1>1, <1>2, <1>4 DEF Heard, Same
<1>7. thread' = [th EXCEPT ![t] = d] /\ flags' = [flags EXCEPT ![v] = S]
    BY <1>3, Zenon
<1> HIDE DEF th
<1>8. /\ d \in Thread /\ d.pc = "alloc" /\ d.h = c.h /\ d.f = c.f /\ d.target = c.target
      /\ d.type = c.type /\ d.old = FALSE /\ d.set = c.set
    BY <1>6 DEF Thread, PC
<1> HIDE DEF d
<1>9. /\ thread' \in [Threads -> Thread] /\ thread'[t] = d
      /\ \A u \in Threads \ {t} : thread'[u] = th[u]
      /\ Others(t) /\ Unaged(t)
    BY <1>4, <1>7, <1>8, OneThread DEF Inv
<1>10. thread'[t].pc # "reply" /\ ThreadOK(t, thread[t])'
    BY <1>2, <1>8, <1>9 DEF ThreadOK
<1>11. lock' \in [Hosts -> Threads \cup {None}] /\ LockStep(t)
    BY <1>2, <1>3 DEF Inv, TypeOK, LockStep
<1>12. S \in SUBSET HostFlags /\ (~r.ok => "RESETDONE" \notin S)
    BY <1>2 DEF Inv, TypeOK, HostFlags
<1> HIDE DEF S
<1>13. /\ flags' \in [Hosts -> SUBSET HostFlags] /\ flags'[v] = S
       /\ \A h \in Hosts \ {v} : flags'[h] = flags[h]
    BY <1>2, <1>7, <1>12, FlagFacts DEF Inv
<1>14. ResetStep(t)
    BY <1>2, <1>13 DEF ResetStep
<1>15. TypeOK' /\ OneEntry'
    BY <1>1, <1>5, <1>9, <1>11, <1>13, OneEntrySubset DEF Inv, TypeOK
<1>16. ASSUME NEW h \in Hosts, NEW f \in Files, Relies(h, f)' PROVE Keeps(t, h, f)
    <2>1. CASE h = v
        <3>1. ASSUME r.ok PROVE FALSE
            <4>1. r.told
                BY <3>1, OutcomeFacts
            <4>2. promise'[h][f] = "none" /\ \A u \in Threads : thread[u].h = h => ~th[u].valid
                BY <1>4, <1>5, <2>1, <4>1
            <4>3. ~Relies(h, f)'
                BY <1>4, <1>9, <1>10, <4>2, ToldStep
            <4> QED
                BY <1>16, <4>3
        <3> QED
            BY <1>12, <1>13, <2>1, <3>1 DEF Keeps, Covered, Owed
    <2>2. CASE h # v
        <3>1. Owed(h, f) => Owed(h, f)'
            BY <1>1, <1>13, <2>2, OwedStep
        <3>2. Normal(h, f) => Normal(h, f)'
            BY <1>1 DEF Normal
        <3>3. ~Breaking(thread[t], h, f)
            BY <1>1 DEF Breaking
        <3>4. Telling(c, h, f) => Telling(d, h, f)
            BY <1>1, <1>8, <2>2 DEF Telling
        <3>5. Telling(thread[t], h, f) => Telling(thread'[t], h, f)
            BY <1>9, <3>4
        <3>6. Telling(thread[t], h, f) => Covered(h, f)'
            BY <3>5 DEF Covered, Threads
        <3> QED
            BY <3>1, <3>2, <3>3, <3>6 DEF Keeps, Covered
    <2> QED
        BY <2>1, <2>2
<1> QED
    BY <1>5, <1>9, <1>10, <1>11, <1>14, <1>15, <1>16, InvStep

-----------------------------------------------------------------------------
(* Replies, promises that expire, and the host check.                      *)

\* A reply makes a promise of what the client relied on already.
LEMMA ReplyStep ==
    ASSUME Inv, NEW t \in Calls, Reply(t), changes' = changes
    PROVE  Inv'
<1> DEFINE c == thread[t]
<1>1. /\ t \in Threads /\ c \in Thread /\ ThreadOK(t, c) /\ c.pc = "reply"
      /\ thread' = [thread EXCEPT ![t] = Idle] /\ UNCHANGED <<flags, cbs, lock>>
    BY ThreadNames DEF Reply, Inv, TypeOK, ThreadsOK
<1>2. c.h \in Hosts /\ c.f \in Files
    BY <1>1 DEF ThreadOK
<1>3. \/ c.valid /\ promise' = [promise EXCEPT ![c.h][c.f] = IF c.old THEN "stale" ELSE "good"]
      \/ promise' = promise
    BY DEF Reply
<1>4. /\ thread' \in [Threads -> Thread] /\ thread'[t] = Idle /\ Others(t) /\ Unaged(t)
      /\ \A u \in Threads \ {t} : thread'[u] = thread[u]
    <2>1. thread \in [Threads -> Thread] /\ \A u \in Threads : Heard(thread[u], thread[u])
        BY HeardSelf DEF Inv
    <2> QED
        BY <1>1, <2>1, IdleFacts, OneThread DEF Inv
<1>5. /\ promise' \in [Hosts -> [Files -> {"none", "good", "stale"}]]
      /\ \A h \in Hosts, f \in Files :
           \/ promise'[h][f] = promise[h][f]
           \/ /\ c.valid /\ h = c.h /\ f = c.f
              /\ promise'[h][f] = IF c.old THEN "stale" ELSE "good"
    <2>1. promise \in [Hosts -> [Files -> {"none", "good", "stale"}]]
        BY DEF Inv, TypeOK
    <2> QED
        BY <1>2, <1>3, <2>1
<1>6. TypeOK' /\ OneEntry' /\ LockStep(t) /\ ResetStep(t)
    BY <1>1, <1>4, <1>5 DEF Inv, TypeOK, OneEntry, OneEntryIn, LockStep, ResetStep
<1>7. ThreadsOK'
    BY <1>1, <1>4, <1>6, IdleOK, ThreadsStep DEF Inv
<1>8. Remembered'
    <2> SUFFICES ASSUME NEW h \in Hosts, NEW f \in Files PROVE RememberedAt(h, f)'
        BY DEF Remembered
    <2>1. Keeps(t, h, f)
        <3>1. ~Telling(thread[t], h, f) /\ ~Breaking(thread[t], h, f)
            BY <1>1 DEF Telling, Breaking
        <3>2. (Owed(h, f) => Owed(h, f)') /\ (Normal(h, f) => Normal(h, f)')
            BY <1>1 DEF Owed, Of, Normal
        <3> QED
            BY <3>1, <3>2 DEF Keeps, Covered
    <2>2. ASSUME NEW u \in Calls, thread'[u].pc = "reply"
          PROVE  thread'[u] = thread[u]
        <3>1. u \in Threads /\ u # t
            BY <1>4, <2>2, IdleFacts, ThreadNames
        <3> QED
            BY <1>4, <3>1
    <2>3. Relies(h, f)' => Relies(h, f)
        BY <1>1, <1>5, <2>2 DEF Relies
    <2>4. Stale(h, f)' => Stale(h, f)
        BY <1>1, <1>5, <2>2 DEF Stale
    <2> QED
        BY <1>4, <2>1, <2>3, <2>4, RememberedAtStep DEF Inv
<1> QED
    BY <1>6, <1>7, <1>8 DEF Inv

\* A step that is not one of a thread.
LEMMA AsideStep ==
    ASSUME Inv, TypeOK', UNCHANGED <<thread, lock>>, cbs' \subseteq cbs,
           \A h \in Hosts : "RESETDONE" \in flags'[h] => "RESETDONE" \in flags[h],
           \A h \in Hosts, f \in Files : promise'[h][f] \in {"none", promise[h][f]},
           \A h \in Hosts, f \in Files : Relies(h, f)' =>
               (Owed(h, f) => Owed(h, f)') /\ (Normal(h, f) => Normal(h, f)')
    PROVE  Inv'
<1>1. Others(None) /\ Unaged(None) /\ LockStep(None) /\ ResetStep(None) /\ OneEntry'
    BY OneEntrySubset DEF Inv, ThreadsOK, ThreadOK, Others, Same, Unaged, LockStep, ResetStep
<1>2. ASSUME NEW h \in Hosts, NEW f \in Files, Relies(h, f)' PROVE Keeps(None, h, f)
    BY <1>2, ThreadNames DEF Keeps, Covered
<1> QED
    BY <1>1, <1>2, InvStep, ThreadNames

\* A promise expires at the client.
LEMMA ExpireStep ==
    ASSUME Inv, NEW x \in Hosts, NEW g \in Files, Expire(x, g), changes' = changes
    PROVE  Inv'
<1>1. promise' = [promise EXCEPT ![x][g] = "none"] /\ UNCHANGED <<flags, cbs, lock, thread>>
    BY DEF Expire
<1>2. /\ promise' \in [Hosts -> [Files -> {"none", "good", "stale"}]]
      /\ \A h \in Hosts, f \in Files : promise'[h][f] \in {"none", promise[h][f]}
    BY <1>1 DEF Inv, TypeOK
<1>3. TypeOK'
    BY <1>1, <1>2 DEF Inv, TypeOK
<1>4. \A h \in Hosts, f \in Files : (Owed(h, f) => Owed(h, f)') /\ (Normal(h, f) => Normal(h, f)')
    BY <1>1 DEF Owed, Of, Normal
<1> QED
    BY <1>1, <1>2, <1>3, <1>4, AsideStep

\* The server deletes a callback whose promises have expired.
LEMMA CleanupTimedOutCallBacksStep ==
    ASSUME Inv, NEW e \in cbs, CleanupTimedOutCallBacks(e), changes' = changes
    PROVE  Inv'
<1>1. /\ \A f \in Files : e.f \in {f, Volume} => promise[e.h][f] = "none"
      /\ \A t \in Calls : ~(thread[t].h = e.h /\ thread[t].pc = "reply")
      /\ cbs' = cbs \ {e} /\ UNCHANGED <<flags, lock, thread, promise>>
    BY DEF CleanupTimedOutCallBacks
<1>2. TypeOK' /\ cbs' \subseteq cbs
    BY <1>1 DEF Inv, TypeOK
<1>3. ASSUME NEW h \in Hosts, NEW f \in Files, Relies(h, f)'
      PROVE  (Owed(h, f) => Owed(h, f)') /\ (Normal(h, f) => Normal(h, f)')
    <2>1. ~(e.h = h /\ e.f \in {f, Volume})
        BY <1>1, <1>3 DEF Relies
    <2>2. \A cb \in cbs : cb.h = h /\ cb.f \in {f, Volume} => cb \in cbs'
        BY <1>1, <2>1
    <2> QED
        BY <1>1, <2>2 DEF Owed, Of, Normal
<1>4. \A h \in Hosts, f \in Files : promise'[h][f] \in {"none", promise[h][f]}
    BY <1>1
<1> QED
    BY <1>1, <1>2, <1>3, <1>4, AsideStep

\* A silent host is marked down.
LEMMA CheckHostStep ==
    ASSUME Inv, NEW x \in Hosts, CheckHost(x), changes' = changes
    PROVE  Inv'
<1>1. flags' = [flags EXCEPT ![x] = @ \cup {"VENUSDOWN"}] /\ UNCHANGED <<cbs, lock, thread, promise>>
    BY DEF CheckHost
<1>2. flags[x] \cup {"VENUSDOWN"} \in SUBSET HostFlags
    BY DEF Inv, TypeOK, HostFlags
<1>3. /\ flags' \in [Hosts -> SUBSET HostFlags] /\ flags'[x] = flags[x] \cup {"VENUSDOWN"}
      /\ \A h \in Hosts \ {x} : flags'[h] = flags[h]
    BY <1>1, <1>2, FlagFacts DEF Inv
<1>4. /\ \A h \in Hosts : "RESETDONE" \in flags'[h] <=> "RESETDONE" \in flags[h]
      /\ \A h \in Hosts : "HCBREAK" \in flags'[h] <=> "HCBREAK" \in flags[h]
    BY <1>3
<1>5. \A h \in Hosts, f \in Files : (Owed(h, f) => Owed(h, f)') /\ (Normal(h, f) => Normal(h, f)')
    BY <1>1, <1>4 DEF Owed, Of, Normal
<1>6. TypeOK'
    BY <1>1, <1>3 DEF Inv, TypeOK
<1>7. \A h \in Hosts, f \in Files : promise'[h][f] \in {"none", promise[h][f]}
    BY <1>1
<1> QED
    BY <1>1, <1>4, <1>5, <1>6, <1>7, AsideStep

-----------------------------------------------------------------------------
(* The callbacks of a whole volume.                                        *)

\* The volume changed: every promise on it is one that an entry owes a break for.
LEMMA BreakVolumeCallBacksLaterStep ==
    ASSUME Inv, BreakVolumeCallBacksLater
    PROVE  Inv'
<1> DEFINE m(cb) == [cb EXCEPT !.st = "LATER"]
           th == Outdated(Files, None)
<1>1. /\ changes < MaxChanges /\ changes' = changes + 1 /\ thread' = th /\ Changed(Files, None)
      /\ cbs' = {m(cb) : cb \in cbs} /\ lock' = lock
      /\ flags' = [h \in Hosts |-> IF Of(h) = {} THEN flags[h] ELSE flags[h] \cup {"HFE_LATER"}]
    BY DEF BreakVolumeCallBacksLater
<1>2. changes' \in 0..MaxChanges
    BY <1>1, CallbackConstants DEF Inv, TypeOK
<1>3. \A cb \in cbs : m(cb) \in CallBack /\ m(cb).h = cb.h /\ m(cb).f = cb.f /\ m(cb).st = "LATER"
    BY DEF Inv, TypeOK, CallBack, Status
<1> HIDE DEF m
<1>4. cbs' \subseteq CallBack /\ OneEntry'
    BY <1>1, <1>3 DEF OneEntry, OneEntryIn
<1>5. /\ thread' \in [Threads -> Thread]
      /\ \A u \in Threads :
           /\ Same(thread[u], thread'[u]) /\ thread'[u].valid = thread[u].valid
           /\ thread'[u].old =
                 (thread[u].old \/ (thread[u].pc = "reply" /\ thread[u].f \in Files /\ thread[u].h # None))
    BY <1>1, OutdatedFacts DEF Inv
<1> HIDE DEF th
<1>6. /\ flags' \in [Hosts -> SUBSET HostFlags]
      /\ \A h \in Hosts : "RESETDONE" \in flags'[h] <=> "RESETDONE" \in flags[h]
      /\ \A h \in Hosts : "HCBREAK" \in flags'[h] <=> "HCBREAK" \in flags[h]
    <2>1. \A h \in Hosts : flags'[h] = IF Of(h) = {} THEN flags[h] ELSE flags[h] \cup {"HFE_LATER"}
        BY <1>1
    <2>2. \A h \in Hosts : flags'[h] \in SUBSET HostFlags
        BY <2>1 DEF Inv, TypeOK, HostFlags
    <2>3. flags' = [h \in Hosts |-> flags'[h]]
        BY <1>1
    <2>4. flags' \in [Hosts -> SUBSET HostFlags]
        BY <2>2, <2>3
    <2> QED
        BY <2>1, <2>4
<1>7. /\ promise' \in [Hosts -> [Files -> {"none", "good", "stale"}]]
      /\ \A h \in Hosts, f \in Files : promise'[h][f] # "none" => promise[h][f] # "none"
    BY <1>1 DEF Changed, Inv, TypeOK
<1>8. TypeOK'
    BY <1>1, <1>2, <1>4, <1>5, <1>6, <1>7 DEF Inv, TypeOK
<1>9. Others(None)
    BY <1>5 DEF Others, Inv, ThreadsOK, ThreadOK
<1>10. ThreadsOK'
    <2>1. LockStep(None) /\ ResetStep(None)
        BY <1>1, <1>6 DEF LockStep, ResetStep
    <2> QED
        BY <1>9, <2>1, ThreadsStep, ThreadNames DEF Inv
<1>11. Remembered'
    <2> SUFFICES ASSUME NEW h \in Hosts, NEW f \in Files PROVE RememberedAt(h, f)'
        BY DEF Remembered
    <2>1. ASSUME NEW cb \in cbs, cb.h = h, cb.f \in {f, Volume} PROVE Owed(h, f)'
        <3>1. m(cb) \in cbs'
            BY <1>1
        <3> QED
            BY <1>3, <2>1, <3>1 DEF Owed, Of
    <2>2. Owed(h, f) => Owed(h, f)'
        <3>1. CASE "RESETDONE" \notin flags[h] \/ "HCBREAK" \in flags[h]
            BY <1>6, <3>1 DEF Owed
        <3> QED
            BY <2>1, <3>1 DEF Owed, Of
    <2>3. Normal(h, f) => Owed(h, f)'
        BY <2>1 DEF Normal
    <2>4. Keeps(None, h, f)
        BY <2>2, <2>3, ThreadNames DEF Keeps, Covered
    <2>5. Relies(h, f)' => Relies(h, f)
        <3>1. \A u \in Calls : /\ thread'[u].pc = thread[u].pc /\ thread'[u].h = thread[u].h
                               /\ thread'[u].f = thread[u].f /\ thread'[u].valid = thread[u].valid
            BY <1>5, ThreadNames DEF Same
        <3> QED
            BY <1>7, <3>1 DEF Relies
    <2>6. Relies(h, f) => Covered(h, f)'
        <3>1. Covered(h, f) => Covered(h, f)'
            BY <1>9, <2>4, CoveredStep
        <3>2. Normal(h, f) => Covered(h, f)'
            BY <2>3 DEF Covered
        <3> QED
            BY <3>1, <3>2 DEF Inv, Remembered, RememberedAt
    <2>7. Stale(h, f)' => Relies(h, f)'
        BY DEF Stale, Relies
    <2> QED
        BY <2>5, <2>6, <2>7 DEF RememberedAt
<1> QED
    BY <1>4, <1>8, <1>10, <1>11 DEF Inv

\* A step of the fsync thread, which then goes on with the hosts of d.
LEMMA FsyncStep ==
    ASSUME Inv, NEW d \in Thread, thread' = [thread EXCEPT ![Fsync] = d],
           UNCHANGED <<lock, promise, changes>>,
           cbs' \subseteq cbs, flags' \in [Hosts -> SUBSET HostFlags],
           \A h \in Hosts : "RESETDONE" \in flags'[h] => "RESETDONE" \in flags[h],
           d.pc = "enum", d.f = Volume, d.set \subseteq Hosts, d.type = "NORMAL", d.old = FALSE,
           \A h \in Hosts, f \in Files :
               /\ Owed(h, f) => Owed(h, f)' \/ Telling(d, h, f)
               /\ Telling(thread[Fsync], h, f) => Owed(h, f)' \/ Telling(d, h, f)
               /\ Normal(h, f) => Normal(h, f)' \/ Owed(h, f)'
    PROVE  Inv'
<1>1. Fsync \in Threads /\ Fsync \notin Calls
    BY ThreadNames
<1>2. /\ thread' \in [Threads -> Thread] /\ thread'[Fsync] = d /\ Others(Fsync) /\ Unaged(Fsync)
    <2>1. thread \in [Threads -> Thread] /\ \A u \in Threads : Heard(thread[u], thread[u])
        BY HeardSelf DEF Inv
    <2> QED
        BY <1>1, <2>1, OneThread DEF Inv
<1>3. TypeOK' /\ OneEntry' /\ LockStep(Fsync) /\ ResetStep(Fsync)
    BY <1>2, OneEntrySubset DEF Inv, TypeOK, LockStep, ResetStep
<1>4. thread'[Fsync].pc # "reply" /\ ThreadOK(Fsync, thread[Fsync])'
    BY <1>1, <1>2 DEF ThreadOK
<1>5. ASSUME NEW h \in Hosts, NEW f \in Files PROVE Keeps(Fsync, h, f)
    <2>1. ~Breaking(thread[Fsync], h, f)
        BY <1>1 DEF Breaking, Inv, ThreadsOK, ThreadOK
    <2>2. Telling(d, h, f) => Covered(h, f)'
        <3>1. Telling(d, h, f) => Telling(thread'[Fsync], h, f)
            BY <1>2
        <3> QED
            BY <1>1, <3>1 DEF Covered, Threads
    <2>3. Owed(h, f)' => Covered(h, f)'
        BY DEF Covered
    <2> QED
        BY <2>1, <2>2, <2>3 DEF Keeps
<1>6. \A h \in Hosts, f \in Files : promise'[h][f] \in {"none", promise[h][f]}
    OBVIOUS
<1> QED
    BY <1>2, <1>3, <1>4, <1>5, <1>6, InvStep

\* The record of the fsync thread.
LEMMA FsyncFacts ==
    ASSUME Inv, thread[Fsync].pc # "idle"
    PROVE  /\ thread[Fsync] \in Thread /\ thread[Fsync].f = Volume /\ thread[Fsync].old = FALSE
           /\ thread[Fsync].set \subseteq Hosts
           /\ thread[Fsync].pc \notin {"alloc", "clear"} => thread[Fsync].type = "NORMAL"
<1>1. Fsync \in Threads /\ thread[Fsync] \in Thread /\ ThreadOK(Fsync, thread[Fsync])
    BY ThreadNames DEF Inv, TypeOK, ThreadsOK
<1> QED
    BY <1>1, ThreadFields DEF ThreadOK

\* Hosts whose callbacks are taken out to be broken are marked.
LEMMA BreakLaterCallBacksStep ==
    ASSUME Inv, BreakLaterCallBacks, changes' = changes
    PROVE  Inv'
<1> DEFINE later == {cb \in cbs : cb.st = "LATER"}
           d == [Idle EXCEPT !.pc = "enum", !.f = Volume]
<1>1. /\ thread[Fsync] = Idle /\ cbs' = cbs \ later
      /\ flags' = [h \in Hosts |-> IF later \cap Of(h) = {} THEN flags[h] ELSE flags[h] \cup {"HCBREAK"}]
      /\ thread' = [thread EXCEPT ![Fsync] = [@ EXCEPT !.pc = "enum", !.f = Volume]]
      /\ UNCHANGED <<lock, promise>>
    BY DEF BreakLaterCallBacks
<1>2. thread' = [thread EXCEPT ![Fsync] = d]
    BY <1>1
<1>3. d \in Thread
    BY IdleFacts DEF Thread, PC, Fids
<1>4. d.pc = "enum" /\ d.f = Volume /\ d.set = {} /\ d.type = "NORMAL" /\ d.old = FALSE
    BY IdleFacts DEF Thread
<1> HIDE DEF d
<1>5. d.set \subseteq Hosts
    BY <1>4
<1>6. \A h \in Hosts : flags'[h] = IF later \cap Of(h) = {} THEN flags[h] ELSE flags[h] \cup {"HCBREAK"}
    BY <1>1
<1>7. flags' \in [Hosts -> SUBSET HostFlags]
    <2>1. \A h \in Hosts : flags'[h] \in SUBSET HostFlags
        BY <1>6 DEF Inv, TypeOK, HostFlags
    <2>2. flags' = [h \in Hosts |-> flags'[h]]
        BY <1>1
    <2> QED
        BY <2>1, <2>2
<1>8. \A h \in Hosts : /\ "RESETDONE" \in flags'[h] <=> "RESETDONE" \in flags[h]
                       /\ "HCBREAK" \in flags[h] => "HCBREAK" \in flags'[h]
    <2> TAKE h \in Hosts
    <2>1. flags'[h] = flags[h] \/ flags'[h] = flags[h] \cup {"HCBREAK"}
        BY <1>6
    <2> QED
        BY <2>1
<1>9. ASSUME NEW h \in Hosts, NEW f \in Files
      PROVE  /\ Owed(h, f) => Owed(h, f)'
             /\ ~Telling(thread[Fsync], h, f)
             /\ Normal(h, f) => Normal(h, f)'
    <2>1. CASE later \cap Of(h) # {}
        <3>1. Owed(h, f)'
            BY <1>6, <2>1 DEF Owed
        <3> QED
            BY <1>1, <3>1, IdleFacts DEF Telling, Normal
    <2>2. CASE later \cap Of(h) = {}
        <3>1. \A cb \in cbs : cb.h = h => cb \in cbs'
            BY <1>1, <2>2 DEF Of
        <3>2. Owed(h, f) => Owed(h, f)'
            BY <1>8, <3>1, OwedStep
        <3> QED
            BY <1>1, <3>1, <3>2, IdleFacts DEF Telling, Normal
    <2> QED
        BY <2>1, <2>2
<1>10. cbs' \subseteq cbs
    BY <1>1
<1> QED
    BY <1>1, <1>2, <1>3, <1>4, <1>5, <1>7, <1>8, <1>9, <1>10, FsyncStep

\* A marked host is told with the next hosts, or waited for if it is down.
LEMMA MultiBreakVolumeCallBackStep ==
    ASSUME Inv, NEW x \in Hosts, MultiBreakVolumeCallBack(x), changes' = changes
    PROVE  Inv'
<1> DEFINE c == thread[Fsync]
<1>1. c.pc = "enum" /\ UNCHANGED <<cbs, lock, promise>>
    BY DEF MultiBreakVolumeCallBack
<1>2. c \in Thread /\ c.f = Volume /\ c.old = FALSE /\ c.set \subseteq Hosts /\ c.type = "NORMAL"
    BY <1>1, FsyncFacts
<1>3. Fsync \in Threads /\ Fsync \notin Calls
    BY ThreadNames
<1>4. ASSUME NEW h \in Hosts, NEW f \in Files
      PROVE  ~Breaking(c, h, f) /\ (Telling(c, h, f) => h \in c.set)
    BY <1>1, <1>2 DEF Breaking, Telling
<1>5. CASE thread' = [thread EXCEPT ![Fsync] = [c EXCEPT !.pc = "wait", !.target = x]] /\ UNCHANGED flags
    <2> DEFINE d == [c EXCEPT !.pc = "wait", !.target = x]
    <2>1. thread' = [thread EXCEPT ![Fsync] = d]
        BY <1>5
    <2>2. d \in Thread
        BY <1>2 DEF Thread, PC
    <2>3. /\ d.pc = "wait" /\ d.f = Volume /\ d.set = c.set /\ d.type = "NORMAL" /\ d.old = FALSE
          /\ d.target = x
        BY <1>2 DEF Thread
    <2> HIDE DEF d
    <2>4. ThreadOK(Fsync, d)
        BY <1>2, <1>3, <2>3 DEF ThreadOK
    <2>5. \A h \in Hosts, f \in Files : Telling(c, h, f) => Telling(d, h, f)
        BY <1>4, <2>3 DEF Telling
    <2> QED
        BY <1>1, <1>3, <1>4, <1>5, <2>1, <2>2, <2>3, <2>4, <2>5, QuietStep
<1>6. CASE thread' = [thread EXCEPT ![Fsync] = [c EXCEPT !.pc = "multi", !.victim = x]] /\ UNCHANGED flags
    <2> DEFINE d == [c EXCEPT !.pc = "multi", !.victim = x]
    <2>1. thread' = [thread EXCEPT ![Fsync] = d]
        BY <1>6
    <2>2. d \in Thread
        BY <1>2 DEF Thread, PC
    <2>3. d.pc = "multi" /\ d.f = Volume /\ d.set = c.set /\ d.type = "NORMAL" /\ d.old = FALSE
        BY <1>2 DEF Thread
    <2> HIDE DEF d
    <2>4. ThreadOK(Fsync, d)
        BY <1>2, <1>3, <2>3 DEF ThreadOK
    <2>5. \A h \in Hosts, f \in Files : Telling(c, h, f) => Telling(d, h, f)
        BY <1>4, <2>3 DEF Telling
    <2> QED
        BY <1>1, <1>3, <1>4, <1>6, <2>1, <2>2, <2>3, <2>4, <2>5, QuietStep
<1>7. CASE /\ thread' = [thread EXCEPT ![Fsync] = [c EXCEPT !.set = @ \cup {x}]]
           /\ flags' = [flags EXCEPT ![x] = @ \ {"HCBREAK"}]
    <2> DEFINE d == [c EXCEPT !.set = @ \cup {x}]
    <2>1. thread' = [thread EXCEPT ![Fsync] = d]
        BY <1>7
    <2>2. c.set \cup {x} \in SUBSET Hosts
        BY <1>2
    <2>3. d \in Thread
        BY <1>2, <2>2 DEF Thread
    <2>4. d.pc = "enum" /\ d.f = Volume /\ d.set = c.set \cup {x} /\ d.type = "NORMAL" /\ d.old = FALSE
        BY <1>1, <1>2 DEF Thread
    <2> HIDE DEF d
    <2>5. d.set \subseteq Hosts
        BY <2>2, <2>4
    <2>6. flags[x] \ {"HCBREAK"} \in SUBSET HostFlags
        BY DEF Inv, TypeOK
    <2>7. /\ flags' \in [Hosts -> SUBSET HostFlags] /\ flags'[x] = flags[x] \ {"HCBREAK"}
          /\ \A h \in Hosts \ {x} : flags'[h] = flags[h]
        BY <1>7, <2>6, FlagFacts DEF Inv
    <2>8. \A h \in Hosts : "RESETDONE" \in flags'[h] => "RESETDONE" \in flags[h]
        BY <2>7
    <2>9. ASSUME NEW h \in Hosts, NEW f \in Files
          PROVE  /\ Owed(h, f) => Owed(h, f)' \/ Telling(d, h, f)
                 /\ Telling(c, h, f) => Owed(h, f)' \/ Telling(d, h, f)
                 /\ Normal(h, f) => Normal(h, f)'
        <3>1. h \in d.set => Telling(d, h, f)
            BY <2>4 DEF Telling
        <3>2. h # x => (Owed(h, f) => Owed(h, f)')
            BY <1>1, <2>7, OwedStep
        <3>3. Normal(h, f) => Normal(h, f)'
            BY <1>1 DEF Normal
        <3> QED
            BY <1>4, <2>4, <3>1, <3>2, <3>3
    <2>10. cbs' \subseteq cbs
        BY <1>1
    <2> QED
        BY <1>1, <2>1, <2>3, <2>4, <2>5, <2>7, <2>8, <2>9, <2>10, FsyncStep
<1> QED
    BY <1>5, <1>6, <1>7 DEF MultiBreakVolumeCallBack

\* A marked host that is down is to be reset.
LEMMA DeleteAllCallBacksStep ==
    ASSUME Inv, DeleteAllCallBacks, changes' = changes
    PROVE  Inv'
<1> DEFINE c == thread[Fsync]
           x == c.target
           d == [c EXCEPT !.pc = "enum", !.target = None]
<1>1. /\ c.pc = "wait" /\ cbs' = cbs \ Of(x)
      /\ flags' = [flags EXCEPT ![x] = @ \ {"RESETDONE", "HCBREAK"}]
      /\ thread' = [thread EXCEPT ![Fsync] = d] /\ UNCHANGED <<lock, promise>>
    BY DEF DeleteAllCallBacks
<1>2. c \in Thread /\ c.f = Volume /\ c.old = FALSE /\ c.set \subseteq Hosts /\ c.type = "NORMAL"
    BY <1>1, FsyncFacts
<1>3. Fsync \in Threads /\ Fsync \notin Calls /\ x \in Hosts
    BY <1>1, ThreadNames DEF Inv, ThreadsOK, ThreadOK
<1>4. d \in Thread
    BY <1>2 DEF Thread, PC
<1>5. d.pc = "enum" /\ d.f = Volume /\ d.set = c.set /\ d.type = "NORMAL" /\ d.old = FALSE
    BY <1>2 DEF Thread
<1> HIDE DEF d
<1>6. d.set \subseteq Hosts
    BY <1>2, <1>5
<1>7. flags[x] \ {"RESETDONE", "HCBREAK"} \in SUBSET HostFlags
    BY <1>3 DEF Inv, TypeOK
<1>8. /\ flags' \in [Hosts -> SUBSET HostFlags] /\ flags'[x] = flags[x] \ {"RESETDONE", "HCBREAK"}
      /\ \A h \in Hosts \ {x} : flags'[h] = flags[h]
    BY <1>1, <1>3, <1>7, FlagFacts DEF Inv
<1>9. \A h \in Hosts : "RESETDONE" \in flags'[h] => "RESETDONE" \in flags[h]
    BY <1>8
<1>10. ASSUME NEW h \in Hosts, NEW f \in Files
       PROVE  /\ Owed(h, f) => Owed(h, f)'
              /\ Telling(c, h, f) => Telling(d, h, f)
              /\ Normal(h, f) => Normal(h, f)' \/ Owed(h, f)'
    <2>1. Telling(c, h, f) => Telling(d, h, f)
        BY <1>1, <1>2, <1>5 DEF Telling
    <2>2. CASE h = x
        BY <1>8, <2>1, <2>2 DEF Owed
    <2>3. CASE h # x
        <3>1. \A cb \in cbs : cb.h = h => cb \in cbs'
            BY <1>1, <2>3 DEF Of
        <3>2. Owed(h, f) => Owed(h, f)'
            BY <1>8, <2>3, <3>1, OwedStep
        <3>3. Normal(h, f) => Normal(h, f)'
            BY <3>1 DEF Normal
        <3> QED
            BY <2>1, <3>2, <3>3
    <2> QED
        BY <2>2, <2>3
<1>11. cbs' \subseteq cbs
    BY <1>1
<1> QED
    BY <1>1, <1>4, <1>5, <1>6, <1>8, <1>9, <1>10, <1>11, FsyncStep

\* The host that did not fit is the first of the next.
LEMMA NextHostsStep ==
    ASSUME Inv, NextHosts, changes' = changes
    PROVE  Inv'
<1> DEFINE c == thread[Fsync]
           x == c.victim
           d == [c EXCEPT !.pc = "enum", !.set = {x} \ {None}, !.victim = None]
<1>1. /\ c.pc = "multi" /\ c.set = {} /\ thread' = [thread EXCEPT ![Fsync] = d]
      /\ flags' = IF x = None THEN flags ELSE [flags EXCEPT ![x] = @ \ {"HCBREAK"}]
      /\ UNCHANGED <<cbs, lock, promise>>
    BY DEF NextHosts
<1>2. c \in Thread /\ c.f = Volume /\ c.old = FALSE /\ c.type = "NORMAL"
    BY <1>1, FsyncFacts
<1>3. Fsync \in Threads /\ Fsync \notin Calls /\ x \in Hosts \cup {None}
    BY <1>2, ThreadNames, ThreadFields
<1>4. {x} \ {None} \in SUBSET Hosts
    BY <1>3
<1>5. d \in Thread
    BY <1>2, <1>4 DEF Thread, PC
<1>6. d.pc = "enum" /\ d.f = Volume /\ d.set = {x} \ {None} /\ d.type = "NORMAL" /\ d.old = FALSE
    BY <1>2 DEF Thread
<1> HIDE DEF d
<1>7. d.set \subseteq Hosts
    BY <1>4, <1>6
<1>8. /\ flags' \in [Hosts -> SUBSET HostFlags]
      /\ \A h \in Hosts : "RESETDONE" \in flags'[h] => "RESETDONE" \in flags[h]
      /\ \A h \in Hosts : h # x => flags'[h] = flags[h]
    BY <1>1, <1>3 DEF Inv, TypeOK
<1>9. ASSUME NEW h \in Hosts, NEW f \in Files
      PROVE  /\ Owed(h, f) => Owed(h, f)' \/ Telling(d, h, f)
             /\ ~Telling(c, h, f)
             /\ Normal(h, f) => Normal(h, f)'
    <2>1. ~Telling(c, h, f)
        BY <1>1, <1>2 DEF Telling
    <2>2. h = x => Telling(d, h, f)
        BY <1>6, CallbackConstants DEF Telling
    <2>3. h # x => (Owed(h, f) => Owed(h, f)')
        BY <1>1, <1>8, OwedStep
    <2>4. Normal(h, f) => Normal(h, f)'
        BY <1>1 DEF Normal
    <2> QED
        BY <2>1, <2>2, <2>3, <2>4
<1>10. cbs' \subseteq cbs
    BY <1>1
<1> QED
    BY <1>1, <1>5, <1>6, <1>7, <1>8, <1>9, <1>10, FsyncStep

\* The hosts that are left are told, or there are none.
LEMMA LeftOversStep ==
    ASSUME Inv, LeftOvers, changes' = changes
    PROVE  Inv'
<1> DEFINE c == thread[Fsync]
           e == [c EXCEPT !.pc = "multi"]
           d == IF c.set = {} THEN Idle ELSE e
<1>1. /\ c.pc = "enum" /\ thread' = [thread EXCEPT ![Fsync] = d]
      /\ UNCHANGED <<flags, cbs, lock, promise>>
    BY DEF LeftOvers
<1>2. c \in Thread /\ c.f = Volume /\ c.old = FALSE /\ c.set \subseteq Hosts /\ c.type = "NORMAL"
    BY <1>1, FsyncFacts
<1>3. Fsync \in Threads /\ Fsync \notin Calls
    BY ThreadNames
<1>4. e \in Thread
    BY <1>2 DEF Thread, PC
<1>5. e.pc = "multi" /\ e.f = Volume /\ e.set = c.set /\ e.type = "NORMAL" /\ e.old = FALSE
    BY <1>2 DEF Thread
<1> HIDE DEF e
<1>6. d \in Thread /\ d.pc # "reply"
    BY <1>4, <1>5, IdleFacts
<1>7. ThreadOK(Fsync, d)
    <2>1. CASE c.set = {}
        BY <1>3, <2>1, IdleFacts DEF ThreadOK
    <2>2. CASE c.set # {}
        BY <1>2, <1>3, <1>5, <2>2 DEF ThreadOK
    <2> QED
        BY <2>1, <2>2
<1>8. ASSUME NEW h \in Hosts, NEW f \in Files
      PROVE  ~Breaking(c, h, f) /\ (Telling(c, h, f) => Telling(d, h, f))
    <2>1. ~Breaking(c, h, f) /\ (Telling(c, h, f) => h \in c.set)
        BY <1>1, <1>2 DEF Breaking, Telling
    <2>2. h \in c.set => Telling(d, h, f)
        BY <1>5 DEF Telling
    <2> QED
        BY <2>1, <2>2
<1> HIDE DEF d
<1> QED
    BY <1>1, <1>3, <1>6, <1>7, <1>8, QuietStep

-----------------------------------------------------------------------------
(* The theorems.                                                           *)

\* The server starts with resets due to the clients that have promises of an earlier run.
LEMMA InitInv ==
    ASSUME Init
    PROVE  Inv
<1>1. /\ flags \in [Hosts -> {{"RESETDONE"}, {"VENUSDOWN"}}]
      /\ promise \in [Hosts -> [Files -> {"none", "stale"}]]
      /\ \A h \in Hosts, f \in Files : promise[h][f] = "stale" => flags[h] = {"VENUSDOWN"}
      /\ cbs = {} /\ changes = 0
      /\ lock = [h \in Hosts |-> None] /\ thread = [t \in Threads |-> Idle]
    BY DEF Init
<1>2. \A t \in Threads : thread[t] = Idle
    BY <1>1
<1>3. TypeOK
    <2>1. flags \in [Hosts -> SUBSET HostFlags]
        BY <1>1 DEF HostFlags
    <2>2. promise \in [Hosts -> [Files -> {"none", "good", "stale"}]]
        BY <1>1
    <2>3. lock \in [Hosts -> Threads \cup {None}] /\ thread \in [Threads -> Thread]
        BY <1>1, IdleFacts
    <2>4. changes \in 0..MaxChanges
        BY <1>1, CallbackConstants
    <2> QED
        BY <1>1, <2>1, <2>2, <2>3, <2>4 DEF TypeOK
<1>4. ThreadsOK
    BY <1>2, IdleFacts DEF ThreadsOK, ThreadOK
<1>5. OneEntry
    BY <1>1 DEF OneEntry, OneEntryIn
<1>6. Remembered
    <2> SUFFICES ASSUME NEW h \in Hosts, NEW f \in Files PROVE RememberedAt(h, f)
        BY DEF Remembered
    <2>1. \A t \in Calls : thread[t].pc # "reply"
        BY <1>2, IdleFacts, ThreadNames
    <2>2. Relies(h, f) => promise[h][f] = "stale"
        BY <1>1, <2>1 DEF Relies
    <2>3. Relies(h, f) => Covered(h, f)
        BY <1>1, <2>2 DEF Covered, Owed
    <2> QED
        BY <2>3, StaleRelies DEF RememberedAt
<1> QED
    BY <1>3, <1>4, <1>5, <1>6 DEF Inv

\* Every step of the server and of its clients keeps the invariant.
LEMMA NextInv ==
    ASSUME Inv, [Next]_vars
    PROVE  Inv'
<1>1. CASE BreakVolumeCallBacksLater
    BY <1>1, BreakVolumeCallBacksLaterStep
<1>2. CASE UNCHANGED vars
    <2>1. TypeOK' /\ ThreadsOK' /\ OneEntry'
        BY <1>2 DEF vars, Inv, TypeOK, ThreadsOK, ThreadOK, OneEntry, OneEntryIn
    <2>2. Remembered'
        BY <1>2 DEF vars, Inv, Remembered, RememberedAt, Relies, Stale, Covered, Owed, Of, Telling,
                    Normal, AboutToBreak, Breaking
    <2> QED
        BY <2>1, <2>2 DEF Inv
<1>3. CASE Step /\ changes' = changes
    <2>1. ASSUME NEW t \in Calls,
                 \/ \E h \in Hosts : CallPreamble(t, h)
                 \/ InitReply(t) \/ BulkReply(t)
                 \/ \E f \in Files : Fetch(t, f) \/ GiveUpCallBacks(t, f)
                 \/ \E f \in Files, all \in BOOLEAN : Update(t, f, all)
                 \/ GiveUpAllCallBacks(t) \/ BreakCallBack(t) \/ MultiEnd(t) \/ Reply(t)
          PROVE  Inv'
        BY <1>3, <2>1, CallPreambleStep, InitReplyStep, BulkReplyStep, FetchStep, GiveUpCallBacksStep,
           UpdateStep, GiveUpAllCallBacksStep, BreakCallBackStep, MultiEndStep, ReplyStep
    <2>2. ASSUME NEW t \in Threads,
                 \/ \E x \in Hosts : MultiReply(t, x)
                 \/ AddCallBack1(t) \/ GetSomeSpace(t) \/ ClearReply(t)
          PROVE  Inv'
        BY <1>3, <2>2, MultiReplyStep, AddCallBack1Step, GetSomeSpaceStep, ClearReplyStep
    <2>3. CASE \/ \E h \in Hosts, f \in Files : Expire(h, f)
               \/ \E cb \in cbs : CleanupTimedOutCallBacks(cb)
               \/ BreakLaterCallBacks \/ DeleteAllCallBacks \/ NextHosts \/ LeftOvers
               \/ \E x \in Hosts : MultiBreakVolumeCallBack(x) \/ CheckHost(x)
        BY <1>3, <2>3, ExpireStep, CleanupTimedOutCallBacksStep, BreakLaterCallBacksStep,
           DeleteAllCallBacksStep, NextHostsStep, LeftOversStep, MultiBreakVolumeCallBackStep,
           CheckHostStep
    <2> QED
        BY <1>3, <2>1, <2>2, <2>3 DEF Step, Threads
<1> QED
    BY <1>1, <1>2, <1>3 DEF Next

\* The inductive invariant holds in every state.
LEMMA InvCorrect == Spec => []Inv
<1>1. Init => Inv
    BY InitInv
<1>2. Inv /\ [Next]_vars => Inv'
    BY NextInv
<1> QED
    BY <1>1, <1>2, PTL DEF Spec

\* Flags, entries, locks and threads keep their types, whatever the tables' sizes; the
\* fsync thread never goes on with a host it has not got.
THEOREM TypeCorrect == Spec => []TypeOK
<1>1. Inv => TypeOK
    BY DEF Inv
<1> QED
    BY <1>1, InvCorrect, PTL

\* A client that relies on a version that is out of date is being told or has a break or a
\* reset recorded, for any number of clients, files and calls and any table sizes: no
\* interleaving of callback.c's operations drops the last trace of an unbroken promise.
THEOREM StaleIsRememberedCorrect == Spec => []StaleIsRemembered
<1>1. Inv => StaleIsRemembered
    <2> SUFFICES ASSUME Inv, NEW h \in Hosts, NEW f \in Files, Stale(h, f)
                 PROVE  BeingTold(h, f) \/ Owed(h, f)
        BY DEF StaleIsRemembered
    <2>1. Covered(h, f) \/ (Normal(h, f) /\ AboutToBreak(h, f))
        BY DEF Inv, Remembered, RememberedAt
    <2>2. ASSUME NEW t \in Threads, Telling(thread[t], h, f) PROVE BeingTold(h, f)
        BY <2>2 DEF Telling, BeingTold
    <2>3. ASSUME NEW t \in Threads, Breaking(thread[t], h, f), Normal(h, f) PROVE BeingTold(h, f)
        BY <2>3 DEF Breaking, Normal, BeingTold, Of
    <2> QED
        BY <2>1, <2>2, <2>3 DEF Covered, AboutToBreak
<1> QED
    BY <1>1, InvCorrect, PTL

=============================================================================
