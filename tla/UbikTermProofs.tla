--------------------------- MODULE UbikTermProofs ---------------------------
(***************************************************************************)
(* Proofs about the first term of UbikReplication: as long as one server   *)
(* only has been sync site, a label names one database, and nothing that   *)
(* was reported to be committed is lost.  This holds for any odd number of *)
(* servers, any numbers of transactions, crashes and lost calls, and       *)
(* beyond the end of the term, until another site is elected.              *)
(***************************************************************************)
EXTENDS UbikReplicationProofs, FiniteSetTheorems

-----------------------------------------------------------------------------
(* The inductive invariant.                                                *)

\* Nobody has been sync site.
Fresh ==
    /\ site = None /\ acked = {}
    /\ \A t \in Server :
          /\ trans[t] = NoTrans /\ task[t] = Idle /\ rec[t] = {}
          /\ db[t].label = V(1, 1) /\ db[t].version = V(1, 1) /\ db[t].data = <<>>
          /\ view[t].current = {} /\ view[t].known = [u \in Server |-> NoVersion]

\* Only c has been sync site: the others have no transaction and do not recover.
OnlySite(c) ==
    /\ site \in {c, None}
    /\ \A t \in Others(c) : trans[t] = NoTrans /\ task[t].phase = "idle" /\ rec[t] = {}

\* Nobody has or had a newer database than c, which therefore never fetches one.
NoneNewer(c) ==
    /\ "found" \in rec[c] => "have" \in rec[c]
    /\ task[c].phase # "fetch" /\ ~Newer(task[c].newest, db[c].version)
    /\ \A t \in Server : /\ ~Newer(db[t].label, db[c].version)
                         /\ ~Newer(view[c].known[t], db[c].version)

\* The versions in memory are those in the files; c gives its epoch to a database
\* without transactions.
LabelsHold(c) ==
    /\ \A t \in Server : db[t].version = db[t].label
    /\ db[c].version.epoch >= 1
    /\ site = c /\ "label" \notin rec[c] =>
          db[c].version.epoch < 3 /\ db[c].version.counter = 1 /\ db[c].data = <<>>
    /\ Phase(c) = "setversion" =>
          /\ ~trans[c].done /\ db[c].data = <<>> /\ db[c].version = trans[c].new
          /\ trans[c].new.counter = 1 /\ trans[c].old.counter = 1
          /\ trans[c].new.epoch > trans[c].old.epoch /\ trans[c].old.epoch >= 1
          /\ trans[c].new.epoch >= 3

\* What c has reported, or may still report, to be committed is in its database.
AckedKept(c) ==
    /\ acked \subseteq Range(db[c].data)
    /\ Phase(c) \in {"commit", "wait"} => trans[c].id \in Range(db[c].data)
    /\ trans[c] # NoTrans /\ trans[c].won => trans[c].id \in Range(db[c].data)

\* The database of t is the one that c had under its label.
Copy(t, c) ==
    /\ Len(db[t].data) = db[t].label.counter - 1
    /\ Len(db[t].data) <= Len(db[c].data)
    /\ \A i \in 1..Len(db[t].data) : db[t].data[i] = db[c].data[i]

\* Before the first label nothing has been sent, and no transaction gets a quorum.
Unlabelled(c) ==
    db[c].version.epoch = 1 =>
        /\ view[c].current = {} /\ db[c].version.counter = 1
        /\ task[c].phase \in {"idle", "find"}
        /\ trans[c] # NoTrans =>
              trans[c].phase \in {"begin", "undo begin"} /\ trans[c].ok = 0

\* A call of the commit to t is still to come, and the label that t has until then.
Pending(c, t) == Phase(c) \in {"setversion", "commit"} /\ t \in trans[c].todo
Before(c) ==
    IF Phase(c) = "setversion" THEN trans[c].old
    ELSE V(db[c].version.epoch, db[c].version.counter - 1)

\* Servers that c takes for current have its database, or the one before.
CurrentAgree(c) ==
    \A t \in view[c].current :
        /\ ~Pending(c, t) => db[t].label = db[c].version /\ view[c].known[t] = db[c].version
        /\ Pending(c, t) => db[t].label = Before(c)

\* So do those for which c has noted its own version.
KnownAgree(c) ==
    \A t \in Server : view[c].known[t] = db[c].version => db[t].label = db[c].version

\* The last transaction in the database of c is the one that it commits.
LastCommits(c) ==
    Phase(c) = "commit" => /\ Len(db[c].data) >= 1
                           /\ db[c].data[Len(db[c].data)] = trans[c].id

Copies(c) ==
    Server # {c} =>
        /\ \A t \in Server : db[t].label.epoch > 0 => Copy(t, c)
        /\ Unlabelled(c) /\ CurrentAgree(c) /\ KnownAgree(c) /\ LastCommits(c)

Led(c) == OnlySite(c) /\ NoneNewer(c) /\ LabelsHold(c) /\ AckedKept(c) /\ Copies(c)

TermInv ==
    /\ elections = 0 => Fresh
    /\ elections = 1 => \E c \in Server : Led(c)

-----------------------------------------------------------------------------
(* The properties follow from the invariant.                               *)

\* The contents of a sequence.
LEMMA RangeFacts ==
    ASSUME NEW T, NEW q \in Seq(T)
    PROVE  /\ Range(q) = {q[i] : i \in 1..Len(q)}
           /\ \A x \in T : /\ Append(q, x) \in Seq(T) /\ Len(Append(q, x)) = Len(q) + 1
                           /\ \A i \in 1..Len(q) : Append(q, x)[i] = q[i]
                           /\ Append(q, x)[Len(q) + 1] = x
                           /\ Range(Append(q, x)) = Range(q) \cup {x}
<1>1. DOMAIN q = 1..Len(q) /\ Len(q) \in Nat
    OBVIOUS
<1>2. Range(q) = {q[i] : i \in 1..Len(q)}
    BY <1>1 DEF Range
<1>3. ASSUME NEW x \in T
      PROVE  /\ Append(q, x) \in Seq(T) /\ Len(Append(q, x)) = Len(q) + 1
             /\ \A i \in 1..Len(q) : Append(q, x)[i] = q[i]
             /\ Append(q, x)[Len(q) + 1] = x
             /\ Range(Append(q, x)) = Range(q) \cup {x}
    <2> DEFINE r == Append(q, x)
    <2>1. r \in Seq(T) /\ Len(r) = Len(q) + 1
        OBVIOUS
    <2>2. \A i \in 1..Len(q) : r[i] = q[i]
        OBVIOUS
    <2>3. r[Len(q) + 1] = x
        OBVIOUS
    <2> HIDE DEF r
    <2>4. DOMAIN r = 1..(Len(q) + 1)
        BY <2>1
    <2>5. Range(r) = Range(q) \cup {x}
        BY <1>1, <2>2, <2>3, <2>4 DEF Range
    <2> QED
        BY <2>1, <2>2, <2>3, <2>5 DEF r
<1> QED
    BY <1>2, <1>3

\* Two databases that agree position by position are the same.
LEMMA SameSequence ==
    ASSUME NEW T, NEW p \in Seq(T), NEW q \in Seq(T), Len(p) = Len(q),
           \A i \in 1..Len(p) : p[i] = q[i]
    PROVE  p = q
OBVIOUS

\* Two servers with one label have the same part of the database of c.
LEMMA LedNames ==
    ASSUME Inv, NEW c \in Server, Led(c)
    PROVE  VersionsNameContents
<1> SUFFICES ASSUME NEW s \in Server, NEW t \in Server, db[s].label = db[t].label,
                    db[s].label.epoch > 0
             PROVE  db[s].data = db[t].data
    BY DEF VersionsNameContents
<1>1. CASE Server = {c}
    BY <1>1
<1>2. CASE Server # {c}
    <2>1. Copy(s, c) /\ Copy(t, c)
        BY <1>2 DEF Led, Copies
    <2>2. db[s].data \in Seq(Trans) /\ db[t].data \in Seq(Trans)
        BY DatabaseFacts DEF Inv, TypeInv
    <2>3. Len(db[s].data) = Len(db[t].data)
        BY <2>1 DEF Copy
    <2>4. \A i \in 1..Len(db[s].data) : db[s].data[i] = db[t].data[i]
        BY <2>1, <2>3 DEF Copy
    <2> QED
        BY <2>2, <2>3, <2>4, SameSequence
<1> QED
    BY <1>1, <1>2

\* The sync site is c, which has what was committed.
LEMMA LedSurvives ==
    ASSUME Inv, NEW c \in Server, Led(c)
    PROVE  CommittedSurvives
BY ReplicationAssumption DEF CommittedSurvives, Led, OnlySite, AckedKept

\* Before the first election there is nothing to tell apart or to lose.
LEMMA FreshHolds == Fresh => VersionsNameContents /\ CommittedSurvives
BY ReplicationAssumption DEF Fresh, VersionsNameContents, CommittedSurvives

-----------------------------------------------------------------------------
(* Facts about versions, contents and transactions.                        *)

\* The order of versions.
LEMMA NewerFacts ==
    /\ \A a \in Version : ~Newer(a, a) /\ ~Newer(NoVersion, a)
    /\ \A a, b, v \in Version : Newer(a, b) /\ ~Newer(v, b) => ~Newer(v, a) /\ v # a
    /\ \A a, b \in Version : a.epoch = 0 /\ b.epoch >= 1 => ~Newer(a, b)
    /\ \A a, b \in Version : a.epoch > b.epoch => Newer(a, b)
    /\ \A a \in Version : /\ V(a.epoch, a.counter + 1) \in Version
                          /\ Newer(V(a.epoch, a.counter + 1), a)
BY VersionFacts DEF Newer, NoVersion, Version, V

\* e holds what d holds, under the same label.
SameContents(d, e) == e.label = d.label /\ e.version = d.version /\ e.data = d.data

\* Votes and aborts leave the contents alone.
LEMMA ContentsFacts ==
    /\ \A d : SameContents(d, d)
    /\ \A d \in Database : SameContents(d, AbortRemote(d))
    /\ \A d \in Database, v, tid \in Version : SameContents(d, VotedFor(d, v, tid))
    /\ \A d \in Database : \A r : SameContents(d, [d EXCEPT !.remote = r])
    /\ \A d \in Database, v \in Version :
          /\ Labelled(d, v).label = v /\ Labelled(d, v).version = v
          /\ Labelled(d, v).data = d.data
BY DEF SameContents, AbortRemote, VotedFor, Labelled, Database

-----------------------------------------------------------------------------
(* Steps that leave the database of c alone.                               *)

\* The recovery of c finds nothing better, and c does not forget its new label.
RecoveryKept(c) ==
    /\ site' = c => site = c /\ ("label" \in rec[c] => "label" \in rec'[c])
    /\ "found" \in rec'[c] => "have" \in rec'[c]
    /\ task'[c].phase # "fetch" /\ ~Newer(task'[c].newest, db[c].version)
    /\ db[c].version.epoch = 1 /\ Server # {c} => task'[c].phase \in {"idle", "find"}

\* A server keeps its database, gets that of c, or is left with one in transit if c does
\* not take it for current.
StoresKept(c) ==
    /\ SameContents(db[c], db'[c])
    /\ \A t \in Server :
          \/ SameContents(db[t], db'[t])
          \/ SameContents(db[c], db'[t])
          \/ /\ db'[t].version = db'[t].label /\ db'[t].label.epoch = 0
             /\ t \notin view'[c].current /\ view[c].known[t] # db[c].version
             /\ view'[c].known[t] = view[c].known[t]

\* c gets to know labels, and takes a server for current that has its database.
ViewKept(c) ==
    /\ \A t \in Server :
          view'[c].known[t] \in {view[c].known[t], db'[t].label, NoVersion}
    /\ \A t \in view'[c].current :
          \/ /\ t \in view[c].current /\ SameContents(db[t], db'[t])
             /\ view'[c].known[t] \in {view[c].known[t], db'[t].label}
             /\ Pending(c, t) => Pending(c, t)'
          \/ /\ db'[t].label = db[c].version /\ view'[c].known[t] = db[c].version
             /\ ~Pending(c, t)' /\ db[c].version.epoch # 1

\* No commit begins.
TransKept(c) ==
    trans'[c] # NoTrans =>
        /\ trans'[c].phase = "setversion" =>
              /\ trans[c] # NoTrans /\ trans[c].phase = "setversion"
              /\ trans'[c].old = trans[c].old /\ trans'[c].new = trans[c].new
              /\ trans'[c].done = trans[c].done
        /\ trans'[c].phase = "commit" => /\ trans[c] # NoTrans /\ trans[c].phase = "commit"
                                         /\ trans'[c].id = trans[c].id
        /\ trans'[c].phase \in {"setversion", "commit"} => trans'[c].todo \subseteq trans[c].todo
        /\ trans'[c].phase = "wait" \/ trans'[c].won =>
              /\ trans[c] # NoTrans /\ trans'[c].id = trans[c].id
              /\ trans[c].phase \in {"commit", "wait"} \/ trans[c].won
        /\ db[c].version.epoch = 1 /\ Server # {c} =>
              trans'[c].phase \in {"begin", "undo begin"} /\ trans'[c].ok = 0

\* Such a step keeps what is known of the term.
LEMMA TermStep ==
    ASSUME Inv, Inv', NEW c \in Server, Led(c), OnlySite(c)', RecoveryKept(c), StoresKept(c),
           ViewKept(c), TransKept(c), acked' \subseteq Range(db[c].data)
    PROVE  Led(c)'
<1> DEFINE v == db[c].version
<1>1. /\ OnlySite(c) /\ NoneNewer(c) /\ LabelsHold(c) /\ AckedKept(c) /\ Copies(c)
    BY DEF Led
<1>2. /\ \A t \in Server : db[t] \in Database /\ db'[t] \in Database
      /\ view[c] \in ViewRec /\ view'[c] \in ViewRec /\ task[c] \in TaskRec
      /\ trans[c] \in TransRec \cup {NoTrans} /\ trans'[c] \in TransRec \cup {NoTrans}
    BY DEF Inv, TypeInv
<1>3. /\ \A t \in Server : /\ db[t].label \in Version /\ db[t].version \in Version
                           /\ db'[t].label \in Version /\ db'[t].version \in Version
                           /\ db[t].data \in Seq(Trans) /\ db'[t].data \in Seq(Trans)
                           /\ view[c].known[t] \in Version /\ view'[c].known[t] \in Version
      /\ view'[c].current \subseteq Server
    BY <1>2, DatabaseFacts DEF ViewRec
<1>4. /\ v \in Version /\ v.epoch >= 1 /\ db[c].label = v /\ db'[c].label = v
      /\ db'[c].version = v /\ db'[c].data = db[c].data
    BY <1>1, <1>3 DEF LabelsHold, StoresKept, SameContents
<1>5. ASSUME NEW t \in Server
      PROVE  \/ SameContents(db[t], db'[t])
             \/ db'[t].label = v /\ db'[t].version = v /\ db'[t].data = db[c].data
             \/ /\ db'[t].version = db'[t].label /\ db'[t].label.epoch = 0
                /\ t \notin view'[c].current /\ view[c].known[t] # v
                /\ view'[c].known[t] = view[c].known[t]
    BY <1>4 DEF StoresKept, SameContents
<1>6. NoneNewer(c)'
    <2>1. ASSUME NEW t \in Server PROVE ~Newer(db'[t].label, v)
        <3>1. ~Newer(db[t].label, v) /\ ~Newer(v, v)
            BY <1>1, <1>4, NewerFacts DEF NoneNewer
        <3>2. db'[t].label.epoch = 0 => ~Newer(db'[t].label, v)
            BY <1>3, <1>4, NewerFacts
        <3> QED
            BY <1>5, <3>1, <3>2 DEF SameContents
    <2>2. ASSUME NEW t \in Server PROVE ~Newer(view'[c].known[t], v)
        <3>1. ~Newer(view[c].known[t], v) /\ ~Newer(NoVersion, v)
            BY <1>1, <1>4, NewerFacts DEF NoneNewer
        <3> QED
            BY <2>1, <3>1 DEF ViewKept
    <2> QED
        BY <1>4, <2>1, <2>2 DEF NoneNewer, RecoveryKept
<1>7. LabelsHold(c)'
    <2>1. \A t \in Server : db'[t].version = db'[t].label
        BY <1>1, <1>5 DEF LabelsHold, SameContents
    <2>2. site' = c /\ "label" \notin rec'[c] =>
              db'[c].version.epoch < 3 /\ db'[c].version.counter = 1 /\ db'[c].data = <<>>
        BY <1>1, <1>4 DEF LabelsHold, RecoveryKept
    <2>3. ASSUME Phase(c)' = "setversion"
          PROVE  /\ ~trans'[c].done /\ db'[c].data = <<>> /\ db'[c].version = trans'[c].new
                 /\ trans'[c].new.counter = 1 /\ trans'[c].old.counter = 1
                 /\ trans'[c].new.epoch > trans'[c].old.epoch /\ trans'[c].old.epoch >= 1
                 /\ trans'[c].new.epoch >= 3
        <3>1. trans'[c] # NoTrans /\ trans'[c].phase = "setversion"
            BY <2>3 DEF Phase
        <3>2. /\ trans[c] # NoTrans /\ trans[c].phase = "setversion"
              /\ trans'[c].old = trans[c].old /\ trans'[c].new = trans[c].new
              /\ trans'[c].done = trans[c].done
            BY <3>1 DEF TransKept
        <3>3. Phase(c) = "setversion"
            BY <3>2 DEF Phase
        <3> QED
            BY <1>1, <1>4, <3>2, <3>3 DEF LabelsHold
    <2> QED
        BY <1>4, <2>1, <2>2, <2>3 DEF LabelsHold
<1>8. AckedKept(c)'
    <2>1. ASSUME trans'[c] # NoTrans, trans'[c].phase \in {"commit", "wait"} \/ trans'[c].won
          PROVE  trans'[c].id \in Range(db[c].data)
        <3>1. /\ trans[c] # NoTrans /\ trans'[c].id = trans[c].id
              /\ trans[c].phase \in {"commit", "wait"} \/ trans[c].won
            BY <2>1 DEF TransKept
        <3> QED
            BY <1>1, <3>1 DEF AckedKept, Phase
    <2> QED
        BY <1>4, <2>1 DEF AckedKept, Phase
<1>9. ASSUME Server # {c} PROVE \A t \in Server : db'[t].label.epoch > 0 => Copy(t, c)'
    <2>1. \A t \in Server : db[t].label.epoch > 0 => Copy(t, c)
        BY <1>1, <1>9 DEF Copies
    <2>2. Copy(c, c)
        BY <1>3, <1>4, <2>1, VersionFacts
    <2> SUFFICES ASSUME NEW t \in Server, db'[t].label.epoch > 0 PROVE Copy(t, c)'
        OBVIOUS
    <2>3. CASE SameContents(db[t], db'[t])
        BY <1>4, <2>1, <2>3 DEF Copy, SameContents
    <2>4. CASE db'[t].label = v /\ db'[t].version = v /\ db'[t].data = db[c].data
        BY <1>4, <2>2, <2>4 DEF Copy
    <2> QED
        BY <1>3, <1>5, <2>3, <2>4, VersionFacts
<1>10. ASSUME Server # {c} PROVE CurrentAgree(c)' /\ KnownAgree(c)'
    <2>1. CurrentAgree(c) /\ KnownAgree(c)
        BY <1>1, <1>10 DEF Copies
    <2>2. ASSUME NEW t \in Server, view'[c].known[t] = v
          PROVE  db'[t].label = v
        <3>1. NoVersion # v
            BY <1>4 DEF NoVersion
        <3>2. CASE view'[c].known[t] = view[c].known[t]
            <4>1. db[t].label = v
                BY <2>1, <2>2, <3>2 DEF KnownAgree
            <4> QED
                BY <1>5, <2>2, <3>2, <4>1 DEF SameContents
        <3> QED
            BY <2>2, <3>1, <3>2 DEF ViewKept
    <2>3. ASSUME NEW t \in view'[c].current, t \in view[c].current,
                 SameContents(db[t], db'[t]),
                 view'[c].known[t] \in {view[c].known[t], db'[t].label},
                 Pending(c, t) => Pending(c, t)'
          PROVE  /\ ~Pending(c, t)' => db'[t].label = v /\ view'[c].known[t] = v
                 /\ Pending(c, t)' => db'[t].label = Before(c)'
        <3>1. CASE ~Pending(c, t)'
            BY <2>1, <2>3, <3>1 DEF CurrentAgree, SameContents
        <3>2. CASE Pending(c, t)'
            <4>1. /\ trans'[c] # NoTrans /\ trans'[c].phase \in {"setversion", "commit"}
                  /\ t \in trans'[c].todo
                BY <3>2 DEF Pending, Phase
            <4>2. /\ trans[c] # NoTrans /\ trans'[c].phase = trans[c].phase
                  /\ t \in trans[c].todo
                  /\ trans'[c].phase = "setversion" => trans'[c].old = trans[c].old
                BY <4>1 DEF TransKept
            <4>3. Pending(c, t) /\ Before(c)' = Before(c)
                BY <1>4, <4>1, <4>2 DEF Pending, Before, Phase
            <4> QED
                BY <2>1, <2>3, <3>2, <4>3 DEF CurrentAgree, SameContents
        <3> QED
            BY <3>1, <3>2
    <2>4. \A t \in view'[c].current :
              /\ ~Pending(c, t)' => db'[t].label = v /\ view'[c].known[t] = v
              /\ Pending(c, t)' => db'[t].label = Before(c)'
        BY <2>3 DEF ViewKept
    <2> QED
        BY <1>4, <2>2, <2>4 DEF CurrentAgree, KnownAgree
<1>11. ASSUME Server # {c} PROVE Unlabelled(c)'
    <2>1. SUFFICES ASSUME v.epoch = 1
                   PROVE  /\ view'[c].current = {} /\ v.counter = 1
                          /\ task'[c].phase \in {"idle", "find"}
                          /\ trans'[c] # NoTrans => /\ trans'[c].phase \in {"begin", "undo begin"}
                                                    /\ trans'[c].ok = 0
        BY <1>4 DEF Unlabelled
    <2>2. view[c].current = {} /\ v.counter = 1
        BY <1>1, <1>11, <2>1 DEF Copies, Unlabelled
    <2>3. view'[c].current = {}
        BY <2>1, <2>2 DEF ViewKept
    <2> QED
        BY <1>11, <2>1, <2>2, <2>3 DEF RecoveryKept, TransKept
<1>12. ASSUME Server # {c} PROVE LastCommits(c)'
    <2>1. SUFFICES ASSUME trans'[c] # NoTrans, trans'[c].phase = "commit"
                   PROVE  /\ Len(db[c].data) >= 1
                          /\ db[c].data[Len(db[c].data)] = trans'[c].id
        BY <1>4 DEF LastCommits, Phase
    <2>2. Phase(c) = "commit" /\ trans'[c].id = trans[c].id
        BY <2>1 DEF TransKept, Phase
    <2> QED
        BY <1>1, <1>12, <2>2 DEF Copies, LastCommits
<1> QED
    BY <1>6, <1>7, <1>8, <1>9, <1>10, <1>11, <1>12 DEF Led, Copies

\* Whoever acts is c.
LEMMA ActorIsSite ==
    ASSUME NEW c \in Server, OnlySite(c), NEW s \in Server,
           trans[s] # NoTrans \/ task[s].phase # "idle" \/ site = s \/ rec[s] # {}
    PROVE  s = c
BY ReplicationAssumption DEF OnlySite, Others

\* A step that leaves the contents of all databases and the transaction of c alone.
LEMMA QuietStep ==
    ASSUME Inv, Inv', NEW c \in Server, Led(c), OnlySite(c)', RecoveryKept(c),
           \A t \in Server : SameContents(db[t], db'[t]),
           trans'[c] = trans[c], acked' = acked, view'[c].current \subseteq view[c].current,
           \A t \in Server : view'[c].known[t] \in {view[c].known[t], db[t].label}
    PROVE  Led(c)'
<1>1. StoresKept(c)
    BY DEF StoresKept
<1>2. \A t : Pending(c, t)' <=> Pending(c, t)
    BY DEF Pending, Phase
<1>3. view'[c].current \subseteq Server
    BY DEF Inv, TypeInv, ViewRec
<1>4. ViewKept(c)
    BY <1>2, <1>3 DEF ViewKept, SameContents
<1>5. TransKept(c)
    BY DEF TransKept, Led, Copies, Unlabelled
<1>6. acked' \subseteq Range(db[c].data)
    BY DEF Led, AckedKept
<1> QED
    BY <1>1, <1>4, <1>5, <1>6, TermStep

\* The end of the term, and the expiry of a vote.
LEMMA ExpireLed ==
    ASSUME Inv, Inv', NEW c \in Server, Led(c), Expire \/ \E v \in Server : Forget(v)
    PROVE  Led(c)'
<1>1. OnlySite(c) /\ NoneNewer(c) /\ Copies(c)
    BY DEF Led
<1>2. UNCHANGED <<db, view, task, trans, acked>>
    BY DEF Expire, Forget
<1>3. \/ rec' = rec /\ site' = site
      \/ site = c /\ site' = None /\ rec' = [rec EXCEPT ![c] = {}]
    BY <1>1 DEF Expire, Forget, OnlySite
<1>4. rec \in [Server -> SUBSET Flags]
    BY DEF Inv, TypeInv
<1>5. OnlySite(c)'
    BY <1>1, <1>2, <1>3, <1>4 DEF OnlySite, Others
<1>6. RecoveryKept(c)
    BY <1>1, <1>2, <1>3, <1>4, ReplicationAssumption
       DEF RecoveryKept, NoneNewer, Copies, Unlabelled
<1>7. \A t \in Server : SameContents(db[t], db'[t])
    BY <1>2 DEF SameContents
<1> QED
    BY <1>2, <1>5, <1>6, <1>7, QuietStep

\* A probe.
LEMMA ProbeLed ==
    ASSUME Inv, Inv', NEW c \in Server, Led(c), NEW s \in Server, NEW t \in Server, Probe(s, t)
    PROVE  Led(c)'
<1>1. OnlySite(c) /\ NoneNewer(c) /\ Copies(c)
    BY DEF Led
<1>2. UNCHANGED <<site, db, task, trans, acked>> /\ rec' = [rec EXCEPT ![s] = rec[s] \ {"found"}]
    BY DEF Probe, siteVars, Inv, TypeInv
<1>3. rec \in [Server -> SUBSET Flags] /\ view \in [Server -> ViewRec]
    BY DEF Inv, TypeInv
<1>4. view'[c].current = view[c].current /\ view'[c].known = view[c].known
    <2>1. view' = [view EXCEPT ![s] = [view[s] EXCEPT !.up = view[s].up \cup {t}]]
        BY <1>3 DEF Probe, ViewRec
    <2>2. view[s] \in ViewRec
        BY <1>3
    <2>3. /\ [view[s] EXCEPT !.up = view[s].up \cup {t}].current = view[s].current
          /\ [view[s] EXCEPT !.up = view[s].up \cup {t}].known = view[s].known
        BY <2>2 DEF ViewRec
    <2> QED
        BY <1>3, <2>1, <2>3
<1>5. OnlySite(c)'
    BY <1>1, <1>2, <1>3 DEF OnlySite, Others
<1>6. RecoveryKept(c)
    BY <1>1, <1>2, <1>3 DEF RecoveryKept, NoneNewer, Copies, Unlabelled
<1>7. \A u \in Server : SameContents(db[u], db'[u])
    BY <1>2 DEF SameContents
<1> QED
    BY <1>2, <1>4, <1>5, <1>6, <1>7, QuietStep

\* A beacon.
LEMMA BeaconLed ==
    ASSUME Inv, Inv', NEW c \in Server, Led(c), NEW s \in Server, NEW v \in Server, Beacon(s, v)
    PROVE  Led(c)'
<1>1. OnlySite(c) /\ NoneNewer(c) /\ Copies(c) /\ s = c
    BY ActorIsSite DEF Led, Beacon
<1>2. UNCHANGED <<site, rec, task, trans, acked>>
    BY DEF Beacon
<1>3. db \in [Server -> Database] /\ view \in [Server -> ViewRec]
    BY DEF Inv, TypeInv
<1>4. view'[c].current = view[c].current /\ view'[c].known = view[c].known
    <2>1. view[c] \in ViewRec
        BY <1>3
    <2>2. \E U, H : view' = [view EXCEPT ![c] = [view[c] EXCEPT !.up = U, !.heard = H]]
        <3>1. [view[c] EXCEPT !.heard = view[c].heard \cup {v}]
                  = [view[c] EXCEPT !.up = view[c].up, !.heard = view[c].heard \cup {v}]
            BY <2>1 DEF ViewRec
        <3>2. \/ view' = [view EXCEPT ![c] = [view[c] EXCEPT !.heard = view[c].heard \cup {v}]]
              \/ view' = [view EXCEPT ![c] = [view[c] EXCEPT !.up = view[c].up \ {v},
                                                             !.heard = view[c].heard \ {v}]]
            BY <1>1, <1>3, <2>1 DEF Beacon, ViewRec
        <3> QED
            BY <3>1, <3>2
    <2>3. \A U, H : /\ [view[c] EXCEPT !.up = U, !.heard = H].current = view[c].current
                    /\ [view[c] EXCEPT !.up = U, !.heard = H].known = view[c].known
        BY <2>1 DEF ViewRec
    <2> QED
        BY <1>3, <2>2, <2>3
<1>5. OnlySite(c)'
    BY <1>1, <1>2 DEF OnlySite, Others
<1>6. RecoveryKept(c)
    BY <1>1, <1>2 DEF RecoveryKept, NoneNewer, Copies, Unlabelled
<1>7. ASSUME NEW u \in Server PROVE SameContents(db[u], db'[u])
    <2>1. Tid(c) \in Version /\ db[c].version \in Version /\ db[u] \in Database
        BY <1>3, TidType, DatabaseFacts DEF Inv
    <2>2. SameContents(db[u], VotedFor(db[u], db[c].version, Tid(c))) /\ SameContents(db[u], db[u])
        BY <2>1, ContentsFacts
    <2>3. db'[u] = db[u] \/ db'[u] = VotedFor(db[u], db[c].version, Tid(c))
        BY <1>1, <1>3 DEF Beacon
    <2> QED
        BY <2>2, <2>3
<1> QED
    BY <1>2, <1>4, <1>5, <1>6, <1>7, QuietStep

\* c asks the others for their versions, of which none is newer than its own.
LEMMA StartFindLed ==
    ASSUME Inv, Inv', NEW c \in Server, Led(c), NEW s \in Server, StartFind(s)
    PROVE  Led(c)'
<1>1. OnlySite(c) /\ NoneNewer(c) /\ LabelsHold(c) /\ StartFind(c)
    <2>1. OnlySite(c) /\ NoneNewer(c) /\ LabelsHold(c) /\ s = c
        BY ActorIsSite DEF Led, StartFind
    <2> QED
        BY <2>1
<1>2. UNCHANGED <<site, db, rec, trans, acked>>
    BY DEF StartFind, siteVars
<1>3. /\ view \in [Server -> ViewRec] /\ task \in [Server -> TaskRec]
      /\ db[c].version \in Version
    BY DatabaseFacts DEF Inv, TypeInv
<1>4. PICK R \in SUBSET view[c].up :
          LET labels == {db[t].label : t \in R}
              best == {t \in R : /\ Newer(db[t].label, NoVersion)
                                 /\ \A l \in labels : ~Newer(l, db[t].label)}
          IN  /\ \E b \in IF best = {} THEN {None} ELSE best :
                    task' = [task EXCEPT ![c] = [Idle EXCEPT
                        !.phase = "find", !.enough = EnoughCalls(Cardinality(R)), !.best = b,
                        !.newest = IF b = None THEN NoVersion ELSE db[b].label]]
              /\ view' = [view EXCEPT ![c].known = [t \in Server |->
                                                       IF t \in R THEN db[t].label ELSE @[t]]]
    BY <1>1 DEF StartFind
<1>5. PICK b \in R \cup {None} :
          task' = [task EXCEPT ![c] = [Idle EXCEPT
              !.phase = "find", !.enough = EnoughCalls(Cardinality(R)), !.best = b,
              !.newest = IF b = None THEN NoVersion ELSE db[b].label]]
    BY <1>4
<1>6. task'[c].phase = "find" /\ task'[c].newest \in {NoVersion} \cup {db[t].label : t \in Server}
    <2>1. b = None \/ b \in Server
        BY <1>3 DEF ViewRec
    <2> DEFINE v == IF b = None THEN NoVersion ELSE db[b].label
               e == EnoughCalls(Cardinality(R))
               k == [Idle EXCEPT !.phase = "find", !.enough = e, !.best = b, !.newest = v]
    <2>2. v \in {NoVersion} \cup {db[t].label : t \in Server} /\ task'[c] = k
        BY <1>3, <1>5, <2>1
    <2> HIDE DEF v, e
    <2>3. k.phase = "find" /\ k.newest = v
        BY DEF Idle
    <2> QED
        BY <2>2, <2>3
<1>7. ~Newer(task'[c].newest, db[c].version)
    BY <1>1, <1>3, <1>6, NewerFacts DEF NoneNewer
<1>8. /\ view'[c].current = view[c].current
      /\ \A t \in Server : view'[c].known[t] \in {view[c].known[t], db[t].label}
    <2> DEFINE k == [t \in Server |-> IF t \in R THEN db[t].label ELSE view[c].known[t]]
    <2>1. view[c] \in ViewRec
        BY <1>3
    <2>2. view' = [view EXCEPT ![c] = [view[c] EXCEPT !.known = k]]
        BY <1>4
    <2>3. \A t \in Server : k[t] \in {view[c].known[t], db[t].label}
        OBVIOUS
    <2> HIDE DEF k
    <2>4. /\ [view[c] EXCEPT !.known = k].current = view[c].current
          /\ [view[c] EXCEPT !.known = k].known = k
        BY <2>1 DEF ViewRec
    <2> QED
        BY <1>3, <2>2, <2>3, <2>4
<1>9. OnlySite(c)'
    BY <1>1, <1>2, <1>3, <1>5 DEF OnlySite, Others
<1>10. RecoveryKept(c)
    BY <1>1, <1>2, <1>6, <1>7 DEF RecoveryKept, NoneNewer
<1>11. \A t \in Server : SameContents(db[t], db'[t])
    BY <1>2 DEF SameContents
<1> QED
    BY <1>2, <1>8, <1>9, <1>10, <1>11, QuietStep

\* The thread starts or has finished to send the database.
LEMMA SendingLed ==
    ASSUME Inv, Inv', NEW c \in Server, Led(c), NEW s \in Server, StartSend(s) \/ FinishSend(s)
    PROVE  Led(c)'
<1>1. OnlySite(c) /\ NoneNewer(c) /\ Copies(c) /\ s = c
    BY ActorIsSite DEF Led, StartSend, FinishSend
<1>2. UNCHANGED <<site, db, view, trans, acked>>
    BY DEF StartSend, FinishSend, siteVars
<1>3. /\ task \in [Server -> TaskRec] /\ rec \in [Server -> SUBSET Flags]
      /\ db[c].version \in Version
    BY DatabaseFacts DEF Inv, TypeInv
<1>4. \/ rec' = rec
      \/ rec' = [rec EXCEPT ![c] = rec[c] \cup {"sent"}]
    BY <1>1, <1>3 DEF StartSend, FinishSend
<1>5. /\ \A t \in Others(c) : task'[t] = task[t]
      /\ \/ task[c].phase = "await" /\ task'[c].phase = "send"
            /\ task'[c].newest = task[c].newest
         \/ task'[c] = Idle
    BY <1>1, <1>3 DEF StartSend, FinishSend, Others, TaskRec
<1>6. OnlySite(c)'
    BY <1>1, <1>2, <1>3, <1>4, <1>5 DEF OnlySite, Others
<1>7. Idle.phase = "idle" /\ Idle.newest = NoVersion
    BY DEF Idle
<1>8. /\ task'[c].phase # "fetch" /\ ~Newer(task'[c].newest, db[c].version)
      /\ db[c].version.epoch = 1 /\ Server # {c} => task'[c].phase \in {"idle", "find"}
    BY <1>1, <1>3, <1>5, <1>7, NewerFacts DEF NoneNewer, Copies, Unlabelled
<1>9. RecoveryKept(c)
    BY <1>1, <1>2, <1>3, <1>4, <1>8 DEF RecoveryKept, NoneNewer
<1>10. \A t \in Server : SameContents(db[t], db'[t])
    BY <1>2 DEF SameContents
<1> QED
    BY <1>2, <1>6, <1>9, <1>10, QuietStep

\* A crash.
LEMMA CrashLed ==
    ASSUME Inv, Inv', NEW c \in Server, Led(c), NEW s \in Server, Crash(s)
    PROVE  Led(c)'
<1>1. OnlySite(c) /\ NoneNewer(c) /\ LabelsHold(c) /\ AckedKept(c) /\ Copies(c)
    BY DEF Led
<1>2. /\ view \in [Server -> ViewRec] /\ db \in [Server -> Database]
      /\ task \in [Server -> TaskRec] /\ rec \in [Server -> SUBSET Flags]
      /\ trans \in [Server -> TransRec \cup {NoTrans}] /\ db[c].version \in Version
    BY DatabaseFacts DEF Inv, TypeInv
<1>3. /\ acked' = acked /\ rec' = [rec EXCEPT ![s] = {}] /\ task' = [task EXCEPT ![s] = Idle]
      /\ trans' = [trans EXCEPT ![s] = NoTrans]
      /\ site' = site \/ site' = None
      /\ site = s => site' = None
    BY DEF Crash
<1>4. ASSUME NEW t \in Server PROVE SameContents(db[t], db'[t])
    <2>1. CASE t # s
        BY <1>2, <2>1 DEF Crash, SameContents
    <2>2. CASE t = s
        <3>1. db[s] \in Database /\ db[s].label = db[s].version
            BY <1>1, <1>2 DEF LabelsHold
        <3>2. db'[s] = [db[s] EXCEPT !.version = db[s].label, !.told = NoVersion,
                                     !.remote = NoTrans]
            BY <1>2 DEF Crash
        <3> QED
            BY <2>2, <3>1, <3>2 DEF SameContents, Database
    <2> QED
        BY <2>1, <2>2
<1>5. Idle.phase = "idle" /\ Idle.newest = NoVersion
    BY DEF Idle
<1>6. OnlySite(c)'
    BY <1>1, <1>2, <1>3, <1>5 DEF OnlySite, Others
<1>7. PICK T \in SUBSET Others(s) :
          view' = [t \in Server |->
                   IF t = s THEN [NewView(s) EXCEPT !.up = T]
                   ELSE IF t \in T THEN [view[t] EXCEPT !.heard = view[t].heard \ {s},
                                                        !.current = view[t].current \ {s}]
                   ELSE view[t]]
    BY DEF Crash
<1>8. CASE s # c
    <2>1. RecoveryKept(c)
        BY <1>1, <1>2, <1>3, <1>8, ReplicationAssumption
           DEF RecoveryKept, NoneNewer, Copies, Unlabelled
    <2>2. view'[c] \in {view[c], [view[c] EXCEPT !.heard = view[c].heard \ {s},
                                                 !.current = view[c].current \ {s}]}
        BY <1>7, <1>8
    <2>3. view'[c].current \subseteq view[c].current /\ view'[c].known = view[c].known
        <3>1. view[c] \in ViewRec
            BY <1>2
        <3> QED
            BY <2>2, <3>1 DEF ViewRec
    <2>4. trans'[c] = trans[c]
        BY <1>2, <1>3, <1>8
    <2> QED
        BY <1>3, <1>4, <1>6, <2>1, <2>3, <2>4, QuietStep
<1>9. CASE s = c
    <2>1. RecoveryKept(c)
        <3>1. site' # c
            BY <1>1, <1>3, <1>9, ReplicationAssumption DEF OnlySite
        <3>2. rec'[c] = {} /\ task'[c] = Idle
            BY <1>2, <1>3, <1>9
        <3> QED
            BY <1>2, <1>5, <3>1, <3>2, NewerFacts DEF RecoveryKept
    <2>2. view'[c].current = {} /\ view'[c].known = [t \in Server |-> NoVersion]
        BY <1>7, <1>9 DEF NewView
    <2>3. StoresKept(c)
        BY <1>4 DEF StoresKept
    <2>4. ViewKept(c)
        BY <2>2 DEF ViewKept
    <2>5. TransKept(c)
        BY <1>2, <1>3, <1>9 DEF TransKept
    <2>6. acked' \subseteq Range(db[c].data)
        BY <1>1, <1>3 DEF AckedKept
    <2> QED
        BY <1>6, <2>1, <2>3, <2>4, <2>5, <2>6, TermStep
<1> QED
    BY <1>8, <1>9

-----------------------------------------------------------------------------
(* The transactions of c.                                                  *)

\* Without an answer there is no quorum, unless c is the only server.
LEMMA NoQuorumAlone ==
    ASSUME NEW c \in Server, Server # {c}
    PROVE  ~EnoughCalls(0)
<1>1. IsFiniteSet(Server) /\ {c} \subseteq Server
    BY ReplicationAssumption
<1>2. Cardinality({c}) = 1 /\ Cardinality(Server) \in Nat
    BY <1>1, FS_Singleton, FS_CardinalityType
<1>3. Cardinality({c}) <= Cardinality(Server) /\ Cardinality({c}) # Cardinality(Server)
    BY <1>1, FS_Subset
<1>4. Cardinality(Server) >= 2
    BY <1>2, <1>3
<1> QED
    BY <1>2, <1>4 DEF EnoughCalls, Quorum

\* A step of the transaction of c that makes no call and does not commit.
LEMMA OwnRound ==
    ASSUME Inv, Inv', NEW c \in Server, Led(c), UNCHANGED <<site, db, rec, task>>,
           NEW x, trans' = [trans EXCEPT ![c] = x],
           x # NoTrans => x.phase \notin {"setversion", "commit"},
           x # NoTrans /\ (x.phase = "wait" \/ x.won) =>
              /\ trans[c] # NoTrans /\ x.id = trans[c].id
              /\ trans[c].phase \in {"commit", "wait"} \/ trans[c].won,
           x # NoTrans /\ db[c].version.epoch = 1 /\ Server # {c} =>
              x.phase \in {"begin", "undo begin"} /\ x.ok = 0,
           view'[c].known = view[c].known, view'[c].current \subseteq view[c].current,
           \A t \in view'[c].current : ~Pending(c, t),
           \/ acked' = acked
           \/ trans[c] # NoTrans /\ trans[c].won /\ acked' = acked \cup {trans[c].id}
    PROVE  Led(c)'
<1>1. OnlySite(c) /\ NoneNewer(c) /\ AckedKept(c) /\ Copies(c)
    BY DEF Led
<1>2. trans'[c] = x /\ \A t \in Others(c) : trans'[t] = trans[t]
    BY DEF Inv, TypeInv, Others
<1>3. OnlySite(c)'
    BY <1>1, <1>2 DEF OnlySite, Others
<1>4. RecoveryKept(c)
    BY <1>1 DEF RecoveryKept, NoneNewer, Copies, Unlabelled
<1>5. StoresKept(c)
    BY ContentsFacts DEF StoresKept
<1>6. ViewKept(c)
    BY ContentsFacts DEF ViewKept
<1>7. TransKept(c)
    BY <1>2 DEF TransKept
<1>8. acked' \subseteq Range(db[c].data)
    BY <1>1 DEF AckedKept
<1> QED
    BY <1>3, <1>4, <1>5, <1>6, <1>7, <1>8, TermStep

\* The end of a round leaves out those that were not called.
LEMMA RoundEndsView ==
    ASSUME Inv, NEW c \in Server, NEW p \in Phases, RoundEnds(c, p)
    PROVE  /\ trans[c] # NoTrans /\ trans[c] \in TransRec /\ trans[c].phase = p
           /\ view'[c].known = view[c].known
           /\ view'[c].current = view[c].current \ trans[c].todo
<1>1. trans[c] # NoTrans /\ trans[c] \in TransRec /\ trans[c].phase = p
    BY DEF RoundEnds, Phase, Phases, Rounds, Inv, TypeInv
<1>2. view \in [Server -> ViewRec] /\ view[c] \in ViewRec
    BY DEF Inv, TypeInv
<1> DEFINE w == [view[c] EXCEPT !.current = view[c].current \ trans[c].todo]
<1>3. view'[c] = w
    BY <1>2 DEF RoundEnds
<1>4. w.known = view[c].known /\ w.current = view[c].current \ trans[c].todo
    BY <1>2 DEF ViewRec
<1> QED
    BY <1>1, <1>3, <1>4

\* A new transaction.
LEMMA BeginTransLed ==
    ASSUME Inv, Inv', NEW c \in Server, Led(c), NEW s \in Server, BeginTrans(s)
    PROVE  Led(c)'
<1>1. s = c
    BY ActorIsSite DEF Led, BeginTrans
<1> DEFINE x == Round(c, NewTrans(c), "begin")
<1>2. trans' = [trans EXCEPT ![c] = x] /\ UNCHANGED <<site, db, rec, task, view, acked>>
    BY <1>1 DEF BeginTrans, Continue, siteVars
<1>3. x.phase = "begin" /\ x.ok = 0 /\ x.won = FALSE
    BY DEF Round, NewTrans
<1>4. trans[c] = NoTrans
    BY <1>1 DEF BeginTrans, Writing
<1>5. \A t : ~Pending(c, t)
    BY <1>4 DEF Pending, Phase
<1> HIDE DEF x
<1> QED
    BY <1>2, <1>3, <1>5, OwnRound

\* The steps of a transaction that neither begin one nor change a database.
LEMMA RoundsLed ==
    ASSUME Inv, Inv', NEW c \in Server, Led(c),
           \/ BeginEnds(c) \/ Write(c) \/ WriteEnds(c) \/ UndoEnds(c)
           \/ AbortTrans(c) \/ AbortEnds(c) \/ EndTrans(c) \/ CommitEnds(c) \/ CommitWait(c)
           \/ ReleaseEnds(c)
    PROVE  Led(c)'
<1>1. UNCHANGED <<site, db, rec, task>>
    BY DEF BeginEnds, Write, WriteEnds, UndoEnds, AbortTrans, AbortEnds, EndTrans, CommitEnds,
           CommitWait, ReleaseEnds, siteVars
<1>2. {"begin", "write", "commit", "release", "abort", "undo begin", "undo write",
       "open", "written", "ending", "wait"} \subseteq Phases
    BY DEF Phases, Rounds
<1>3. trans[c] # NoTrans /\ trans[c] \in TransRec
    <2>1. Phase(c) # "none"
        BY DEF BeginEnds, Write, WriteEnds, UndoEnds, AbortTrans, AbortEnds, EndTrans,
               CommitEnds, CommitWait, ReleaseEnds, RoundEnds
    <2> QED
        BY <2>1 DEF Phase, Inv, TypeInv
<1> DEFINE p == trans[c].phase
<1>4. db[c].version.epoch = 1 /\ Server # {c} =>
          p \in {"begin", "undo begin"} /\ trans[c].ok = 0
    BY <1>3 DEF Led, Copies, Unlabelled
<1>5. /\ p # "setversion"
      /\ view'[c].known = view[c].known /\ view'[c].current \subseteq view[c].current
      /\ \A t \in view'[c].current : ~Pending(c, t)
    <2>1. CASE Write(c) \/ AbortTrans(c) \/ EndTrans(c) \/ CommitWait(c)
        <3>1. view' = view /\ p \in {"open", "written", "wait"}
            BY <1>3, <2>1 DEF Write, AbortTrans, EndTrans, CommitWait, Phase
        <3> QED
            BY <1>3, <3>1 DEF Pending, Phase
    <2>2. CASE \/ BeginEnds(c) \/ WriteEnds(c) \/ UndoEnds(c) \/ AbortEnds(c)
               \/ CommitEnds(c) \/ ReleaseEnds(c)
        <3>1. PICK q \in {"begin", "write", "undo begin", "undo write", "abort", "commit",
                          "release"} : RoundEnds(c, q)
            BY <2>2 DEF BeginEnds, WriteEnds, UndoEnds, AbortEnds, CommitEnds, ReleaseEnds
        <3>2. /\ p = q /\ view'[c].known = view[c].known
              /\ view'[c].current = view[c].current \ trans[c].todo
            BY <1>2, <3>1, RoundEndsView
        <3> QED
            BY <3>1, <3>2 DEF Pending
    <2> QED
        BY <2>1, <2>2
\* A transaction that goes on.
<1>6. ASSUME NEW x, Continue(c, x), x.phase \notin {"setversion", "commit"}, x.id = trans[c].id,
             x.phase = "wait" \/ x.won => p \in {"commit", "wait"} \/ trans[c].won,
             db[c].version.epoch = 1 /\ Server # {c} => x.phase = "undo begin" /\ x.ok = 0
      PROVE  Led(c)'
    <2>1. trans' = [trans EXCEPT ![c] = x] /\ acked' = acked
        BY <1>6 DEF Continue
    <2> QED
        BY <1>1, <1>3, <1>5, <1>6, <2>1, OwnRound
\* A transaction that ends.
<1>7. CASE End(c)
    <2>1. trans' = [trans EXCEPT ![c] = NoTrans]
        BY <1>7 DEF End
    <2>2. acked' = acked \/ (trans[c].won /\ acked' = acked \cup {trans[c].id})
        BY <1>7 DEF End
    <2> DEFINE x == NoTrans
    <2>3. trans' = [trans EXCEPT ![c] = x] /\ x = NoTrans
        BY <2>1
    <2> HIDE DEF x
    <2> QED
        BY <1>1, <1>3, <1>5, <2>2, <2>3, OwnRound
<1>8. CASE BeginEnds(c)
    <2>1. p = "begin"
        BY <1>2, <1>8, RoundEndsView DEF BeginEnds
    <2>2. CASE EnoughCalls(trans[c].ok)
        <3> DEFINE x == [trans[c] EXCEPT !.phase = "open", !.todo = {}]
        <3>1. Continue(c, x)
            BY <1>8, <2>2 DEF BeginEnds
        <3>2. x.id = trans[c].id /\ x.phase = "open" /\ x.won = trans[c].won
            BY <1>3 DEF Round, TransRec, AbortLocal
        <3>3. ~(db[c].version.epoch = 1 /\ Server # {c})
            BY <1>4, <2>2, NoQuorumAlone
        <3> HIDE DEF x
        <3> QED
            BY <1>6, <3>1, <3>2, <3>3
    <2>3. CASE ~EnoughCalls(trans[c].ok)
        <3> DEFINE x == Round(c, AbortLocal(trans[c]), "undo begin")
        <3>1. Continue(c, x)
            BY <1>8, <2>3 DEF BeginEnds
        <3>2. /\ x.id = trans[c].id /\ x.phase = "undo begin" /\ x.ok = 0
              /\ x.won = trans[c].won
            BY <1>3 DEF Round, TransRec, AbortLocal
        <3> HIDE DEF x
        <3> QED
            BY <1>6, <3>1, <3>2
    <2> QED
        BY <2>2, <2>3
<1>9. CASE WriteEnds(c)
    <2>1. p = "write"
        BY <1>2, <1>9, RoundEndsView DEF WriteEnds
    <2>2. CASE EnoughCalls(trans[c].ok)
        <3> DEFINE x == [trans[c] EXCEPT !.phase = "written", !.todo = {}]
        <3>1. Continue(c, x)
            BY <1>9, <2>2 DEF WriteEnds
        <3>2. x.id = trans[c].id /\ x.phase = "written" /\ x.won = trans[c].won
            BY <1>3 DEF Round, TransRec, AbortLocal
        <3> HIDE DEF x
        <3> QED
            BY <1>4, <1>6, <2>1, <3>1, <3>2
    <2>3. CASE ~EnoughCalls(trans[c].ok)
        <3> DEFINE x == Round(c, AbortLocal(trans[c]), "undo write")
        <3>1. Continue(c, x)
            BY <1>9, <2>3 DEF WriteEnds
        <3>2. x.id = trans[c].id /\ x.phase = "undo write" /\ x.won = trans[c].won
            BY <1>3 DEF Round, TransRec, AbortLocal
        <3> HIDE DEF x
        <3> QED
            BY <1>4, <1>6, <2>1, <3>1, <3>2
    <2> QED
        BY <2>2, <2>3
<1>10. CASE CommitEnds(c)
    <2>1. p = "commit"
        BY <1>2, <1>10, RoundEndsView DEF CommitEnds
    <2>2. CASE EnoughCalls(trans[c].ok)
        <3> DEFINE x == [trans[c] EXCEPT !.phase = "wait", !.todo = {}]
        <3>1. Continue(c, x)
            BY <1>10, <2>2 DEF CommitEnds
        <3>2. x.id = trans[c].id /\ x.phase = "wait" /\ x.won = trans[c].won
            BY <1>3 DEF Round, TransRec, AbortLocal
        <3> HIDE DEF x
        <3> QED
            BY <1>4, <1>6, <2>1, <3>1, <3>2
    <2>3. CASE ~EnoughCalls(trans[c].ok)
        <3> DEFINE x == Round(c, trans[c], "release")
        <3>1. Continue(c, x)
            BY <1>10, <2>3 DEF CommitEnds
        <3>2. x.id = trans[c].id /\ x.phase = "release" /\ x.won = trans[c].won
            BY <1>3 DEF Round, TransRec, AbortLocal
        <3> HIDE DEF x
        <3> QED
            BY <1>4, <1>6, <2>1, <3>1, <3>2
    <2> QED
        BY <2>2, <2>3
<1>11. CASE AbortEnds(c) \/ ReleaseEnds(c)
    BY <1>7, <1>11 DEF AbortEnds, ReleaseEnds
<1>12. CASE UndoEnds(c) /\ ~End(c)
    <2> DEFINE x == [trans[c] EXCEPT !.phase = "open", !.todo = {}]
    <2>1. Continue(c, x) /\ RoundEnds(c, "undo write")
        BY <1>12 DEF UndoEnds
    <2>2. p = "undo write"
        BY <1>2, <2>1, RoundEndsView
    <2>3. x.id = trans[c].id /\ x.phase = "open" /\ x.won = trans[c].won
        BY <1>3 DEF Round, TransRec, AbortLocal
    <2> HIDE DEF x
    <2> QED
        BY <1>4, <1>6, <2>1, <2>2, <2>3
<1>13. CASE Write(c)
    <2> DEFINE x == Round(c, trans[c], "write")
    <2>1. Continue(c, x) /\ p = "open"
        BY <1>3, <1>13 DEF Write, Phase
    <2>2. x.id = trans[c].id /\ x.phase = "write" /\ x.won = trans[c].won
        BY <1>3 DEF Round, TransRec, AbortLocal
    <2> HIDE DEF x
    <2> QED
        BY <1>4, <1>6, <2>1, <2>2
<1>14. CASE AbortTrans(c) /\ ~End(c)
    <2> DEFINE x == Round(c, trans[c], "abort")
    <2>1. Continue(c, x) /\ p \in {"open", "written"}
        BY <1>3, <1>14 DEF AbortTrans, Phase
    <2>2. x.id = trans[c].id /\ x.phase = "abort" /\ x.won = trans[c].won
        BY <1>3 DEF Round, TransRec, AbortLocal
    <2> HIDE DEF x
    <2> QED
        BY <1>4, <1>6, <2>1, <2>2
<1>15. CASE EndTrans(c) /\ ~End(c)
    <2> DEFINE x == [trans[c] EXCEPT !.phase = "ending"]
    <2>1. Continue(c, x) /\ p = "written"
        BY <1>3, <1>15 DEF EndTrans, Phase
    <2>2. x.id = trans[c].id /\ x.phase = "ending" /\ x.won = trans[c].won
        BY <1>3 DEF Round, TransRec, AbortLocal
    <2> HIDE DEF x
    <2> QED
        BY <1>4, <1>6, <2>1, <2>2
<1>16. CASE CommitWait(c)
    <2> DEFINE x == Round(c, [trans[c] EXCEPT !.won = TRUE], "release")
    <2>1. Continue(c, x) /\ p = "wait"
        BY <1>3, <1>16 DEF CommitWait, Phase
    <2>2. x.id = trans[c].id /\ x.phase = "release"
        BY <1>3 DEF Round, TransRec, AbortLocal
    <2> HIDE DEF x
    <2> QED
        BY <1>4, <1>6, <2>1, <2>2
<1> QED
    BY <1>7, <1>8, <1>9, <1>10, <1>11, <1>12, <1>13, <1>14, <1>15, <1>16

-----------------------------------------------------------------------------
(* Steps by which the database of c gets a newer label.                    *)

\* What such a step keeps, whatever it does to the transaction of c.
LEMMA GrowStep ==
    ASSUME Inv, Inv', NEW c \in Server, Led(c), NEW w \in Version, Newer(w, db[c].version),
           db'[c].label = w, db'[c].version = w,
           \A t \in Others(c) : SameContents(db[t], db'[t]),
           \/ db'[c].data = db[c].data
           \/ \E id \in Trans : db'[c].data = Append(db[c].data, id),
           Server # {c} => Len(db'[c].data) = w.counter - 1 /\ w.epoch # 1,
           view'[c].known = view[c].known
    PROVE  /\ \A t \in Server : /\ ~Newer(db'[t].label, w) /\ ~Newer(view'[c].known[t], w)
                                /\ db'[t].version = db'[t].label
           /\ ~Newer(task[c].newest, w) /\ ~Newer(NoVersion, w)
           /\ Range(db[c].data) \subseteq Range(db'[c].data)
           /\ Server # {c} => /\ \A t \in Server : db'[t].label.epoch > 0 => Copy(t, c)'
                              /\ Unlabelled(c)' /\ KnownAgree(c)'
<1> DEFINE v == db[c].version
<1>1. NoneNewer(c) /\ LabelsHold(c) /\ Copies(c)
    BY DEF Led
<1>2. /\ \A t \in Server : /\ db[t].label \in Version /\ db[t].version \in Version
                           /\ db[t].data \in Seq(Trans) /\ db'[t].data \in Seq(Trans)
                           /\ view[c].known[t] \in Version
      /\ task[c].newest \in Version
    <2>1. \A t \in Server : db[t] \in Database /\ db'[t] \in Database
        BY DEF Inv, TypeInv
    <2>2. view[c] \in ViewRec /\ task[c] \in TaskRec
        BY DEF Inv, TypeInv
    <2>3. \A t \in Server : view[c].known[t] \in Version
        BY <2>2 DEF ViewRec
    <2>4. task[c].newest \in Version
        BY <2>2 DEF TaskRec
    <2> QED
        BY <2>1, <2>3, <2>4, DatabaseFacts
<1>3. /\ \A t \in Server : /\ ~Newer(db[t].label, w) /\ ~Newer(view[c].known[t], w)
                           /\ view[c].known[t] # w
      /\ ~Newer(task[c].newest, w) /\ ~Newer(w, w) /\ ~Newer(NoVersion, w)
    BY <1>1, <1>2, NewerFacts DEF NoneNewer
<1>4. ASSUME NEW t \in Server
      PROVE  /\ ~Newer(db'[t].label, w) /\ ~Newer(view'[c].known[t], w)
             /\ db'[t].version = db'[t].label
    <2>1. t = c \/ SameContents(db[t], db'[t])
        BY DEF Others
    <2> QED
        BY <1>1, <1>3, <2>1 DEF LabelsHold, SameContents
<1>5. /\ Range(db[c].data) \subseteq Range(db'[c].data)
      /\ Len(db'[c].data) \in Nat /\ Len(db[c].data) \in Nat
      /\ Len(db[c].data) <= Len(db'[c].data)
      /\ \A i \in 1..Len(db[c].data) : db'[c].data[i] = db[c].data[i]
    <2>1. CASE db'[c].data = db[c].data
        BY <1>2, <2>1
    <2>2. CASE \E id \in Trans : db'[c].data = Append(db[c].data, id)
        <3>1. PICK id \in Trans : db'[c].data = Append(db[c].data, id)
            BY <2>2
        <3>2. db[c].data \in Seq(Trans) /\ Len(db[c].data) \in Nat
            BY <1>2
        <3>3. /\ Len(db'[c].data) = Len(db[c].data) + 1
              /\ \A i \in 1..Len(db[c].data) : db'[c].data[i] = db[c].data[i]
              /\ Range(db'[c].data) = Range(db[c].data) \cup {id}
            BY <3>1, <3>2, RangeFacts
        <3> QED
            BY <3>2, <3>3
    <2> QED
        BY <2>1, <2>2
<1>6. ASSUME Server # {c} PROVE \A t \in Server : db'[t].label.epoch > 0 => Copy(t, c)'
    <2> SUFFICES ASSUME NEW t \in Server, db'[t].label.epoch > 0 PROVE Copy(t, c)'
        OBVIOUS
    <2>1. CASE t = c
        BY <1>5, <1>6, <2>1 DEF Copy
    <2>2. CASE t # c
        <3>1. SameContents(db[t], db'[t])
            BY <2>2 DEF Others
        <3>2. Copy(t, c)
            BY <1>1, <1>6, <3>1 DEF Copies, SameContents
        <3>3. Len(db[t].data) \in Nat
            BY <1>2
        <3>4. Len(db'[t].data) = db'[t].label.counter - 1
            BY <3>1, <3>2 DEF Copy, SameContents
        <3>5. Len(db'[t].data) <= Len(db'[c].data)
            BY <1>5, <3>1, <3>2, <3>3 DEF Copy, SameContents
        <3>6. ASSUME NEW i \in 1..Len(db'[t].data) PROVE db'[t].data[i] = db'[c].data[i]
            <4>1. i \in 1..Len(db[t].data) /\ i \in 1..Len(db[c].data)
                BY <1>5, <3>1, <3>2, <3>3 DEF Copy, SameContents
            <4> QED
                BY <1>5, <3>1, <3>2, <4>1 DEF Copy, SameContents
        <3> QED
            BY <3>4, <3>5, <3>6 DEF Copy
    <2> QED
        BY <2>1, <2>2
<1>7. ASSUME Server # {c} PROVE Unlabelled(c)' /\ KnownAgree(c)'
    BY <1>3, <1>7 DEF Unlabelled, KnownAgree
<1> QED
    BY <1>3, <1>4, <1>5, <1>6, <1>7

\* The local part of a commit: the transaction is the last one in the database of c,
\* and servers that are current lack just this one.
LEMMA LocalCommit ==
    ASSUME Inv, Inv', NEW c \in Server, Led(c), trans[c] \in TransRec, trans[c] # NoTrans,
           db' = [db EXCEPT ![c] = Committed(db[c], trans[c].id, FALSE)],
           trans' = [trans EXCEPT ![c] = Round(c, [trans[c] EXCEPT !.done = TRUE], "commit")],
           UNCHANGED <<site, rec, task, acked>>,
           view'[c].known = view[c].known, view'[c].current \subseteq view[c].current,
           \A t \in view'[c].current : ~Pending(c, t),
           Server # {c} => db[c].version.epoch # 1,
           site = c => "label" \in rec[c]
    PROVE  Led(c)'
<1> DEFINE v == db[c].version
           w == V(v.epoch, v.counter + 1)
           id == trans[c].id
           d == Committed(db[c], id, FALSE)
           x == Round(c, [trans[c] EXCEPT !.done = TRUE], "commit")
<1>1. OnlySite(c) /\ NoneNewer(c) /\ LabelsHold(c) /\ AckedKept(c) /\ Copies(c)
    BY DEF Led
<1>2. db \in [Server -> Database] /\ db[c] \in Database /\ c \notin view'[c].current
      /\ view'[c].current \subseteq Server /\ trans \in [Server -> TransRec \cup {NoTrans}]
      /\ None \notin Server
    BY ReplicationAssumption DEF Inv, TypeInv, ViewRec
<1>3. /\ v \in Version /\ w \in Version /\ Newer(w, v) /\ v.epoch \in Nat /\ v.counter \in Nat
      /\ id \in Trans /\ db[c].data \in Seq(Trans)
    BY <1>2, DatabaseFacts, TransFacts, NewerFacts, VersionFacts
<1>4. d.label = w /\ d.version = w /\ d.data = Append(db[c].data, id)
    BY <1>2 DEF Committed, Labelled, Database
<1>5. x.id = id /\ x.phase = "commit" /\ x.todo = Others(c) /\ x.won = trans[c].won
    BY DEF Round, TransRec
<1>6. w.epoch = v.epoch /\ w.counter = v.counter + 1 /\ V(w.epoch, w.counter - 1) = v
    <2>1. w.epoch = v.epoch /\ w.counter = v.counter + 1
        BY DEF V
    <2>2. w.counter - 1 = v.counter
        BY <1>3, <2>1
    <2>3. V(v.epoch, v.counter) = v
        BY <1>3 DEF V, Version
    <2> QED
        BY <2>1, <2>2, <2>3
<1>7. db'[c] = d /\ trans'[c] = x /\ \A t \in Others(c) : db'[t] = db[t] /\ trans'[t] = trans[t]
    BY <1>2 DEF Others
<1> HIDE DEF d, x, w
<1>8. /\ Len(db'[c].data) = Len(db[c].data) + 1 /\ Len(db[c].data) \in Nat
      /\ db'[c].data[Len(db'[c].data)] = id
      /\ id \in Range(db'[c].data)
    <2>1. db'[c].data = Append(db[c].data, id)
        BY <1>4, <1>7
    <2>2. Len(Append(db[c].data, id)) = Len(db[c].data) + 1
          /\ Append(db[c].data, id)[Len(db[c].data) + 1] = id
          /\ Range(Append(db[c].data, id)) = Range(db[c].data) \cup {id}
        BY <1>3, RangeFacts
    <2>3. Len(db[c].data) \in Nat
        BY <1>3
    <2> QED
        BY <2>1, <2>2, <2>3
<1>9. Server # {c} => Len(db'[c].data) = w.counter - 1 /\ w.epoch # 1
    <2> SUFFICES ASSUME Server # {c} PROVE Len(db'[c].data) = w.counter - 1 /\ w.epoch # 1
        OBVIOUS
    <2>1. v.epoch # 1 /\ db[c].label = v /\ v.epoch >= 1
        BY <1>1 DEF LabelsHold
    <2>2. Copy(c, c)
        BY <1>1, <1>3, <2>1 DEF Copies
    <2>3. Len(db[c].data) = v.counter - 1
        BY <2>1, <2>2 DEF Copy
    <2>4. w.counter - 1 = v.counter
        BY <1>3, <1>6
    <2>5. Len(db'[c].data) = v.counter
        <3> DEFINE m == Len(db'[c].data)
                   n == Len(db[c].data)
        <3>1. m = n + 1 /\ n \in Nat /\ n = v.counter - 1 /\ v.counter \in Nat
            BY <1>3, <1>8, <2>3
        <3> HIDE DEF m, n
        <3>2. m = v.counter
            BY <3>1
        <3> QED
            BY <3>2 DEF m
    <2> QED
        BY <1>6, <2>1, <2>4, <2>5
<1>10. \A t \in Others(c) : SameContents(db[t], db'[t])
    BY <1>7, ContentsFacts
<1>11. /\ \A t \in Server : /\ ~Newer(db'[t].label, w) /\ ~Newer(view'[c].known[t], w)
                            /\ db'[t].version = db'[t].label
       /\ ~Newer(task[c].newest, w)
       /\ Range(db[c].data) \subseteq Range(db'[c].data)
       /\ Server # {c} => /\ \A t \in Server : db'[t].label.epoch > 0 => Copy(t, c)'
                          /\ Unlabelled(c)' /\ KnownAgree(c)'
    <2>1. db'[c].label = w /\ db'[c].version = w
          /\ (\E i \in Trans : db'[c].data = Append(db[c].data, i))
        BY <1>3, <1>4, <1>7
    <2> HIDE DEF v
    <2> QED
        BY <1>3, <1>9, <1>10, <2>1, GrowStep DEF v
<1>12. OnlySite(c)'
    BY <1>1, <1>7 DEF OnlySite, Others
<1>13. NoneNewer(c)'
    BY <1>1, <1>4, <1>7, <1>11 DEF NoneNewer
<1>14. Phase(c)' = "commit"
    <2>1. trans'[c] # NoTrans
        <3>1. x \in TransRec
            BY <1>7 DEF x, Round, TransRec, Rounds, Phases, Others
        <3> QED
            BY <1>7, <3>1, NoTransAssumption
    <2> QED
        BY <1>5, <1>7, <2>1 DEF Phase
<1>15. LabelsHold(c)'
    BY <1>1, <1>3, <1>4, <1>6, <1>7, <1>11, <1>14 DEF LabelsHold
<1>16. AckedKept(c)'
    BY <1>1, <1>5, <1>7, <1>8, <1>11 DEF AckedKept
<1>17. ASSUME Server # {c} PROVE CurrentAgree(c)' /\ LastCommits(c)'
    <2>1. ASSUME NEW t \in view'[c].current
          PROVE  Pending(c, t)' /\ db'[t].label = Before(c)'
        <3>1. t \in Others(c) /\ t \in view[c].current /\ ~Pending(c, t)
            BY <1>2 DEF Others
        <3>2. db[t].label = v
            BY <1>1, <1>17, <3>1 DEF Copies, CurrentAgree
        <3>3. Before(c)' = V(w.epoch, w.counter - 1)
            BY <1>4, <1>7, <1>14 DEF Before
        <3> QED
            BY <1>5, <1>6, <1>7, <1>14, <3>1, <3>2, <3>3 DEF Pending
    <2>2. Len(db'[c].data) >= 1
        <3> DEFINE m == Len(db'[c].data)
                   n == Len(db[c].data)
        <3>1. m = n + 1 /\ n \in Nat
            BY <1>8
        <3> HIDE DEF m, n
        <3>2. m >= 1
            BY <3>1
        <3> QED
            BY <3>2 DEF m
    <2>3. LastCommits(c)'
        BY <1>5, <1>7, <1>8, <2>2 DEF LastCommits
    <2> QED
        BY <2>1, <2>3 DEF CurrentAgree
<1> QED
    BY <1>11, <1>12, <1>13, <1>15, <1>16, <1>17 DEF Led, Copies

\* The first commit of c gives its epoch to the database, and servers that are current
\* have the label before.
LEMMA RelabelLed ==
    ASSUME Inv, Inv', elections = 1, NEW c \in Server, Led(c), trans[c] \in TransRec,
           Phase(c) = "ending", site = c, "label" \notin rec[c], ~trans[c].done,
           db' = [db EXCEPT ![c] = Labelled(db[c], V(epoch[c], 1))],
           rec' = [rec EXCEPT ![c] = rec[c] \cup {"label"}],
           trans' = [trans EXCEPT ![c] =
               Round(c, [trans[c] EXCEPT !.old = db[c].version, !.new = V(epoch[c], 1)],
                     "setversion")],
           UNCHANGED <<site, view, task, acked>>
    PROVE  Led(c)'
<1> DEFINE v == db[c].version
           w == V(epoch[c], 1)
           d == Labelled(db[c], w)
           x == Round(c, [trans[c] EXCEPT !.old = v, !.new = w], "setversion")
<1>1. OnlySite(c) /\ NoneNewer(c) /\ LabelsHold(c) /\ AckedKept(c) /\ Copies(c)
    BY DEF Led
<1>2. /\ db \in [Server -> Database] /\ db[c] \in Database /\ c \notin view[c].current
      /\ view[c].current \subseteq Server /\ trans \in [Server -> TransRec \cup {NoTrans}]
      /\ rec \in [Server -> SUBSET Flags]
    BY DEF Inv, TypeInv, ViewRec
<1>3. epoch[c] = 3
    BY ReplicationAssumption DEF Inv, TransInv, EpochInv
<1>4. /\ v \in Version /\ w \in Version /\ w.epoch = 3 /\ w.counter = 1
      /\ v.epoch \in Nat /\ v.epoch < 3 /\ v.epoch >= 1 /\ v.counter = 1 /\ db[c].data = <<>>
    <2>1. w = V(3, 1) /\ V(3, 1) \in Version
        BY <1>3, VersionFacts
    <2>2. V(3, 1).epoch = 3 /\ V(3, 1).counter = 1
        BY DEF V
    <2>3. v \in Version /\ v.epoch \in Nat
        BY <1>2, DatabaseFacts, VersionFacts
    <2> QED
        BY <1>1, <2>1, <2>2, <2>3 DEF LabelsHold
<1> HIDE DEF w
<1>5. Newer(w, v)
    BY <1>4, NewerFacts
<1>6. d.label = w /\ d.version = w /\ d.data = <<>>
    BY <1>2, <1>4, ContentsFacts
<1>7. /\ x.id = trans[c].id /\ x.phase = "setversion" /\ x.todo = Others(c)
      /\ x.won = trans[c].won /\ x.done = trans[c].done /\ x.old = v /\ x.new = w
    BY DEF Round, TransRec
<1>8. x \in TransRec
    BY <1>4 DEF Round, TransRec, Rounds, Phases, Others
<1>9. db'[c] = d /\ trans'[c] = x /\ \A t \in Others(c) : db'[t] = db[t] /\ trans'[t] = trans[t]
    BY <1>2 DEF Others, w
<1> HIDE DEF d, x
<1>10. Phase(c)' = "setversion" /\ trans[c] # NoTrans
    BY <1>7, <1>8, <1>9, NoTransAssumption DEF Phase
<1>11. \A t \in Others(c) : SameContents(db[t], db'[t])
    BY <1>9, ContentsFacts
<1>12. Server # {c} => Len(db'[c].data) = w.counter - 1 /\ w.epoch # 1
    BY <1>4, <1>6, <1>9
<1>13. /\ \A t \in Server : /\ ~Newer(db'[t].label, w) /\ ~Newer(view'[c].known[t], w)
                            /\ db'[t].version = db'[t].label
       /\ ~Newer(task[c].newest, w)
       /\ Server # {c} => /\ \A t \in Server : db'[t].label.epoch > 0 => Copy(t, c)'
                          /\ Unlabelled(c)' /\ KnownAgree(c)'
    <2>1. db'[c].label = w /\ db'[c].version = w /\ db'[c].data = db[c].data
        BY <1>4, <1>6, <1>9
    <2> HIDE DEF v
    <2> QED
        BY <1>4, <1>5, <1>11, <1>12, <2>1, GrowStep DEF v
<1>14. OnlySite(c)'
    BY <1>1, <1>2, <1>9 DEF OnlySite, Others
<1>15. NoneNewer(c)'
    BY <1>1, <1>2, <1>6, <1>9, <1>13 DEF NoneNewer
<1>16. LabelsHold(c)'
    <2>1. "label" \in rec'[c]
        BY <1>2
    <2> QED
        BY <1>1, <1>4, <1>6, <1>7, <1>9, <1>13, <2>1 DEF LabelsHold
<1>17. AckedKept(c)'
    BY <1>1, <1>4, <1>6, <1>7, <1>9, <1>10 DEF AckedKept
<1>18. ASSUME Server # {c} PROVE CurrentAgree(c)' /\ LastCommits(c)'
    <2>1. ASSUME NEW t \in view[c].current
          PROVE  Pending(c, t)' /\ db'[t].label = Before(c)'
        <3>1. t \in Others(c) /\ ~Pending(c, t)
            BY <1>2 DEF Others, Pending
        <3>2. db[t].label = v
            BY <1>1, <1>18, <3>1 DEF Copies, CurrentAgree
        <3>3. Before(c)' = v
            BY <1>7, <1>9, <1>10 DEF Before
        <3> QED
            BY <1>7, <1>9, <1>10, <3>1, <3>2, <3>3 DEF Pending
    <2>2. LastCommits(c)'
        BY <1>10 DEF LastCommits
    <2> QED
        BY <2>1, <2>2 DEF CurrentAgree
<1> QED
    BY <1>13, <1>14, <1>15, <1>16, <1>17, <1>18 DEF Led, Copies

\* The commit at c.
LEMMA CommitLed ==
    ASSUME Inv, Inv', elections = 1, NEW c \in Server, Led(c),
           udisk_commit(c) \/ SetVersionEnds(c)
    PROVE  Led(c)'
<1>1. trans[c] # NoTrans /\ trans[c] \in TransRec
    BY DEF udisk_commit, SetVersionEnds, RoundEnds, Phase, Inv, TypeInv
<1>2. /\ db \in [Server -> Database] /\ rec \in [Server -> SUBSET Flags]
      /\ trans \in [Server -> TransRec \cup {NoTrans}]
    BY DEF Inv, TypeInv
<1>3. CASE udisk_commit(c) /\ trans[c].done
    <2> DEFINE x == Round(c, trans[c], "release")
    <2>1. /\ trans' = [trans EXCEPT ![c] = x] /\ UNCHANGED <<site, db, rec, task, view, acked>>
          /\ trans[c].phase = "ending"
        BY <1>1, <1>3 DEF udisk_commit, Continue, siteVars, Phase
    <2>2. x.id = trans[c].id /\ x.phase = "release" /\ x.won = trans[c].won
        BY <1>1 DEF Round, TransRec
    <2>3. \A t : ~Pending(c, t)
        BY <2>1 DEF Pending, Phase
    <2>4. ~(db[c].version.epoch = 1 /\ Server # {c})
        BY <1>1, <2>1 DEF Led, Copies, Unlabelled
    <2> HIDE DEF x
    <2> QED
        BY <1>1, <2>1, <2>2, <2>3, <2>4, OwnRound
<1>4. CASE udisk_commit(c) /\ ~trans[c].done /\ site = c /\ "label" \notin rec[c]
    <2>1. /\ db' = [db EXCEPT ![c] = Labelled(db[c], V(epoch[c], 1))]
          /\ rec' = [rec EXCEPT ![c] = rec[c] \cup {"label"}]
          /\ trans' = [trans EXCEPT ![c] =
               Round(c, [trans[c] EXCEPT !.old = db[c].version, !.new = V(epoch[c], 1)],
                     "setversion")]
        BY <1>2, <1>4 DEF udisk_commit, Continue
    <2>2. UNCHANGED <<site, view, task, acked>> /\ Phase(c) = "ending"
        BY <1>4 DEF udisk_commit, Continue, siteVars
    <2> QED
        BY <1>1, <1>4, <2>1, <2>2, RelabelLed
<1>5. CASE udisk_commit(c) /\ ~trans[c].done /\ ~(site = c /\ "label" \notin rec[c])
    <2>1. /\ db' = [db EXCEPT ![c] = Committed(db[c], trans[c].id, FALSE)]
          /\ trans' = [trans EXCEPT ![c] = Round(c, [trans[c] EXCEPT !.done = TRUE], "commit")]
        BY <1>2, <1>5 DEF udisk_commit, Continue
    <2>2. UNCHANGED <<site, view, rec, task, acked>> /\ trans[c].phase = "ending"
        BY <1>1, <1>5 DEF udisk_commit, Continue, siteVars, Phase
    <2>3. \A t : ~Pending(c, t)
        BY <2>2 DEF Pending, Phase
    <2>4. Server # {c} => db[c].version.epoch # 1
        BY <1>1, <2>2 DEF Led, Copies, Unlabelled
    <2> QED
        BY <1>1, <1>5, <2>1, <2>2, <2>3, <2>4, LocalCommit
<1>6. CASE SetVersionEnds(c)
    <2>1. RoundEnds(c, "setversion") /\ "setversion" \in Phases
        BY <1>6 DEF SetVersionEnds, Phases, Rounds
    <2>2. /\ trans[c].phase = "setversion" /\ view'[c].known = view[c].known
          /\ view'[c].current = view[c].current \ trans[c].todo
        BY <2>1, RoundEndsView
    <2>3. LabelsHold(c) /\ Phase(c) = "setversion"
        BY <1>1, <2>2 DEF Led, Phase
    <2>4. trans[c].done = FALSE
        BY <1>1, <2>3 DEF LabelsHold, TransRec
    <2>5. db[c].version.epoch >= 3
        BY <2>3 DEF LabelsHold
    <2>6. db[c].version.epoch \in Nat
        BY <1>2, DatabaseFacts, VersionFacts
    <2>7. site = c => "label" \in rec[c]
        BY <2>3, <2>5, <2>6 DEF LabelsHold
    <2>8. /\ db' = [db EXCEPT ![c] = Committed(db[c], trans[c].id, FALSE)]
          /\ trans' = [trans EXCEPT ![c] = Round(c, [trans[c] EXCEPT !.done = TRUE], "commit")]
          /\ UNCHANGED <<site, rec, task, acked>>
        BY <1>2, <1>6, <2>4 DEF SetVersionEnds, Continue, siteVars
    <2>9. \A t \in view'[c].current : ~Pending(c, t)
        BY <2>2 DEF Pending
    <2>10. db[c].version.epoch # 1
        BY <2>5, <2>6
    <2> QED
        BY <1>1, <2>2, <2>7, <2>8, <2>9, <2>10, LocalCommit
<1> QED
    BY <1>3, <1>4, <1>5, <1>6

-----------------------------------------------------------------------------
(* The calls of a transaction of c.                                        *)

\* What the handlers do to the contents: only DISK_SetVersion and DISK_Commit change
\* them, and these only if they succeed.
LEMMA HandleContents ==
    ASSUME TypeInv, NEW t \in Server, NEW x \in TransRec
    PROVE  LET h == Handle(t, x)
           IN  /\ ~h.ok \/ x.phase \notin {"setversion", "commit"} => SameContents(db[t], h.db)
               /\ h.ok /\ x.phase = "setversion" =>
                     h.db.label = x.new /\ h.db.version = x.new /\ h.db.data = db[t].data
               /\ h.ok /\ x.phase = "commit" =>
                     LET v == V(db[t].version.epoch, db[t].version.counter + 1)
                     IN  /\ h.db.label = v /\ h.db.version = v
                         /\ db[t].remote.wrote => h.db.data = Append(db[t].data, db[t].remote.id)
<1>1. db[t] \in Database /\ x.tid \in Version /\ x.id \in Trans /\ x.new \in Version
    BY TransFacts DEF TypeInv
<1> DEFINE d == Checked(t, x)
<1>2. d \in Database /\ SameContents(db[t], d) /\ (d.remote = NoTrans \/ d.remote = db[t].remote)
    <2> DEFINE r == CheckTid(db[t].remote, x.tid)
    <2>1. d = [db[t] EXCEPT !.remote = r]
        BY <1>1 DEF Checked, Database
    <2>2. r \in RemoteRec \cup {NoTrans} /\ (r = NoTrans \/ r = db[t].remote)
        BY <1>1, AbortFacts, DatabaseFacts DEF CheckTid
    <2> HIDE DEF r, d
    <2>3. d.remote = r
        BY <1>1, <2>1 DEF Database
    <2> QED
        BY <1>1, <2>1, <2>2, <2>3, ContentsFacts, DatabaseFacts
<1>3. d.remote \in RemoteRec \cup {NoTrans}
    BY <1>2, DatabaseFacts
<1> HIDE DEF d
<1>4. CASE x.phase = "begin"
    <2> DEFINE e == [db[t] EXCEPT !.remote = NoTrans]
               r == [tid |-> x.tid, id |-> x.id, wrote |-> FALSE, done |-> FALSE]
               f == [e EXCEPT !.remote = r]
    <2>1. SameContents(db[t], db[t]) /\ SameContents(db[t], e) /\ e \in Database
        BY <1>1, ContentsFacts, DatabaseFacts
    <2> HIDE DEF r
    <2>2. SameContents(db[t], f)
        BY <2>1, ContentsFacts DEF SameContents
    <2>3. SDISK_Begin(t, x).db \in {db[t], e, f}
        BY DEF SDISK_Begin, Refuses, Accepts, r
    <2> HIDE DEF e, f
    <2>4. Handle(t, x) = SDISK_Begin(t, x)
        BY <1>4 DEF Handle
    <2> QED
        BY <1>4, <2>1, <2>2, <2>3, <2>4
<1>5. CASE x.phase = "write"
    <2> DEFINE f == [d EXCEPT !.remote.wrote = TRUE]
    <2>1. SameContents(db[t], f)
        BY <1>2 DEF SameContents, Database
    <2>2. SDISK_WriteV(t, x).db \in {d, f}
        BY DEF SDISK_WriteV, Refuses, Accepts, d
    <2>3. Handle(t, x) = SDISK_WriteV(t, x)
        BY <1>5 DEF Handle
    <2> HIDE DEF f
    <2> QED
        BY <1>2, <1>5, <2>1, <2>2, <2>3
<1>6. CASE x.phase = "setversion"
    <2> DEFINE f == [Labelled(d, x.new) EXCEPT !.told = x.new]
    <2>1. f.label = x.new /\ f.version = x.new /\ f.data = db[t].data
        BY <1>1, <1>2 DEF SameContents, Labelled, Database
    <2>2. SDISK_SetVersion(t, x) \in {Refuses(db[t]), Refuses(d), Accepts(f)}
        BY DEF SDISK_SetVersion, d
    <2>3. Handle(t, x) = SDISK_SetVersion(t, x)
        BY <1>6 DEF Handle
    <2>4. SameContents(db[t], db[t])
        BY ContentsFacts
    <2> HIDE DEF f
    <2> QED
        BY <1>2, <1>6, <2>1, <2>2, <2>3, <2>4 DEF Refuses, Accepts
<1>7. CASE x.phase = "commit"
    <2> DEFINE v == V(db[t].version.epoch, db[t].version.counter + 1)
               e == Committed(d, d.remote.id, ~d.remote.wrote)
               f == [e EXCEPT !.told = e.version, !.remote.done = TRUE]
    <2>1. SDISK_Commit(t, x) = Refuses(d) \/ (d.remote # NoTrans /\ SDISK_Commit(t, x) = Accepts(f))
        BY DEF SDISK_Commit, d
    <2>2. Handle(t, x) = SDISK_Commit(t, x)
        BY <1>7 DEF Handle
    <2>3. ASSUME d.remote # NoTrans
          PROVE  /\ f.label = v /\ f.version = v
                 /\ db[t].remote.wrote => f.data = Append(db[t].data, db[t].remote.id)
        <3>1. d.remote \in RemoteRec /\ d.remote = db[t].remote
            BY <1>2, <1>3, <2>3
        <3>2. d.version = db[t].version /\ d.data = db[t].data
            BY <1>2 DEF SameContents
        <3>3. e \in Database
            BY <1>2, <3>1, StoreFacts DEF RemoteRec
        <3>4. e.label = v /\ e.version = v
            BY <1>2, <3>2 DEF Committed, Labelled, Database
        <3>5. d.remote.wrote => e.data = Append(d.data, d.remote.id)
            BY <1>2 DEF Committed, Labelled, Database
        <3> HIDE DEF e, v
        <3>6. f.label = e.label /\ f.version = e.version /\ f.data = e.data
            BY <3>3 DEF Database
        <3> QED
            BY <3>1, <3>2, <3>4, <3>5, <3>6
    <2> HIDE DEF f, v
    <2> QED
        BY <1>2, <1>7, <2>1, <2>2, <2>3 DEF Refuses, Accepts, v
<1>8. CASE x.phase \notin {"begin", "write", "setversion", "commit"}
    <2> DEFINE f == [d EXCEPT !.remote = NoTrans]
    <2>1. SameContents(db[t], f)
        BY <1>2 DEF SameContents, Database
    <2>2. SDISK_End(t, x).db \in {d, f}
        BY DEF SDISK_End, Refuses, Accepts, d
    <2>3. Handle(t, x) = SDISK_End(t, x)
        BY <1>8 DEF Handle
    <2> HIDE DEF f
    <2> QED
        BY <1>2, <1>8, <2>1, <2>2, <2>3
<1> QED
    BY <1>4, <1>5, <1>6, <1>7, <1>8

\* A server that carries out a call of the commit gets the database of c.
LEMMA CarriedOut ==
    ASSUME Inv, NEW c \in Server, Led(c), Server # {c}, NEW t \in Server, t \in Callable(c),
           trans[c] \in TransRec, Pending(c, t), Handle(t, trans[c]).ok
    PROVE  SameContents(db[c], Handle(t, trans[c]).db)
<1> DEFINE x == trans[c]
           v == db[c].version
           e == Handle(t, x).db
<1>1. x # NoTrans /\ Phase(c) = x.phase /\ x.phase \in {"setversion", "commit"}
    BY DEF Pending, Phase
<1>2. /\ LabelsHold(c) /\ CurrentAgree(c) /\ LastCommits(c)
      /\ \A u \in Server : db[u].label.epoch > 0 => Copy(u, c)
    BY DEF Led, Copies
<1>3. db[t].label = Before(c) /\ db[t].version = db[t].label /\ db[c].label = v
    BY <1>2 DEF Callable, CurrentAgree, LabelsHold
<1>4. /\ db[t].data \in Seq(Trans) /\ db[c].data \in Seq(Trans)
      /\ v \in Version /\ v.epoch \in Nat /\ v.counter \in Nat /\ v.epoch >= 1
      /\ x.id \in Trans
    <2>1. db[t] \in Database /\ db[c] \in Database
        BY DEF Inv, TypeInv
    <2> QED
        BY <1>2, <2>1, DatabaseFacts, VersionFacts, TransFacts DEF LabelsHold
<1>5. CASE x.phase = "setversion"
    <2>1. db[t].label = x.old /\ x.old.epoch >= 1 /\ x.old.counter = 1 /\ v = x.new
          /\ db[c].data = <<>>
        BY <1>1, <1>2, <1>3, <1>5 DEF Before, LabelsHold
    <2>2. x.old.epoch \in Nat
        BY TransFacts, VersionFacts
    <2>3. Copy(t, c)
        BY <1>2, <2>1, <2>2
    <2>4. Len(db[t].data) = 0
        BY <2>1, <2>3 DEF Copy
    <2>5. db[t].data = <<>>
        BY <1>4, <2>4
    <2>6. e.label = x.new /\ e.version = x.new /\ e.data = db[t].data
        BY <1>5, HandleContents DEF Inv
    <2> QED
        BY <1>3, <2>1, <2>5, <2>6 DEF SameContents
<1>6. CASE x.phase = "commit"
    <2>1. db[t].label = V(v.epoch, v.counter - 1)
        BY <1>1, <1>3, <1>6 DEF Before
    <2>2. db[t].label.epoch = v.epoch /\ db[t].label.counter = v.counter - 1
        BY <2>1 DEF V
    <2>3. Copy(t, c) /\ Copy(c, c)
        BY <1>2, <1>3, <1>4, <2>2
    <2>4. db[t].remote.id = x.id /\ db[t].remote.wrote
        <3>1. SDISK_Commit(t, x).ok
            BY <1>6 DEF Handle
        <3> QED
            BY <1>1, <1>6, <3>1, InvWhole DEF CommitsAreWhole
    <2>5. /\ e.label = V(db[t].version.epoch, db[t].version.counter + 1) /\ e.version = e.label
          /\ e.data = Append(db[t].data, x.id)
        BY <1>6, <2>4, HandleContents DEF Inv
    <2>6. e.label = v
        <3>1. v.counter - 1 + 1 = v.counter
            BY <1>4
        <3>2. V(v.epoch, v.counter) = v
            BY <1>4 DEF V, Version
        <3> QED
            BY <1>3, <2>2, <2>5, <3>1, <3>2
    <2>7. e.data = db[c].data
        <3> DEFINE m == Len(db[t].data)
                   n == Len(db[c].data)
        <3>1. m = v.counter - 2 /\ n = v.counter - 1 /\ m \in Nat /\ n \in Nat
            <4>1. m = v.counter - 1 - 1 /\ n = v.counter - 1
                BY <1>3, <2>2, <2>3 DEF Copy
            <4>2. m \in Nat /\ n \in Nat
                BY <1>4
            <4> HIDE DEF m, n
            <4> QED
                BY <1>4, <4>1, <4>2
        <3>2. n = m + 1
            <4> HIDE DEF m, n
            <4> QED
                BY <1>4, <3>1
        <3>3. db[c].data[n] = x.id
            BY <1>1, <1>2, <1>6 DEF LastCommits
        <3>4. /\ e.data \in Seq(Trans) /\ Len(e.data) = m + 1 /\ e.data[m + 1] = x.id
              /\ \A i \in 1..m : e.data[i] = db[t].data[i]
            BY <1>4, <2>5, RangeFacts
        <3>5. \A i \in 1..m : db[t].data[i] = db[c].data[i]
            BY <2>3 DEF Copy
        <3>6. \A i \in 1..n : e.data[i] = db[c].data[i]
            <4> HIDE DEF m, n, e
            <4>1. \A i \in 1..n : i \in 1..m \/ i = m + 1
                BY <3>1, <3>2
            <4> QED
                BY <3>2, <3>3, <3>4, <3>5, <4>1
        <3>7. Len(e.data) = n
            BY <3>2, <3>4
        <3> QED
            BY <1>4, <3>4, <3>6, <3>7, SameSequence
    <2> QED
        BY <1>3, <2>5, <2>6, <2>7 DEF SameContents
<1> QED
    BY <1>1, <1>5, <1>6

\* A call.
LEMMA CallLed ==
    ASSUME Inv, Inv', NEW c \in Server, Led(c), NEW t \in Server, Call(c, t)
    PROVE  Led(c)'
<1> DEFINE x == trans[c]
           v == db[c].version
           h == Handle(t, x)
<1>1. OnlySite(c) /\ NoneNewer(c) /\ LabelsHold(c) /\ AckedKept(c) /\ Copies(c)
    BY DEF Led
<1>2. /\ x \in TransRec /\ x # NoTrans /\ t \in x.todo /\ t \in view[c].current
      /\ t \in Callable(c) /\ UNCHANGED <<site, rec, task, acked>>
    BY CallCases, NoTransAssumption DEF Inv, Call, siteVars
<1>3. /\ db \in [Server -> Database] /\ view \in [Server -> ViewRec]
      /\ trans \in [Server -> TransRec \cup {NoTrans}] /\ view[c] \in ViewRec
      /\ t # c /\ view'[c].current \subseteq Server
    BY <1>2 DEF Inv, TypeInv, ViewRec
<1>4. Server # {c} /\ v.epoch # 1 /\ v \in Version
    <2>1. Server # {c}
        BY <1>3
    <2>2. v \in Version
        BY <1>3, DatabaseFacts
    <2> QED
        BY <1>1, <1>2, <2>1, <2>2 DEF Copies, Unlabelled
<1>5. /\ trans'[c] # NoTrans /\ trans'[c].phase = x.phase /\ trans'[c].todo = x.todo \ {t}
      /\ trans'[c].old = x.old /\ trans'[c].new = x.new /\ trans'[c].done = x.done
      /\ trans'[c].id = x.id /\ trans'[c].won = x.won
      /\ \A u \in Others(c) : trans'[u] = trans[u]
    <2>1. PICK ok \in Nat : trans' = [trans EXCEPT ![c] =
                     [x EXCEPT !.todo = x.todo \ {t}, !.io = TRUE, !.ok = ok]]
        BY CallCases DEF Inv
    <2> DEFINE y == [x EXCEPT !.todo = x.todo \ {t}, !.io = TRUE, !.ok = ok]
    <2>2. /\ y.phase = x.phase /\ y.todo = x.todo \ {t} /\ y.old = x.old /\ y.new = x.new
          /\ y.done = x.done /\ y.id = x.id /\ y.won = x.won
        BY <1>2 DEF TransRec
    <2>3. y \in TransRec
        BY <1>2 DEF TransRec
    <2>4. trans' = [trans EXCEPT ![c] = y]
        BY <2>1
    <2> HIDE DEF y
    <2> QED
        BY <1>3, <2>2, <2>3, <2>4, NoTransAssumption DEF Others
<1>6. Pending(c, t) <=> x.phase \in {"setversion", "commit"}
    BY <1>2, <1>5 DEF Pending, Phase
<1>7. /\ \A u \in Server : u # t => db'[u] = db[u]
      /\ \/ db'[t] = db[t]
         \/ db'[t] = h.db
    <2>1. db' = db \/ db' = [db EXCEPT ![t] = h.db]
        BY CallCases DEF Inv
    <2> HIDE DEF h
    <2> QED
        BY <1>3, <2>1
<1>8. SameContents(db[t], db'[t]) \/ SameContents(db[c], db'[t])
    <2>1. SameContents(db[t], db[t])
        BY ContentsFacts
    <2>2. CASE h.ok /\ x.phase \in {"setversion", "commit"}
        <3>1. SameContents(db[c], h.db)
            BY <1>2, <1>4, <1>6, <2>2, CarriedOut
        <3> QED
            BY <1>7, <2>1, <3>1
    <2>3. CASE ~(h.ok /\ x.phase \in {"setversion", "commit"})
        <3>1. SameContents(db[t], h.db)
            BY <1>2, <2>3, HandleContents DEF Inv
        <3> QED
            BY <1>7, <2>1, <3>1
    <2> QED
        BY <2>2, <2>3
<1>9. StoresKept(c)
    BY <1>3, <1>7, <1>8, ContentsFacts DEF StoresKept
<1>10. ASSUME view' = [view EXCEPT ![c] = MarkDown(view[c], t)] PROVE ViewKept(c)
    <2> DEFINE w == MarkDown(view[c], t)
    <2>1. w.current = view[c].current \ {t} /\ w.known = view[c].known
        BY <1>3 DEF MarkDown, ViewRec
    <2>2. view'[c] = w
        BY <1>3, <1>10
    <2> HIDE DEF w
    <2>3. \A u \in view'[c].current : SameContents(db[u], db'[u])
        BY <1>3, <1>7, <2>1, <2>2, ContentsFacts
    <2>4. \A u \in Server : view'[c].known[u] = view[c].known[u]
        BY <2>1, <2>2
    <2>5. \A u \in view'[c].current : u \in view[c].current /\ (Pending(c, u) => Pending(c, u)')
        BY <1>2, <1>5, <2>1, <2>2 DEF Pending, Phase
    <2>6. ASSUME NEW u \in view'[c].current
          PROVE  /\ u \in view[c].current /\ SameContents(db[u], db'[u])
                 /\ view'[c].known[u] \in {view[c].known[u], db'[u].label}
                 /\ Pending(c, u) => Pending(c, u)'
        BY <1>3, <2>3, <2>4, <2>5
    <2> QED
        BY <2>4, <2>6 DEF ViewKept
<1>11. ASSUME view' # [view EXCEPT ![c] = MarkDown(view[c], t)] PROVE ViewKept(c)
    <2> DEFINE stamp == IF x.phase \in {"setversion", "commit"} THEN v ELSE view[c].known[t]
               w == [view[c] EXCEPT !.known = [view[c].known EXCEPT ![t] = stamp]]
    <2>1. h.ok /\ view' = [view EXCEPT ![c] = w] /\ db' = [db EXCEPT ![t] = h.db]
        BY <1>3, <1>11 DEF Call, ViewRec
    <2>2. /\ x.phase \in {"setversion", "commit"} => stamp = v
          /\ x.phase \notin {"setversion", "commit"} => stamp = view[c].known[t]
        OBVIOUS
    <2> HIDE DEF stamp
    <2>3. view[c].known \in [Server -> Version]
        BY <1>3 DEF ViewRec
    <2>4. /\ w.current = view[c].current /\ w.known[t] = stamp
          /\ \A u \in Server : u # t => w.known[u] = view[c].known[u]
        BY <1>3, <2>3 DEF ViewRec
    <2> HIDE DEF w, h
    <2>5. view'[c] = w /\ db'[t] = h.db
        BY <1>3, <2>1
    <2>6. \A u \in Server : u # t => SameContents(db[u], db'[u])
        BY <1>7, ContentsFacts
    <2>7. CASE x.phase \in {"setversion", "commit"}
        <3>1. SameContents(db[c], h.db)
            BY <1>2, <1>4, <1>6, <2>1, <2>7, CarriedOut DEF h
        <3>2. db'[t].label = v
            BY <1>1, <2>5, <3>1 DEF SameContents, LabelsHold
        <3>3. view'[c].known[t] = v /\ \A u \in Server : u # t => view'[c].known[u] = view[c].known[u]
            BY <2>2, <2>4, <2>5, <2>7
        <3>4. \A u \in view'[c].current :
                  u # t => u \in view[c].current /\ (Pending(c, u) => Pending(c, u)')
            BY <1>2, <1>5, <2>4, <2>5 DEF Pending, Phase
        <3>5. ~Pending(c, t)'
            BY <1>5 DEF Pending, Phase
        <3>6. ASSUME NEW u \in view'[c].current, u # t
              PROVE  /\ u \in view[c].current /\ SameContents(db[u], db'[u])
                     /\ view'[c].known[u] \in {view[c].known[u], db'[u].label}
                     /\ Pending(c, u) => Pending(c, u)'
            BY <1>3, <2>6, <3>3, <3>4, <3>6
        <3>7. \A u \in Server : view'[c].known[u] \in {view[c].known[u], db'[u].label, NoVersion}
            BY <3>2, <3>3
        <3>8. /\ db'[t].label = v /\ view'[c].known[t] = v /\ ~Pending(c, t)' /\ v.epoch # 1
            BY <1>4, <3>2, <3>3, <3>5
        <3> QED
            BY <3>6, <3>7, <3>8 DEF ViewKept
    <2>8. CASE x.phase \notin {"setversion", "commit"}
        <3>1. SameContents(db[t], h.db)
            BY <1>2, <2>8, HandleContents DEF Inv, h
        <3>2. \A u \in Server : view'[c].known[u] = view[c].known[u]
            BY <2>2, <2>4, <2>5, <2>8
        <3>3. \A u \in view'[c].current : u \in view[c].current /\ ~Pending(c, u)
            BY <1>6, <2>4, <2>5, <2>8 DEF Pending, Phase
        <3>4. \A u \in Server : SameContents(db[u], db'[u])
            BY <2>5, <2>6, <3>1
        <3>5. ASSUME NEW u \in view'[c].current
              PROVE  /\ u \in view[c].current /\ SameContents(db[u], db'[u])
                     /\ view'[c].known[u] \in {view[c].known[u], db'[u].label}
                     /\ Pending(c, u) => Pending(c, u)'
            BY <1>3, <3>2, <3>3, <3>4
        <3> QED
            BY <3>2, <3>5 DEF ViewKept
    <2> QED
        BY <2>7, <2>8
<1>12. TransKept(c)
    BY <1>2, <1>4, <1>5 DEF TransKept
<1>13. RecoveryKept(c)
    BY <1>1, <1>2, <1>4 DEF RecoveryKept, NoneNewer
<1>14. OnlySite(c)'
    BY <1>1, <1>2, <1>5 DEF OnlySite, Others
<1>15. acked' \subseteq Range(db[c].data)
    BY <1>1, <1>2 DEF AckedKept
<1> QED
    BY <1>9, <1>10, <1>11, <1>12, <1>13, <1>14, <1>15, TermStep

-----------------------------------------------------------------------------
(* The database is sent to a server.                                       *)

\* After DISK_SendFile a server has the database of c; a server that has been left with a
\* database in transit is not taken for current.
LEMMA SendLed ==
    ASSUME Inv, Inv', NEW c \in Server, Led(c), NEW t \in Server, Send(c, t)
    PROVE  Led(c)'
<1> DEFINE v == db[c].version
<1>1. OnlySite(c) /\ NoneNewer(c) /\ LabelsHold(c) /\ AckedKept(c) /\ Copies(c)
    BY DEF Led
<1>2. /\ task[c].phase = "send" /\ t \in task[c].todo /\ UNCHANGED <<site, rec, acked>>
      /\ trans[c] = NoTrans
    BY DEF Send, siteVars, Inv, TransInv, SendInv
<1>3. /\ db \in [Server -> Database] /\ view \in [Server -> ViewRec] /\ view[c] \in ViewRec
      /\ trans \in [Server -> TransRec \cup {NoTrans}] /\ task \in [Server -> TaskRec]
      /\ t # c /\ view[c].current \subseteq Server /\ view[c].known \in [Server -> Version]
    <2>1. t # c
        BY <1>2 DEF Inv, TypeInv
    <2> QED
        BY <2>1 DEF Inv, TypeInv, ViewRec
<1>4. /\ Server # {c} /\ v.epoch # 1 /\ v \in Version /\ db[c].label = v
      /\ CurrentAgree(c) /\ KnownAgree(c)
    <2>1. Server # {c}
        BY <1>3
    <2>2. v \in Version
        BY <1>3, DatabaseFacts
    <2> QED
        BY <1>1, <1>2, <2>1, <2>2 DEF Copies, Unlabelled, LabelsHold
<1>5. trans' = trans
    <2>1. trans[t] = NoTrans
        BY <1>1, <1>3 DEF OnlySite, Others
    <2>2. trans' = trans \/ trans' = [trans EXCEPT ![t] = AbortLocal(trans[t])]
        BY DEF Send
    <2>3. AbortLocal(trans[t]) = trans[t]
        BY <2>1 DEF AbortLocal
    <2> QED
        BY <1>3, <2>2, <2>3
<1>6. /\ task'[c].phase = "send" /\ task'[c].newest = task[c].newest
      /\ \A u \in Others(c) : task'[u] = task[u]
    <2> DEFINE k == [task[c] EXCEPT !.todo = task[c].todo \ {t}]
               f == [k EXCEPT !.dbok = FALSE]
    <2>1. /\ k.phase = "send" /\ k.newest = task[c].newest
          /\ f.phase = "send" /\ f.newest = task[c].newest
        BY <1>2, <1>3 DEF TaskRec
    <2>2. task' = [task EXCEPT ![c] = k] \/ task' = [task EXCEPT ![c] = f]
        BY <1>3 DEF Send, TaskRec
    <2> HIDE DEF k, f
    <2> QED
        BY <1>3, <2>1, <2>2 DEF Others
<1>7. \A u : ~Pending(c, u) /\ ~Pending(c, u)'
    BY <1>2, <1>5 DEF Pending, Phase
<1>8. \A u \in view[c].current : db[u].label = v /\ view[c].known[u] = v
    BY <1>4, <1>7 DEF CurrentAgree
\* What becomes of t.
<1> DEFINE Same == db'[t] = db[t]
           Gets == SameContents(db[c], db'[t])
           Broken == /\ db'[t].version = db'[t].label /\ db'[t].label.epoch = 0
                     /\ view'[c] = view[c] /\ view[c].known[t] # v
           Takes == /\ view'[c].current = view[c].current \cup {t} /\ view'[c].known[t] = v
                    /\ \A u \in Server : u # t => view'[c].known[u] = view[c].known[u]
<1>9. \A u \in Server : u # t => db'[u] = db[u]
    BY <1>3 DEF Send
<1>10. \/ Same /\ view'[c] = view[c]
       \/ Same /\ Takes /\ view[c].known[t] = v
       \/ Gets /\ Takes
       \/ Gets /\ view'[c] = view[c] /\ view[c].known[t] # v
       \/ Broken
    <2> DEFINE w1 == [view[c] EXCEPT !.current = view[c].current \cup {t}]
               w2 == [view[c] EXCEPT !.known = [view[c].known EXCEPT ![t] = v],
                                     !.current = view[c].current \cup {t}]
               a == AbortRemote(db[t])
    <2>1. w1.current = view[c].current \cup {t} /\ w1.known = view[c].known
        BY <1>3 DEF ViewRec
    <2>2. w2.current = view[c].current \cup {t} /\ w2.known = [view[c].known EXCEPT ![t] = v]
        BY <1>3 DEF ViewRec
    <2>3. a \in Database
        BY <1>3, AbortFacts
    <2>4. SameContents(db[c], SDISK_SendFile(c, t))
        <3> DEFINE e == Labelled(a, v)
        <3>1. e \in Database /\ e.label = v /\ e.version = v
            BY <1>4, <2>3, ContentsFacts, DatabaseFacts
        <3>2. SDISK_SendFile(c, t) = [e EXCEPT !.data = db[c].data, !.told = v]
            BY DEF SDISK_SendFile
        <3> HIDE DEF e
        <3> QED
            BY <1>4, <3>1, <3>2 DEF SameContents, Database
    <2>5. \A d \in InTransit(a) : d.version = d.label /\ d.label.epoch = 0
        <3>1. \A n \in {0, 9} : V(0, n) \in Version /\ V(0, n).epoch = 0
            BY DEF V, Version
        <3> HIDE DEF a
        <3> QED
            BY <2>3, <3>1, ContentsFacts DEF InTransit
    <2>6. \/ db' = db /\ view' = view
          \/ db' = db /\ view[c].known[t] = v /\ view' = [view EXCEPT ![c] = w1]
          \/ db' = [db EXCEPT ![t] = SDISK_SendFile(c, t)] /\ view' = [view EXCEPT ![c] = w2]
          \/ /\ db' = [db EXCEPT ![t] = SDISK_SendFile(c, t)] /\ view' = view
             /\ view[c].known[t] # v
          \/ /\ \E d \in InTransit(a) : db' = [db EXCEPT ![t] = d]
             /\ view' = view /\ view[c].known[t] # v
        <3>1. [view EXCEPT ![c].current = @ \cup {t}] = [view EXCEPT ![c] = w1]
            BY <1>3 DEF ViewRec
        <3>2. [view EXCEPT ![c].known[t] = v, ![c].current = @ \cup {t}]
                  = [view EXCEPT ![c] = w2]
            BY <1>3 DEF ViewRec
        <3>3. \/ db' = db /\ view' = view
              \/ /\ db' = db /\ view[c].known[t] = v
                 /\ view' = [view EXCEPT ![c].current = @ \cup {t}]
              \/ /\ db' = [db EXCEPT ![t] = SDISK_SendFile(c, t)]
                 /\ view' = [view EXCEPT ![c].known[t] = v, ![c].current = @ \cup {t}]
              \/ /\ db' = [db EXCEPT ![t] = SDISK_SendFile(c, t)] /\ view' = view
                 /\ view[c].known[t] # v
              \/ /\ \E d \in InTransit(a) : db' = [db EXCEPT ![t] = d]
                 /\ view' = view /\ view[c].known[t] # v
            BY DEF Send
        <3> HIDE DEF w1, w2, a
        <3> QED
            BY <3>1, <3>2, <3>3
    <2> HIDE DEF w1, w2, a
    <2>7. CASE db' = db /\ view' = view
        BY <2>7
    <2>8. CASE db' = db /\ view[c].known[t] = v /\ view' = [view EXCEPT ![c] = w1]
        <3>1. view'[c] = w1
            BY <1>3, <2>8
        <3> QED
            BY <2>1, <2>8, <3>1
    <2>9. CASE db' = [db EXCEPT ![t] = SDISK_SendFile(c, t)] /\ view' = [view EXCEPT ![c] = w2]
        <3>1. view'[c] = w2 /\ db'[t] = SDISK_SendFile(c, t)
            BY <1>3, <2>9
        <3> QED
            BY <1>3, <2>2, <2>4, <3>1
    <2>10. CASE /\ db' = [db EXCEPT ![t] = SDISK_SendFile(c, t)] /\ view' = view
                /\ view[c].known[t] # v
        BY <1>3, <2>4, <2>10
    <2>11. CASE /\ \E d \in InTransit(a) : db' = [db EXCEPT ![t] = d]
                /\ view' = view /\ view[c].known[t] # v
        BY <1>3, <2>5, <2>11
    <2> QED
        BY <2>6, <2>7, <2>8, <2>9, <2>10, <2>11
<1>11. t \in view[c].current => view[c].known[t] = v
    BY <1>8
<1>12. Takes => db'[t].label = v
    <2>1. Same /\ view[c].known[t] = v => db'[t].label = v
        BY <1>4 DEF KnownAgree
    <2>2. Gets => db'[t].label = v
        BY <1>4 DEF SameContents
    <2>3. Takes /\ view'[c] = view[c] => t \in view[c].current
        OBVIOUS
    <2> QED
        BY <1>10, <1>11, <2>1, <2>2, <2>3
<1> HIDE DEF Takes
<1>13. StoresKept(c)
    <2>1. SameContents(db[c], db'[c]) /\ \A u \in Server : u # t => SameContents(db[u], db'[u])
        BY <1>3, <1>9, ContentsFacts
    <2>2. Same => SameContents(db[t], db'[t])
        BY ContentsFacts
    <2>3. Broken => t \notin view'[c].current /\ view'[c].known[t] = view[c].known[t]
        BY <1>11
    <2>4. \/ SameContents(db[t], db'[t])
          \/ SameContents(db[c], db'[t])
          \/ /\ db'[t].version = db'[t].label /\ db'[t].label.epoch = 0
             /\ t \notin view'[c].current /\ view[c].known[t] # db[c].version
             /\ view'[c].known[t] = view[c].known[t]
        BY <1>10, <2>2, <2>3
    <2> QED
        BY <2>1, <2>4 DEF StoresKept
<1>14. ViewKept(c)
    <2>1. \A u \in Server : u # t => SameContents(db[u], db'[u])
        BY <1>9, ContentsFacts
    <2>2. \A u \in Server : view'[c].known[u] \in {view[c].known[u], db'[u].label, NoVersion}
        BY <1>10, <1>12 DEF Takes
    <2>3. ASSUME NEW u \in view'[c].current, u # t
          PROVE  /\ u \in view[c].current /\ SameContents(db[u], db'[u])
                 /\ view'[c].known[u] \in {view[c].known[u], db'[u].label}
                 /\ Pending(c, u) => Pending(c, u)'
        <3>1. u \in view[c].current /\ view'[c].known[u] = view[c].known[u]
            BY <1>3, <1>10, <2>3 DEF Takes
        <3> QED
            BY <1>3, <1>7, <2>1, <2>3, <3>1
    <2>4. ASSUME t \in view'[c].current
          PROVE  \/ /\ t \in view[c].current /\ SameContents(db[t], db'[t])
                    /\ view'[c].known[t] \in {view[c].known[t], db'[t].label}
                    /\ Pending(c, t) => Pending(c, t)'
                 \/ /\ db'[t].label = v /\ view'[c].known[t] = v
                    /\ ~Pending(c, t)' /\ v.epoch # 1
        <3>1. CASE Takes
            BY <1>4, <1>7, <1>12, <3>1 DEF Takes
        <3>2. CASE ~Takes
            <4>1. Same /\ view'[c] = view[c]
                BY <1>10, <1>11, <2>4, <3>2
            <4> QED
                BY <1>7, <2>4, <4>1, ContentsFacts
        <3> QED
            BY <3>1, <3>2
    <2> QED
        BY <2>2, <2>3, <2>4 DEF ViewKept
<1>15. TransKept(c)
    BY <1>2, <1>5 DEF TransKept
<1>16. RecoveryKept(c)
    BY <1>1, <1>2, <1>4, <1>6 DEF RecoveryKept, NoneNewer
<1>17. OnlySite(c)'
    BY <1>1, <1>2, <1>5, <1>6 DEF OnlySite, Others
<1>18. acked' \subseteq Range(db[c].data)
    BY <1>1, <1>2 DEF AckedKept
<1> QED
    BY <1>13, <1>14, <1>15, <1>16, <1>17, <1>18, TermStep

-----------------------------------------------------------------------------
(* A turn of the recovery thread of c.                                     *)

\* The rest of a turn: a new database gets its first label while nobody is current.
LEMMA GoOnLed ==
    ASSUME Inv, Inv', NEW c \in Server, Led(c), NEW r, GoOn(c, db[c], r, trans[c]),
           "label" \in rec[c] => "label" \in r, UNCHANGED <<site, view, acked>>
    PROVE  Led(c)'
<1> DEFINE v == db[c].version
           w == V(2, 1)
           k == IF "sent" \in r THEN Idle
                ELSE [Idle EXCEPT !.phase = IF Writing(c) THEN "await" ELSE "send",
                                  !.todo = Others(c)]
<1>1. OnlySite(c) /\ NoneNewer(c) /\ LabelsHold(c) /\ AckedKept(c) /\ Copies(c)
    BY DEF Led
<1>2. /\ db \in [Server -> Database] /\ db[c] \in Database /\ rec \in [Server -> SUBSET Flags]
      /\ trans \in [Server -> TransRec \cup {NoTrans}] /\ task \in [Server -> TaskRec]
      /\ v \in Version /\ v.epoch \in Nat
    BY DatabaseFacts, VersionFacts DEF Inv, TypeInv
<1>3. k.phase \in {"idle", "await", "send"} /\ k.newest = NoVersion
    <2> DEFINE p == IF Writing(c) THEN "await" ELSE "send"
               i == [Idle EXCEPT !.phase = p, !.todo = Others(c)]
    <2>1. p \in {"await", "send"}
        OBVIOUS
    <2> HIDE DEF p
    <2>2. i.phase = p /\ i.newest = NoVersion /\ Idle.phase = "idle" /\ Idle.newest = NoVersion
        BY DEF Idle
    <2>3. k = Idle \/ k = i
        BY DEF p
    <2> QED
        BY <2>1, <2>2, <2>3
<1>4. rec' = [rec EXCEPT ![c] = r \cup {"have"}] /\ task' = [task EXCEPT ![c] = k]
    BY DEF GoOn
<1> HIDE DEF k
<1>5. /\ "have" \in rec'[c] /\ ("label" \in rec[c] => "label" \in rec'[c])
      /\ task'[c].phase \in {"idle", "await", "send"} /\ task'[c].newest = NoVersion
      /\ \A t \in Others(c) : rec'[t] = rec[t] /\ task'[t] = task[t]
    BY <1>2, <1>3, <1>4 DEF Others
<1>6. CASE v.epoch # 1
    <2>1. db' = db /\ trans' = trans
        BY <1>2, <1>6 DEF GoOn
    <2>2. OnlySite(c)'
        BY <1>1, <1>5, <2>1 DEF OnlySite, Others
    <2>3. RecoveryKept(c)
        BY <1>2, <1>5, <1>6, NewerFacts DEF RecoveryKept
    <2>4. \A t \in Server : SameContents(db[t], db'[t])
        BY <2>1, ContentsFacts
    <2> QED
        BY <2>1, <2>2, <2>3, <2>4, QuietStep
<1>7. CASE v.epoch = 1
    <2> DEFINE a == AbortRemote(db[c])
               d == Labelled(a, w)
               x == AbortLocal(trans[c])
    <2>1. db' = [db EXCEPT ![c] = d] /\ trans' = [trans EXCEPT ![c] = x]
        BY <1>7 DEF GoOn
    <2>2. /\ w \in Version /\ w.epoch = 2 /\ w.counter = 1
        BY VersionFacts DEF V
    <2> HIDE DEF w
    <2>3. d.label = w /\ d.version = w /\ d.data = db[c].data
        <3>1. a \in Database /\ SameContents(db[c], a)
            BY <1>2, AbortFacts, ContentsFacts
        <3> HIDE DEF a
        <3> QED
            BY <2>2, <3>1, ContentsFacts DEF SameContents
    <2>4. /\ x = NoTrans <=> trans[c] = NoTrans
          /\ trans[c] # NoTrans =>
                x.phase = trans[c].phase /\ x.id = trans[c].id /\ x.won = trans[c].won
        <3>1. CASE trans[c] = NoTrans
            BY <3>1 DEF AbortLocal
        <3>2. CASE trans[c] # NoTrans
            <4>1. trans[c] \in TransRec
                BY <1>2, <3>2
            <4>2. x \in TransRec
                BY <4>1, AbortFacts
            <4>3. x.phase = trans[c].phase /\ x.id = trans[c].id /\ x.won = trans[c].won
                BY <3>2, <4>1 DEF AbortLocal, TransRec
            <4> QED
                BY <3>2, <4>2, <4>3, NoTransAssumption
        <3> QED
            BY <3>1, <3>2
    <2> HIDE DEF d, x
    <2>5. db'[c] = d /\ trans'[c] = x /\ \A t \in Others(c) : db'[t] = db[t] /\ trans'[t] = trans[t]
        BY <1>2, <2>1 DEF Others
    <2>6. Phase(c)' = Phase(c) /\ Phase(c) # "setversion"
        <3>1. Phase(c)' = Phase(c)
            BY <2>4, <2>5 DEF Phase
        <3>2. Phase(c) = "setversion" => v.epoch >= 3
            BY <1>1 DEF LabelsHold
        <3> QED
            BY <1>7, <3>1, <3>2
    <2>7. Newer(w, v)
        BY <1>2, <1>7, <2>2, NewerFacts
    <2>8. \A t \in Others(c) : SameContents(db[t], db'[t])
        BY <2>5, ContentsFacts
    <2>9. Server # {c} => Len(db'[c].data) = w.counter - 1 /\ w.epoch # 1
        <3> SUFFICES ASSUME Server # {c} PROVE Len(db'[c].data) = w.counter - 1 /\ w.epoch # 1
            OBVIOUS
        <3>1. v.counter = 1 /\ db[c].label = v
            BY <1>1, <1>7 DEF Copies, Unlabelled, LabelsHold
        <3>2. Copy(c, c)
            BY <1>1, <1>7, <3>1 DEF Copies
        <3> QED
            BY <2>2, <2>3, <2>5, <3>1, <3>2 DEF Copy
    <2>10. db'[c].label = w /\ db'[c].version = w /\ db'[c].data = db[c].data
        BY <2>3, <2>5
    <2>11. /\ \A t \in Server : /\ ~Newer(db'[t].label, w) /\ ~Newer(view'[c].known[t], w)
                                /\ db'[t].version = db'[t].label
           /\ ~Newer(NoVersion, w)
           /\ Server # {c} => /\ \A t \in Server : db'[t].label.epoch > 0 => Copy(t, c)'
                              /\ Unlabelled(c)' /\ KnownAgree(c)'
        <3> HIDE DEF v
        <3> QED
            BY <2>2, <2>7, <2>8, <2>9, <2>10, GrowStep DEF v
    <2>12. OnlySite(c)'
        BY <1>1, <1>5, <2>5 DEF OnlySite, Others
    <2>13. NoneNewer(c)'
        BY <1>5, <2>10, <2>11 DEF NoneNewer
    <2>14. LabelsHold(c)'
        <3>1. site' = c /\ "label" \notin rec'[c] => db'[c].data = <<>>
            BY <1>1, <1>5, <2>10 DEF LabelsHold
        <3> QED
            BY <2>2, <2>6, <2>10, <2>11, <3>1 DEF LabelsHold
    <2>15. AckedKept(c)'
        BY <1>1, <2>4, <2>5, <2>6, <2>10 DEF AckedKept
    <2>16. ASSUME Server # {c} PROVE CurrentAgree(c)' /\ LastCommits(c)'
        <3>1. view[c].current = {} /\ Phase(c) # "commit"
            BY <1>1, <1>7, <2>16 DEF Copies, Unlabelled, Phase
        <3> QED
            BY <2>6, <3>1 DEF CurrentAgree, LastCommits
    <2> QED
        BY <2>11, <2>12, <2>13, <2>14, <2>15, <2>16 DEF Led, Copies
<1> QED
    BY <1>6, <1>7

\* The answers to DISK_GetVersion name no better database than that of c, which c keeps.
LEMMA FinishFindLed ==
    ASSUME Inv, Inv', NEW c \in Server, Led(c), FinishFind(c)
    PROVE  Led(c)'
<1>1. OnlySite(c) /\ NoneNewer(c) /\ Copies(c)
    BY DEF Led
<1>2. UNCHANGED <<site, view, acked>>
    BY DEF FinishFind, siteVars
<1>3. CASE ~task[c].enough
    <2>1. task' = [task EXCEPT ![c] = Idle] /\ UNCHANGED <<db, rec, trans>>
        BY <1>3 DEF FinishFind
    <2>2. task \in [Server -> TaskRec] /\ db[c].version \in Version
        BY DatabaseFacts DEF Inv, TypeInv
    <2>3. Idle.phase = "idle" /\ Idle.newest = NoVersion
        BY DEF Idle
    <2>4. OnlySite(c)'
        BY <1>1, <1>2, <2>1, <2>2 DEF OnlySite, Others
    <2>5. RecoveryKept(c)
        BY <1>1, <1>2, <2>1, <2>2, <2>3, NewerFacts DEF RecoveryKept, NoneNewer
    <2>6. \A t \in Server : SameContents(db[t], db'[t])
        BY <2>1, ContentsFacts
    <2> QED
        BY <1>2, <2>1, <2>4, <2>5, <2>6, QuietStep
<1>4. CASE task[c].enough
    <2> DEFINE r == (rec[c] \cup {"found"}) \ {"sent"}
    <2>1. GoOn(c, db[c], r, trans[c])
        BY <1>1, <1>4 DEF FinishFind, NoneNewer
    <2>2. "label" \in rec[c] => "label" \in r
        OBVIOUS
    <2> HIDE DEF r
    <2> QED
        BY <1>2, <2>1, <2>2, GoOnLed
<1> QED
    BY <1>3, <1>4

\* The recovery thread.
LEMMA RecoveryLed ==
    ASSUME Inv, Inv', NEW c \in Server, Led(c), FinishFind(c) \/ Turn(c) \/ Fetch(c)
    PROVE  Led(c)'
<1>1. NoneNewer(c)
    BY DEF Led
<1>2. CASE Turn(c)
    <2>1. UNCHANGED <<site, view, acked>> /\ GoOn(c, db[c], rec[c], trans[c])
        BY <1>1, <1>2 DEF Turn, NoneNewer, siteVars
    <2> QED
        BY <2>1, GoOnLed
<1>3. ~Fetch(c)
    BY <1>1 DEF Fetch, NoneNewer
<1> QED
    BY <1>2, <1>3, FinishFindLed

-----------------------------------------------------------------------------
(* Before the first election, and the election.                            *)

\* Without a sync site servers crash and probe each other, and nothing else.
LEMMA FreshStep ==
    ASSUME Inv, Inv', Fresh, [Next]_vars, elections' = elections
    PROVE  Fresh'
<1>1. /\ site = None /\ acked = {} /\ None \notin Server
      /\ \A t \in Server : /\ trans[t] = NoTrans /\ task[t] = Idle /\ rec[t] = {}
                           /\ task[t].phase = "idle" /\ Phase(t) = "none"
    BY ReplicationAssumption, IdleFacts DEF Fresh, Phase
<1>2. /\ elections \in Nat /\ db \in [Server -> Database] /\ view \in [Server -> ViewRec]
      /\ task \in [Server -> TaskRec] /\ rec \in [Server -> SUBSET Flags]
      /\ trans \in [Server -> TransRec \cup {NoTrans}]
    BY DEF Inv, TypeInv
<1>3. \/ UNCHANGED vars
      \/ \E v \in Server : Forget(v)
      \/ \E s, t \in Server : Probe(s, t)
      \/ \E s \in Server : Crash(s)
    <2>1. ~Expire
        BY <1>1 DEF Expire
    <2>2. ASSUME NEW s \in Server
          PROVE  ~(\/ BeginTrans(s) \/ BeginEnds(s) \/ Write(s) \/ WriteEnds(s) \/ UndoEnds(s)
                   \/ AbortTrans(s) \/ AbortEnds(s) \/ EndTrans(s) \/ udisk_commit(s)
                   \/ SetVersionEnds(s) \/ CommitEnds(s) \/ CommitWait(s) \/ ReleaseEnds(s))
        BY <1>1 DEF BeginTrans, BeginEnds, Write, WriteEnds, UndoEnds, AbortTrans, AbortEnds,
                    EndTrans, udisk_commit, SetVersionEnds, CommitEnds, CommitWait, ReleaseEnds,
                    RoundEnds
    <2>3. ASSUME NEW s \in Server
          PROVE  ~(\/ FinishFind(s) \/ Turn(s) \/ StartSend(s) \/ Fetch(s) \/ FinishSend(s)
                   \/ StartFind(s))
        BY <1>1 DEF FinishFind, Turn, StartSend, Fetch, FinishSend, StartFind
    <2>4. ASSUME NEW s \in Server, NEW t \in Server
          PROVE  ~(Call(s, t) \/ Send(s, t) \/ Beacon(s, t))
        BY <1>1 DEF Call, Send, Beacon, InRound, Rounds
    <2>5. ASSUME NEW s \in Server PROVE ~Elect(s)
        <3>1. elections + 1 # elections
            BY <1>2
        <3> QED
            BY <3>1 DEF Elect
    <2> QED
        BY <2>1, <2>2, <2>3, <2>4, <2>5 DEF Next
<1>4. CASE UNCHANGED vars
    BY <1>4 DEF Fresh, vars, siteVars
<1>5. CASE \E v \in Server : Forget(v)
    BY <1>5 DEF Forget, Fresh
<1>6. CASE \E s, t \in Server : Probe(s, t)
    <2>1. PICK s \in Server, t \in Server : Probe(s, t)
        BY <1>6
    <2>2. UNCHANGED <<site, db, task, trans, acked>> /\ rec' = [rec EXCEPT ![s] = rec[s] \ {"found"}]
        BY <1>2, <2>1 DEF Probe, siteVars
    <2>3. rec' = rec
        BY <1>1, <1>2, <2>2
    <2> DEFINE w == [view[s] EXCEPT !.up = view[s].up \cup {t}]
    <2>4. view' = [view EXCEPT ![s] = w]
        BY <1>2, <2>1 DEF Probe, ViewRec
    <2>5. w.current = view[s].current /\ w.known = view[s].known
        BY <1>2 DEF ViewRec
    <2> HIDE DEF w
    <2>6. \A u \in Server : view'[u].current = view[u].current /\ view'[u].known = view[u].known
        BY <1>2, <2>4, <2>5
    <2> QED
        BY <2>2, <2>3, <2>6 DEF Fresh
<1>7. CASE \E s \in Server : Crash(s)
    <2>1. PICK s \in Server : Crash(s)
        BY <1>7
    <2>2. /\ acked' = acked /\ rec' = [rec EXCEPT ![s] = {}] /\ task' = [task EXCEPT ![s] = Idle]
          /\ trans' = [trans EXCEPT ![s] = NoTrans] /\ site' = None
        BY <1>1, <2>1 DEF Crash
    <2>3. rec' = rec /\ task' = task /\ trans' = trans
        BY <1>1, <1>2, <2>2
    <2>4. ASSUME NEW t \in Server
          PROVE  db'[t].label = V(1, 1) /\ db'[t].version = V(1, 1) /\ db'[t].data = <<>>
        <3> DEFINE d == [db[s] EXCEPT !.version = db[s].label, !.told = NoVersion,
                                      !.remote = NoTrans]
        <3>1. db'[t] = IF t = s THEN d ELSE db[t]
            BY <1>2, <2>1 DEF Crash
        <3>2. d.label = db[s].label /\ d.version = db[s].label /\ d.data = db[s].data
            BY <1>2 DEF Database
        <3> HIDE DEF d
        <3> QED
            BY <3>1, <3>2 DEF Fresh
    <2>5. PICK T \in SUBSET Others(s) :
              view' = [t \in Server |->
                       IF t = s THEN [NewView(s) EXCEPT !.up = T]
                       ELSE IF t \in T THEN [view[t] EXCEPT !.heard = view[t].heard \ {s},
                                                            !.current = view[t].current \ {s}]
                       ELSE view[t]]
        BY <2>1 DEF Crash
    <2>6. ASSUME NEW t \in Server
          PROVE  view'[t].current = {} /\ view'[t].known = [u \in Server |-> NoVersion]
        <3> DEFINE w1 == [NewView(s) EXCEPT !.up = T]
                   w2 == [view[t] EXCEPT !.heard = view[t].heard \ {s},
                                         !.current = view[t].current \ {s}]
        <3>1. w1.current = {} /\ w1.known = [u \in Server |-> NoVersion]
            BY DEF NewView
        <3>2. view[t].current = {} /\ view[t].known = [u \in Server |-> NoVersion]
            BY DEF Fresh
        <3>3. w2.current = view[t].current \ {s} /\ w2.known = view[t].known
            BY <1>2 DEF ViewRec
        <3>4. view'[t] = w1 \/ view'[t] = w2 \/ view'[t] = view[t]
            BY <2>5
        <3> HIDE DEF w1, w2
        <3> QED
            BY <3>1, <3>2, <3>3, <3>4
    <2> QED
        BY <2>2, <2>3, <2>4, <2>6 DEF Fresh
<1> QED
    BY <1>3, <1>4, <1>5, <1>6, <1>7

\* The first sync site starts its term with an empty database, as all the others have.
LEMMA ElectLed ==
    ASSUME Inv, Inv', Fresh, NEW c \in Server, Elect(c)
    PROVE  Led(c)'
<1>1. /\ acked = {} /\ None \notin Server
      /\ \A t \in Server : /\ trans[t] = NoTrans /\ task[t] = Idle /\ rec[t] = {}
                           /\ task[t].phase = "idle" /\ Phase(t) = "none"
    BY ReplicationAssumption, IdleFacts DEF Fresh, Phase
<1>2. /\ db \in [Server -> Database] /\ view \in [Server -> ViewRec]
      /\ rec \in [Server -> SUBSET Flags]
    BY DEF Inv, TypeInv
<1>3. /\ site' = c /\ rec' = [rec EXCEPT ![c] = {}] /\ UNCHANGED <<task, trans, acked>>
    BY DEF Elect
<1>4. ASSUME NEW t \in Server
      PROVE  db'[t].label = V(1, 1) /\ db'[t].version = V(1, 1) /\ db'[t].data = <<>>
    <2>1. Tid(c) \in Version /\ db[c].version \in Version /\ db[t] \in Database
        BY <1>2, TidType, DatabaseFacts DEF Inv
    <2>2. SameContents(db[t], VotedFor(db[t], db[c].version, Tid(c))) /\ SameContents(db[t], db[t])
        BY <2>1, ContentsFacts
    <2>3. db'[t] = db[t] \/ db'[t] = VotedFor(db[t], db[c].version, Tid(c))
        BY DEF Elect
    <2> QED
        BY <2>2, <2>3 DEF Fresh, SameContents
<1>5. view'[c].current = {} /\ view'[c].known = [u \in Server |-> NoVersion]
    <2>1. PICK Q : view' = [view EXCEPT ![c].up = Q, ![c].heard = Q]
        BY DEF Elect
    <2> DEFINE w == [view[c] EXCEPT !.up = Q, !.heard = Q]
    <2>2. view' = [view EXCEPT ![c] = w]
        BY <1>2, <2>1 DEF ViewRec
    <2>3. w.current = view[c].current /\ w.known = view[c].known
        BY <1>2 DEF ViewRec
    <2> HIDE DEF w
    <2> QED
        BY <1>2, <2>2, <2>3 DEF Fresh
<1>6. /\ V(1, 1) \in Version /\ V(1, 1).epoch = 1 /\ V(1, 1).counter = 1 /\ V(1, 1) # NoVersion
      /\ ~Newer(V(1, 1), V(1, 1)) /\ ~Newer(NoVersion, V(1, 1))
    <2>1. V(1, 1) \in Version
        BY VersionFacts
    <2>2. V(1, 1).epoch = 1 /\ V(1, 1).counter = 1
        BY DEF V
    <2>3. NoVersion.epoch = 0
        BY DEF NoVersion
    <2> QED
        BY <2>1, <2>2, <2>3, NewerFacts
<1>7. rec'[c] = {} /\ task'[c].phase = "idle" /\ task'[c].newest = NoVersion
      /\ \A t \in Server : rec'[t] = {} /\ trans'[t] = NoTrans /\ task'[t].phase = "idle"
    BY <1>1, <1>2, <1>3 DEF Idle
<1>8. Phase(c)' = "none"
    BY <1>7 DEF Phase
<1>9. OnlySite(c)'
    BY <1>3, <1>7 DEF OnlySite, Others
<1>10. NoneNewer(c)'
    BY <1>4, <1>5, <1>6, <1>7 DEF NoneNewer
<1>11. LabelsHold(c)'
    BY <1>4, <1>6, <1>8 DEF LabelsHold
<1>12. AckedKept(c)'
    BY <1>1, <1>3, <1>7, <1>8 DEF AckedKept
<1>13. Copies(c)'
    <2>1. \A t \in Server : Copy(t, c)'
        BY <1>4, <1>6 DEF Copy
    <2>2. Unlabelled(c)'
        BY <1>4, <1>5, <1>6, <1>7 DEF Unlabelled
    <2>3. CurrentAgree(c)' /\ KnownAgree(c)'
        BY <1>4, <1>5, <1>6 DEF CurrentAgree, KnownAgree
    <2>4. LastCommits(c)'
        BY <1>8 DEF LastCommits
    <2> QED
        BY <2>1, <2>2, <2>3, <2>4 DEF Copies
<1> QED
    BY <1>9, <1>10, <1>11, <1>12, <1>13 DEF Led

-----------------------------------------------------------------------------
(* The invariant, and what follows.                                        *)

\* Every step of the first term.
LEMMA LedStep ==
    ASSUME Inv, Inv', elections = 1, elections' = 1, NEW c \in Server, Led(c), [Next]_vars
    PROVE  Led(c)'
<1>1. OnlySite(c)
    BY DEF Led
<1>2. CASE UNCHANGED vars
    BY <1>2 DEF vars, siteVars, Led, OnlySite, NoneNewer, LabelsHold, AckedKept, Copies, Copy,
                Unlabelled, CurrentAgree, KnownAgree, LastCommits, Pending, Before, Phase
<1>3. CASE Expire \/ \E v \in Server : Forget(v)
    BY <1>3, ExpireLed
<1>4. ASSUME NEW s \in Server,
             \/ BeginEnds(s) \/ Write(s) \/ WriteEnds(s) \/ UndoEnds(s)
             \/ AbortTrans(s) \/ AbortEnds(s) \/ EndTrans(s) \/ CommitEnds(s) \/ CommitWait(s)
             \/ ReleaseEnds(s)
      PROVE  Led(c)'
    <2>1. Phase(s) # "none"
        BY <1>4 DEF BeginEnds, Write, WriteEnds, UndoEnds, AbortTrans, AbortEnds, EndTrans,
                    CommitEnds, CommitWait, ReleaseEnds, RoundEnds
    <2>2. s = c
        BY <1>1, <2>1, ActorIsSite DEF Phase
    <2> QED
        BY <1>4, <2>2, RoundsLed
<1>5. ASSUME NEW s \in Server, udisk_commit(s) \/ SetVersionEnds(s) PROVE Led(c)'
    <2>1. Phase(s) # "none"
        BY <1>5 DEF udisk_commit, SetVersionEnds, RoundEnds
    <2>2. s = c
        BY <1>1, <2>1, ActorIsSite DEF Phase
    <2> QED
        BY <1>5, <2>2, CommitLed
<1>6. ASSUME NEW s \in Server, FinishFind(s) \/ Turn(s) \/ Fetch(s) PROVE Led(c)'
    <2>1. s = c
        BY <1>1, <1>6, ActorIsSite DEF FinishFind, Turn, Fetch
    <2> QED
        BY <1>6, <2>1, RecoveryLed
<1>7. ASSUME NEW s \in Server, NEW t \in Server, Call(s, t) \/ Send(s, t) PROVE Led(c)'
    <2>1. trans[s] # NoTrans \/ task[s].phase # "idle"
        BY <1>7 DEF Call, InRound, Phase, Rounds, Send
    <2>2. s = c
        BY <1>1, <2>1, ActorIsSite
    <2> QED
        BY <1>7, <2>2, CallLed, SendLed
<1>8. ASSUME NEW s \in Server PROVE ~Elect(s)
    BY DEF Elect
<1> QED
    BY <1>2, <1>3, <1>4, <1>5, <1>6, <1>7, <1>8, BeginTransLed, SendingLed, StartFindLed,
       CrashLed, BeaconLed, ProbeLed
    DEF Next

\* The invariant holds at the start.
LEMMA TermInit == Init => TermInv
BY IdleFacts DEF Init, TermInv, Fresh, NewView

\* Every step keeps it.
LEMMA TermNext == Inv /\ Inv' /\ TermInv /\ [Next]_vars => TermInv'
<1> SUFFICES ASSUME Inv, Inv', TermInv, [Next]_vars PROVE TermInv'
    OBVIOUS
<1>1. elections \in Nat /\ elections' \in Nat
    BY DEF Inv, TypeInv
<1>2. elections' = elections \/ (elections' = elections + 1 /\ \E c \in Server : Elect(c))
    <2>1. CASE UNCHANGED vars
        BY <2>1 DEF vars, siteVars
    <2>2. Expire \/ (\E v \in Server : Forget(v)) => elections' = elections
        BY DEF Expire, Forget
    <2>3. ASSUME NEW s \in Server,
                 \/ BeginTrans(s) \/ BeginEnds(s) \/ Write(s) \/ WriteEnds(s) \/ UndoEnds(s)
                 \/ AbortTrans(s) \/ AbortEnds(s) \/ EndTrans(s) \/ udisk_commit(s)
                 \/ SetVersionEnds(s) \/ CommitEnds(s) \/ CommitWait(s) \/ ReleaseEnds(s)
          PROVE  elections' = elections
        <3>1. UNCHANGED siteVars
            BY <2>3 DEF BeginTrans, BeginEnds, Write, WriteEnds, UndoEnds, AbortTrans, AbortEnds,
                        EndTrans, udisk_commit, SetVersionEnds, CommitEnds, CommitWait, ReleaseEnds
        <3> QED
            BY <3>1 DEF siteVars
    <2>4. ASSUME NEW s \in Server,
                 \/ FinishFind(s) \/ Turn(s) \/ StartSend(s) \/ Fetch(s) \/ FinishSend(s)
                 \/ StartFind(s)
          PROVE  elections' = elections
        <3>1. UNCHANGED siteVars
            BY <2>4 DEF FinishFind, Turn, StartSend, Fetch, FinishSend, StartFind
        <3> QED
            BY <3>1 DEF siteVars
    <2>5. ASSUME NEW s \in Server, NEW t \in Server,
                 Call(s, t) \/ Send(s, t) \/ Beacon(s, t) \/ Probe(s, t)
          PROVE  elections' = elections
        BY <2>5 DEF Call, Send, Beacon, Probe, siteVars
    <2>6. \A s \in Server : Crash(s) => elections' = elections
        BY DEF Crash
    <2>7. \A s \in Server : Elect(s) => elections' = elections + 1
        BY DEF Elect
    <2> QED
        BY <2>1, <2>2, <2>3, <2>4, <2>5, <2>6, <2>7 DEF Next
<1>3. CASE elections' = elections
    <2>1. elections' = 0 => Fresh'
        BY <1>3, FreshStep DEF TermInv
    <2>2. elections' = 1 => \E c \in Server : Led(c)'
        BY <1>3, LedStep DEF TermInv
    <2> QED
        BY <2>1, <2>2 DEF TermInv
<1>4. CASE elections' = elections + 1 /\ \E c \in Server : Elect(c)
    <2>1. elections' # 0 /\ (elections' = 1 => elections = 0)
        BY <1>1, <1>4
    <2>2. elections' = 1 => \E c \in Server : Led(c)'
        BY <1>4, <2>1, ElectLed DEF TermInv
    <2> QED
        BY <2>1, <2>2 DEF TermInv
<1> QED
    BY <1>2, <1>3, <1>4

\* The invariant always holds.
LEMMA TermCorrect == Spec => [](Inv /\ TermInv)
<1>1. Init => Inv /\ TermInv
    BY InitInv, TermInit
<1>2. Inv /\ TermInv /\ [Next]_vars => (Inv /\ TermInv)'
    BY NextInv, TermNext
<1> QED
    BY <1>1, <1>2, PTL DEF Spec

\* Until a second sync site is elected, servers with the same label hold the same
\* database, whatever crashes and calls are lost: a server can tell whether it has the
\* right database by comparing versions (recovery.c).
THEOREM VersionsNameContentsFirstTerm == Spec => [](elections <= 1 => VersionsNameContents)
<1>1. Inv /\ TermInv => (elections <= 1 => VersionsNameContents)
    <2> SUFFICES ASSUME Inv, TermInv, elections <= 1 PROVE VersionsNameContents
        OBVIOUS
    <2>1. elections = 0 \/ elections = 1
        BY DEF Inv, TypeInv
    <2> QED
        BY <2>1, FreshHolds, LedNames DEF TermInv
<1> QED
    BY <1>1, TermCorrect, PTL

\* Until a second sync site is elected, the sync site has in its database every
\* transaction that ubik_EndTrans has reported to be committed.
THEOREM CommittedSurvivesFirstTerm == Spec => [](elections <= 1 => CommittedSurvives)
<1>1. Inv /\ TermInv => (elections <= 1 => CommittedSurvives)
    <2> SUFFICES ASSUME Inv, TermInv, elections <= 1 PROVE CommittedSurvives
        OBVIOUS
    <2>1. elections = 0 \/ elections = 1
        BY DEF Inv, TypeInv
    <2> QED
        BY <2>1, FreshHolds, LedSurvives DEF TermInv
<1> QED
    BY <1>1, TermCorrect, PTL

=============================================================================
