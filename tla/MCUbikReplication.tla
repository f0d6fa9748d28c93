-------------------------- MODULE MCUbikReplication --------------------------
(***************************************************************************)
(* Instances of UbikReplication for TLC.  The interesting cases lie many   *)
(* steps from Init, so the runs start from states on the way there.        *)
(***************************************************************************)
EXTENDS UbikReplication, TLC

CONSTANT First   \* the first sync site

ASSUME FirstAssumption == First \in Server

\* The other servers are interchangeable.
Symmetry == Permutations(Others(First))

\* What the first sync site thinks of the others once they have its database.
FirstView ==
    [up |-> Others(First), current |-> Others(First), heard |-> Others(First),
     known |-> [t \in Server |-> IF t = First THEN NoVersion ELSE V(2, 1)]]

\* First is sync site, for the second time; everyone has its new database and has voted
\* for it since, and a first transaction was aborted.
SettledInit ==
    /\ site = First /\ adv = TRUE /\ elections = 2
    /\ epoch = [t \in Server |-> IF t = First THEN 4 ELSE 0]
    /\ db = [t \in Server |-> [label |-> V(2, 1), version |-> V(2, 1), told |-> V(2, 1),
                               data |-> <<>>, remote |-> NoTrans]]
    /\ sync = [t \in Server |-> First]
    /\ view = [t \in Server |-> IF t = First THEN FirstView ELSE NewView(t)]
    /\ rec = [t \in Server |-> IF t = First THEN {"found", "have", "sent"} ELSE {}]
    /\ task = [t \in Server |-> Idle]
    /\ trans = [t \in Server |-> NoTrans]
    /\ acked = {} /\ begun = 1 /\ faults = 0

\* Another server was elected after First, without its vote, and has committed a
\* transaction; First has missed it, and still takes the other databases for its own.  A
\* beacon that was lost is the fault.
LaggingInit == \E second \in Others(First) :
    LET Label(t) == IF t = First THEN V(2, 1) ELSE V(4, 2)
        third == Others(First) \ {second}
    IN  /\ site = second /\ adv = TRUE /\ elections = 2
        /\ epoch = [t \in Server |-> IF t = First THEN 3 ELSE IF t = second THEN 4 ELSE 0]
        /\ db = [t \in Server |-> [label |-> Label(t), version |-> Label(t), told |-> Label(t),
                                   data |-> IF t = First THEN <<>> ELSE <<1>>,
                                   remote |-> NoTrans]]
        /\ sync = [t \in Server |-> IF t = First THEN None ELSE second]
        /\ view = [t \in Server |->
                      IF t = First THEN FirstView
                      ELSE IF t = second
                      THEN [up |-> third, current |-> third, heard |-> third,
                            known |-> [u \in Server |-> IF u \in third THEN Label(u)
                                                        ELSE NoVersion]]
                      ELSE NewView(t)]
        /\ rec = [t \in Server |-> IF t = second THEN {"found", "have", "label"} ELSE {}]
        /\ task = [t \in Server |-> Idle]
        /\ trans = [t \in Server |-> NoTrans]
        /\ acked = {1} /\ begun = 1 /\ faults = 1

\* Another server was elected after First and has crashed in its first commit: it has the
\* transaction, the third server only the label that announced it, and First neither.
InterruptedInit == \E second \in Others(First) :
    LET Label(t) == IF t = First THEN V(2, 1) ELSE IF t = second THEN V(4, 2) ELSE V(4, 1)
        third == Others(First) \ {second}
        Remote == [tid |-> V(4, 2), id |-> 1, wrote |-> TRUE, done |-> FALSE]
    IN  /\ site = None /\ adv = FALSE /\ elections = 2
        /\ epoch = [t \in Server |-> IF t = First THEN 3 ELSE 0]
        /\ db = [t \in Server |-> [label |-> Label(t), version |-> Label(t),
                                   told |-> IF t = second THEN NoVersion ELSE Label(t),
                                   data |-> IF t = second THEN <<1>> ELSE <<>>,
                                   remote |-> IF t \in third THEN Remote ELSE NoTrans]]
        /\ sync = [t \in Server |-> IF t = First THEN First
                                    ELSE IF t \in third THEN second ELSE None]
        /\ view = [t \in Server |->
                      IF t = First THEN [FirstView EXCEPT !.current = third, !.heard = third]
                      ELSE NewView(t)]
        /\ rec = [t \in Server |-> {}]
        /\ task = [t \in Server |-> Idle]
        /\ trans = [t \in Server |-> NoTrans]
        /\ acked = {} /\ begun = 1 /\ faults = 1

LaterSpec == (SettledInit \/ LaggingInit) /\ [][Next]_vars
SettledSpec == SettledInit /\ [][Next]_vars
InterruptedSpec == InterruptedInit /\ [][Next]_vars

\* Not invariants: as INVARIANTs of Spec, with faults only where the state has them, they
\* show that the states above are reachable.
NotSettled == ~SettledInit
NotLagging == ~LaggingInit
NotInterrupted == ~InterruptedInit
=============================================================================
