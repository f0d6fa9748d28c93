----------------------------- MODULE UbikStore ------------------------------
(***************************************************************************)
(* What the local storage of a Ubik server (src/src/ubik/disk.c, phys.c    *)
(* and the log replay of recovery.c) promises to the layers above it: one  *)
(* write transaction at a time works on a private copy of the database,    *)
(* and a commit replaces contents and version in a single step, whenever   *)
(* the server may crash.                                                   *)
(***************************************************************************)
EXTENDS Integers

CONSTANTS
    Pos,     \* positions of the database file
    Val,     \* what a position may hold
    NoTrans  \* no write transaction is active

VARIABLES
    db,      \* the committed database: its contents and its version
    work     \* the contents as the write transaction sees them

storeVars == <<db, work>>

NoVersion == [epoch |-> 0, counter |-> 0]

StoreInit ==
    /\ db = [data |-> [p \in Pos |-> 0], label |-> NoVersion]
    /\ work = NoTrans

StoreBegin ==
    /\ work = NoTrans
    /\ work' = db.data
    /\ UNCHANGED db

StoreChange ==
    /\ work # NoTrans
    /\ work' \in [Pos -> Val]
    /\ UNCHANGED db

\* Contents and version change together, and the version by one.
StoreCommit ==
    /\ work # NoTrans
    /\ db' = [data |-> work, label |-> [db.label EXCEPT !.counter = @ + 1]]
    /\ work' = NoTrans

\* The first commit of a new sync site starts a new epoch.
StoreRelabel ==
    /\ db'.label.epoch > db.label.epoch
    /\ db' = [db EXCEPT !.label = [epoch |-> db'.label.epoch, counter |-> 1]]
    /\ UNCHANGED work

\* An abort, or a crash of the server.
StoreAbort ==
    /\ work' = NoTrans
    /\ UNCHANGED db

StoreNext == StoreBegin \/ StoreChange \/ StoreCommit \/ StoreRelabel \/ StoreAbort

StoreSpec == StoreInit /\ [][StoreNext]_storeVars

=============================================================================
