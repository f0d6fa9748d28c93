------------------------------ MODULE UbikSite ------------------------------
(***************************************************************************)
(* What the election of Ubik (src/src/ubik/vote.c and beacon.c) promises   *)
(* to the replication of the database: there is one sync site or none, and *)
(* the sync site has the newest epoch.  A site whose votes have run out    *)
(* may go on with the epoch it has if nobody has been sync site since.     *)
(***************************************************************************)
EXTENDS Integers

CONSTANTS
    Server,  \* the database servers
    None     \* no server

VARIABLES
    site,    \* the server that acts as sync site
    holder,  \* the server whose epoch is the newest
    epoch    \* that epoch

siteState == <<site, holder, epoch>>

SiteInit ==
    /\ site \in Server \cup {None}
    /\ holder \in Server \cup {None}
    /\ site # None => holder = site
    /\ epoch \in Nat

\* A majority votes for c, which takes a later epoch or already has the newest.
SiteTakes(c) ==
    /\ site \in {None, c} /\ site' = c
    /\ holder' = c
    /\ epoch' \in Nat
    /\ epoch' > epoch \/ (holder = c /\ epoch' = epoch)

\* The votes run out, the site loses an election, or it crashes.
SiteLeaves ==
    /\ site # None /\ site' = None
    /\ UNCHANGED <<holder, epoch>>

SiteNext == SiteLeaves \/ \E c \in Server : SiteTakes(c)

SiteSpec == SiteInit /\ [][SiteNext]_siteState

=============================================================================
