--------------------------- MODULE MCUbikElection ---------------------------
(***************************************************************************)
(* Instances of UbikElection for TLC.                                      *)
(***************************************************************************)
EXTENDS UbikElection, TLC

\* Server 1 is behind the others: the votes it collects look young to it.
FirstBehind == {1 :> 0 @@ 2 :> 1 @@ 3 :> 1}

=============================================================================
