------------------------------ MODULE MCBosFs ------------------------------
(***************************************************************************)
(* Instances of BosFs for TLC.                                             *)
(***************************************************************************)
EXTENDS BosFs

=============================================================================
