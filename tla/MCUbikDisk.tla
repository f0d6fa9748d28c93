----------------------------- MODULE MCUbikDisk -----------------------------
(* Instances of UbikDisk for TLC. *)
EXTENDS UbikDisk

=============================================================================
