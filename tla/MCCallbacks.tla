----------------------------- MODULE MCCallbacks -----------------------------
(* Callbacks on a small instance: clients and calls are interchangeable. *)
EXTENDS Callbacks, TLC

Symmetry == Permutations(Hosts) \cup Permutations(Calls)
=============================================================================
