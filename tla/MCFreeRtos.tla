----------------------------- MODULE MCFreeRtos -----------------------------
(* FreeRtosBackend for TLC. *)
EXTENDS FreeRtosBackend, TLC

\* Control blocks are only compared with each other.
HandleSymmetry == Permutations(Handles)
=============================================================================
