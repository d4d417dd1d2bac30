----------------------------- MODULE MCIoEvents -----------------------------
(***************************************************************************)
(* Small instances of IoEvents for TLC.                                    *)
(***************************************************************************)
EXTENDS IoEvents, TLC

Symmetry == Permutations(FD) \cup Permutations(Waiter)
=============================================================================
