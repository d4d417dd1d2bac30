------------------------------ MODULE MCSockets ------------------------------
(***************************************************************************)
(* A small instance of Sockets for TLC.                                     *)
(***************************************************************************)
EXTENDS Sockets, TLC

CONSTANTS w1, w2

Alike == Permutations(Socket) \union Permutations({w1, w2})
=============================================================================
