---------------------------- MODULE MCWorkerPool ----------------------------
(***************************************************************************)
(* A small instance of WorkerPool for TLC.                                  *)
(***************************************************************************)
EXTENDS WorkerPool

CONSTANTS f1, f2

TwoAndOne == [f \in Fiber |-> IF f = f1 THEN 2 ELSE 1]
=============================================================================
