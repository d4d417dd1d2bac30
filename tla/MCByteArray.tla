----------------------------- MODULE MCByteArray -----------------------------
(***************************************************************************)
(* A small instance of ByteArray for TLC: bytes of 3 bits.                 *)
(***************************************************************************)
EXTENDS ByteArray

SmallWidth == [F16 |-> 1, F32 |-> 2]
SmallWord  == [V32 |-> 3, V64 |-> 4]
SmallData == {<<>>, <<1>>, <<1, 2, 3>>}
SmallSamples ==
  [F32 |-> {11, 63}, V32 |-> {3, 4}, Z32 |-> {-4, 3}, V64 |-> {15},
   S16 |-> {<<>>, <<6, 1, 2>>, <<5, 5, 5, 5, 5, 5, 5, 5>>}, SV |-> {<<7>>}]
=============================================================================
