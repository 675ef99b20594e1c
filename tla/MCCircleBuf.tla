---------------------------- MODULE MCCircleBuf ----------------------------
(* A ring small enough that it fills, empties and wraps at every offset.   *)
EXTENDS CircleBuf
=============================================================================
