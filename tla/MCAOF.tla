------------------------------- MODULE MCAOF -------------------------------
(* Instances of AOF for TLC: two connections that write one key with two
   pieces, up to three commands. *)
EXTENDS AOF

CONSTANTS c1, c2, k1, p1, p2
=============================================================================
