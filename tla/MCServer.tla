------------------------------ MODULE MCServer ------------------------------
(* Instances of Server for TLC: three clients for one place, and a password. *)
EXTENDS Server

CONSTANTS c1, c2, c3

=============================================================================
