----------------------------- MODULE MCLruRing -----------------------------
(* Instances of LruRing for TLC: four keys, two lookups. *)
EXTENDS LruRing

CONSTANTS r1, r2, k1, k2, k3, k4

MCKeys == {k1, k2, k3, k4}
=============================================================================
