------------------------------ MODULE MCShard ------------------------------
(* An instance of Shard for TLC.  Keys have one byte.  With max_memory = 6
   three "small" items (2 bytes each, with their keys) fit together, a "large"
   one (4) fills the shard together with a small one, also when one of the two
   replaces the other, and a "huge" one (7) is larger than the shard. *)
EXTENDS ShardCache, TLC

CONSTANTS c1, c2, k1, k2, k3, small, large, huge

MCClients == {c1, c2}
MCReaders == {c1}
MCKeys == {k1, k2, k3}
MCValues == {small, large, huge}
MCKeyLen == [k \in Keys |-> 1]
MCValLen == [v \in Values |-> CASE v = small -> 1
                                [] v = large -> 3
                                [] v = huge -> 6]
MCTTLs == {-2, 1}

KeySymmetry == Permutations(Keys)
=============================================================================
