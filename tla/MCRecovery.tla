----------------------------- MODULE MCRecovery -----------------------------
(* Instances of Recovery for TLC: two keys that fall into different shards when
   there are two of them, and also when there are four. *)
EXTENDS Recovery, TLC

CONSTANTS k1, k2

MCHash == [k \in Keys |-> IF k = k1 THEN 4 ELSE 7]

AllConfigs == SUBSET {"aof", "rdb", "json"}
AofAdded == {{"rdb"}, {"aof", "rdb"}}
=============================================================================
