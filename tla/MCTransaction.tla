--------------------------- MODULE MCTransaction ---------------------------
(* Instances of Transaction for TLC: two connections, two keys, one data
   command of each shape. *)
EXTENDS Transaction

CONSTANTS c1, c2, k1, k2

MCConns == {c1, c2}
MCKeys == {k1, k2}

SetK1 == [op |-> "SET", keys |-> <<k1>>]
MsetBoth == [op |-> "MSET", keys |-> <<k2, k1>>]
GetK1 == [op |-> "GET", keys |-> <<k1>>]

BadK2 == [op |-> "BAD", keys |-> <<k2>>]

Mixed == {MsetBoth, GetK1, BadK2}
SetOnly == {SetK1}

WatchOne == {<<k1>>}
WatchBoth == {<<k1, k2>>}
=============================================================================
