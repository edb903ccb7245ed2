------------------------------- MODULE MCScan -------------------------------
(* Four keys in a cache of three shards, of which the mask reaches two: three
   keys in shard 0, where a cursor has room for two, and one in shard 2. *)
EXTENDS Scan

CONSTANTS a, b

MCKeys == {<<a>>, <<a, b>>, <<b, a>>, <<b, b>>}
MCHash == [k \in Keys |-> CASE k = <<a>> -> 1
                            [] k = <<a, b>> -> 4
                            [] k = <<b, a>> -> 2
                            [] k = <<b, b>> -> 8]
MCPatterns == {<<Star>>, <<a, Star>>, <<Star, b>>, <<Star, a, Star>>, <<a, b>>, <<>>, <<Star, Star>>}
=============================================================================
