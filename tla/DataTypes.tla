----------------------------- MODULE DataTypes -----------------------------
(* The objects a key can hold beside a string: the hashes, lists, sets and
   sorted sets of internal/engine, as values and operators.  Each operation
   runs under the object's own lock and is atomic; what is made of several of
   them is in module Handlers.

   A hash is a function from fields to values, a list a sequence (front first),
   a set a set, a sorted set a function from members to scores.  Replies whose
   order is the iteration order of a Go map are sets or counts. *)
EXTENDS Integers, Sequences, FiniteSets, Functions, SequencesExt

-----------------------------------------------------------------------------
(* Functions as finite maps *)

Put(f, x, v) == [y \in DOMAIN f \cup {x} |-> IF y = x THEN v ELSE f[y]]

Drop(f, x) == Restrict(f, DOMAIN f \ {x})

-----------------------------------------------------------------------------
(* List *)

LPush(l, values) == Reverse(values) \o l

RPush(l, values) == l \o values

(* LPop and RPop on a list that is not empty: what is returned, what is left. *)
LPop(l) == [val |-> Head(l), rest |-> Tail(l)]

RPop(l) == [val |-> Last(l), rest |-> Front(l)]

(* Seeded fault: a negative stop is counted from the last element, not from
   the end. *)
BoundsFromLast(n, start, stop) ==
    LET from == IF start < 0 THEN n + start ELSE start
        to == IF stop < 0 THEN n - 1 + stop ELSE stop
    IN  [from |-> IF from < 0 THEN 0 ELSE from,
         to |-> IF to >= n THEN n - 1 ELSE to]

(* The indices of LRANGE and ZRANGE, counted from 0, after negative ones were
   counted from the end and both were cut to the length n. *)
Bounds(n, start, stop) ==
    LET from == IF start < 0 THEN n + start ELSE start
        to == IF stop < 0 THEN n + stop ELSE stop
    IN  [from |-> IF from < 0 THEN 0 ELSE from,
         to |-> IF to >= n THEN n - 1 ELSE to]

LRange(l, start, stop) ==
    LET cut == Bounds(Len(l), start, stop)
    IN  IF Len(l) = 0 \/ cut.from > cut.to THEN <<>>
        ELSE SubSeq(l, cut.from + 1, cut.to + 1)

-----------------------------------------------------------------------------
(* Set: Add and Remove take all their members under one lock and count the
   ones that change something. *)

SetAdd(s, members) ==
    [set |-> s \cup ToSet(members), count |-> Cardinality(ToSet(members) \ s)]

SetRemove(s, members) ==
    [set |-> s \ ToSet(members), count |-> Cardinality(ToSet(members) \cap s)]

-----------------------------------------------------------------------------
(* Sorted set *)

(* The orders Range may work with: sort.Slice is not stable, and it starts
   from the random order of a map, so members of one score come in any order. *)
Rankings(z) ==
    {s \in SetToSeqs(DOMAIN z) :
        \A i \in 1 .. Len(s) - 1 : z[s[i]] <= z[s[i + 1]]}

(* SortedSet.Range: the replies it may give. *)
ZRange(z, start, stop) ==
    LET n == Cardinality(DOMAIN z)
        cut == Bounds(n, start, stop)
    IN  IF cut.from > cut.to \/ cut.from >= n THEN {<<>>}
        ELSE {SubSeq(s, cut.from + 1, cut.to + 1) : s \in Rankings(z)}

-----------------------------------------------------------------------------
(* Reference: the elements whose position lies between two indices, where
   -1 is the last position. *)
Slice(s, start, stop) ==
    LET pos(i) == IF i < 0 THEN Len(s) + i ELSE i
        inside == {i \in 1 .. Len(s) : pos(start) <= i - 1 /\ i - 1 <= pos(stop)}
    IN  [j \in 1 .. Cardinality(inside) |->
            s[CHOOSE i \in inside : Cardinality({x \in inside : x < i}) = j - 1]]

=============================================================================
