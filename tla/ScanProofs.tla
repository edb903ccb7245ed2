----------------------------- MODULE ScanProofs -----------------------------
(* Proofs about Scan for every set of keys and patterns, every hash, and every
   number of shards, including those that are not a power of two. *)
EXTENDS Scan, FoldLemmas, SequenceTheorems, TLAPS

-----------------------------------------------------------------------------
(* Shards *)

(* A set of naturals that is bounded and not empty has a maximum. *)
LEMMA MaxIsMember ==
    ASSUME NEW b \in Nat, NEW S \in SUBSET (0 .. b), S # {}
    PROVE  Max(S) \in S
<1>1. \E m \in S : \A n \in S : m >= n
  <2>1. CASE S \cap (1 .. b) = {}
    <3>1. \A n \in S : n = 0
      <4>1. \A n \in S : n \in 0 .. b /\ n \notin 1 .. b
        BY <2>1
      <4> QED
        BY <4>1
    <3>2. PICK m \in S : TRUE
      OBVIOUS
    <3>3. m = 0 /\ \A n \in S : m >= n
      BY <3>1
    <3> QED
      BY <3>3
  <2>2. CASE S \cap (1 .. b) # {}
    <3>1. PICK m \in S \cap (1 .. b) : \A n \in S \cap (1 .. b) : n <= m
      BY <2>2, GreatestNat
    <3>2. \A n \in S : n = 0 \/ n \in S \cap (1 .. b)
      OBVIOUS
    <3> QED
      BY <3>1, <3>2
  <2> QED
    BY <2>1, <2>2
<1> QED
  BY <1>1 DEF Max

(* The mask never leads beyond the shards, however many there are. *)
LEMMA ShardInRange ==
    ASSUME NEW k
    PROVE  getShard(k) \in 0 .. NumShards - 1
<1>1. PICK y \in Nat : y = NumShards - 1
  BY SizeAssumption
<1> DEFINE S == {z \in 0 .. y : \A w \in Powers(y) :
                    HasBit(z, w) => HasBit(Hash[k], w) /\ HasBit(y, w)}
<1>2. 0 \in S
  <2>1. ASSUME NEW w \in Powers(y)
        PROVE  ~ HasBit(0, w)
    BY DEF HasBit, Powers
  <2> QED
    BY <2>1
<1>3. S \in SUBSET (0 .. y)
  OBVIOUS
<1>4. getShard(k) = Max(S)
  BY <1>1 DEF getShard, And
<1> HIDE DEF S
<1>5. Max(S) \in 0 .. y
  BY <1>2, <1>3, MaxIsMember
<1> QED
  BY <1>1, <1>4, <1>5

(* The keys in the shards before one. *)
Before(shard) == {k \in present : getShard(k) < shard}

LEMMA ShardsSplit ==
    ASSUME present \subseteq Keys
    PROVE  /\ IsFiniteSet(present) /\ Cardinality(present) \in Nat
           /\ \A s : /\ IsFiniteSet(KeysIn(s)) /\ Cardinality(KeysIn(s)) \in Nat
                     /\ IsFiniteSet(Before(s)) /\ Cardinality(Before(s)) \in Nat
           /\ \A s \in Nat : Cardinality(Before(s + 1)) =
                                 Cardinality(Before(s)) + Cardinality(KeysIn(s))
           /\ Before(0) = {}
           /\ \A s \in Nat : s >= NumShards => Before(s) = present /\ KeysIn(s) = {}
<1>1. IsFiniteSet(present)
  BY KeysAssumption, FS_Subset
<1>2. \A k : getShard(k) \in Nat /\ getShard(k) < NumShards
  BY ShardInRange, SizeAssumption
<1>3. ASSUME NEW s
      PROVE  IsFiniteSet(KeysIn(s)) /\ IsFiniteSet(Before(s))
  <2>1. KeysIn(s) \subseteq present /\ Before(s) \subseteq present
    BY DEF KeysIn, Before
  <2> QED
    BY <1>1, <2>1, FS_Subset
<1>4. ASSUME NEW s \in Nat
      PROVE  Cardinality(Before(s + 1)) = Cardinality(Before(s)) + Cardinality(KeysIn(s))
  <2>1. Before(s + 1) = Before(s) \cup KeysIn(s)
    BY <1>2 DEF Before, KeysIn
  <2>2. Before(s) \cap KeysIn(s) = {}
    BY <1>2 DEF Before, KeysIn
  <2>3. Cardinality(Before(s)) \in Nat /\ Cardinality(KeysIn(s)) \in Nat
    BY <1>3, FS_CardinalityType
  <2>4. Cardinality(Before(s) \cup KeysIn(s)) =
            Cardinality(Before(s)) + Cardinality(KeysIn(s)) - Cardinality({})
    BY <1>3, <2>2, FS_Union
  <2>5. Cardinality({}) = 0
    BY FS_EmptySet
  <2>6. \A a, b \in Nat : a + b - 0 = a + b
    OBVIOUS
  <2> QED
    BY <2>1, <2>3, <2>4, <2>5, <2>6, Zenon
<1>5. Before(0) = {}
  BY <1>2 DEF Before
<1>6. ASSUME NEW s \in Nat, s >= NumShards
      PROVE  Before(s) = present /\ KeysIn(s) = {}
  BY <1>2, <1>6, SizeAssumption DEF Before, KeysIn
<1> QED
  BY <1>1, <1>3, <1>4, <1>5, <1>6, FS_CardinalityType

-----------------------------------------------------------------------------
(* One shard *)

LEMMA MinOfTwo ==
    ASSUME NEW a \in Int, NEW b \in Int
    PROVE  Min({a, b}) = IF a <= b THEN a ELSE b
<1>1. \E x \in {a, b} : \A y \in {a, b} : x =< y
  OBVIOUS
<1>2. PICK x : x = Min({a, b})
  OBVIOUS
<1>3. x \in {a, b} /\ \A y \in {a, b} : x =< y
  BY <1>1, <1>2 DEF Min
<1> QED
  BY <1>2, <1>3

(* A subset of the same size is the whole. *)
LEMMA WholeSubset ==
    ASSUME NEW T, IsFiniteSet(T), NEW S \in SUBSET T, Cardinality(S) = Cardinality(T)
    PROVE  S = T
  BY FS_Subset

(* What Shard.Scan returns: no more than the limit; all that matches, if it was
   called from the beginning and returns less than the limit; and of the keys
   behind the offset as many as the limit allows, if all keys match. *)
LEMMA ScannedFacts ==
    ASSUME present \subseteq Keys, NEW shard, NEW offset \in Nat, NEW pattern,
           NEW limit \in Int, NEW found \in Scanned(shard, offset, pattern, limit)
    PROVE  /\ found \subseteq KeysIn(shard) /\ IsFiniteSet(found)
           /\ Cardinality(found) \in Nat /\ Cardinality(found) <= limit
           /\ offset = 0 /\ Cardinality(found) < limit =>
                  \A k \in KeysIn(shard) : matchPattern(k, pattern) => k \in found
           /\ pattern = <<Star>> /\ offset <= Cardinality(KeysIn(shard)) =>
                  /\ Cardinality(found) <= Cardinality(KeysIn(shard)) - offset
                  /\ Cardinality(found) < limit =>
                         Cardinality(found) = Cardinality(KeysIn(shard)) - offset
<1>1. PICK all : all = KeysIn(shard)
  OBVIOUS
<1>2. PICK n \in Nat : n = Cardinality(all) /\ IsFiniteSet(all)
  BY <1>1, ShardsSplit
<1>3. PICK rest \in Nat : rest = IF offset < n THEN n - offset ELSE 0
  <2>1. (IF offset < n THEN n - offset ELSE 0) \in Nat
    OBVIOUS
  <2> QED
    BY <2>1
<1>4. PICK tail \in kSubset(rest, all) :
          found \in kSubset(Min({Cardinality({k \in tail : matchPattern(k, pattern)}), limit}),
                            {k \in tail : matchPattern(k, pattern)})
  BY <1>1, <1>2, <1>3 DEF Scanned
<1>5. PICK hits : hits = {k \in tail : matchPattern(k, pattern)}
  OBVIOUS
<1>6. /\ tail \subseteq all /\ Cardinality(tail) = rest /\ IsFiniteSet(tail)
      /\ hits \subseteq tail /\ IsFiniteSet(hits) /\ Cardinality(hits) \in Nat
      /\ Cardinality(hits) <= rest
  <2>1. tail \subseteq all /\ Cardinality(tail) = rest
    BY <1>4 DEF kSubset
  <2>2. hits \subseteq tail
    BY <1>5
  <2> QED
    BY <1>2, <2>1, <2>2, FS_Subset, FS_CardinalityType
<1>7. found \subseteq hits /\ Cardinality(found) = Min({Cardinality(hits), limit})
  BY <1>4, <1>5 DEF kSubset
<1>8. IsFiniteSet(found) /\ Cardinality(found) \in Nat
  BY <1>6, <1>7, FS_Subset, FS_CardinalityType
<1>9. Cardinality(found) = IF Cardinality(hits) <= limit THEN Cardinality(hits) ELSE limit
  BY <1>6, <1>7, MinOfTwo
<1>10. Cardinality(found) < limit => found = hits
  BY <1>6, <1>7, <1>9, WholeSubset
<1>11. offset = 0 => tail = all
  <2>1. offset = 0 => rest = n
    BY <1>2, <1>3
  <2> QED
    BY <1>2, <1>6, <2>1, WholeSubset
<1>12. pattern = <<Star>> => hits = tail
  BY <1>5 DEF matchPattern
<1>13. offset <= n => rest = n - offset
  BY <1>2, <1>3
<1>14. offset = 0 /\ Cardinality(found) < limit =>
           \A k \in all : matchPattern(k, pattern) => k \in found
  BY <1>5, <1>10, <1>11
<1>15. pattern = <<Star>> /\ offset <= n =>
           /\ Cardinality(found) <= n - offset
           /\ Cardinality(found) < limit => Cardinality(found) = n - offset
  BY <1>6, <1>9, <1>12, <1>13
<1> QED
  BY <1>1, <1>2, <1>6, <1>7, <1>8, <1>9, <1>14, <1>15

-----------------------------------------------------------------------------
(* The invariant *)

Iters ==
    [pc : {"next", "wait", "done"}, pattern : Patterns, count : Counts, cursor : Nat,
     calls : {0, 1, 2}, total : Nat, seen : SUBSET Keys, quiet : BOOLEAN]

Calls == [pc : {"shard"}, shard : Nat, offset : Nat, keys : SUBSET Keys]

Typed ==
    /\ present \subseteq Keys /\ stable \subseteq present
    /\ iter = NoIter \/ iter \in Iters
    /\ call = NoCall \/ call \in Calls
    /\ call.pc = "shard" <=> iter.pc = "wait"

(* A call of Cache.Scan has keys of the shards it has left, and not yet enough. *)
Collecting ==
    call.pc = "shard" =>
        /\ \A k \in call.keys : getShard(k) < call.shard
        /\ iter.count > 0 => Cardinality(call.keys) < iter.count

(* The first call starts every shard at its beginning and misses nothing. *)
FirstCall ==
    iter.pc # "none" =>
        /\ iter.calls = 0 => iter.pc = "next" /\ iter.cursor = 0
        /\ iter.calls = 1 /\ iter.pc = "wait" =>
               /\ call.offset = 0
               /\ iter.count > 0 =>
                      \A k \in stable : matchPattern(k, iter.pattern) /\ getShard(k) < call.shard
                                            => k \in call.keys
        /\ iter.calls = 1 /\ iter.pc = "done" /\ iter.count > 0 =>
               \A k \in stable : matchPattern(k, iter.pattern) => k \in iter.seen

(* An iteration that is undisturbed and asks for all keys of shards that are
   small enough. *)
Undisturbed ==
    /\ iter.pc # "none"
    /\ iter.count > 0 /\ iter.quiet /\ iter.pattern = <<Star>>
    /\ \A s \in 0 .. NumShards - 1 : Cardinality(KeysIn(s)) <= CursorBase

(* n keys lie before the offset into a shard. *)
AtPlace(n, shard, offset) ==
    /\ n = Cardinality(Before(shard)) + offset
    /\ offset <= Cardinality(KeysIn(shard))

(* As many keys were returned as lie before the place where it is. *)
Counting ==
    Undisturbed =>
        /\ iter.pc = "next" =>
               AtPlace(iter.total, iter.cursor \div CursorBase, iter.cursor % CursorBase)
        /\ iter.pc = "wait" =>
               AtPlace(iter.total + Cardinality(call.keys), call.shard, call.offset)
        /\ iter.pc = "done" => iter.total = Cardinality(present)

Inv == Typed /\ Collecting /\ FirstCall /\ Counting

(* What does not change while present does not. *)
LEMMA SameKeys ==
    ASSUME present' = present
    PROVE  /\ \A s : KeysIn(s)' = KeysIn(s) /\ Before(s)' = Before(s)
           /\ \A n, s, o : AtPlace(n, s, o)' <=> AtPlace(n, s, o)
<1>1. \A s : KeysIn(s)' = KeysIn(s) /\ Before(s)' = Before(s)
  BY DEF KeysIn, Before
<1> QED
  BY <1>1 DEF AtPlace

LEMMA InitInv ==
    ASSUME Init
    PROVE  Inv
<1>1. iter.pc = "none" /\ call.pc = "none" /\ iter = NoIter /\ call = NoCall
  BY DEF Init, NoIter, NoCall
<1>2. Typed
  BY <1>1 DEF Init, Typed
<1> QED
  BY <1>1, <1>2 DEF Inv, Collecting, FirstCall, Counting, Undisturbed

LEMMA BeginKeepsInv ==
    ASSUME Inv, Begin
    PROVE  Inv'
<1>1. PICK p \in Patterns, n \in Counts :
          iter' = [pc |-> "next", pattern |-> p, count |-> n, cursor |-> 0,
                   calls |-> 0, total |-> 0, seen |-> {}, quiet |-> TRUE]
  BY DEF Begin
<1>2. present' = present /\ call' = call /\ stable' = present /\ iter.pc # "wait"
  BY DEF Begin
<1>3. /\ iter'.pc = "next" /\ iter'.cursor = 0 /\ iter'.calls = 0 /\ iter'.total = 0
      /\ iter' \in Iters
  BY <1>1 DEF Iters
<1>4. call.pc # "shard" /\ present \subseteq Keys
  BY <1>2 DEF Inv, Typed
<1>5. Typed'
  BY <1>2, <1>3, <1>4 DEF Inv, Typed
<1>6. Collecting' /\ FirstCall'
  BY <1>2, <1>3, <1>4 DEF Collecting, FirstCall
<1>7. Counting'
  <2>1. 0 \div CursorBase = 0 /\ 0 % CursorBase = 0
    BY SizeAssumption
  <2>2. Cardinality(Before(0)) = 0 /\ Cardinality(KeysIn(0)) \in Nat
    BY <1>4, ShardsSplit, FS_EmptySet
  <2>3. AtPlace(0, 0, 0)
    BY <2>2 DEF AtPlace
  <2>4. AtPlace(0, 0, 0)'
    BY <1>2, <2>3, SameKeys
  <2>5. AtPlace(iter.total, iter.cursor \div CursorBase, iter.cursor % CursorBase)'
    BY <1>3, <2>1, <2>4
  <2> QED
    BY <1>3, <2>5 DEF Counting
<1> QED
  BY <1>5, <1>6, <1>7 DEF Inv

LEMMA ScanCallKeepsInv ==
    ASSUME Inv, ScanCall
    PROVE  Inv'
<1>1. iter \in Iters /\ iter.pc = "next" /\ present' = present /\ stable' = stable
  BY DEF ScanCall, Inv, Typed, NoIter
<1>2. PICK s \in Nat, o \in Nat :
          s = iter.cursor \div CursorBase /\ o = iter.cursor % CursorBase
  BY <1>1, SizeAssumption DEF Iters
<1>3. iter' = [iter EXCEPT !.pc = "wait", !.calls = IF @ = 0 THEN 1 ELSE 2]
  BY DEF ScanCall
<1>4. call' = [pc |-> "shard", shard |-> s, offset |-> o, keys |-> {}]
  BY <1>2 DEF ScanCall
<1>5. /\ call' \in Calls /\ call'.pc = "shard" /\ call'.shard = s /\ call'.offset = o
      /\ call'.keys = {}
  BY <1>4 DEF Calls
<1>6. /\ iter' \in Iters /\ iter'.pc = "wait" /\ iter'.calls = (IF iter.calls = 0 THEN 1 ELSE 2)
      /\ iter'.count = iter.count /\ iter'.pattern = iter.pattern /\ iter'.total = iter.total
      /\ iter'.quiet = iter.quiet
  BY <1>1, <1>3 DEF Iters
<1>7. Typed'
  BY <1>1, <1>5, <1>6 DEF Inv, Typed
<1>8. Cardinality({}) = 0
  BY FS_EmptySet
<1>9. Collecting'
  BY <1>5, <1>8 DEF Collecting
<1>10. FirstCall'
  <2>1. CASE iter.calls = 0
    <3>1. iter.cursor = 0
      BY <1>1, <2>1 DEF Inv, FirstCall
    <3>2. s = 0 /\ o = 0
      BY <1>2, <3>1, SizeAssumption
    <3>3. \A k : ~ (getShard(k) < 0)
      BY ShardInRange, SizeAssumption
    <3> QED
      BY <1>5, <1>6, <2>1, <3>2, <3>3 DEF FirstCall
  <2>2. CASE iter.calls # 0
    BY <1>6, <2>2 DEF FirstCall
  <2> QED
    BY <2>1, <2>2
<1>11. Counting'
  <2> SUFFICES ASSUME Undisturbed'
               PROVE  AtPlace(iter.total + Cardinality(call.keys), call.shard, call.offset)'
    BY <1>6 DEF Counting
  <2>1. Undisturbed
    BY <1>1, <1>6, SameKeys DEF Undisturbed
  <2>2. AtPlace(iter.total, s, o)
    BY <1>1, <1>2, <2>1 DEF Inv, Counting
  <2>3. iter'.total + Cardinality(call'.keys) = iter.total
    BY <1>1, <1>5, <1>6, <1>8 DEF Iters
  <2> QED
    BY <1>1, <1>5, <2>2, <2>3, SameKeys DEF AtPlace
<1> QED
  BY <1>7, <1>9, <1>10, <1>11 DEF Inv

LEMMA ChangeKeepsInv ==
    ASSUME Inv, NEW k \in Keys, Change(k)
    PROVE  Inv'
<1>1. /\ present' = (IF k \in present THEN present \ {k} ELSE present \cup {k})
      /\ stable' = stable \ {k} /\ call' = call
      /\ iter' = IF iter.pc # "none" THEN [iter EXCEPT !.quiet = FALSE] ELSE iter
  BY DEF Change
<1>2. present' \subseteq Keys /\ stable' \subseteq present'
  BY <1>1 DEF Inv, Typed
<1>3. CASE iter.pc = "none"
  <2>1. iter' = iter /\ iter = NoIter
    BY <1>1, <1>3 DEF Inv, Typed, Iters
  <2>2. Typed'
    BY <1>1, <1>2, <2>1 DEF Inv, Typed
  <2>3. Collecting' /\ FirstCall' /\ Counting'
    BY <1>1, <1>3, <2>1 DEF Inv, Collecting, FirstCall, Counting, Undisturbed
  <2> QED
    BY <2>2, <2>3 DEF Inv
<1>4. CASE iter.pc # "none"
  <2>1. iter \in Iters
    BY <1>4 DEF Inv, Typed, NoIter
  <2>2. /\ iter' \in Iters /\ iter'.quiet = FALSE /\ iter'.pc = iter.pc
        /\ iter'.calls = iter.calls /\ iter'.count = iter.count /\ iter'.cursor = iter.cursor
        /\ iter'.pattern = iter.pattern /\ iter'.seen = iter.seen
    BY <1>1, <1>4, <2>1 DEF Iters
  <2>3. Typed'
    BY <1>1, <1>2, <2>2 DEF Inv, Typed
  <2>4. Collecting'
    BY <1>1, <2>2 DEF Inv, Collecting
  <2>5. FirstCall'
    BY <1>1, <2>2 DEF Inv, FirstCall
  <2>6. Counting'
    BY <2>2 DEF Counting, Undisturbed
  <2> QED
    BY <2>3, <2>4, <2>5, <2>6 DEF Inv
<1> QED
  BY <1>3, <1>4

(* What is known inside of a call. *)
LEMMA InCall ==
    ASSUME Inv, call.pc = "shard"
    PROVE  /\ iter \in Iters /\ call \in Calls /\ iter.pc = "wait" /\ iter.calls \in {1, 2}
           /\ iter.count \in Nat /\ call.shard \in Nat /\ call.offset \in Nat
           /\ iter.total \in Nat
           /\ present \subseteq Keys /\ stable \subseteq present
           /\ IsFiniteSet(call.keys) /\ Cardinality(call.keys) \in Nat
           /\ call.keys \subseteq Keys
<1>1. iter.pc = "wait" /\ call \in Calls
  BY DEF Inv, Typed, NoCall
<1>2. iter \in Iters
  BY <1>1 DEF Inv, Typed, NoIter
<1>3. iter.calls \in {1, 2}
  BY <1>1, <1>2 DEF Iters, Inv, FirstCall
<1>4. call.keys \subseteq Keys
  BY <1>1 DEF Calls
<1>5. IsFiniteSet(call.keys) /\ Cardinality(call.keys) \in Nat
  BY <1>4, KeysAssumption, FS_Subset, FS_CardinalityType
<1> QED
  BY <1>1, <1>2, <1>3, <1>4, <1>5, SizeAssumption DEF Iters, Calls, Inv, Typed

(* The reply of a call. *)
LEMMA ReplyFacts ==
    ASSUME iter \in Iters, NEW keys \in SUBSET Keys, NEW cursor \in Nat, Reply(keys, cursor)
    PROVE  /\ call' = NoCall /\ call'.pc = "none" /\ iter' \in Iters
           /\ iter'.pc = (IF cursor = 0 THEN "done" ELSE "next") /\ iter'.cursor = cursor
           /\ iter'.total = iter.total + Cardinality(keys) /\ iter'.seen = iter.seen \cup keys
           /\ iter'.count = iter.count /\ iter'.pattern = iter.pattern
           /\ iter'.quiet = iter.quiet /\ iter'.calls = iter.calls
<1>1. Cardinality(keys) \in Nat
  BY KeysAssumption, FS_Subset, FS_CardinalityType
<1>2. call' = NoCall /\ call'.pc = "none"
  BY DEF Reply, NoCall
<1>3. iter' = [iter EXCEPT !.pc = IF cursor = 0 THEN "done" ELSE "next", !.cursor = cursor,
                           !.total = @ + Cardinality(keys), !.seen = @ \cup keys]
  BY DEF Reply
<1>4. PICK pc \in {"next", "done"} : pc = IF cursor = 0 THEN "done" ELSE "next"
  OBVIOUS
<1>5. PICK t \in Nat : t = iter.total + Cardinality(keys)
  BY <1>1 DEF Iters
<1>6. PICK seen \in SUBSET Keys : seen = iter.seen \cup keys
  BY DEF Iters
<1>7. iter' = [iter EXCEPT !.pc = pc, !.cursor = cursor, !.total = t, !.seen = seen]
  BY <1>3, <1>4, <1>5, <1>6 DEF Iters
<1>8. /\ iter' \in Iters /\ iter'.pc = pc /\ iter'.cursor = cursor
      /\ iter'.total = t /\ iter'.seen = seen
      /\ iter'.count = iter.count /\ iter'.pattern = iter.pattern
      /\ iter'.quiet = iter.quiet /\ iter'.calls = iter.calls
  BY <1>7 DEF Iters
<1> QED
  BY <1>2, <1>4, <1>5, <1>6, <1>8

(* The two parts of a cursor. *)
LEMMA CursorParts ==
    ASSUME NEW s \in Nat, NEW o \in Nat, o < CursorBase, NEW n, n = s * CursorBase + o
    PROVE  n \div CursorBase = s /\ n % CursorBase = o
  BY SizeAssumption

LEMMA CallForm ==
    ASSUME NEW c, NEW s \in Nat, NEW o \in Nat, NEW keys \in SUBSET Keys,
           c = [pc |-> "shard", shard |-> s, offset |-> o, keys |-> keys]
    PROVE  c \in Calls /\ c.pc = "shard" /\ c.shard = s /\ c.offset = o /\ c.keys = keys
  BY DEF Calls

(* A shard of a call: what comes of it is new, and adds up. *)
LEMMA ShardAdds ==
    ASSUME Inv, call.pc = "shard",
           NEW found \in Scanned(call.shard, call.offset, iter.pattern,
                                 iter.count - Cardinality(call.keys))
    PROVE  /\ found \subseteq Keys
           /\ \A k \in found : getShard(k) = call.shard
           /\ Cardinality(found) \in Nat
           /\ Cardinality(call.keys \cup found) = Cardinality(call.keys) + Cardinality(found)
           /\ call.offset = 0 /\ Cardinality(found) < iter.count - Cardinality(call.keys) =>
                  \A k \in KeysIn(call.shard) : matchPattern(k, iter.pattern) => k \in found
           /\ iter.pattern = <<Star>> /\ call.offset <= Cardinality(KeysIn(call.shard)) =>
                  /\ Cardinality(found) <= Cardinality(KeysIn(call.shard)) - call.offset
                  /\ Cardinality(found) < iter.count - Cardinality(call.keys) =>
                         Cardinality(found) = Cardinality(KeysIn(call.shard)) - call.offset
<1>1. /\ iter.count - Cardinality(call.keys) \in Int /\ call.offset \in Nat
      /\ present \subseteq Keys /\ IsFiniteSet(call.keys) /\ Cardinality(call.keys) \in Nat
      /\ call.shard \in Nat
  BY InCall
<1> DEFINE limit == iter.count - Cardinality(call.keys)
<1>2. /\ found \subseteq KeysIn(call.shard) /\ IsFiniteSet(found) /\ Cardinality(found) \in Nat
      /\ call.offset = 0 /\ Cardinality(found) < limit =>
             \A k \in KeysIn(call.shard) : matchPattern(k, iter.pattern) => k \in found
      /\ iter.pattern = <<Star>> /\ call.offset <= Cardinality(KeysIn(call.shard)) =>
             /\ Cardinality(found) <= Cardinality(KeysIn(call.shard)) - call.offset
             /\ Cardinality(found) < limit =>
                    Cardinality(found) = Cardinality(KeysIn(call.shard)) - call.offset
  <2>1. PICK s, o, p : s = call.shard /\ o = call.offset /\ p = iter.pattern
    OBVIOUS
  <2>2. limit \in Int /\ o \in Nat /\ found \in Scanned(s, o, p, limit)
    BY <1>1, <2>1
  <2> HIDE DEF limit
  <2>3. /\ found \subseteq KeysIn(s) /\ IsFiniteSet(found) /\ Cardinality(found) \in Nat
        /\ o = 0 /\ Cardinality(found) < limit =>
               \A k \in KeysIn(s) : matchPattern(k, p) => k \in found
        /\ p = <<Star>> /\ o <= Cardinality(KeysIn(s)) =>
               /\ Cardinality(found) <= Cardinality(KeysIn(s)) - o
               /\ Cardinality(found) < limit => Cardinality(found) = Cardinality(KeysIn(s)) - o
    BY <1>1, <2>2, ScannedFacts
  <2> QED
    BY <2>1, <2>3
<1>3. found \subseteq Keys /\ \A k \in found : getShard(k) = call.shard
  BY <1>1, <1>2 DEF KeysIn
<1>4. call.keys \cap found = {}
  BY <1>1, <1>3 DEF Inv, Collecting
<1>5. Cardinality(call.keys \cup found) =
          Cardinality(call.keys) + Cardinality(found) - Cardinality({})
  BY <1>1, <1>2, <1>4, FS_Union
<1>6. Cardinality({}) = 0 /\ \A a, b \in Nat : a + b - 0 = a + b
  BY FS_EmptySet
<1>7. Cardinality(call.keys \cup found) = Cardinality(call.keys) + Cardinality(found)
  BY <1>1, <1>2, <1>5, <1>6, Zenon
<1> QED
  BY <1>2, <1>3, <1>7

(* Enough keys: the cursor says where to go on. *)
LEMMA EnoughKeepsInv ==
    ASSUME Inv, call.pc = "shard", ShardsLeft, present' = present, stable' = stable,
           NEW found \in Scanned(call.shard, call.offset, iter.pattern,
                                 iter.count - Cardinality(call.keys)),
           Cardinality(call.keys \cup found) >= iter.count,
           Reply(call.keys \cup found, call.shard * CursorBase + nextOffset(call.offset, found))
    PROVE  Inv'
<1>1. /\ iter \in Iters /\ call \in Calls /\ iter.pc = "wait" /\ iter.calls \in {1, 2}
      /\ iter.count \in Nat /\ call.shard \in Nat /\ call.offset \in Nat /\ iter.total \in Nat
      /\ present \subseteq Keys /\ stable \subseteq present /\ call.keys \subseteq Keys
      /\ Cardinality(call.keys) \in Nat
  BY InCall
<1>2. PICK n \in Nat : n = Cardinality(found)
  BY ShardAdds
<1>3. found \subseteq Keys /\ Cardinality(call.keys \cup found) = Cardinality(call.keys) + n
  BY <1>2, ShardAdds
<1>4. PICK keys \in SUBSET Keys : keys = call.keys \cup found
  BY <1>1, <1>3
<1>5. PICK x \in Nat : x = call.offset + n
  BY <1>1
<1>6. PICK cursor \in Nat : cursor = call.shard * CursorBase + x
  BY <1>1, SizeAssumption
<1>7. Reply(keys, cursor)
  BY <1>2, <1>4, <1>5, <1>6 DEF nextOffset
<1>8. /\ call' = NoCall /\ call'.pc = "none" /\ iter' \in Iters
      /\ iter'.pc = (IF cursor = 0 THEN "done" ELSE "next") /\ iter'.cursor = cursor
      /\ iter'.total = iter.total + Cardinality(keys)
      /\ iter'.count = iter.count /\ iter'.pattern = iter.pattern
      /\ iter'.quiet = iter.quiet /\ iter'.calls = iter.calls
  BY <1>1, <1>7, ReplyFacts
<1>9. iter.count > 0 => n > 0
  BY <1>1, <1>3 DEF Inv, Collecting
<1>10. iter.count > 0 => cursor # 0
  <2>1. call.shard * CursorBase \in Nat
    BY <1>1, SizeAssumption
  <2> QED
    BY <1>1, <1>5, <1>6, <1>9, <2>1
<1>11. Typed'
  BY <1>1, <1>8 DEF Typed
<1>12. Collecting'
  BY <1>8 DEF Collecting
<1>13. FirstCall'
  BY <1>1, <1>8, <1>10 DEF FirstCall
<1>14. Counting'
  <2> SUFFICES ASSUME Undisturbed'
               PROVE  /\ iter'.pc = "next"
                      /\ AtPlace(iter.total, iter.cursor \div CursorBase,
                                 iter.cursor % CursorBase)'
    BY DEF Counting
  <2>1. Undisturbed
    BY <1>1, <1>8, SameKeys DEF Undisturbed
  <2>2. iter'.pc = "next"
    BY <1>8, <1>10, <2>1 DEF Undisturbed
  <2>3. AtPlace(iter.total + Cardinality(call.keys), call.shard, call.offset)
    BY <1>1, <2>1 DEF Inv, Counting
  <2>4. PICK m \in Nat : m = Cardinality(KeysIn(call.shard))
    BY <1>1, ShardsSplit
  <2>5. PICK b \in Nat : b = Cardinality(Before(call.shard))
    BY <1>1, ShardsSplit
  <2>6. iter.total + Cardinality(call.keys) = b + call.offset /\ call.offset <= m
    BY <2>3, <2>4, <2>5 DEF AtPlace
  <2>7. m <= CursorBase
    BY <1>1, <2>1, <2>4, SizeAssumption DEF Undisturbed, ShardsLeft
  <2>8. x <= m
    <3>1. n <= m - call.offset
      BY <1>2, <2>1, <2>4, <2>6, ShardAdds DEF Undisturbed
    <3> QED
      BY <1>1, <1>5, <3>1
  <2>9. iter'.total = b + x
    BY <1>1, <1>3, <1>4, <1>5, <1>8, <2>6
  <2>10. CASE x < CursorBase
    <3>1. cursor \div CursorBase = call.shard /\ cursor % CursorBase = x
      BY <1>1, <1>6, <2>10, CursorParts
    <3>2. AtPlace(iter'.total, call.shard, x)
      BY <2>4, <2>5, <2>8, <2>9 DEF AtPlace
    <3>3. AtPlace(iter'.total, cursor \div CursorBase, cursor % CursorBase)
      BY <3>1, <3>2
    <3> QED
      BY <1>8, <2>2, <3>3, SameKeys DEF AtPlace
  <2>11. CASE x = CursorBase
    <3>1. m = CursorBase
      BY <2>7, <2>8, <2>11, SizeAssumption
    <3>2. cursor \div CursorBase = call.shard + 1 /\ cursor % CursorBase = 0
      <4>1. cursor = (call.shard + 1) * CursorBase + 0 /\ call.shard + 1 \in Nat
        BY <1>1, <1>6, <2>11, SizeAssumption
      <4>2. 0 < CursorBase /\ 0 \in Nat
        BY SizeAssumption
      <4> QED
        BY <4>1, <4>2, CursorParts
    <3>3. Cardinality(Before(call.shard + 1)) = b + m
          /\ Cardinality(KeysIn(call.shard + 1)) \in Nat
      BY <1>1, <2>4, <2>5, ShardsSplit
    <3>4. AtPlace(iter'.total, call.shard + 1, 0)
      BY <2>9, <2>11, <3>1, <3>3 DEF AtPlace
    <3>5. AtPlace(iter'.total, cursor \div CursorBase, cursor % CursorBase)
      BY <3>2, <3>4
    <3> QED
      BY <1>8, <2>2, <3>5, SameKeys DEF AtPlace
  <2> QED
    BY <2>7, <2>8, <2>10, <2>11, SizeAssumption
<1> QED
  BY <1>11, <1>12, <1>13, <1>14 DEF Inv

(* Not enough keys: the shard is exhausted, and the next one is begun. *)
LEMMA NextShardKeepsInv ==
    ASSUME Inv, call.pc = "shard", present' = present, stable' = stable, iter' = iter,
           NEW found \in Scanned(call.shard, call.offset, iter.pattern,
                                 iter.count - Cardinality(call.keys)),
           ~ (Cardinality(call.keys \cup found) >= iter.count),
           call' = [call EXCEPT !.shard = @ + 1, !.offset = Reset(@),
                                !.keys = call.keys \cup found]
    PROVE  Inv'
<1>1. /\ iter \in Iters /\ call \in Calls /\ iter.pc = "wait" /\ iter.calls \in {1, 2}
      /\ iter.count \in Nat /\ call.shard \in Nat /\ call.offset \in Nat /\ iter.total \in Nat
      /\ present \subseteq Keys /\ stable \subseteq present /\ call.keys \subseteq Keys
      /\ Cardinality(call.keys) \in Nat
  BY InCall
<1>2. PICK n \in Nat : n = Cardinality(found)
  BY ShardAdds
<1>3. /\ found \subseteq Keys /\ Cardinality(call.keys \cup found) = Cardinality(call.keys) + n
      /\ \A k \in found : getShard(k) = call.shard
  BY <1>2, ShardAdds
<1>4. /\ call' \in Calls /\ call'.pc = "shard" /\ call'.shard = call.shard + 1
      /\ call'.offset = 0 /\ call'.keys = call.keys \cup found
  <2>1. PICK keys \in SUBSET Keys : keys = call.keys \cup found
    BY <1>1, <1>3
  <2>2. PICK s \in Nat : s = call.shard + 1
    BY <1>1
  <2>3. call' = [call EXCEPT !.shard = s, !.offset = 0, !.keys = keys]
    BY <2>1, <2>2 DEF Reset
  <2>4. PICK c : c = [pc |-> "shard", shard |-> s, offset |-> 0, keys |-> keys]
    OBVIOUS
  <2>5. call' = c
    BY <1>1, <2>3, <2>4 DEF Calls
  <2>6. c \in Calls /\ c.pc = "shard" /\ c.shard = s /\ c.offset = 0 /\ c.keys = keys
    BY <2>4, CallForm
  <2> QED
    BY <2>1, <2>2, <2>5, <2>6
<1>5. n < iter.count - Cardinality(call.keys) /\ iter.count - Cardinality(call.keys) \in Int
  BY <1>1, <1>3
<1>6. \A k : getShard(k) \in Nat
  BY ShardInRange, SizeAssumption
<1>7. Typed'
  BY <1>1, <1>4 DEF Inv, Typed
<1>8. Collecting'
  <2>1. \A k \in call'.keys : getShard(k) < call.shard + 1
    <3>1. \A k \in call.keys : getShard(k) < call.shard
      BY DEF Inv, Collecting
    <3> QED
      BY <1>1, <1>3, <1>4, <1>6, <3>1
  <2>2. Cardinality(call'.keys) < iter.count
    BY <1>1, <1>3, <1>4, <1>5
  <2> QED
    BY <1>4, <2>1, <2>2 DEF Collecting
<1>9. FirstCall'
  <2> SUFFICES ASSUME iter.calls = 1, iter.count > 0, NEW k \in stable,
                      matchPattern(k, iter.pattern), getShard(k) < call.shard + 1
               PROVE  k \in call.keys \cup found
    BY <1>1, <1>4 DEF FirstCall
  <2>1. call.offset = 0
    BY <1>1 DEF Inv, FirstCall
  <2>2. CASE getShard(k) < call.shard
    BY <1>1, <2>2 DEF Inv, FirstCall
  <2>3. CASE getShard(k) = call.shard
    <3>1. k \in KeysIn(call.shard)
      BY <1>1, <2>3 DEF KeysIn
    <3>2. k \in found
      BY <1>2, <1>5, <2>1, <3>1, ShardAdds
    <3> QED
      BY <3>2
  <2> QED
    BY <1>1, <1>6, <2>2, <2>3
<1>10. Counting'
  <2> SUFFICES ASSUME Undisturbed'
               PROVE  AtPlace(iter.total + Cardinality(call.keys), call.shard, call.offset)'
    BY <1>1 DEF Counting
  <2>1. Undisturbed
    BY SameKeys DEF Undisturbed
  <2>2. AtPlace(iter.total + Cardinality(call.keys), call.shard, call.offset)
    BY <1>1, <2>1 DEF Inv, Counting
  <2>3. PICK m \in Nat : m = Cardinality(KeysIn(call.shard))
    BY <1>1, ShardsSplit
  <2>4. PICK b \in Nat : b = Cardinality(Before(call.shard))
    BY <1>1, ShardsSplit
  <2>5. iter.total + Cardinality(call.keys) = b + call.offset /\ call.offset <= m
    BY <2>2, <2>3, <2>4 DEF AtPlace
  <2>6. n = m - call.offset
    BY <1>2, <1>5, <2>1, <2>3, <2>5, ShardAdds DEF Undisturbed
  <2>7. Cardinality(Before(call.shard + 1)) = b + m
        /\ Cardinality(KeysIn(call.shard + 1)) \in Nat
    BY <1>1, <2>3, <2>4, ShardsSplit
  <2>8. iter.total + Cardinality(call'.keys) = b + m + 0
    BY <1>1, <1>3, <1>4, <2>5, <2>6
  <2>9. AtPlace(iter.total + Cardinality(call'.keys), call.shard + 1, 0)
    BY <2>7, <2>8 DEF AtPlace
  <2> QED
    BY <1>4, <2>9, SameKeys DEF AtPlace
<1> QED
  BY <1>7, <1>8, <1>9, <1>10 DEF Inv

LEMMA ScanShardKeepsInv ==
    ASSUME Inv, ScanShard
    PROVE  Inv'
<1>1. call.pc = "shard" /\ ShardsLeft /\ present' = present /\ stable' = stable
  BY DEF ScanShard
<1>2. PICK found \in Scanned(call.shard, call.offset, iter.pattern,
                             iter.count - Cardinality(call.keys)) :
          IF Cardinality(call.keys \cup found) >= iter.count
          THEN Reply(call.keys \cup found,
                     call.shard * CursorBase + nextOffset(call.offset, found))
          ELSE /\ call' = [call EXCEPT !.shard = @ + 1, !.offset = Reset(@),
                                       !.keys = call.keys \cup found]
               /\ UNCHANGED iter
  BY DEF ScanShard
<1>3. CASE Cardinality(call.keys \cup found) >= iter.count
  BY <1>1, <1>2, <1>3, EnoughKeepsInv
<1>4. CASE ~ (Cardinality(call.keys \cup found) >= iter.count)
  BY <1>1, <1>2, <1>4, NextShardKeepsInv
<1> QED
  BY <1>3, <1>4

(* The last shard is done: the cursor 0 ends the iteration. *)
LEMMA ScanEndKeepsInv ==
    ASSUME Inv, ScanEnd
    PROVE  Inv'
<1>1. call.pc = "shard" /\ ~ ShardsLeft /\ present' = present /\ stable' = stable
      /\ Reply(call.keys, 0)
  BY DEF ScanEnd
<1>2. /\ iter \in Iters /\ call \in Calls /\ iter.pc = "wait" /\ iter.calls \in {1, 2}
      /\ iter.count \in Nat /\ call.shard \in Nat /\ call.offset \in Nat /\ iter.total \in Nat
      /\ present \subseteq Keys /\ stable \subseteq present /\ call.keys \subseteq Keys
      /\ Cardinality(call.keys) \in Nat
  BY <1>1, InCall
<1>3. /\ call' = NoCall /\ call'.pc = "none" /\ iter' \in Iters /\ iter'.pc = "done"
      /\ iter'.total = iter.total + Cardinality(call.keys)
      /\ iter'.seen = iter.seen \cup call.keys
      /\ iter'.count = iter.count /\ iter'.pattern = iter.pattern
      /\ iter'.quiet = iter.quiet /\ iter'.calls = iter.calls
  BY <1>1, <1>2, ReplyFacts
<1>4. call.shard >= NumShards
  BY <1>1, <1>2, SizeAssumption DEF ShardsLeft
<1>5. Typed'
  BY <1>1, <1>2, <1>3 DEF Typed
<1>6. Collecting'
  BY <1>3 DEF Collecting
<1>7. FirstCall'
  <2> SUFFICES ASSUME iter.calls = 1, iter.count > 0, NEW k \in stable,
                      matchPattern(k, iter.pattern)
               PROVE  k \in call.keys
    BY <1>1, <1>2, <1>3 DEF FirstCall
  <2>1. getShard(k) < call.shard
    BY <1>2, <1>4, ShardInRange, SizeAssumption
  <2> QED
    BY <1>2, <2>1 DEF Inv, FirstCall
<1>8. Counting'
  <2> SUFFICES ASSUME Undisturbed'
               PROVE  iter'.total = Cardinality(present)
    BY <1>1, <1>3 DEF Counting
  <2>1. Undisturbed
    BY <1>1, <1>2, <1>3, SameKeys DEF Undisturbed
  <2>2. AtPlace(iter.total + Cardinality(call.keys), call.shard, call.offset)
    BY <1>2, <2>1 DEF Inv, Counting
  <2>3. Before(call.shard) = present /\ KeysIn(call.shard) = {}
        /\ Cardinality(present) \in Nat
    BY <1>2, <1>4, ShardsSplit
  <2>4. Cardinality({}) = 0
    BY FS_EmptySet
  <2>5. call.offset = 0
    BY <1>2, <2>2, <2>3, <2>4 DEF AtPlace
  <2> QED
    BY <1>3, <2>2, <2>3, <2>5 DEF AtPlace
<1> QED
  BY <1>5, <1>6, <1>7, <1>8 DEF Inv

(* The invariant is inductive, whatever other connections add and remove
   between the shards of a call and between the calls of an iteration. *)
THEOREM Invariance == Spec => []Inv
<1>1. Init => Inv
  BY InitInv
<1>2. Inv /\ [Next]_vars => Inv'
  <2> SUFFICES ASSUME Inv, [Next]_vars
               PROVE  Inv'
    OBVIOUS
  <2>1. CASE Begin
    BY <2>1, BeginKeepsInv
  <2>2. CASE ScanCall
    BY <2>2, ScanCallKeepsInv
  <2>3. CASE ScanShard
    BY <2>3, ScanShardKeepsInv
  <2>4. CASE ScanEnd
    BY <2>4, ScanEndKeepsInv
  <2>5. ASSUME NEW k \in Keys, Change(k)
        PROVE  Inv'
    BY <2>5, ChangeKeepsInv
  <2>6. CASE UNCHANGED vars
    <3>1. present' = present /\ iter' = iter /\ call' = call /\ stable' = stable
      BY <2>6 DEF vars
    <3>2. Typed' /\ Collecting' /\ FirstCall'
      BY <3>1 DEF Inv, Typed, Collecting, FirstCall
    <3>3. Counting'
      BY <3>1, SameKeys DEF Inv, Counting, Undisturbed
    <3> QED
      BY <3>2, <3>3 DEF Inv
  <2> QED
    BY <2>1, <2>2, <2>3, <2>4, <2>5, <2>6 DEF Next, Iterate
<1> QED
  BY <1>1, <1>2, PTL DEF Spec

(* An iteration that its first call completes has returned every key that
   matches and was there all the time: for every number of keys and shards, and
   whatever other connections do between two shards. *)
THEOREM OneCallCompletes == Spec => []OneCallIsComplete
<1>1. Inv => OneCallIsComplete
  BY DEF Inv, FirstCall, OneCallIsComplete
<1> QED
  BY <1>1, Invariance, PTL

(* An undisturbed iteration over any number of calls returns as many keys as
   there are, if no shard is larger than the cursor's base; a shard that is
   exactly as large carries over to the next one. *)
THEOREM TotalsAreRight == Spec => []TotalIsRight
<1>1. Inv => TotalIsRight
  BY DEF Inv, Counting, Undisturbed, TotalIsRight
<1> QED
  BY <1>1, Invariance, PTL

-----------------------------------------------------------------------------
(* Patterns *)

(* f occurs in s after the first n characters. *)
Fits(f, s, n) == n + Len(f) <= Len(s) /\ \A i \in 1 .. Len(f) : f[i] = s[n + i]

(* Equality of sequences, element by element. *)
LEMMA SameSeq ==
    ASSUME NEW S, NEW s \in Seq(S), NEW t \in Seq(S)
    PROVE  s = t <=> Len(s) = Len(t) /\ \A i \in 1 .. Len(s) : s[i] = t[i]
  BY SeqEqual

(* A part of a sequence. *)
LEMMA PartOfSeq ==
    ASSUME NEW S, NEW s \in Seq(S), NEW m \in Nat \ {0}, NEW n \in Int, n <= Len(s)
    PROVE  /\ SubSeq(s, m, n) \in Seq(S)
           /\ Len(SubSeq(s, m, n)) = IF m <= n THEN n - m + 1 ELSE 0
           /\ \A i \in 1 .. Len(SubSeq(s, m, n)) : SubSeq(s, m, n)[i] = s[m + i - 1]
<1>1. \A i \in m .. n : s[i] \in S
  <2>1. Len(s) \in Nat /\ \A i \in 1 .. Len(s) : s[i] \in S
    BY LenProperties, ElementOfSeq
  <2> QED
    BY <2>1
<1>2. /\ SubSeq(s, m, n) \in Seq(S)
      /\ Len(SubSeq(s, m, n)) = IF m <= n THEN n - m + 1 ELSE 0
      /\ \A i \in 1 .. (n - m + 1) : SubSeq(s, m, n)[i] = s[m + i - 1]
  BY <1>1, SubSeqProperties
<1> QED
  BY <1>2

LEMMA PrefixFits ==
    ASSUME NEW S, NEW f \in Seq(S), NEW s \in Seq(S)
    PROVE  IsPrefix(f, s) <=> Fits(f, s, 0)
<1>1. Len(f) \in Nat /\ Len(s) \in Nat
  BY LenProperties
<1>2. CASE ~ (Len(f) <= Len(s))
  BY <1>1, <1>2 DEF IsPrefix, Fits
<1>3. CASE Len(f) <= Len(s)
  <2>1. PICK g : g = SubSeq(f, 1, Len(f))
    OBVIOUS
  <2>2. PICK t : t = SubSeq(s, 1, Len(f))
    OBVIOUS
  <2>3. g \in Seq(S) /\ Len(g) = Len(f) /\ \A i \in 1 .. Len(f) : g[i] = f[i]
    BY <1>1, <2>1, PartOfSeq
  <2>4. t \in Seq(S) /\ Len(t) = Len(f) /\ \A i \in 1 .. Len(f) : t[i] = s[i]
    BY <1>1, <1>3, <2>2, PartOfSeq
  <2>5. g = t <=> \A i \in 1 .. Len(f) : f[i] = s[i]
    BY <2>3, <2>4, SameSeq
  <2> QED
    BY <1>1, <1>3, <2>1, <2>2, <2>5 DEF IsPrefix, Fits
<1> QED
  BY <1>2, <1>3

LEMMA SuffixFits ==
    ASSUME NEW S, NEW f \in Seq(S), NEW s \in Seq(S)
    PROVE  IsSuffix(f, s) <=> Len(f) <= Len(s) /\ Fits(f, s, Len(s) - Len(f))
<1>1. PICK m \in Nat : m = Len(f)
  BY LenProperties
<1>2. PICK n \in Nat : n = Len(s)
  BY LenProperties
<1>3. PICK g : g = Reverse(f)
  OBVIOUS
<1>4. PICK t : t = Reverse(s)
  OBVIOUS
<1>5. g \in Seq(S) /\ Len(g) = m /\ \A i \in 1 .. m : g[i] = f[m - i + 1]
  <2>1. \A i \in 1 .. m : f[m - i + 1] \in S
    BY <1>1, ElementOfSeq
  <2>2. g = [i \in 1 .. m |-> f[m - i + 1]]
    BY <1>1, <1>3 DEF Reverse
  <2> QED
    BY <2>1, <2>2
<1>6. t \in Seq(S) /\ Len(t) = n /\ \A i \in 1 .. n : t[i] = s[n - i + 1]
  <2>1. \A i \in 1 .. n : s[n - i + 1] \in S
    BY <1>2, ElementOfSeq
  <2>2. t = [i \in 1 .. n |-> s[n - i + 1]]
    BY <1>2, <1>4 DEF Reverse
  <2> QED
    BY <2>1, <2>2
<1>7. IsSuffix(f, s) <=> m <= n /\ \A i \in 1 .. m : g[i] = t[i]
  <2>1. IsSuffix(f, s) <=> Fits(g, t, 0)
    BY <1>3, <1>4, <1>5, <1>6, PrefixFits DEF IsSuffix
  <2> QED
    BY <1>5, <1>6, <2>1 DEF Fits
<1>8. CASE ~ (m <= n)
  BY <1>1, <1>2, <1>7, <1>8
<1>9. CASE m <= n
  <2>1. ASSUME \A i \in 1 .. m : g[i] = t[i], NEW j \in 1 .. m
        PROVE  f[j] = s[(n - m) + j]
    <3>1. PICK i \in 1 .. m : i = m - j + 1
      OBVIOUS
    <3>2. i \in 1 .. n /\ m - i + 1 = j /\ n - i + 1 = (n - m) + j
      BY <1>9, <3>1
    <3> QED
      BY <1>5, <1>6, <2>1, <3>2
  <2>2. ASSUME \A j \in 1 .. m : f[j] = s[(n - m) + j], NEW i \in 1 .. m
        PROVE  g[i] = t[i]
    <3>1. PICK j \in 1 .. m : j = m - i + 1
      OBVIOUS
    <3>2. i \in 1 .. n /\ n - i + 1 = (n - m) + j
      BY <1>9, <3>1
    <3>3. g[i] = f[j]
      BY <1>5, <3>1
    <3>4. t[i] = s[(n - m) + j]
      BY <1>6, <3>2
    <3> QED
      BY <2>2, <3>3, <3>4
  <2>3. Fits(f, s, n - m) <=> \A j \in 1 .. m : f[j] = s[(n - m) + j]
    <3>1. (n - m) + m <= n
      OBVIOUS
    <3>2. Fits(f, s, n - m) <=>
              (n - m) + m <= n /\ \A j \in 1 .. m : f[j] = s[(n - m) + j]
      BY <1>1, <1>2, Zenon DEF Fits
    <3> QED
      BY <3>1, <3>2, Zenon
  <2> QED
    BY <1>1, <1>2, <1>7, <1>9, <2>1, <2>2, <2>3
<1> QED
  BY <1>8, <1>9

(* The rest of s from position n on begins with f. *)
LEMMA RestFits ==
    ASSUME NEW S, NEW f \in Seq(S), NEW s \in Seq(S), NEW n \in 0 .. Len(s)
    PROVE  IsPrefix(f, SubSeq(s, n + 1, Len(s))) <=> Fits(f, s, n)
<1>1. Len(f) \in Nat /\ Len(s) \in Nat
  BY LenProperties
<1>2. PICK t : t = SubSeq(s, n + 1, Len(s))
  OBVIOUS
<1>3. t \in Seq(S) /\ Len(t) = Len(s) - n /\ \A i \in 1 .. Len(t) : t[i] = s[n + i]
  <2>1. n + 1 \in Nat \ {0} /\ Len(s) \in Int /\ Len(s) <= Len(s)
    BY <1>1
  <2>2. /\ t \in Seq(S) /\ Len(t) = (IF n + 1 <= Len(s) THEN Len(s) - (n + 1) + 1 ELSE 0)
        /\ \A i \in 1 .. Len(t) : t[i] = s[(n + 1) + i - 1]
    BY <1>2, <2>1, PartOfSeq
  <2>3. Len(t) = Len(s) - n
    BY <1>1, <2>2
  <2>4. \A i \in 1 .. Len(t) : (n + 1) + i - 1 = n + i
    BY <1>1, <2>3
  <2> QED
    BY <2>2, <2>3, <2>4
<1>4. IsPrefix(f, t) <=> Fits(f, t, 0)
  BY <1>3, PrefixFits
<1>5. Fits(f, t, 0) <=> Fits(f, s, n)
  BY <1>1, <1>3 DEF Fits
<1> QED
  BY <1>2, <1>4, <1>5

(* f is a part of s. *)
LEMMA PartFits ==
    ASSUME NEW S, NEW f \in Seq(S), NEW s \in Seq(S)
    PROVE  (\E i, j \in 1 .. Len(s) + 1 : SubSeq(s, i, j - 1) = f)
               <=> \E n \in 0 .. Len(s) : Fits(f, s, n)
<1>1. Len(f) \in Nat /\ Len(s) \in Nat
  BY LenProperties
<1>2. ASSUME NEW i \in 1 .. Len(s) + 1, NEW j \in 1 .. Len(s) + 1, SubSeq(s, i, j - 1) = f
      PROVE  \E n \in 0 .. Len(s) : Fits(f, s, n)
  <2>1. /\ Len(f) = (IF i <= j - 1 THEN j - 1 - i + 1 ELSE 0)
        /\ \A x \in 1 .. Len(f) : f[x] = s[i + x - 1]
    <3>1. PICK m \in Nat \ {0}, l \in Int : m = i /\ l = j - 1 /\ l <= Len(s)
      BY <1>1
    <3>2. /\ Len(SubSeq(s, m, l)) = (IF m <= l THEN l - m + 1 ELSE 0)
          /\ \A x \in 1 .. Len(SubSeq(s, m, l)) : SubSeq(s, m, l)[x] = s[m + x - 1]
      BY <3>1, PartOfSeq
    <3> QED
      BY <1>2, <3>1, <3>2
  <2>2. PICK n \in 0 .. Len(s) : n = i - 1
    BY <1>1
  <2>3. n + Len(f) <= Len(s) /\ \A x \in 1 .. Len(f) : i + x - 1 = n + x
    <3>1. PICK l \in Nat : l = Len(f)
      BY <1>1
    <3>2. PICK h \in Nat : h = Len(s)
      BY <1>1
    <3>3. n \in Nat /\ i \in Nat /\ j \in Nat /\ n <= h /\ j <= h + 1 /\ i = n + 1
      BY <2>2, <3>2
    <3>4. l = IF i <= j - 1 THEN j - 1 - i + 1 ELSE 0
      BY <2>1, <3>1
    <3>5. n + l <= h
      BY <3>3, <3>4
    <3>6. \A x \in 1 .. l : i + x - 1 = n + x
      BY <3>3
    <3> QED
      BY <3>1, <3>2, <3>5, <3>6
  <2>4. Fits(f, s, n)
    BY <2>1, <2>3 DEF Fits
  <2> QED
    BY <2>4
<1>3. ASSUME NEW n \in 0 .. Len(s), Fits(f, s, n)
      PROVE  \E i, j \in 1 .. Len(s) + 1 : SubSeq(s, i, j - 1) = f
  <2>1. PICK i, j \in 1 .. Len(s) + 1 : i = n + 1 /\ j = n + 1 + Len(f)
    BY <1>1, <1>3 DEF Fits
  <2>2. PICK t : t = SubSeq(s, i, j - 1)
    OBVIOUS
  <2>3. /\ t \in Seq(S) /\ Len(t) = (IF i <= j - 1 THEN j - 1 - i + 1 ELSE 0)
        /\ \A x \in 1 .. Len(t) : t[x] = s[i + x - 1]
    <3>1. i \in Nat \ {0} /\ j - 1 \in Int /\ j - 1 <= Len(s)
      BY <1>1
    <3> QED
      BY <2>2, <3>1, PartOfSeq
  <2>4. Len(t) = Len(f) /\ \A x \in 1 .. Len(t) : i + x - 1 = n + x
    BY <1>1, <2>1, <2>3
  <2>5. \A x \in 1 .. Len(t) : t[x] = f[x]
    BY <1>3, <2>3, <2>4 DEF Fits
  <2>6. t = f
    BY <2>3, <2>4, <2>5, SeqEqual
  <2> QED
    BY <2>2, <2>6
<1> QED
  BY <1>2, <1>3

(* The stars of a pattern that count, and what is between them. *)
FirstFree(p) == Len(p) > 0 /\ p[1] = Star

LastFree(p) == Len(p) > 0 /\ p[Len(p)] = Star

Fixed(p) ==
    SubSeq(p, IF FirstFree(p) THEN 2 ELSE 1, IF LastFree(p) THEN Len(p) - 1 ELSE Len(p))

(* The cases of matchPattern. *)
LEMMA MatchCases ==
    ASSUME NEW S, NEW k \in Seq(S), NEW p \in Seq(S)
    PROVE  /\ p = <<Star>> => matchPattern(k, p)
           /\ Len(p) > 1 /\ FirstFree(p) /\ LastFree(p) =>
                  (matchPattern(k, p) <=>
                      \E i, j \in 1 .. Len(k) + 1 : SubSeq(k, i, j - 1) = SubSeq(p, 2, Len(p) - 1))
           /\ Len(p) > 1 /\ FirstFree(p) /\ ~ LastFree(p) =>
                  (matchPattern(k, p) <=> IsSuffix(Tail(p), k))
           /\ Len(p) > 1 /\ ~ FirstFree(p) /\ LastFree(p) =>
                  (matchPattern(k, p) <=> IsPrefix(Front(p), k))
           /\ ~ FirstFree(p) /\ ~ LastFree(p) => (matchPattern(k, p) <=> k = p)
<1>1. Len(p) \in Nat /\ DOMAIN p = 1 .. Len(p)
  BY LenProperties
<1>2. Len(<<Star>>) = 1 /\ <<Star>>[1] = Star
  OBVIOUS
<1> DEFINE stars == {i \in DOMAIN p : p[i] = Star}
<1> DEFINE Part == \E i, j \in 1 .. Len(k) + 1 : SubSeq(k, i, j - 1) = SubSeq(p, 2, Len(p) - 1)
<1>3. (1 \in stars <=> FirstFree(p)) /\ (Len(p) \in stars <=> LastFree(p))
  BY <1>1 DEF FirstFree, LastFree
<1>4. matchPattern(k, p) =
          (CASE p = <<Star>> -> TRUE
             [] Len(p) > 1 /\ {1, Len(p)} \subseteq stars -> Part
             [] Len(p) > 1 /\ 1 \in stars /\ Len(p) \notin stars -> IsSuffix(Tail(p), k)
             [] Len(p) > 1 /\ 1 \notin stars /\ Len(p) \in stars -> IsPrefix(Front(p), k)
             [] OTHER -> k = p)
  BY DEF matchPattern
<1> HIDE DEF stars, Part
<1>5. {1, Len(p)} \subseteq stars <=> FirstFree(p) /\ LastFree(p)
  BY <1>3
<1>6. p = <<Star>> => Len(p) = 1 /\ FirstFree(p) /\ LastFree(p)
  BY <1>2 DEF FirstFree, LastFree
<1>7. p = <<Star>> => matchPattern(k, p)
  BY <1>4
<1>8. ASSUME Len(p) > 1, FirstFree(p), LastFree(p)
      PROVE  matchPattern(k, p) <=> Part
  BY <1>1, <1>3, <1>4, <1>5, <1>6, <1>8
<1>9. ASSUME Len(p) > 1, FirstFree(p), ~ LastFree(p)
      PROVE  matchPattern(k, p) <=> IsSuffix(Tail(p), k)
  BY <1>1, <1>3, <1>4, <1>5, <1>6, <1>9
<1>10. ASSUME Len(p) > 1, ~ FirstFree(p), LastFree(p)
       PROVE  matchPattern(k, p) <=> IsPrefix(Front(p), k)
  BY <1>1, <1>3, <1>4, <1>5, <1>6, <1>10
<1>11. ASSUME ~ FirstFree(p), ~ LastFree(p)
       PROVE  matchPattern(k, p) <=> k = p
  BY <1>1, <1>3, <1>4, <1>5, <1>6, <1>11
<1> QED
  BY <1>7, <1>8, <1>9, <1>10, <1>11 DEF Part

(* matchPattern as a glob (pattern.go matchPattern). *)
LEMMA MatchFits ==
    ASSUME NEW S, NEW k \in Seq(S), NEW p \in Seq(S)
    PROVE  /\ Fixed(p) \in Seq(S)
           /\ matchPattern(k, p) <=>
                  \E n \in 0 .. Len(k) :
                      /\ Fits(Fixed(p), k, n)
                      /\ FirstFree(p) \/ n = 0
                      /\ LastFree(p) \/ n + Len(Fixed(p)) = Len(k)
<1>1. Len(p) \in Nat /\ Len(k) \in Nat /\ 0 \in 0 .. Len(k)
  BY LenProperties
<1>2. Fixed(p) \in Seq(S)
  <2>1. PICK m \in Nat \ {0} : m = IF FirstFree(p) THEN 2 ELSE 1
    OBVIOUS
  <2>2. PICK n \in Int : n <= Len(p) /\ n = IF LastFree(p) THEN Len(p) - 1 ELSE Len(p)
    <3>1. Len(p) - 1 \in Int /\ Len(p) \in Int /\ Len(p) - 1 <= Len(p) /\ Len(p) <= Len(p)
      BY <1>1
    <3> QED
      BY <3>1, Zenon
  <2>3. Fixed(p) = SubSeq(p, m, n)
    BY <2>1, <2>2 DEF Fixed
  <2> QED
    BY <2>1, <2>2, <2>3, PartOfSeq
<1>3. PICK f \in Seq(S) : f = Fixed(p)
  BY <1>2
<1>4. Len(f) \in Nat
  BY LenProperties
<1> DEFINE Globs == \E n \in 0 .. Len(k) :
                        /\ Fits(f, k, n)
                        /\ FirstFree(p) \/ n = 0
                        /\ LastFree(p) \/ n + Len(f) = Len(k)
<1>5. CASE p = <<Star>>
  <2>1. Len(p) = 1 /\ FirstFree(p) /\ LastFree(p)
    <3>1. Len(<<Star>>) = 1 /\ <<Star>>[1] = Star
      OBVIOUS
    <3> QED
      BY <1>5, <3>1 DEF FirstFree, LastFree
  <2>2. f = SubSeq(p, 2, 0)
    BY <1>3, <2>1 DEF Fixed
  <2>3. Len(f) = 0
    BY <1>1, <2>2, PartOfSeq
  <2>4. Fits(f, k, 0)
    BY <1>1, <2>3 DEF Fits
  <2>5. Globs
    BY <1>1, <2>1, <2>4
  <2>6. matchPattern(k, p)
    BY <1>5, MatchCases
  <2> QED
    BY <1>2, <1>3, <2>5, <2>6
<1>6. CASE Len(p) > 1 /\ FirstFree(p) /\ LastFree(p)
  <2>1. f = SubSeq(p, 2, Len(p) - 1)
    BY <1>3, <1>6 DEF Fixed
  <2>2. matchPattern(k, p) <=>
            \E i, j \in 1 .. Len(k) + 1 : SubSeq(k, i, j - 1) = SubSeq(p, 2, Len(p) - 1)
    BY <1>6, MatchCases
  <2>3. matchPattern(k, p) <=> \E n \in 0 .. Len(k) : Fits(f, k, n)
    BY <2>1, <2>2, PartFits
  <2>4. Globs <=> \E n \in 0 .. Len(k) : Fits(f, k, n)
    BY <1>6
  <2> QED
    BY <1>2, <1>3, <2>3, <2>4
<1>7. CASE Len(p) > 1 /\ FirstFree(p) /\ ~ LastFree(p)
  <2>1. f = SubSeq(p, 2, Len(p))
    BY <1>3, <1>7 DEF Fixed
  <2>2. Tail(p) = f
    <3>1. p # <<>>
      BY <1>7
    <3> QED
      BY <2>1, <3>1, TailIsSubSeq
  <2>3. matchPattern(k, p) <=> Len(f) <= Len(k) /\ Fits(f, k, Len(k) - Len(f))
    BY <1>7, <2>2, MatchCases, SuffixFits
  <2>4. ASSUME Globs
        PROVE  Len(f) <= Len(k) /\ Fits(f, k, Len(k) - Len(f))
    <3>1. PICK n \in 0 .. Len(k) : Fits(f, k, n) /\ n + Len(f) = Len(k)
      BY <1>7, <2>4
    <3>2. n = Len(k) - Len(f) /\ Len(f) <= Len(k)
      BY <1>1, <1>4, <3>1
    <3> QED
      BY <3>1, <3>2
  <2>5. ASSUME Len(f) <= Len(k), Fits(f, k, Len(k) - Len(f))
        PROVE  Globs
    <3>1. PICK n \in 0 .. Len(k) : n = Len(k) - Len(f)
      BY <1>1, <1>4, <2>5
    <3>2. n + Len(f) = Len(k) /\ Fits(f, k, n)
      BY <1>1, <1>4, <2>5, <3>1
    <3> QED
      BY <1>7, <3>2
  <2> QED
    BY <1>2, <1>3, <2>3, <2>4, <2>5
<1>8. CASE Len(p) > 1 /\ ~ FirstFree(p) /\ LastFree(p)
  <2>1. f = SubSeq(p, 1, Len(p) - 1)
    BY <1>3, <1>8 DEF Fixed
  <2>2. Front(p) = f
    BY <2>1 DEF Front
  <2>3. matchPattern(k, p) <=> Fits(f, k, 0)
    BY <1>8, <2>2, MatchCases, PrefixFits
  <2>4. Globs <=> Fits(f, k, 0)
    BY <1>1, <1>8
  <2> QED
    BY <1>2, <1>3, <2>3, <2>4
<1>9. CASE ~ FirstFree(p) /\ ~ LastFree(p)
  <2>1. f = SubSeq(p, 1, Len(p))
    BY <1>3, <1>9 DEF Fixed
  <2>2. f = p
    BY <2>1, SubSeqFull
  <2>3. matchPattern(k, p) <=> k = p
    BY <1>9, MatchCases
  <2>4. k = p <=> Len(p) = Len(k) /\ \A i \in 1 .. Len(p) : p[i] = k[i]
    BY SameSeq
  <2>5. Globs <=> Fits(f, k, 0) /\ Len(f) = Len(k)
    BY <1>1, <1>4, <1>9
  <2>6. Fits(f, k, 0) /\ Len(f) = Len(k) <=>
            Len(p) = Len(k) /\ \A i \in 1 .. Len(p) : p[i] = k[i]
    BY <1>1, <2>2 DEF Fits
  <2> QED
    BY <1>2, <1>3, <2>3, <2>4, <2>5, <2>6
<1>10. Len(p) = 1 /\ p # <<Star>> => ~ FirstFree(p) /\ ~ LastFree(p)
  <2> SUFFICES ASSUME Len(p) = 1, p[1] = Star
               PROVE  p = <<Star>>
    BY DEF FirstFree, LastFree
  <2> QED
    BY LenProperties
<1>11. Len(p) = 0 => ~ FirstFree(p) /\ ~ LastFree(p)
  BY DEF FirstFree, LastFree
<1>12. Len(p) = 0 \/ Len(p) = 1 \/ Len(p) > 1
  <2>1. PICK n \in Nat : n = Len(p)
    BY <1>1
  <2>2. n = 0 \/ n = 1 \/ n > 1
    OBVIOUS
  <2> QED
    BY <2>1, <2>2
<1> QED
  BY <1>5, <1>6, <1>7, <1>8, <1>9, <1>10, <1>11, <1>12

(* MATCH reads a pattern with stars at its ends as a glob: for every key and
   every pattern of the calls, of whatever length. *)
THEOREM MatchesAreGlobs == Spec => []MatchIsGlob
<1>1. Inv => MatchIsGlob
  <2> SUFFICES ASSUME Inv, iter.pc = "next", NEW k \in Keys
               PROVE  matchPattern(k, iter.pattern) <=>
                          \E n \in 0 .. Len(k) :
                              /\ IsPrefix(Fixed(iter.pattern), SubSeq(k, n + 1, Len(k)))
                              /\ FirstFree(iter.pattern) \/ n = 0
                              /\ \/ LastFree(iter.pattern)
                                 \/ n + Len(Fixed(iter.pattern)) = Len(k)
    BY DEF MatchIsGlob, Fixed, FirstFree, LastFree
  <2>1. PICK p \in Patterns : p = iter.pattern
    BY DEF Inv, Typed, Iters, NoIter
  <2> DEFINE S == ToSet(k) \cup ToSet(p)
  <2>2. k \in Seq(ToSet(k)) /\ p \in Seq(ToSet(p))
    BY KeysAssumption
  <2>3. k \in Seq(S) /\ p \in Seq(S)
    BY <2>2, SeqMonotonic
  <2> HIDE DEF S
  <2>4. \A n \in 0 .. Len(k) : IsPrefix(Fixed(p), SubSeq(k, n + 1, Len(k))) <=> Fits(Fixed(p), k, n)
    BY <2>3, MatchFits, RestFits
  <2> QED
    BY <2>1, <2>3, <2>4, MatchFits
<1> QED
  BY <1>1, Invariance, PTL

=============================================================================
