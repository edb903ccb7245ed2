--------------------------- MODULE HandlersProofs ---------------------------
(* Proofs about Handlers and the data types it works on, for every set of
   clients, keys, values and members, and every workload of well-formed
   commands. *)
EXTENDS Handlers, FoldLemmas, SequenceTheorems, TLAPS

-----------------------------------------------------------------------------
(* Finite maps *)

(* Storing under a key. *)
LEMMA PutFacts ==
    ASSUME NEW f, NEW x, NEW v
    PROVE  /\ DOMAIN Put(f, x, v) = DOMAIN f \cup {x}
           /\ Put(f, x, v)[x] = v
           /\ \A y \in DOMAIN f : y # x => Put(f, x, v)[y] = f[y]
  BY DEF Put

(* Removing a key. *)
LEMMA DropFacts ==
    ASSUME NEW f, NEW x
    PROVE  /\ DOMAIN Drop(f, x) = DOMAIN f \ {x}
           /\ \A y \in DOMAIN f : y # x => Drop(f, x)[y] = f[y]
  BY DEF Drop, Restrict

-----------------------------------------------------------------------------
(* Lists *)

(* A push adds as many elements as it is given. *)
LEMMA PushFacts ==
    ASSUME NEW S, NEW l \in Seq(S), NEW vs \in Seq(S)
    PROVE  /\ LPush(l, vs) \in Seq(S) /\ Len(LPush(l, vs)) = Len(l) + Len(vs)
           /\ RPush(l, vs) \in Seq(S) /\ Len(RPush(l, vs)) = Len(l) + Len(vs)
<1>1. Len(l) \in Nat /\ Len(vs) \in Nat /\ \A i \in 1 .. Len(vs) : vs[i] \in S
  BY LenProperties
<1>2. Reverse(vs) \in Seq(S) /\ Len(Reverse(vs)) = Len(vs)
  <2>1. \A i \in 1 .. Len(vs) : (Len(vs) - i) + 1 \in 1 .. Len(vs)
    BY <1>1
  <2>2. Reverse(vs) \in [1 .. Len(vs) -> S]
    BY <1>1, <2>1 DEF Reverse
  <2> QED
    BY <1>1, <2>2
<1>3. LPush(l, vs) \in Seq(S) /\ Len(LPush(l, vs)) = Len(Reverse(vs)) + Len(l)
  BY <1>2, ConcatProperties DEF LPush
<1>4. RPush(l, vs) \in Seq(S) /\ Len(RPush(l, vs)) = Len(l) + Len(vs)
  BY ConcatProperties DEF RPush
<1> QED
  BY <1>1, <1>2, <1>3, <1>4

(* A pop takes one element away. *)
LEMMA PopFacts ==
    ASSUME NEW S, NEW l \in Seq(S), l # <<>>
    PROVE  /\ LPop(l).rest \in Seq(S) /\ Len(LPop(l).rest) = Len(l) - 1
           /\ RPop(l).rest \in Seq(S) /\ Len(RPop(l).rest) = Len(l) - 1
<1>1. LPop(l).rest \in Seq(S) /\ Len(LPop(l).rest) = Len(l) - 1
  BY HeadTailProperties DEF LPop
<1>2. Len(l) \in Nat /\ Len(l) >= 1 /\ \A i \in 1 .. Len(l) : l[i] \in S
  BY EmptySeq, LenProperties
<1> DEFINE n == Len(l)
<1> HIDE DEF n
<1>3. SubSeq(l, 1, n - 1) \in Seq(S) /\ Len(SubSeq(l, 1, n - 1)) = n - 1
  <2>1. n \in Nat /\ n >= 1 /\ \A i \in 1 .. (n - 1) : l[i] \in S
    BY <1>2 DEF n
  <2>2. SubSeq(l, 1, n - 1) \in Seq(S)
        /\ Len(SubSeq(l, 1, n - 1)) = IF 1 <= n - 1 THEN (n - 1) - 1 + 1 ELSE 0
    BY <2>1, SubSeqProperties
  <2> QED
    BY <2>1, <2>2
<1> QED
  BY <1>1, <1>3 DEF RPop, Front, n

-----------------------------------------------------------------------------
(* Sets *)

(* The members of a command are finitely many. *)
LEMMA MembersFinite ==
    ASSUME NEW S, NEW s \in Seq(S)
    PROVE  ToSet(s) \in SUBSET S /\ IsFiniteSet(ToSet(s))
<1>1. Len(s) \in Nat /\ DOMAIN s = 1 .. Len(s) /\ \A i \in DOMAIN s : s[i] \in S
  BY LenProperties
<1>2. IsFiniteSet(DOMAIN s)
  BY <1>1, FS_Interval
<1>3. ToSet(s) = {s[i] : i \in DOMAIN s}
  BY DEF ToSet
<1>4. s \in Surjection(DOMAIN s, ToSet(s))
  BY <1>1, <1>3 DEF Surjection
<1> QED
  BY <1>1, <1>2, <1>3, <1>4, FS_Surjection

(* SADD and SREM count the members by which the set grows and shrinks. *)
LEMMA SetCounts ==
    ASSUME NEW S, NEW s \in SUBSET S, IsFiniteSet(s), NEW ms \in Seq(S)
    PROVE  /\ SetAdd(s, ms).set \in SUBSET S /\ IsFiniteSet(SetAdd(s, ms).set)
           /\ SetAdd(s, ms).count \in Int
           /\ Cardinality(SetAdd(s, ms).set) = Cardinality(s) + SetAdd(s, ms).count
           /\ SetRemove(s, ms).set \in SUBSET S /\ IsFiniteSet(SetRemove(s, ms).set)
           /\ SetRemove(s, ms).count \in Int
           /\ Cardinality(SetRemove(s, ms).set) = Cardinality(s) - SetRemove(s, ms).count
<1> DEFINE m == ToSet(ms)
<1>1. m \in SUBSET S /\ IsFiniteSet(m)
  BY MembersFinite
<1>2. IsFiniteSet(m \ s) /\ IsFiniteSet(m \cap s) /\ IsFiniteSet(s \ m) /\ IsFiniteSet(s \cup m)
  BY <1>1, FS_Difference, FS_Intersection, FS_Union
<1>3. Cardinality(s) \in Nat /\ Cardinality(m) \in Nat /\ Cardinality(m \ s) \in Nat
      /\ Cardinality(m \cap s) \in Nat /\ Cardinality(s \ m) \in Nat
      /\ Cardinality(s \cup m) \in Nat
  BY <1>1, <1>2, FS_CardinalityType
<1>4. Cardinality(s \cup m) = Cardinality(s) + Cardinality(m) - Cardinality(s \cap m)
  BY <1>1, FS_Union
<1>5. Cardinality(m \ s) = Cardinality(m) - Cardinality(m \cap s)
  BY <1>1, FS_Difference
<1>6. Cardinality(s \ m) = Cardinality(s) - Cardinality(s \cap m)
  BY <1>1, FS_Difference
<1>7. s \cap m = m \cap s
  OBVIOUS
<1> HIDE DEF m
<1>8. Cardinality(s \cup m) = Cardinality(s) + Cardinality(m \ s)
      /\ Cardinality(s \ m) = Cardinality(s) - Cardinality(m \cap s)
  BY <1>3, <1>4, <1>5, <1>6, <1>7
<1> QED
  BY <1>1, <1>2, <1>3, <1>8 DEF SetAdd, SetRemove, m

-----------------------------------------------------------------------------
(* Ranges *)

(* The j-th of a set of positions, and the elements at them, as in Slice. *)
Nth(I, j) == CHOOSE i \in I : Cardinality({x \in I : x < i}) = j - 1

ElementsAt(I, s) == [j \in 1 .. Cardinality(I) |-> s[Nth(I, j)]]

(* Positions that follow each other are counted by their differences, and so is
   the place of each of them. *)
LEMMA IntervalPlaces ==
    ASSUME NEW a \in Int, NEW b \in Int, a <= b + 1, NEW I, I = a .. b, NEW s
    PROVE  ElementsAt(I, s) = [j \in 1 .. (b - a + 1) |-> s[a + j - 1]]
<1>1. Cardinality(I) = b - a + 1
  <2>1. Cardinality(a .. b) = IF a > b THEN 0 ELSE b - a + 1
    BY FS_Interval
  <2>2. (IF a > b THEN 0 ELSE b - a + 1) = b - a + 1
    OBVIOUS
  <2> QED
    BY <2>1, <2>2
<1>2. ASSUME NEW i \in a .. b
      PROVE  Cardinality({x \in I : x < i}) = i - a
  <2>1. {x \in I : x < i} = a .. (i - 1)
    OBVIOUS
  <2>2. Cardinality(a .. (i - 1)) = IF a > i - 1 THEN 0 ELSE (i - 1) - a + 1
    BY FS_Interval
  <2>3. (IF a > i - 1 THEN 0 ELSE (i - 1) - a + 1) = i - a
    OBVIOUS
  <2> QED
    BY <2>1, <2>2, <2>3
<1>3. ASSUME NEW j \in 1 .. (b - a + 1)
      PROVE  Nth(I, j) = a + j - 1
  <2>1. a + j - 1 \in a .. b /\ (a + j - 1) - a = j - 1
    OBVIOUS
  <2>2. \A i \in a .. b : i - a = j - 1 <=> i = a + j - 1
    OBVIOUS
  <2>3. \A i \in I : Cardinality({x \in I : x < i}) = j - 1 <=> i = a + j - 1
    BY <1>2, <2>2
  <2> QED
    BY <2>1, <2>3 DEF Nth
<1> QED
  BY <1>1, <1>3 DEF ElementsAt

(* LRANGE gives the elements at the positions asked for, for every list and
   all indices, however far out of range (list.go LRange). *)
LEMMA LRangeIsSlice ==
    ASSUME NEW S, NEW l \in Seq(S), NEW start \in Int, NEW stop \in Int
    PROVE  LRange(l, start, stop) = Slice(l, start, stop)
<1> DEFINE n == Len(l)
           p == IF start < 0 THEN n + start ELSE start
           q == IF stop < 0 THEN n + stop ELSE stop
           from == IF p < 0 THEN 0 ELSE p
           to == IF q >= n THEN n - 1 ELSE q
           inside == {i \in 1 .. n : p <= i - 1 /\ i - 1 <= q}
<1>1. n \in Nat /\ p \in Int /\ q \in Int /\ \A i \in 1 .. n : l[i] \in S
  BY LenProperties
<1>2. Slice(l, start, stop) = ElementsAt(inside, l)
  BY DEF Slice, ElementsAt, Nth
<1>3. LRange(l, start, stop) =
          IF n = 0 \/ from > to THEN <<>> ELSE SubSeq(l, from + 1, to + 1)
  BY DEF LRange, Bounds
<1> HIDE DEF n, p, q
<1>4. from \in Int /\ to \in Int
  BY <1>1
<1>5. CASE n = 0 \/ from > to
  <2>1. inside = 1 .. 0
    BY <1>1, <1>5
  <2>2. 1 \in Int /\ 0 \in Int /\ 1 <= 0 + 1
    OBVIOUS
  <2> HIDE DEF inside
  <2>3. Slice(l, start, stop) = [j \in 1 .. (0 - 1 + 1) |-> l[1 + j - 1]]
    BY <1>2, <2>1, <2>2, IntervalPlaces
  <2>4. 1 .. (0 - 1 + 1) = {}
    OBVIOUS
  <2>5. [j \in 1 .. (0 - 1 + 1) |-> l[1 + j - 1]] = <<>>
    BY <2>4
  <2> QED
    BY <1>3, <1>5, <2>3, <2>5
<1>6. CASE ~ (n = 0 \/ from > to)
  <2> DEFINE a == from + 1
             b == to + 1
  <2>1. a \in Int /\ b \in Int /\ 1 <= a /\ a <= b /\ b <= n /\ a <= b + 1
    BY <1>1, <1>4, <1>6
  <2>2. inside = a .. b
    <3>1. \A i \in 1 .. n : (p <= i - 1 /\ i - 1 <= q) <=> (a <= i /\ i <= b)
      BY <1>1, <1>6
    <3>2. \A i \in a .. b : i \in 1 .. n
      BY <1>1, <2>1
    <3> HIDE DEF a, b
    <3>3. inside = {i \in 1 .. n : a <= i /\ i <= b}
      BY <3>1
    <3> HIDE DEF inside
    <3> QED
      BY <1>1, <2>1, <3>2, <3>3
  <2> HIDE DEF a, b, inside
  <2>3. Slice(l, start, stop) = [j \in 1 .. (b - a + 1) |-> l[a + j - 1]]
    BY <1>2, <2>1, <2>2, IntervalPlaces
  <2>4. \A i \in a .. b : l[i] \in S
    BY <1>1, <2>1
  <2>5. /\ SubSeq(l, a, b) \in Seq(S)
        /\ Len(SubSeq(l, a, b)) = b - a + 1
        /\ \A i \in 1 .. (b - a + 1) : SubSeq(l, a, b)[i] = l[a + i - 1]
    BY <2>1, <2>4, SubSeqProperties
  <2>6. SubSeq(l, a, b) \in [1 .. (b - a + 1) -> S]
    BY <2>5, LenProperties
  <2>7. SubSeq(l, a, b) = [j \in 1 .. (b - a + 1) |-> l[a + j - 1]]
    BY <2>5, <2>6
  <2> QED
    BY <1>3, <1>6, <2>3, <2>7 DEF a, b
<1> QED
  BY <1>5, <1>6

(* Some member of a finite sorted set that is not empty has the highest score. *)
LEMMA HighestScore ==
    ASSUME NEW D, IsFiniteSet(D), NEW z, \A x \in D : z[x] \in Int
    PROVE  \A t \in SUBSET D : t # {} => \E m \in t : \A x \in t : z[x] <= z[m]
<1> DEFINE Q == {t \in SUBSET D : t # {} => \E m \in t : \A x \in t : z[x] <= z[m]}
<1>1. ASSUME NEW t \in SUBSET D, \A u \in SUBSET t : u # t => u \in Q
      PROVE  t \in Q
  <2> SUFFICES ASSUME t # {}
               PROVE  \E m \in t : \A x \in t : z[x] <= z[m]
    OBVIOUS
  <2>1. PICK y \in t : TRUE
    OBVIOUS
  <2>2. t \ {y} \in Q
    BY <1>1, <2>1
  <2>3. CASE t \ {y} = {}
    BY <2>1, <2>3
  <2>4. CASE t \ {y} # {}
    <3>1. PICK m \in t \ {y} : \A x \in t \ {y} : z[x] <= z[m]
      BY <2>2, <2>4
    <3>2. \A x \in t : z[x] \in Int
      OBVIOUS
    <3>3. CASE z[y] <= z[m]
      BY <3>1, <3>3
    <3>4. CASE ~ (z[y] <= z[m])
      <4>1. \A x \in t : z[x] <= z[y]
        BY <2>1, <3>1, <3>2, <3>4
      <4> QED
        BY <2>1, <4>1
    <3> QED
      BY <3>3, <3>4
  <2> QED
    BY <2>3, <2>4
<1> HIDE DEF Q
<1>2. \A t \in SUBSET D : t \in Q
  BY <1>1, SubsetInduction
<1> QED
  BY <1>2 DEF Q

(* A sequence of the members of t in the order of their scores. *)
Ranks(s, t, z) ==
    /\ s \in [1 .. Cardinality(t) -> t]
    /\ \A i, j \in 1 .. Cardinality(t) : i # j => s[i] # s[j]
    /\ \A i \in 1 .. (Cardinality(t) - 1) : z[s[i]] <= z[s[i + 1]]

(* A finite sorted set can be sorted. *)
LEMMA CanBeSorted ==
    ASSUME NEW D, IsFiniteSet(D), NEW z, \A x \in D : z[x] \in Int
    PROVE  \E s : Ranks(s, D, z)
<1> DEFINE Q == {t \in SUBSET D : \E s : Ranks(s, t, z)}
<1>1. ASSUME NEW t \in SUBSET D, \A u \in SUBSET t : u # t => u \in Q
      PROVE  t \in Q
  <2>1. CASE t = {}
    <3>1. Cardinality(t) = 0 /\ 1 .. 0 = {} /\ 1 .. (0 - 1) = {}
      BY <2>1, FS_EmptySet
    <3>2. [i \in 1 .. 0 |-> i] \in [1 .. 0 -> t]
      BY <3>1
    <3>3. Ranks([i \in 1 .. 0 |-> i], t, z)
      BY <3>1, <3>2 DEF Ranks
    <3> QED
      BY <3>3
  <2>2. CASE t # {}
    <3>1. PICK m \in t : \A x \in t : z[x] <= z[m]
      BY <2>2, HighestScore
    <3> DEFINE u == t \ {m}
    <3>2. u \in Q
      BY <1>1, <3>1
    <3>3. PICK s : Ranks(s, u, z)
      BY <3>2
    <3>4. IsFiniteSet(t) /\ Cardinality(t) \in Nat
      BY FS_Subset, FS_CardinalityType
    <3>5. Cardinality(u) = Cardinality(t) - 1 /\ Cardinality(u) \in Nat
      BY <3>1, <3>4, FS_RemoveElement, FS_CardinalityType
    <3>6. PICK n \in Nat : n = Cardinality(u)
      BY <3>5
    <3>7. Cardinality(t) = n + 1
      BY <3>4, <3>5, <3>6
    <3> DEFINE r == [i \in 1 .. (n + 1) |-> IF i = n + 1 THEN m ELSE s[i]]
    <3>8. /\ s \in [1 .. n -> u]
          /\ \A i, j \in 1 .. n : i # j => s[i] # s[j]
          /\ \A i \in 1 .. (n - 1) : z[s[i]] <= z[s[i + 1]]
      BY <3>3, <3>6 DEF Ranks
    <3>9. \A i \in 1 .. (n + 1) : i = n + 1 \/ i \in 1 .. n
      BY <3>6
    <3>10. \A i \in 1 .. n : s[i] \in t /\ s[i] # m /\ i # n + 1 /\ i \in 1 .. (n + 1)
      <4>1. \A i \in 1 .. n : i # n + 1 /\ i \in 1 .. (n + 1)
        OBVIOUS
      <4>2. \A i \in 1 .. n : s[i] \in u
        <5> HIDE DEF u
        <5> QED
          BY <3>8
      <4> QED
        BY <4>1, <4>2
    <3>11. n + 1 \in 1 .. (n + 1) /\ r[n + 1] = m /\ \A i \in 1 .. n : r[i] = s[i]
      <4>1. n + 1 \in 1 .. (n + 1)
        OBVIOUS
      <4> QED
        BY <3>10, <4>1
    <3>12. r \in [1 .. (n + 1) -> t]
      BY <3>9, <3>10
    <3> HIDE DEF r, u
    <3>13. \A i, j \in 1 .. (n + 1) : i # j => r[i] # r[j]
      BY <3>8, <3>9, <3>10, <3>11
    <3>14. ASSUME NEW i \in 1 .. n
           PROVE  z[r[i]] <= z[r[i + 1]]
      <4>1. CASE i = n
        BY <3>1, <3>10, <3>11, <4>1
      <4>2. CASE i # n
        <5>1. i \in 1 .. (n - 1) /\ i + 1 \in 1 .. n
          BY <3>6, <4>2
        <5> QED
          BY <3>8, <3>11, <5>1
      <4> QED
        BY <4>1, <4>2
    <3>15. (n + 1) - 1 = n
      BY <3>6
    <3>16. Ranks(r, t, z)
      BY <3>7, <3>12, <3>13, <3>14, <3>15 DEF Ranks
    <3> QED
      BY <3>16
  <2> QED
    BY <2>1, <2>2
<1> HIDE DEF Q
<1>2. \A t \in SUBSET D : t \in Q
  BY <1>1, SubsetInduction
<1>3. D \in Q
  BY <1>2
<1> QED
  BY <1>3 DEF Q

(* ZRANGE gives the members at the positions asked for in some order by score,
   for every sorted set and all indices (zset.go Range). *)
LEMMA ZRangeIsSlices ==
    ASSUME NEW z, IsFiniteSet(DOMAIN z), \A x \in DOMAIN z : z[x] \in Int,
           NEW start \in Int, NEW stop \in Int
    PROVE  ZRange(z, start, stop) = {Slice(s, start, stop) : s \in Rankings(z)}
<1> DEFINE D == DOMAIN z
           n == Cardinality(D)
           cut == Bounds(n, start, stop)
<1>1. n \in Nat
  BY FS_CardinalityType
<1>2. \A s \in Rankings(z) : s \in Seq(D) /\ Len(s) = n
  <2> SUFFICES ASSUME NEW s \in Rankings(z)
               PROVE  s \in Seq(D) /\ Len(s) = n
    OBVIOUS
  <2>1. s \in [1 .. n -> D]
    BY DEF Rankings, SetToSeqs
  <2> HIDE DEF n, D
  <2> QED
    BY <1>1, <2>1
<1>3. \E s : s \in Rankings(z)
  <2>1. PICK s : Ranks(s, D, z)
    BY CanBeSorted
  <2>2. s \in [1 .. n -> D] /\ \A i, j \in 1 .. n : i # j => s[i] # s[j]
    BY <2>1 DEF Ranks
  <2>3. s \in SetToSeqs(D)
    BY <2>2 DEF SetToSeqs
  <2>4. Len(s) = n
    <3> HIDE DEF n, D
    <3> QED
      BY <1>1, <2>2
  <2>5. \A i \in 1 .. (Len(s) - 1) : z[s[i]] <= z[s[i + 1]]
    BY <2>1, <2>4 DEF Ranks
  <2>6. s \in Rankings(z)
    BY <2>3, <2>5 DEF Rankings
  <2> QED
    BY <2>6
<1>4. \A s \in Rankings(z) : LRange(s, start, stop) = Slice(s, start, stop)
  BY <1>2, LRangeIsSlice
<1>5. (n = 0 \/ cut.from > cut.to) <=> (cut.from > cut.to \/ cut.from >= n)
  <2> HIDE DEF n
  <2>1. cut.from \in Int /\ cut.to \in Int /\ cut.from >= 0 /\ cut.to <= n - 1
    BY <1>1 DEF Bounds
  <2> HIDE DEF cut
  <2> QED
    BY <1>1, <2>1
<1>6. \A s \in Rankings(z) :
          LRange(s, start, stop) = IF cut.from > cut.to \/ cut.from >= n THEN <<>>
                                   ELSE SubSeq(s, cut.from + 1, cut.to + 1)
  <2> SUFFICES ASSUME NEW s \in Rankings(z)
               PROVE  LRange(s, start, stop) =
                          IF cut.from > cut.to \/ cut.from >= n THEN <<>>
                          ELSE SubSeq(s, cut.from + 1, cut.to + 1)
    OBVIOUS
  <2>1. Len(s) = n
    BY <1>2
  <2>2. LRange(s, start, stop) = IF n = 0 \/ cut.from > cut.to THEN <<>>
                                 ELSE SubSeq(s, cut.from + 1, cut.to + 1)
    BY <2>1 DEF LRange
  <2> HIDE DEF cut, n
  <2> QED
    BY <1>5, <2>2
<1>7. ZRange(z, start, stop) =
          IF cut.from > cut.to \/ cut.from >= n THEN {<<>>}
          ELSE {SubSeq(s, cut.from + 1, cut.to + 1) : s \in Rankings(z)}
  BY DEF ZRange
<1> HIDE DEF cut, n
<1>8. CASE cut.from > cut.to \/ cut.from >= n
  BY <1>3, <1>4, <1>6, <1>7, <1>8
<1>9. CASE ~ (cut.from > cut.to \/ cut.from >= n)
  BY <1>4, <1>6, <1>7, <1>9
<1> QED
  BY <1>8, <1>9

-----------------------------------------------------------------------------
(* Commands *)

Ops == Writing \cup Looking

Commands == UNION Workloads

Types == {"str", "hash", "list", "set", "zset"}

(* The commands that work on an object beside a string. *)
OnObjects == Creating \cup Removing

(* The type of the objects that an operation works on. *)
LEMMA TypeOfOps ==
    ASSUME NEW op
    PROVE  /\ op \in {"HSET", "HDEL"} => TypeOf(op) = "hash"
           /\ op \in {"LPUSH", "RPUSH", "LPOP", "RPOP"} => TypeOf(op) = "list"
           /\ op \in {"SADD", "SREM"} => TypeOf(op) = "set"
           /\ op \in {"ZADD", "ZREM"} => TypeOf(op) = "zset"
           /\ op \in OnObjects => TypeOf(op) \in {"hash", "list", "set", "zset"}
  BY DEF TypeOf, OnObjects, Creating, Removing

(* The keys of a command, by its operation. *)
LEMMA KeysOfOps ==
    ASSUME NEW cmd
    PROVE  /\ cmd.op \in Storing => KeysOf(cmd) = {cmd.args[i][1] : i \in DOMAIN cmd.args}
           /\ cmd.op \in {"DEL", "MGET"} => KeysOf(cmd) = ToSet(cmd.args)
           /\ cmd.op \notin Storing \cup {"DEL", "MGET"} => KeysOf(cmd) = {cmd.key}
  BY DEF KeysOf, Storing

(* The arguments of a command, by its operation. *)
LEMMA ArgsOfOps ==
    ASSUME NEW op
    PROVE  /\ op \in Storing => ArgsOf(op) = Seq(Keys \X Seq(Values))
           /\ op = "HSET" => ArgsOf(op) = Seq(Members \X Values)
           /\ op = "ZADD" => ArgsOf(op) = Seq((Int \cup {BadScore}) \X Members)
           /\ op \in {"HDEL", "SADD", "SREM", "ZREM"} => ArgsOf(op) = Seq(Members)
           /\ op \in {"LPUSH", "RPUSH"} => ArgsOf(op) = Seq(Values)
           /\ op = "APPEND" => ArgsOf(op) = Seq(Seq(Values))
           /\ op \in {"LPOP", "RPOP"} => ArgsOf(op) = {<<>>}
           /\ op \in Looking \cup {"DEL"} => ArgsOf(op) = Seq(Keys)
  BY DEF ArgsOf, Storing, Looking

(* The arguments of a command are a sequence. *)
LEMMA ArgsAreSequences ==
    ASSUME NEW op, NEW args \in ArgsOf(op)
    PROVE  /\ \E S : args \in Seq(S)
           /\ Len(args) \in Nat /\ DOMAIN args = 1 .. Len(args)
<1>1. \E S : args \in Seq(S)
  <2>1. \A a \in {<<>>} : a \in Seq({})
    OBVIOUS
  <2> QED
    BY <2>1 DEF ArgsOf
<1> QED
  BY <1>1, LenProperties

(* A command is about keys of the cache. *)
LEMMA KeysOfType ==
    ASSUME NEW cmd \in Commands
    PROVE  KeysOf(cmd) \subseteq Keys
<1>1. cmd.op \in Ops /\ cmd.key \in Keys /\ cmd.args \in ArgsOf(cmd.op)
  BY CommandAssumption DEF Ops, Commands
<1>2. CASE cmd.op \in Storing
  <2>1. cmd.args \in Seq(Keys \X Seq(Values))
    BY <1>1, <1>2, ArgsOfOps
  <2>2. \A i \in DOMAIN cmd.args : cmd.args[i] \in Keys \X Seq(Values)
    BY <2>1, LenProperties
  <2>3. \A i \in DOMAIN cmd.args : cmd.args[i][1] \in Keys
    BY <2>2
  <2> QED
    BY <1>2, <2>3, KeysOfOps
<1>3. CASE cmd.op \in {"DEL", "MGET"}
  <2>1. cmd.args \in Seq(Keys)
    BY <1>1, <1>3, ArgsOfOps DEF Looking
  <2> QED
    BY <1>3, <2>1, KeysOfOps, MembersFinite
<1>4. CASE cmd.op \notin Storing \cup {"DEL", "MGET"}
  BY <1>1, <1>4, KeysOfOps
<1> QED
  BY <1>2, <1>3, <1>4

-----------------------------------------------------------------------------
(* The cache *)

IsItem(o) == o \in [val : Seq(Values), ttl : {"none", "EX", "PX", "past"}]

IsHash(o) ==
    /\ DOMAIN o \subseteq Members
    /\ IsFiniteSet(DOMAIN o)
    /\ \A f \in DOMAIN o : o[f] \in Values

IsSortedSet(o) ==
    /\ DOMAIN o \subseteq Members
    /\ IsFiniteSet(DOMAIN o)
    /\ \A x \in DOMAIN o : o[x] \in Int

IsSet(o) == o \in SUBSET Members /\ IsFiniteSet(o)

IsObject(t, o) ==
    /\ t = "str" => IsItem(o)
    /\ t = "hash" => IsHash(o)
    /\ t = "list" => o \in Seq(Values)
    /\ t = "set" => IsSet(o)
    /\ t = "zset" => IsSortedSet(o)

IsCache(d) ==
    /\ DOMAIN d = Types
    /\ \A t \in Types : /\ DOMAIN d[t] \subseteq Keys
                        /\ \A k \in DOMAIN d[t] : IsObject(t, d[t][k])

(* e is d but for object o of type t at key k. *)
Stored(d, t, k, o, e) ==
    /\ IsCache(e)
    /\ \A u \in Types : u # t => e[u] = d[u]
    /\ DOMAIN e[t] = DOMAIN d[t] \cup {k}
    /\ e[t][k] = o
    /\ \A j \in DOMAIN d[t] : j # k => e[t][j] = d[t][j]

(* Storing an object of its type changes nothing else. *)
LEMMA StoreFacts ==
    ASSUME NEW d, IsCache(d), NEW t \in Types, NEW k \in Keys, NEW o, IsObject(t, o)
    PROVE  Stored(d, t, k, o, Store(d, t, k, o))
<1> DEFINE p == Put(d[t], k, o)
           e == Store(d, t, k, o)
<1>1. /\ DOMAIN p = DOMAIN d[t] \cup {k} /\ p[k] = o
      /\ \A j \in DOMAIN d[t] : j # k => p[j] = d[t][j]
  BY DEF Put
<1> HIDE DEF p
<1>2. /\ DOMAIN e = Types /\ e[t] = p
      /\ \A u \in Types : u # t => e[u] = d[u]
  BY DEF Store, IsCache, p
<1> HIDE DEF e
<1>3. \A u \in Types : /\ DOMAIN e[u] \subseteq Keys
                       /\ \A j \in DOMAIN e[u] : IsObject(u, e[u][j])
  <2> SUFFICES ASSUME NEW u \in Types
               PROVE  /\ DOMAIN e[u] \subseteq Keys
                      /\ \A j \in DOMAIN e[u] : IsObject(u, e[u][j])
    OBVIOUS
  <2>1. /\ DOMAIN d[u] \subseteq Keys
        /\ \A j \in DOMAIN d[u] : IsObject(u, d[u][j])
    BY DEF IsCache
  <2>2. CASE u = t
    BY <1>1, <1>2, <2>1, <2>2
  <2>3. CASE u # t
    BY <1>2, <2>1, <2>3
  <2> QED
    BY <2>2, <2>3
<1>4. IsCache(e)
  BY <1>2, <1>3 DEF IsCache
<1> QED
  BY <1>1, <1>2, <1>4 DEF Stored, e

(* A new object is one of its type, and it is empty. *)
LEMMA NewObjectFacts ==
    ASSUME NEW t \in {"hash", "list", "set", "zset"}
    PROVE  /\ IsObject(t, NewObject[t])
           /\ NewObject["list"] = <<>> /\ NewObject["set"] = {}
           /\ DOMAIN NewObject["hash"] = {} /\ DOMAIN NewObject["zset"] = {}
<1>1. NewObject["list"] = <<>> /\ NewObject["set"] = {}
      /\ NewObject["hash"] = <<>> /\ NewObject["zset"] = <<>>
  BY DEF NewObject
<1>2. DOMAIN <<>> = {} /\ IsFiniteSet({}) /\ <<>> \in Seq(Values)
  BY FS_EmptySet
<1> QED
  BY <1>1, <1>2 DEF IsObject, IsHash, IsSet, IsSortedSet

(* e is d but for some strings: those in e were in d or are at key k. *)
StringsChange(d, e, K) ==
    /\ IsCache(e)
    /\ \A u \in Types : u # "str" => e[u] = d[u]
    /\ DOMAIN e["str"] \subseteq DOMAIN d["str"] \cup K

(* Setting a string adds no other string. *)
LEMMA SetItemFacts ==
    ASSUME NEW d, IsCache(d), NEW k \in Keys, NEW item, IsItem(item)
    PROVE  StringsChange(d, SetItem(d, k, item), {k})
<1>1. IsObject("str", item) /\ "str" \in Types
  BY DEF IsObject, Types
<1>2. Stored(d, "str", k, item, Store(d, "str", k, item))
  BY <1>1, StoreFacts
<1> QED
  BY <1>2 DEF Stored, StringsChange, SetItem

(* Deleting a string adds no string. *)
LEMMA DeleteFacts ==
    ASSUME NEW d, IsCache(d), NEW k
    PROVE  StringsChange(d, Delete(d, k), {})
<1> DEFINE e == Delete(d, k)
           p == Drop(d["str"], k)
<1>1. /\ DOMAIN p = DOMAIN d["str"] \ {k}
      /\ \A y \in DOMAIN d["str"] : y # k => p[y] = d["str"][y]
  BY DropFacts
<1>2. DOMAIN e = Types /\ e["str"] = p /\ \A u \in Types : u # "str" => e[u] = d[u]
  BY DEF Delete, IsCache, Types
<1> HIDE DEF p, e
<1>3. ASSUME NEW u \in Types
      PROVE  /\ DOMAIN e[u] \subseteq Keys
             /\ \A j \in DOMAIN e[u] : IsObject(u, e[u][j])
  <2>1. /\ DOMAIN d[u] \subseteq Keys
        /\ \A j \in DOMAIN d[u] : IsObject(u, d[u][j])
    BY DEF IsCache
  <2>2. CASE u = "str"
    BY <1>1, <1>2, <2>1, <2>2
  <2>3. CASE u # "str"
    BY <1>2, <2>1, <2>3
  <2> QED
    BY <2>2, <2>3
<1>4. IsCache(e)
  BY <1>2, <1>3 DEF IsCache
<1> QED
  BY <1>1, <1>2, <1>4 DEF StringsChange, e

(* Looking up a string adds no string. *)
LEMMA AfterGetFacts ==
    ASSUME NEW d, IsCache(d), NEW k
    PROVE  StringsChange(d, AfterGet(d, k), {})
<1>1. StringsChange(d, d, {})
  BY DEF StringsChange
<1> QED
  BY <1>1, DeleteFacts DEF AfterGet

-----------------------------------------------------------------------------
(* Handlers *)

Pcs == {"create", "find", "check", "run", "put"}

(* Place i of the arguments exists; a pop has none. *)
InRange(cmd, i) == i >= 1 /\ (cmd.op \in {"LPOP", "RPOP"} \/ i <= Len(cmd.args))

(* x is in a handler of one of the commands of w, numbered below n. *)
IsCall(x, w, n) ==
    /\ x \in [pc : Pcs, cmd : w, i : Nat, id : Nat, old : Seq(Values)]
    /\ x.id < n
    /\ InRange(x.cmd, x.i)

(* A handler that works on an object has it: nothing removes objects. *)
HasObject(x, d) ==
    x.pc \in {"run", "put"} /\ x.cmd.op \in OnObjects
        => x.cmd.key \in DOMAIN d[TypeOf(x.cmd.op)]

CallOK(x, w, n, d) == x = Idle \/ (IsCall(x, w, n) /\ HasObject(x, d))

Tallies == [Sized -> [Keys -> Int]]

Typed ==
    /\ IsCache(db)
    /\ workload \in Workloads
    /\ issued \in Nat
    /\ DOMAIN call = Clients
    /\ \A c \in Clients : CallOK(call[c], workload, issued, db)
    /\ \A r \in pending : r.cmd \in workload
    /\ log \in Seq(workload)
    /\ tally \in Tallies
    /\ raced \subseteq Keys
    /\ lossy \subseteq Keys

(* No object is removed. *)
Grows(d, e) == \A t \in Types : t # "str" => DOMAIN d[t] \subseteq DOMAIN e[t]

(* A handler keeps its place and its object when others go on. *)
LEMMA CallStays ==
    ASSUME NEW x, NEW w, NEW n \in Nat, NEW m \in Nat, n <= m, NEW d, NEW e, Grows(d, e),
           CallOK(x, w, n, d)
    PROVE  CallOK(x, w, m, e)
<1>1. CASE x = Idle
  BY <1>1 DEF CallOK
<1>2. CASE IsCall(x, w, n) /\ HasObject(x, d)
  <2>1. IsCall(x, w, m)
    BY <1>2 DEF IsCall
  <2>2. HasObject(x, e)
    <3> SUFFICES ASSUME x.pc \in {"run", "put"}, x.cmd.op \in OnObjects
                 PROVE  x.cmd.key \in DOMAIN e[TypeOf(x.cmd.op)]
      BY DEF HasObject
    <3>1. PICK t : t = TypeOf(x.cmd.op)
      OBVIOUS
    <3>2. t \in Types /\ t # "str"
      BY <3>1, TypeOfOps DEF Types
    <3>3. x.cmd.key \in DOMAIN d[t]
      BY <1>2, <3>1 DEF HasObject
    <3> QED
      BY <3>1, <3>2, <3>3 DEF Grows
  <2> QED
    BY <2>1, <2>2 DEF CallOK
<1> QED
  BY <1>1, <1>2 DEF CallOK

(* What a step of the handler of c does to the calls and to the records. *)
Moves(c) ==
    /\ DOMAIN call' = Clients
    /\ \A b \in Clients \ {c} : call'[b] = call[b]
    /\ call'[c] = Idle \/ (IsCall(call'[c], workload, issued) /\ call'[c].cmd = call[c].cmd)
    /\ \A r \in pending' : r \in pending \/ r.cmd = call[c].cmd

(* Who is not idle is in a handler. *)
LEMMA InHandler ==
    ASSUME Typed, NEW c \in Clients, call[c].pc # "idle"
    PROVE  /\ IsCall(call[c], workload, issued) /\ HasObject(call[c], db)
           /\ call[c].cmd \in workload /\ call[c].cmd \in Commands
           /\ call[c].cmd.op \in Ops /\ call[c].cmd.key \in Keys
           /\ call[c].cmd.args \in ArgsOf(call[c].cmd.op)
           /\ call[c].cmd.opt \in {"none", "EX", "PX"}
<1>1. call[c] # Idle
  BY DEF Idle
<1>2. IsCall(call[c], workload, issued) /\ HasObject(call[c], db)
  BY <1>1 DEF Typed, CallOK
<1>3. call[c].cmd \in workload /\ workload \in Workloads
  BY <1>2 DEF Typed, IsCall
<1>4. call[c].cmd \in Commands
  BY <1>3 DEF Commands
<1> QED
  BY <1>2, <1>3, <1>4, CommandAssumption DEF Commands, Ops

(* A handler that ends. *)
LEMMA Ending ==
    ASSUME Typed, NEW c \in Clients, call[c].pc # "idle", Return(c) \/ LogAndReturn(c)
    PROVE  Moves(c) /\ call'[c] = Idle
  BY DEF Moves, Return, LogAndReturn, Typed

(* A handler that goes to another place. *)
LEMMA Going ==
    ASSUME Typed, NEW c \in Clients, call[c].pc # "idle",
           NEW pc \in Pcs, NEW i \in Nat, InRange(call[c].cmd, i), Goto(c, pc, i)
    PROVE  Moves(c) /\ call'[c].pc = pc /\ call'[c].i = i
<1>1. IsCall(call[c], workload, issued)
  BY InHandler
<1>2. PICK x : x = call[c]
  OBVIOUS
<1>3. DOMAIN call' = Clients /\ \A b \in Clients \ {c} : call'[b] = call[b]
  BY DEF Goto, Typed
<1>4. call'[c] = [x EXCEPT !.pc = pc, !.i = i]
  BY <1>2 DEF Goto, Typed
<1>5. x \in [pc : Pcs, cmd : workload, i : Nat, id : Nat, old : Seq(Values)] /\ x.id < issued
  BY <1>1, <1>2 DEF IsCall
<1>6. PICK y : y = [x EXCEPT !.pc = pc, !.i = i]
  OBVIOUS
<1>7. /\ y \in [pc : Pcs, cmd : workload, i : Nat, id : Nat, old : Seq(Values)]
      /\ y.id = x.id /\ y.cmd = x.cmd /\ y.i = i /\ y.pc = pc
  BY <1>5, <1>6
<1>8. IsCall(y, workload, issued)
  BY <1>2, <1>5, <1>7 DEF IsCall
<1>9. pending' = pending
  BY DEF Goto
<1> QED
  BY <1>2, <1>3, <1>4, <1>6, <1>7, <1>8, <1>9 DEF Moves

(* A handler at the end of an iteration. *)
LEMMA Iterating ==
    ASSUME Typed, NEW c \in Clients, call[c].pc # "idle", NEW pc \in Pcs,
           call[c].cmd.args \in ArgsOf(call[c].cmd.op), NextArg(c, pc)
    PROVE  /\ Moves(c)
           /\ \/ call'[c] = Idle
              \/ /\ call[c].i < Len(call[c].cmd.args)
                 /\ call'[c].pc = pc /\ call'[c].i = call[c].i + 1
<1>1. IsCall(call[c], workload, issued)
  BY InHandler
<1>2. CASE call[c].i < Len(call[c].cmd.args)
  <2>1. Goto(c, pc, call[c].i + 1)
    BY <1>2 DEF NextArg
  <2>2. PICK i \in Nat : i = call[c].i + 1
    BY <1>1 DEF IsCall
  <2>3. call[c].i \in Nat /\ Len(call[c].cmd.args) \in Nat
    <3>1. \E S : call[c].cmd.args \in Seq(S)
      BY ArgsAreSequences
    <3> QED
      BY <1>1, <3>1, LenProperties DEF IsCall
  <2>4. InRange(call[c].cmd, i)
    BY <1>2, <2>2, <2>3 DEF InRange
  <2>5. Goto(c, pc, i)
    BY <2>1, <2>2
  <2>6. Moves(c) /\ call'[c].pc = pc /\ call'[c].i = i
    BY <2>4, <2>5, Going
  <2> QED
    BY <1>2, <2>2, <2>6
<1>3. CASE ~ (call[c].i < Len(call[c].cmd.args))
  BY <1>3, Ending DEF NextArg
<1> QED
  BY <1>2, <1>3

(* x is a handler of a write command on key k. *)
Busy(x, k) == x.pc # "idle" /\ x.cmd.op \in Writing /\ k \in KeysOf(x.cmd)

(* What every step of the handler of c does: it keeps the types, it removes no
   object, and it adds strings and changes hashes only at keys of its command. *)
Step(c) ==
    /\ Moves(c)
    /\ CallOK(call'[c], workload, issued, db')
    /\ log' = log /\ workload' = workload /\ issued' = issued
    /\ IsCache(db') /\ Grows(db, db')
    /\ \A k \in DOMAIN db'["str"] : k \in DOMAIN db["str"] \/ Busy(call[c], k)
    /\ \A k \in DOMAIN db["hash"] : db'["hash"][k] = db["hash"][k] \/ Busy(call[c], k)
    /\ tally' \in Tallies
    /\ raced \subseteq raced' /\ raced' \subseteq Keys /\ lossy' \subseteq Keys

(* The types are kept. *)
LEMMA StepKeepsTypes ==
    ASSUME Typed, NEW c \in Clients, call[c].pc # "idle", Step(c)
    PROVE  Typed'
<1>1. \A b \in Clients : CallOK(call'[b], workload, issued, db')
  <2> SUFFICES ASSUME NEW b \in Clients \ {c}
               PROVE  CallOK(call'[b], workload, issued, db')
    BY DEF Step
  <2>1. CallOK(call[b], workload, issued, db)
    BY DEF Typed
  <2>2. call'[b] = call[b]
    BY DEF Step, Moves
  <2>3. issued \in Nat /\ issued <= issued /\ Grows(db, db')
    BY DEF Typed, Step
  <2> QED
    BY <2>1, <2>2, <2>3, CallStays
<1>2. \A r \in pending' : r.cmd \in workload
  BY InHandler DEF Step, Moves, Typed
<1> QED
  BY <1>1, <1>2 DEF Step, Moves, Typed

(* A handler that goes on with its object keeps it. *)
LEMMA Holding ==
    ASSUME NEW c \in Clients, Moves(c),
           call[c].cmd.op \in OnObjects
               => call[c].cmd.key \in DOMAIN db'[TypeOf(call[c].cmd.op)]
    PROVE  CallOK(call'[c], workload, issued, db')
  BY DEF Moves, CallOK, HasObject

(* A step that leaves the cache as it is. *)
LEMMA QuietStep ==
    ASSUME Typed, NEW c \in Clients, call[c].pc # "idle", Moves(c), db' = db,
           call[c].cmd.op \in OnObjects /\ call'[c] # Idle
               => call[c].cmd.key \in DOMAIN db[TypeOf(call[c].cmd.op)],
           log' = log /\ workload' = workload /\ issued' = issued /\ raced' = raced,
           tally' \in Tallies, lossy' \subseteq Keys
    PROVE  Step(c)
<1>1. CallOK(call'[c], workload, issued, db')
  <2>1. CASE call'[c] = Idle
    BY <2>1 DEF CallOK
  <2>2. CASE call'[c] # Idle
    BY <2>2, Holding
  <2> QED
    BY <2>1, <2>2
<1> QED
  BY <1>1 DEF Step, Typed, Grows

(* A step that changes strings, at keys K of the command. *)
LEMMA StringStep ==
    ASSUME Typed, NEW c \in Clients, call[c].pc # "idle", Moves(c),
           call[c].cmd.op \notin OnObjects, NEW K, StringsChange(db, db', K),
           \A k \in K : Busy(call[c], k),
           log' = log /\ workload' = workload /\ issued' = issued /\ tally' = tally,
           raced \subseteq raced' /\ raced' \subseteq Keys /\ lossy' \subseteq Keys
    PROVE  Step(c)
<1>1. CallOK(call'[c], workload, issued, db')
  BY Holding
<1>2. IsCache(db') /\ Grows(db, db') /\ db'["hash"] = db["hash"]
      /\ DOMAIN db'["str"] \subseteq DOMAIN db["str"] \cup K
  BY DEF StringsChange, Grows, Types
<1> QED
  BY <1>1, <1>2 DEF Step, Typed

(* A step that changes the object o of the command's type and key. *)
LEMMA ObjectStep ==
    ASSUME Typed, NEW c \in Clients, call[c].pc # "idle", Moves(c),
           call[c].cmd.op \in OnObjects, NEW t, t = TypeOf(call[c].cmd.op),
           NEW k, k = call[c].cmd.key, NEW o, IsObject(t, o), db' = Store(db, t, k, o),
           log' = log /\ workload' = workload /\ issued' = issued /\ raced' = raced,
           tally' \in Tallies, lossy' = lossy
    PROVE  Step(c) /\ Stored(db, t, k, o, db')
<1>1. t \in Types /\ t # "str" /\ k \in Keys /\ IsCache(db)
  BY TypeOfOps, InHandler DEF Types, Typed
<1>2. Stored(db, t, k, o, db')
  BY <1>1, StoreFacts
<1>3. IsCache(db') /\ Grows(db, db') /\ k \in DOMAIN db'[t] /\ db'["str"] = db["str"]
  BY <1>1, <1>2 DEF Stored, Grows, Types
<1>4. CallOK(call'[c], workload, issued, db')
  BY <1>3, Holding
<1>5. Busy(call[c], k)
  BY KeysOfOps DEF Busy, OnObjects, Writing, Storing, Creating, Removing
<1>6. \A j \in DOMAIN db["hash"] : db'["hash"][j] = db["hash"][j] \/ Busy(call[c], j)
  BY <1>1, <1>2, <1>5 DEF Stored, Types
<1> QED
  BY <1>2, <1>3, <1>4, <1>6 DEF Step, Typed

-----------------------------------------------------------------------------
(* Counts *)

ObjectTypes == {"hash", "list", "set", "zset"}

SizeOf(t, o) ==
    IF t = "list" THEN Len(o) ELSE IF t = "set" THEN Cardinality(o) ELSE Cardinality(DOMAIN o)

Size(d, t, k) == IF k \in DOMAIN d[t] THEN SizeOf(t, d[t][k]) ELSE 0

(* What the replies to the commands of a key have counted beyond its size. *)
Excess(d, n, t, k) == n[t][k] - Size(d, t, k)

(* A step that counts what it does. *)
Balanced ==
    \A t \in Sized, k \in Keys :
        Excess(db', tally', t, k) = Excess(db, tally, t, k)

(* Sizes are numbers. *)
LEMMA SizeType ==
    ASSUME NEW t \in ObjectTypes
    PROVE  /\ \A o : IsObject(t, o) => SizeOf(t, o) \in Nat
           /\ \A d : IsCache(d) => \A k : Size(d, t, k) \in Nat
<1>1. ASSUME NEW o, IsObject(t, o)
      PROVE  SizeOf(t, o) \in Nat
  <2>1. CASE t = "list"
    BY <1>1, <2>1, LenProperties DEF IsObject, SizeOf
  <2>2. CASE t = "set"
    BY <1>1, <2>2, FS_CardinalityType DEF IsObject, IsSet, SizeOf
  <2>3. CASE t \in {"hash", "zset"}
    BY <1>1, <2>3, FS_CardinalityType DEF IsObject, IsHash, IsSortedSet, SizeOf
  <2> QED
    BY <2>1, <2>2, <2>3 DEF ObjectTypes
<1>2. ASSUME NEW d, IsCache(d), NEW k
      PROVE  Size(d, t, k) \in Nat
  <2>1. k \in DOMAIN d[t] => IsObject(t, d[t][k])
    BY <1>2 DEF IsCache, Types, ObjectTypes
  <2> QED
    BY <1>1, <2>1 DEF Size
<1> QED
  BY <1>1, <1>2

(* Counting n members of the command's key. *)
LEMMA CountedFacts ==
    ASSUME Typed, NEW c \in Clients, call[c].pc # "idle", call[c].cmd.op \in OnObjects,
           NEW t \in Sized, t = TypeOf(call[c].cmd.op), NEW k, k = call[c].cmd.key,
           NEW n \in Int, Counted(c, n)
    PROVE  /\ tally' \in Tallies
           /\ \A u \in Sized, j \in Keys :
                  tally'[u][j] = tally[u][j] + IF u = t /\ j = k THEN n ELSE 0
<1>1. t \in Sized /\ k \in Keys
  BY InHandler
<1>2. tally \in [Sized -> [Keys -> Int]]
  BY DEF Typed, Tallies, Sized, ObjectTypes
<1>3. tally' = [tally EXCEPT ![t][k] = @ + n]
  BY DEF Counted, Key
<1>4. tally' \in [Sized -> [Keys -> Int]]
  BY <1>1, <1>2, <1>3
<1>5. \A u \in Sized, j \in Keys : tally[u][j] \in Int
  BY <1>2
<1>6. tally'[t][k] = tally[t][k] + n
  BY <1>1, <1>2, <1>3
<1>7. \A u \in Sized, j \in Keys : ~ (u = t /\ j = k) => tally'[u][j] = tally[u][j]
  BY <1>1, <1>2, <1>3
<1> QED
  BY <1>4, <1>5, <1>6, <1>7 DEF Tallies, Sized, ObjectTypes

(* A step that stores an object with n members more and counts n. *)
LEMMA BalancedStep ==
    ASSUME Typed, NEW c \in Clients, call[c].pc # "idle", call[c].cmd.op \in OnObjects,
           NEW t \in Sized, t = TypeOf(call[c].cmd.op), NEW k, k = call[c].cmd.key,
           NEW n \in Int, Counted(c, n), NEW o, Stored(db, t, k, o, db'),
           SizeOf(t, o) = Size(db, t, k) + n
    PROVE  Balanced
<1> SUFFICES ASSUME NEW u \in Sized, NEW j \in Keys
             PROVE  Excess(db', tally', u, j) = Excess(db, tally, u, j)
  BY DEF Balanced
<1>1. tally'[u][j] = tally[u][j] + IF u = t /\ j = k THEN n ELSE 0
  BY CountedFacts
<1>2. tally[u][j] \in Int
  BY DEF Typed, Tallies, Sized, ObjectTypes
<1>3. Size(db, u, j) \in Int
  BY SizeType DEF Typed, Sized, ObjectTypes
<1>4. CASE u = t /\ j = k
  <2>1. Size(db', u, j) = Size(db, u, j) + n
    BY <1>4 DEF Stored, Size
  <2> QED
    BY <1>1, <1>2, <1>3, <1>4, <2>1 DEF Excess
<1>5. CASE ~ (u = t /\ j = k)
  <2>1. Size(db', u, j) = Size(db, u, j)
    BY <1>5 DEF Stored, Size, Types, Sized
  <2> QED
    BY <1>1, <1>2, <1>3, <1>5, <2>1 DEF Excess
<1> QED
  BY <1>4, <1>5

(* The size of a finite map with a key stored or removed. *)
LEMMA MapSizes ==
    ASSUME NEW f, IsFiniteSet(DOMAIN f), NEW x, NEW v
    PROVE  /\ IsFiniteSet(DOMAIN Put(f, x, v)) /\ IsFiniteSet(DOMAIN Drop(f, x))
           /\ Cardinality(DOMAIN f) \in Nat
           /\ Cardinality(DOMAIN Put(f, x, v)) =
                  Cardinality(DOMAIN f) + IF x \in DOMAIN f THEN 0 ELSE 1
           /\ Cardinality(DOMAIN Drop(f, x)) =
                  Cardinality(DOMAIN f) + IF x \in DOMAIN f THEN -1 ELSE 0
<1>1. DOMAIN Put(f, x, v) = DOMAIN f \cup {x} /\ DOMAIN Drop(f, x) = DOMAIN f \ {x}
  BY PutFacts, DropFacts
<1>2. PICK D : D = DOMAIN f
  OBVIOUS
<1>3. IsFiniteSet(D) /\ Cardinality(D) \in Nat
  BY <1>2, FS_CardinalityType
<1>4. IsFiniteSet(D \cup {x})
      /\ Cardinality(D \cup {x}) = IF x \in D THEN Cardinality(D) ELSE Cardinality(D) + 1
  BY <1>3, FS_AddElement
<1>5. IsFiniteSet(D \ {x})
      /\ Cardinality(D \ {x}) = IF x \in D THEN Cardinality(D) - 1 ELSE Cardinality(D)
  BY <1>3, FS_RemoveElement
<1>6. (IF x \in D THEN Cardinality(D) ELSE Cardinality(D) + 1) =
          Cardinality(D) + IF x \in D THEN 0 ELSE 1
  BY <1>3
<1>7. (IF x \in D THEN Cardinality(D) - 1 ELSE Cardinality(D)) =
          Cardinality(D) + IF x \in D THEN -1 ELSE 0
  BY <1>3
<1> QED
  BY <1>1, <1>2, <1>3, <1>4, <1>5, <1>6, <1>7

-----------------------------------------------------------------------------
(* The handlers, one step at a time *)

(* The argument at a place of a command. *)
LEMMA ArgTypes ==
    ASSUME NEW cmd, cmd.args \in ArgsOf(cmd.op), NEW i \in Nat, InRange(cmd, i)
    PROVE  /\ cmd.op \in Storing => /\ cmd.args[i][1] \in Keys
                                    /\ cmd.args[i][2] \in Seq(Values)
           /\ cmd.op = "HSET" => cmd.args[i][1] \in Members /\ cmd.args[i][2] \in Values
           /\ cmd.op = "ZADD" => /\ cmd.args[i][1] \in Int \cup {BadScore}
                                 /\ cmd.args[i][2] \in Members
           /\ cmd.op \in {"HDEL", "SADD", "SREM", "ZREM"} => cmd.args[i] \in Members
           /\ cmd.op = "APPEND" => cmd.args[i] \in Seq(Values)
           /\ cmd.op \in Looking \cup {"DEL"} => cmd.args[i] \in Keys
           /\ cmd.op \notin {"LPOP", "RPOP"} => i \in DOMAIN cmd.args
<1>1. ASSUME NEW S, cmd.args \in Seq(S), cmd.op \notin {"LPOP", "RPOP"}
      PROVE  cmd.args[i] \in S
  <2>1. PICK a \in Seq(S) : a = cmd.args
    BY <1>1
  <2>2. i \in 1 .. Len(a)
    BY <1>1, <2>1 DEF InRange
  <2> QED
    BY <2>1, <2>2
<1>2. cmd.op \in Storing => cmd.args[i][1] \in Keys /\ cmd.args[i][2] \in Seq(Values)
  <2>1. cmd.op \in Storing => cmd.args[i] \in Keys \X Seq(Values)
    BY <1>1, ArgsOfOps DEF Storing
  <2> QED
    BY <2>1
<1>3. cmd.op = "HSET" => cmd.args[i][1] \in Members /\ cmd.args[i][2] \in Values
  <2>1. cmd.op = "HSET" => cmd.args[i] \in Members \X Values
    BY <1>1, ArgsOfOps
  <2> QED
    BY <2>1
<1>4. cmd.op = "ZADD" => /\ cmd.args[i][1] \in Int \cup {BadScore}
                         /\ cmd.args[i][2] \in Members
  <2>1. cmd.op = "ZADD" => cmd.args[i] \in (Int \cup {BadScore}) \X Members
    BY <1>1, ArgsOfOps
  <2> QED
    BY <2>1
<1>5. cmd.op \in {"HDEL", "SADD", "SREM", "ZREM"} => cmd.args[i] \in Members
  BY <1>1, ArgsOfOps
<1>6. cmd.op = "APPEND" => cmd.args[i] \in Seq(Values)
  BY <1>1, ArgsOfOps
<1>7. cmd.op \in Looking \cup {"DEL"} => cmd.args[i] \in Keys
  BY <1>1, ArgsOfOps DEF Looking
<1>8. cmd.op \notin {"LPOP", "RPOP"} => i \in DOMAIN cmd.args
  BY ArgsAreSequences DEF InRange
<1> QED
  BY <1>2, <1>3, <1>4, <1>5, <1>6, <1>7, <1>8

(* A handler that is somewhere in its arguments has a first one. *)
LEMMA FirstPlace ==
    ASSUME Typed, NEW c \in Clients, call[c].pc # "idle"
    PROVE  InRange(call[c].cmd, 1)
<1>1. InRange(call[c].cmd, call[c].i) /\ call[c].i \in Nat
      /\ call[c].cmd.args \in ArgsOf(call[c].cmd.op)
  BY InHandler DEF IsCall
<1>2. Len(call[c].cmd.args) \in Nat
  BY <1>1, ArgsAreSequences
<1> QED
  BY <1>1, <1>2 DEF InRange

(* A step of a handler that is none of the two of HSET's fields: the counts go
   with the sizes, and the handler is not between the two. *)
Plain(c) == Step(c) /\ Balanced /\ (call'[c].pc = "put" => call[c].cmd.op # "HSET")

(* A step that leaves sizes and counts alone. *)
LEMMA NothingCounted ==
    ASSUME tally' = tally, \A t \in Sized, k \in Keys : Size(db', t, k) = Size(db, t, k)
    PROVE  Balanced
  BY DEF Balanced, Excess

(* Handlers that create their object. *)
LEMMA CreateIsPlain ==
    ASSUME Typed, NEW c \in Clients, Create(c)
    PROVE  Plain(c)
<1>1. call[c].pc # "idle" /\ call[c].cmd.op \in OnObjects /\ Goto(c, "run", 1)
  BY DEF Create, At, OnObjects
<1>2. PICK t : t = TypeOf(call[c].cmd.op)
  OBVIOUS
<1>3. PICK k : k = call[c].cmd.key
  OBVIOUS
<1>4. t \in ObjectTypes /\ k \in Keys /\ t \in Types
  BY <1>1, <1>2, <1>3, TypeOfOps, InHandler DEF ObjectTypes, Types
<1>5. InRange(call[c].cmd, 1)
  BY <1>1, FirstPlace
<1>6. Moves(c) /\ call'[c].pc = "run"
  BY <1>1, <1>5, Going DEF Pcs
<1>7. log' = log /\ workload' = workload /\ issued' = issued /\ tally' = tally
      /\ raced' = raced /\ lossy' = lossy /\ tally' \in Tallies /\ lossy' \subseteq Keys
  BY DEF Create, Typed
<1>8. CASE k \in DOMAIN db[t]
  <2>1. db' = db
    BY <1>2, <1>3, <1>8 DEF Create, GetOrCreate, Key
  <2>2. Step(c)
    BY <1>1, <1>2, <1>3, <1>6, <1>7, <1>8, <2>1, QuietStep
  <2>3. Balanced
    BY <1>7, <2>1, NothingCounted
  <2> QED
    BY <1>6, <2>2, <2>3 DEF Plain
<1>9. CASE k \notin DOMAIN db[t]
  <2> DEFINE o == NewObject[t]
  <2>1. db' = Store(db, t, k, o)
    BY <1>2, <1>3, <1>9 DEF Create, GetOrCreate, Key
  <2>2. IsObject(t, o) /\ SizeOf(t, o) = 0
    <3>1. IsObject(t, o) /\ NewObject["list"] = <<>> /\ NewObject["set"] = {}
          /\ DOMAIN NewObject["hash"] = {} /\ DOMAIN NewObject["zset"] = {}
      BY <1>4, NewObjectFacts DEF ObjectTypes
    <3>2. Len(<<>>) = 0 /\ Cardinality({}) = 0
      BY FS_EmptySet
    <3>3. SizeOf("list", NewObject["list"]) = 0 /\ SizeOf("set", NewObject["set"]) = 0
          /\ SizeOf("hash", NewObject["hash"]) = 0 /\ SizeOf("zset", NewObject["zset"]) = 0
      BY <3>1, <3>2 DEF SizeOf
    <3> QED
      BY <1>4, <3>1, <3>3 DEF ObjectTypes
  <2> HIDE DEF o
  <2>3. Step(c) /\ Stored(db, t, k, o, db')
    BY <1>1, <1>2, <1>3, <1>6, <1>7, <2>1, <2>2, ObjectStep
  <2>4. ASSUME NEW u \in Sized, NEW j \in Keys
        PROVE  Size(db', u, j) = Size(db, u, j)
    <3>1. CASE u = t /\ j = k
      BY <1>9, <2>2, <2>3, <3>1 DEF Stored, Size
    <3>2. CASE ~ (u = t /\ j = k)
      BY <2>3, <3>2 DEF Stored, Size, Types, Sized
    <3> QED
      BY <3>1, <3>2
  <2>5. Balanced
    BY <1>7, <2>4, NothingCounted
  <2> QED
    BY <1>6, <2>3, <2>5 DEF Plain
<1> QED
  BY <1>8, <1>9

(* Handlers that look for their object. *)
LEMMA FindIsPlain ==
    ASSUME Typed, NEW c \in Clients, Find(c)
    PROVE  Plain(c)
<1>1. call[c].pc # "idle" /\ call[c].cmd.op \in OnObjects
  BY DEF Find, At, OnObjects
<1>2. db' = db /\ log' = log /\ workload' = workload /\ issued' = issued /\ tally' = tally
      /\ raced' = raced /\ tally' \in Tallies /\ lossy' \subseteq Keys
  BY DEF Find, Typed
<1>3. Balanced
  BY <1>2, NothingCounted
<1>4. CASE Key(c) \in DOMAIN db[TypeOf(call[c].cmd.op)]
  <2>1. InRange(call[c].cmd, 1)
    BY <1>1, FirstPlace
  <2>2. Moves(c) /\ call'[c].pc = "run"
    BY <1>1, <1>4, <2>1, Going DEF Pcs, Find
  <2>3. Step(c)
    BY <1>1, <1>2, <1>4, <2>2, QuietStep DEF Key
  <2> QED
    BY <1>3, <2>2, <2>3 DEF Plain
<1>5. CASE Key(c) \notin DOMAIN db[TypeOf(call[c].cmd.op)]
  <2>1. Moves(c) /\ call'[c] = Idle
    BY <1>1, <1>5, Ending DEF Find
  <2>2. Step(c)
    BY <1>1, <1>2, <2>1, QuietStep
  <2> QED
    BY <1>3, <2>1, <2>2 DEF Plain, Idle
<1> QED
  BY <1>4, <1>5

(* The object of a handler that has looked it up. *)
LEMMA ObjectAt ==
    ASSUME Typed, NEW c \in Clients, call[c].pc \in {"run", "put"},
           call[c].cmd.op \in OnObjects, NEW t, t = TypeOf(call[c].cmd.op),
           NEW k, k = call[c].cmd.key
    PROVE  /\ t \in ObjectTypes /\ k \in Keys /\ k \in DOMAIN db[t]
           /\ IsObject(t, db[t][k]) /\ Size(db, t, k) = SizeOf(t, db[t][k])
           /\ Size(db, t, k) \in Nat
<1>1. call[c].pc # "idle"
  OBVIOUS
<1>2. t \in ObjectTypes /\ k \in Keys /\ k \in DOMAIN db[t]
  BY <1>1, TypeOfOps, InHandler DEF ObjectTypes, HasObject
<1>3. IsObject(t, db[t][k])
  BY <1>2 DEF Typed, IsCache, Types, ObjectTypes
<1> QED
  BY <1>2, <1>3, SizeType DEF Size

(* A step that stores the changed object and counts the change. *)
LEMMA CountingStep ==
    ASSUME Typed, NEW c \in Clients, call[c].pc # "idle", Moves(c), call'[c].pc # "put",
           call[c].cmd.op \in OnObjects, NEW t \in Sized, t = TypeOf(call[c].cmd.op),
           NEW k, k = call[c].cmd.key, NEW o, IsObject(t, o), db' = Store(db, t, k, o),
           NEW n \in Int, SizeOf(t, o) = Size(db, t, k) + n, Counted(c, n),
           log' = log /\ workload' = workload /\ issued' = issued /\ raced' = raced,
           lossy' = lossy
    PROVE  Plain(c)
<1>1. tally' \in Tallies
  BY CountedFacts
<1>2. Step(c) /\ Stored(db, t, k, o, db')
  BY <1>1, ObjectStep
<1>3. Balanced
  BY <1>2, BalancedStep
<1> QED
  BY <1>2, <1>3 DEF Plain

(* A step that stores the changed list: its members are not counted. *)
LEMMA ListStep ==
    ASSUME Typed, NEW c \in Clients, call[c].pc # "idle", Moves(c), call'[c].pc # "put",
           call[c].cmd.op \in OnObjects, TypeOf(call[c].cmd.op) = "list",
           NEW k, k = call[c].cmd.key, NEW o \in Seq(Values), db' = Store(db, "list", k, o),
           log' = log /\ workload' = workload /\ issued' = issued /\ raced' = raced,
           lossy' = lossy, tally' = tally
    PROVE  Plain(c)
<1>1. tally' \in Tallies /\ IsObject("list", o)
  BY DEF Typed, IsObject
<1>2. Step(c) /\ Stored(db, "list", k, o, db')
  BY <1>1, ObjectStep
<1>3. \A t \in Sized, j \in Keys : Size(db', t, j) = Size(db, t, j)
  BY <1>2 DEF Stored, Size, Types, Sized
<1>4. Balanced
  BY <1>3, NothingCounted
<1> QED
  BY <1>2, <1>4 DEF Plain

(* An iteration leaves the place where it began. *)
LEMMA IteratingOut ==
    ASSUME Typed, NEW c \in Clients, call[c].pc # "idle", NextArg(c, "run")
    PROVE  Moves(c) /\ call'[c].pc # "put"
<1>1. call[c].cmd.args \in ArgsOf(call[c].cmd.op)
  BY InHandler
<1>2. Moves(c) /\ (call'[c] = Idle \/ call'[c].pc = "run")
  BY <1>1, Iterating DEF Pcs
<1> QED
  BY <1>2 DEF Idle

(* HDEL of one field. *)
LEMMA HDelFieldIsPlain ==
    ASSUME Typed, NEW c \in Clients, HDelField(c)
    PROVE  Plain(c)
<1>1. call[c].pc = "run" /\ call[c].cmd.op = "HDEL"
  BY DEF HDelField, At
<1>2. call[c].cmd.op \in OnObjects /\ TypeOf(call[c].cmd.op) = "hash"
  BY <1>1, TypeOfOps DEF OnObjects, Removing
<1>3. PICK k : k = call[c].cmd.key
  OBVIOUS
<1>4. PICK h : h = db["hash"][k]
  OBVIOUS
<1>5. PICK f : f = Arg(c)
  OBVIOUS
<1>6. PICK n : n = IF f \in DOMAIN h THEN -1 ELSE 0
  OBVIOUS
<1>7. IsHash(h) /\ Size(db, "hash", k) = SizeOf("hash", h)
  BY <1>1, <1>2, <1>3, <1>4, ObjectAt DEF IsObject
<1>8. /\ DOMAIN Drop(h, f) = DOMAIN h \ {f}
      /\ \A y \in DOMAIN h : y # f => Drop(h, f)[y] = h[y]
      /\ IsFiniteSet(DOMAIN Drop(h, f))
      /\ Cardinality(DOMAIN Drop(h, f)) = Cardinality(DOMAIN h) + n
  BY <1>6, <1>7, DropFacts, MapSizes DEF IsHash
<1>9. IsObject("hash", Drop(h, f)) /\ SizeOf("hash", Drop(h, f)) = Size(db, "hash", k) + n
  BY <1>7, <1>8 DEF IsObject, IsHash, SizeOf
<1>10. Moves(c) /\ call'[c].pc # "put"
  BY <1>1, IteratingOut DEF HDelField
<1>11. db' = Store(db, "hash", k, Drop(h, f)) /\ Counted(c, n) /\ n \in Int
  BY <1>3, <1>4, <1>5, <1>6 DEF HDelField, Key
<1>12. log' = log /\ workload' = workload /\ issued' = issued /\ raced' = raced /\ lossy' = lossy
  BY DEF HDelField
<1> QED
  BY <1>1, <1>2, <1>3, <1>9, <1>10, <1>11, <1>12, CountingStep DEF Sized

(* LPUSH and RPUSH. *)
LEMMA PushIsPlain ==
    ASSUME Typed, NEW c \in Clients, Push(c)
    PROVE  Plain(c)
<1>1. call[c].pc = "run" /\ call[c].cmd.op \in {"LPUSH", "RPUSH"}
  BY DEF Push, At
<1>2. call[c].cmd.op \in OnObjects /\ TypeOf(call[c].cmd.op) = "list"
  BY <1>1, TypeOfOps DEF OnObjects, Creating
<1>3. PICK k : k = call[c].cmd.key
  OBVIOUS
<1>4. PICK l : l = db["list"][k]
  OBVIOUS
<1>5. PICK vs : vs = call[c].cmd.args
  OBVIOUS
<1>6. l \in Seq(Values)
  BY <1>1, <1>2, <1>3, <1>4, ObjectAt DEF IsObject
<1>7. vs \in Seq(Values)
  BY <1>1, <1>5, InHandler, ArgsOfOps
<1>8. PICK o : o = IF call[c].cmd.op = "LPUSH" THEN LPush(l, vs) ELSE RPush(l, vs)
  OBVIOUS
<1>9. o \in Seq(Values)
  BY <1>6, <1>7, <1>8, PushFacts
<1>10. Moves(c) /\ call'[c].pc # "put"
  BY <1>1, Ending DEF Push, Idle
<1>11. db' = Store(db, "list", k, o)
  BY <1>3, <1>4, <1>5, <1>8 DEF Push, Key
<1>12. log' = log /\ workload' = workload /\ issued' = issued /\ raced' = raced /\ lossy' = lossy
       /\ tally' = tally
  BY DEF Push
<1> QED
  BY <1>1, <1>2, <1>3, <1>9, <1>10, <1>11, <1>12, ListStep

(* LPOP and RPOP of an empty list. *)
LEMMA PopEmptyIsPlain ==
    ASSUME Typed, NEW c \in Clients, PopEmpty(c)
    PROVE  Plain(c)
<1>1. call[c].pc = "run" /\ call[c].cmd.op \in {"LPOP", "RPOP"}
  BY DEF PopEmpty, At
<1>2. Moves(c) /\ call'[c] = Idle
  BY <1>1, Ending DEF PopEmpty
<1>3. db' = db /\ log' = log /\ workload' = workload /\ issued' = issued /\ tally' = tally
      /\ raced' = raced /\ tally' \in Tallies /\ lossy' \subseteq Keys
  BY DEF PopEmpty, Typed
<1>4. Step(c)
  BY <1>1, <1>2, <1>3, QuietStep
<1>5. Balanced
  BY <1>3, NothingCounted
<1> QED
  BY <1>2, <1>4, <1>5 DEF Plain, Idle

(* LPOP and RPOP. *)
LEMMA PopIsPlain ==
    ASSUME Typed, NEW c \in Clients, Pop(c)
    PROVE  Plain(c)
<1>1. call[c].pc = "run" /\ call[c].cmd.op \in {"LPOP", "RPOP"}
  BY DEF Pop, At
<1>2. call[c].cmd.op \in OnObjects /\ TypeOf(call[c].cmd.op) = "list"
  BY <1>1, TypeOfOps DEF OnObjects, Removing
<1>3. PICK k : k = call[c].cmd.key
  OBVIOUS
<1>4. PICK l : l = db["list"][k]
  OBVIOUS
<1>5. l \in Seq(Values) /\ l # <<>>
  BY <1>1, <1>2, <1>3, <1>4, ObjectAt DEF IsObject, Pop, Key
<1>6. PICK o : o = IF call[c].cmd.op = "LPOP" THEN LPop(l).rest ELSE RPop(l).rest
  OBVIOUS
<1>7. o \in Seq(Values)
  BY <1>5, <1>6, PopFacts
<1>8. Moves(c) /\ call'[c].pc # "put"
  BY <1>1, Ending DEF Pop, Idle
<1>9. db' = Store(db, "list", k, o)
  BY <1>3, <1>4, <1>6 DEF Pop, Key
<1>10. log' = log /\ workload' = workload /\ issued' = issued /\ raced' = raced /\ lossy' = lossy
       /\ tally' = tally
  BY DEF Pop
<1> QED
  BY <1>1, <1>2, <1>3, <1>7, <1>8, <1>9, <1>10, ListStep

(* SADD. *)
LEMMA SAddIsPlain ==
    ASSUME Typed, NEW c \in Clients, SAdd(c)
    PROVE  Plain(c)
<1>1. call[c].pc = "run" /\ call[c].cmd.op = "SADD"
  BY DEF SAdd, At
<1>2. call[c].cmd.op \in OnObjects /\ TypeOf(call[c].cmd.op) = "set"
  BY <1>1, TypeOfOps DEF OnObjects, Creating
<1>3. PICK k : k = call[c].cmd.key
  OBVIOUS
<1>4. PICK s : s = db["set"][k]
  OBVIOUS
<1>5. PICK ms : ms = call[c].cmd.args
  OBVIOUS
<1>6. IsSet(s) /\ Size(db, "set", k) = SizeOf("set", s)
  BY <1>1, <1>2, <1>3, <1>4, ObjectAt DEF IsObject
<1>7. ms \in Seq(Members)
  BY <1>1, <1>5, InHandler, ArgsOfOps
<1>8. PICK new : new = SetAdd(s, ms)
  OBVIOUS
<1>9. IsSet(new.set) /\ new.count \in Int
      /\ Cardinality(new.set) = Cardinality(s) + new.count
  BY <1>6, <1>7, <1>8, SetCounts DEF IsSet
<1>10. IsObject("set", new.set) /\ SizeOf("set", new.set) = Size(db, "set", k) + new.count
  BY <1>6, <1>9 DEF IsObject, SizeOf
<1>11. Moves(c) /\ call'[c].pc # "put"
  BY <1>1, Ending DEF SAdd, Idle
<1>12. db' = Store(db, "set", k, new.set) /\ Counted(c, new.count)
  BY <1>3, <1>4, <1>5, <1>8 DEF SAdd, Key
<1>13. log' = log /\ workload' = workload /\ issued' = issued /\ raced' = raced /\ lossy' = lossy
  BY DEF SAdd
<1>14. PICK n \in Int : n = new.count
  BY <1>9
<1>15. PICK o : o = new.set
  OBVIOUS
<1> QED
  BY <1>1, <1>2, <1>3, <1>10, <1>11, <1>12, <1>13, <1>14, <1>15, CountingStep DEF Sized

(* SREM. *)
LEMMA SRemIsPlain ==
    ASSUME Typed, NEW c \in Clients, SRem(c)
    PROVE  Plain(c)
<1>1. call[c].pc = "run" /\ call[c].cmd.op = "SREM"
  BY DEF SRem, At
<1>2. call[c].cmd.op \in OnObjects /\ TypeOf(call[c].cmd.op) = "set"
  BY <1>1, TypeOfOps DEF OnObjects, Removing
<1>3. PICK k : k = call[c].cmd.key
  OBVIOUS
<1>4. PICK s : s = db["set"][k]
  OBVIOUS
<1>5. PICK ms : ms = call[c].cmd.args
  OBVIOUS
<1>6. IsSet(s) /\ Size(db, "set", k) = SizeOf("set", s) /\ Size(db, "set", k) \in Nat
  BY <1>1, <1>2, <1>3, <1>4, ObjectAt DEF IsObject
<1>7. ms \in Seq(Members)
  BY <1>1, <1>5, InHandler, ArgsOfOps
<1>8. PICK new : new = SetRemove(s, ms)
  OBVIOUS
<1>9. IsSet(new.set) /\ new.count \in Int
      /\ Cardinality(new.set) = Cardinality(s) - new.count
  BY <1>6, <1>7, <1>8, SetCounts DEF IsSet
<1>10. PICK n \in Int : n = - new.count
  BY <1>9
<1>11. PICK o : o = new.set
  OBVIOUS
<1>12. IsObject("set", o) /\ SizeOf("set", o) = Size(db, "set", k) + n
  BY <1>6, <1>9, <1>10, <1>11 DEF IsObject, SizeOf
<1>13. Moves(c) /\ call'[c].pc # "put"
  BY <1>1, Ending DEF SRem, Idle
<1>14. db' = Store(db, "set", k, o) /\ Counted(c, n)
  BY <1>3, <1>4, <1>5, <1>8, <1>10, <1>11 DEF SRem, Key
<1>15. log' = log /\ workload' = workload /\ issued' = issued /\ raced' = raced /\ lossy' = lossy
  BY DEF SRem
<1> QED
  BY <1>1, <1>2, <1>3, <1>12, <1>13, <1>14, <1>15, CountingStep DEF Sized

(* ZADD of one pair. *)
LEMMA ZAddPairIsPlain ==
    ASSUME Typed, NEW c \in Clients, ZAddPair(c)
    PROVE  Plain(c)
<1>1. call[c].pc = "run" /\ call[c].cmd.op = "ZADD"
  BY DEF ZAddPair, At
<1>2. call[c].cmd.op \in OnObjects /\ TypeOf(call[c].cmd.op) = "zset"
  BY <1>1, TypeOfOps DEF OnObjects, Creating
<1>3. PICK k : k = call[c].cmd.key
  OBVIOUS
<1>4. PICK z : z = db["zset"][k]
  OBVIOUS
<1>5. PICK x : x = Arg(c)[2]
  OBVIOUS
<1>6. PICK v : v = Arg(c)[1]
  OBVIOUS
<1>7. x \in Members /\ v \in Int
  BY <1>1, <1>5, <1>6, InHandler, ArgTypes DEF IsCall, Arg, ZAddPair
<1>8. IsSortedSet(z) /\ Size(db, "zset", k) = SizeOf("zset", z)
  BY <1>1, <1>2, <1>3, <1>4, ObjectAt DEF IsObject
<1>9. PICK n : n = IF x \in DOMAIN z THEN 0 ELSE 1
  OBVIOUS
<1>10. PICK o : o = Put(z, x, v)
  OBVIOUS
<1>11. /\ DOMAIN o = DOMAIN z \cup {x} /\ o[x] = v
       /\ \A y \in DOMAIN z : y # x => o[y] = z[y]
       /\ IsFiniteSet(DOMAIN o)
       /\ Cardinality(DOMAIN o) = Cardinality(DOMAIN z) + n
  <2>1. IsFiniteSet(DOMAIN o) /\ Cardinality(DOMAIN o) = Cardinality(DOMAIN z) + n
    BY <1>8, <1>9, <1>10, MapSizes DEF IsSortedSet
  <2>2. /\ DOMAIN o = DOMAIN z \cup {x} /\ o[x] = v
        /\ \A y \in DOMAIN z : y # x => o[y] = z[y]
    BY <1>10 DEF Put
  <2> QED
    BY <2>1, <2>2
<1>12. IsObject("zset", o) /\ SizeOf("zset", o) = Size(db, "zset", k) + n
  BY <1>7, <1>8, <1>11 DEF IsObject, IsSortedSet, SizeOf
<1>13. Moves(c) /\ call'[c].pc # "put"
  BY <1>1, IteratingOut DEF ZAddPair
<1>14. db' = Store(db, "zset", k, o) /\ Counted(c, n) /\ n \in Int
  BY <1>3, <1>4, <1>5, <1>6, <1>9, <1>10 DEF ZAddPair, Key
<1>15. log' = log /\ workload' = workload /\ issued' = issued /\ raced' = raced /\ lossy' = lossy
  BY DEF ZAddPair
<1> QED
  BY <1>1, <1>2, <1>3, <1>12, <1>13, <1>14, <1>15, CountingStep DEF Sized

(* ZADD of a score that is no number. *)
LEMMA ZAddInvalidIsPlain ==
    ASSUME Typed, NEW c \in Clients, ZAddInvalid(c)
    PROVE  Plain(c)
<1>1. call[c].pc = "run" /\ call[c].cmd.op = "ZADD"
  BY DEF ZAddInvalid, At
<1>2. Moves(c) /\ call'[c] = Idle
  BY <1>1, Ending DEF ZAddInvalid
<1>3. db' = db /\ log' = log /\ workload' = workload /\ issued' = issued /\ tally' = tally
      /\ raced' = raced /\ tally' \in Tallies
  BY DEF ZAddInvalid, Typed
<1>4. lossy' \subseteq Keys
  BY <1>1, InHandler DEF ZAddInvalid, Typed, Key
<1>5. Step(c)
  BY <1>1, <1>2, <1>3, <1>4, QuietStep
<1>6. Balanced
  BY <1>3, NothingCounted
<1> QED
  BY <1>2, <1>5, <1>6 DEF Plain, Idle

(* ZREM of one member. *)
LEMMA ZRemMemberIsPlain ==
    ASSUME Typed, NEW c \in Clients, ZRemMember(c)
    PROVE  Plain(c)
<1>1. call[c].pc = "run" /\ call[c].cmd.op = "ZREM"
  BY DEF ZRemMember, At
<1>2. call[c].cmd.op \in OnObjects /\ TypeOf(call[c].cmd.op) = "zset"
  BY <1>1, TypeOfOps DEF OnObjects, Removing
<1>3. PICK k : k = call[c].cmd.key
  OBVIOUS
<1>4. PICK z : z = db["zset"][k]
  OBVIOUS
<1>5. PICK x : x = Arg(c)
  OBVIOUS
<1>6. PICK n : n = IF x \in DOMAIN z THEN -1 ELSE 0
  OBVIOUS
<1>7. IsSortedSet(z) /\ Size(db, "zset", k) = SizeOf("zset", z)
  BY <1>1, <1>2, <1>3, <1>4, ObjectAt DEF IsObject
<1>8. /\ DOMAIN Drop(z, x) = DOMAIN z \ {x}
      /\ \A y \in DOMAIN z : y # x => Drop(z, x)[y] = z[y]
      /\ IsFiniteSet(DOMAIN Drop(z, x))
      /\ Cardinality(DOMAIN Drop(z, x)) = Cardinality(DOMAIN z) + n
  BY <1>6, <1>7, DropFacts, MapSizes DEF IsSortedSet
<1>9. IsObject("zset", Drop(z, x)) /\ SizeOf("zset", Drop(z, x)) = Size(db, "zset", k) + n
  BY <1>7, <1>8 DEF IsObject, IsSortedSet, SizeOf
<1>10. Moves(c) /\ call'[c].pc # "put"
  BY <1>1, IteratingOut DEF ZRemMember
<1>11. db' = Store(db, "zset", k, Drop(z, x)) /\ Counted(c, n) /\ n \in Int
  BY <1>3, <1>4, <1>5, <1>6 DEF ZRemMember, Key
<1>12. log' = log /\ workload' = workload /\ issued' = issued /\ raced' = raced /\ lossy' = lossy
  BY DEF ZRemMember
<1> QED
  BY <1>1, <1>2, <1>3, <1>9, <1>10, <1>11, <1>12, CountingStep DEF Sized

(* HSET's test of a field: it counts a field that is not there, and it does
   not store it yet. *)
LEMMA HSetHasCounts ==
    ASSUME Typed, NEW c \in Clients, HSetHas(c),
           NEW k, k = call[c].cmd.key, NEW f, f = Arg(c)[1]
    PROVE  /\ Step(c) /\ k \in Keys /\ db' = db
           /\ call[c].pc = "run" /\ call[c].cmd.op = "HSET"
           /\ call'[c].pc = "put" /\ call'[c].i = call[c].i /\ call'[c].cmd = call[c].cmd
           /\ \A u \in Sized, j \in Keys :
                  tally'[u][j] = tally[u][j] +
                      IF u = "hash" /\ j = k
                      THEN IF f \in DOMAIN db["hash"][k] THEN 0 ELSE 1 ELSE 0
<1>1. call[c].pc = "run" /\ call[c].cmd.op = "HSET"
  BY DEF HSetHas, At
<1>2. call[c].cmd.op \in OnObjects /\ TypeOf(call[c].cmd.op) = "hash"
  BY <1>1, TypeOfOps DEF OnObjects, Creating
<1>3. k \in Keys /\ k \in DOMAIN db["hash"]
  BY <1>1, <1>2, ObjectAt
<1>4. PICK n : n = IF f \in DOMAIN db["hash"][k] THEN 0 ELSE 1
  OBVIOUS
<1>5. Counted(c, n) /\ n \in Int
  BY <1>4 DEF HSetHas, Key
<1>6. tally' \in Tallies
      /\ \A u \in Sized, j \in Keys :
             tally'[u][j] = tally[u][j] + IF u = "hash" /\ j = k THEN n ELSE 0
  BY <1>1, <1>2, <1>5, CountedFacts DEF Sized
<1>7. call[c].i \in Nat /\ InRange(call[c].cmd, call[c].i)
  BY <1>1, InHandler DEF IsCall
<1>8. PICK i \in Nat : i = call[c].i
  BY <1>7
<1>9. Goto(c, "put", i)
  BY <1>8 DEF HSetHas
<1>10. Moves(c) /\ call'[c].pc = "put" /\ call'[c].i = i
  BY <1>1, <1>7, <1>8, <1>9, Going DEF Pcs
<1>11. call'[c].cmd = call[c].cmd
  BY <1>10 DEF Moves, Idle
<1>12. db' = db /\ log' = log /\ workload' = workload /\ issued' = issued
       /\ raced' = raced /\ lossy' \subseteq Keys
  BY DEF HSetHas, Typed
<1>13. Step(c)
  BY <1>1, <1>2, <1>3, <1>6, <1>10, <1>12, QuietStep
<1> QED
  BY <1>1, <1>3, <1>4, <1>6, <1>8, <1>10, <1>11, <1>12, <1>13

(* HSET stores a field. *)
LEMMA HSetPutStores ==
    ASSUME Typed, NEW c \in Clients, HSetPut(c),
           NEW k, k = call[c].cmd.key, NEW f, f = Arg(c)[1]
    PROVE  /\ Step(c) /\ k \in Keys /\ tally' = tally /\ call'[c].pc # "put"
           /\ raced' = raced /\ call[c].pc = "put" /\ call[c].cmd.op = "HSET"
           /\ \A u \in Sized, j \in Keys :
                  Size(db', u, j) = Size(db, u, j) +
                      IF u = "hash" /\ j = k
                      THEN IF f \in DOMAIN db["hash"][k] THEN 0 ELSE 1 ELSE 0
<1>1. call[c].pc = "put" /\ call[c].cmd.op = "HSET"
  BY DEF HSetPut, At
<1>2. call[c].cmd.op \in OnObjects /\ TypeOf(call[c].cmd.op) = "hash"
  BY <1>1, TypeOfOps DEF OnObjects, Creating
<1>3. PICK h : h = db["hash"][k]
  OBVIOUS
<1>4. PICK v : v = Arg(c)[2]
  OBVIOUS
<1>5. f \in Members /\ v \in Values
  BY <1>1, <1>4, InHandler, ArgTypes DEF IsCall, Arg
<1>6. k \in Keys /\ IsHash(h) /\ Size(db, "hash", k) = SizeOf("hash", h)
  BY <1>1, <1>2, <1>3, ObjectAt DEF IsObject
<1>7. PICK n : n = IF f \in DOMAIN h THEN 0 ELSE 1
  OBVIOUS
<1>8. PICK o : o = Put(h, f, v)
  OBVIOUS
<1>9. /\ DOMAIN o = DOMAIN h \cup {f} /\ o[f] = v
      /\ \A y \in DOMAIN h : y # f => o[y] = h[y]
      /\ IsFiniteSet(DOMAIN o)
      /\ Cardinality(DOMAIN o) = Cardinality(DOMAIN h) + n
  <2>1. IsFiniteSet(DOMAIN o) /\ Cardinality(DOMAIN o) = Cardinality(DOMAIN h) + n
    BY <1>6, <1>7, <1>8, MapSizes DEF IsHash
  <2>2. /\ DOMAIN o = DOMAIN h \cup {f} /\ o[f] = v
        /\ \A y \in DOMAIN h : y # f => o[y] = h[y]
    BY <1>8 DEF Put
  <2> QED
    BY <2>1, <2>2
<1>10. IsObject("hash", o) /\ SizeOf("hash", o) = Size(db, "hash", k) + n
  BY <1>5, <1>6, <1>9 DEF IsObject, IsHash, SizeOf
<1>11. Moves(c) /\ call'[c].pc # "put"
  BY <1>1, IteratingOut DEF HSetPut
<1>12. db' = Store(db, "hash", k, o)
  BY <1>3, <1>4, <1>8 DEF HSetPut, Key
<1>13. log' = log /\ workload' = workload /\ issued' = issued /\ raced' = raced
       /\ lossy' = lossy /\ tally' = tally /\ tally' \in Tallies
  BY DEF HSetPut, Typed
<1>14. Step(c) /\ Stored(db, "hash", k, o, db')
  BY <1>1, <1>2, <1>10, <1>11, <1>12, <1>13, ObjectStep
<1>15. ASSUME NEW u \in Sized, NEW j \in Keys
       PROVE  Size(db', u, j) = Size(db, u, j) + IF u = "hash" /\ j = k THEN n ELSE 0
  <2>1. Size(db, u, j) \in Nat
    BY SizeType DEF Typed, Sized, ObjectTypes
  <2>2. CASE u = "hash" /\ j = k
    BY <1>10, <1>14, <2>2 DEF Stored, Size
  <2>3. CASE ~ (u = "hash" /\ j = k)
    <3>1. Size(db', u, j) = Size(db, u, j)
      BY <1>14, <2>3 DEF Stored, Size, Types, Sized
    <3> QED
      BY <2>1, <2>3, <3>1
  <2> QED
    BY <2>2, <2>3
<1> QED
  BY <1>1, <1>3, <1>6, <1>7, <1>11, <1>13, <1>14, <1>15

(* The sizes of objects when strings change. *)
LEMMA StringsBalanced ==
    ASSUME NEW K, StringsChange(db, db', K), tally' = tally
    PROVE  Balanced
<1>1. \A t \in Sized : db'[t] = db[t]
  BY DEF StringsChange, Sized, Types
<1>2. \A t \in Sized, k \in Keys : Size(db', t, k) = Size(db, t, k)
  BY <1>1 DEF Size
<1> QED
  BY <1>2, NothingCounted

(* MSETNX's test of a key. *)
LEMMA NxCheckIsPlain ==
    ASSUME Typed, NEW c \in Clients, NxCheck(c)
    PROVE  /\ Plain(c) /\ db' = db /\ raced' = raced
           /\ call[c].pc = "check" /\ call[c].cmd.op = "MSETNX"
           /\ \/ call'[c] = Idle
              \/ /\ Arg(c)[1] \notin DOMAIN db["str"]
                 /\ call'[c].cmd = call[c].cmd
                 /\ \/ call'[c].pc = "check" /\ call'[c].i = call[c].i + 1
                    \/ /\ call'[c].pc = "run" /\ call'[c].i = 1
                       /\ call[c].i = Len(call[c].cmd.args)
<1>1. call[c].pc = "check" /\ call[c].cmd.op = "MSETNX"
  BY DEF NxCheck, At
<1>2. call[c].cmd.op \notin OnObjects
  BY <1>1 DEF OnObjects, Creating, Removing
<1>3. db' = db /\ log' = log /\ workload' = workload /\ issued' = issued /\ tally' = tally
      /\ raced' = raced /\ tally' \in Tallies /\ lossy' \subseteq Keys
  BY DEF NxCheck, Typed
<1>4. Balanced
  BY <1>3, NothingCounted
<1>5. call[c].i \in Nat /\ InRange(call[c].cmd, call[c].i) /\ Len(call[c].cmd.args) \in Nat
      /\ call[c].i <= Len(call[c].cmd.args)
  BY <1>1, InHandler, ArgsAreSequences DEF IsCall, InRange
<1>6. CASE HasKey(db, Arg(c)[1])
  <2>1. Moves(c) /\ call'[c] = Idle
    BY <1>1, <1>6, Ending DEF NxCheck
  <2>2. Step(c)
    BY <1>1, <1>2, <1>3, <2>1, QuietStep
  <2> QED
    BY <1>1, <1>3, <1>4, <2>1, <2>2 DEF Plain
<1>7. CASE ~ HasKey(db, Arg(c)[1]) /\ call[c].i < Len(call[c].cmd.args)
  <2>1. PICK i \in Nat : i = call[c].i + 1
    BY <1>5
  <2>2. Goto(c, "check", i) /\ InRange(call[c].cmd, i)
    BY <1>5, <1>7, <2>1 DEF NxCheck, InRange
  <2>3. Moves(c) /\ call'[c].pc = "check" /\ call'[c].i = i
    BY <1>1, <2>2, Going DEF Pcs
  <2>4. call'[c].cmd = call[c].cmd
    BY <2>3 DEF Moves, Idle
  <2>5. Step(c)
    BY <1>1, <1>2, <1>3, <2>3, QuietStep
  <2> QED
    BY <1>1, <1>3, <1>4, <1>7, <2>1, <2>3, <2>4, <2>5 DEF Plain, HasKey
<1>8. CASE ~ HasKey(db, Arg(c)[1]) /\ ~ (call[c].i < Len(call[c].cmd.args))
  <2>1. Goto(c, "run", 1) /\ InRange(call[c].cmd, 1)
    BY <1>1, <1>8, FirstPlace DEF NxCheck
  <2>2. Moves(c) /\ call'[c].pc = "run" /\ call'[c].i = 1
    BY <1>1, <2>1, Going DEF Pcs
  <2>3. call'[c].cmd = call[c].cmd
    BY <2>2 DEF Moves, Idle
  <2>4. Step(c)
    BY <1>1, <1>2, <1>3, <2>2, QuietStep
  <2>5. call[c].i = Len(call[c].cmd.args)
    BY <1>5, <1>8
  <2> QED
    BY <1>1, <1>3, <1>4, <1>8, <2>2, <2>3, <2>4, <2>5 DEF Plain, HasKey
<1> QED
  BY <1>6, <1>7, <1>8

(* SET, MSET and MSETNX store a key. *)
LEMMA PutKeyIsPlain ==
    ASSUME Typed, NEW c \in Clients, PutKey(c)
    PROVE  /\ Plain(c) /\ call[c].pc = "run" /\ call[c].cmd.op \in Storing
           /\ DOMAIN db'["str"] \subseteq DOMAIN db["str"] \cup {Arg(c)[1]}
           /\ \/ call'[c] = Idle
              \/ /\ call'[c].pc = "run" /\ call'[c].i = call[c].i + 1
                 /\ call'[c].cmd = call[c].cmd
<1>1. call[c].pc = "run" /\ call[c].cmd.op \in Storing
  BY DEF PutKey, At
<1>2. call[c].cmd.op \notin OnObjects /\ call[c].cmd.op \in Writing
      /\ call[c].cmd.op \notin {"LPOP", "RPOP"} /\ call[c].cmd.op # "HSET"
  BY <1>1 DEF OnObjects, Creating, Removing, Storing, Writing
<1>3. PICK k : k = Arg(c)[1]
  OBVIOUS
<1>4. call[c].i \in Nat /\ InRange(call[c].cmd, call[c].i)
      /\ call[c].cmd.args \in ArgsOf(call[c].cmd.op)
      /\ call[c].cmd.opt \in {"none", "EX", "PX"} /\ call[c].cmd \in Commands
  BY <1>1, InHandler DEF IsCall
<1>5. k \in Keys /\ Arg(c)[2] \in Seq(Values) /\ call[c].i \in DOMAIN call[c].cmd.args
  BY <1>1, <1>2, <1>3, <1>4, ArgTypes DEF Arg
<1>6. PICK item : item = NewItem(call[c].cmd, call[c].i)
  OBVIOUS
<1>7. IsItem(item)
  BY <1>4, <1>5, <1>6 DEF NewItem, IsItem, Arg
<1>8. db' = SetItem(db, k, item)
  BY <1>3, <1>6 DEF PutKey
<1>9. StringsChange(db, db', {k})
  BY <1>5, <1>7, <1>8, SetItemFacts DEF Typed
<1>10. Busy(call[c], k)
  BY <1>1, <1>2, <1>3, <1>5, KeysOfOps DEF Busy, Arg
<1>11. Moves(c) /\ \/ call'[c] = Idle
                   \/ call'[c].pc = "run" /\ call'[c].i = call[c].i + 1
  BY <1>1, <1>4, Iterating DEF Pcs, PutKey
<1>12. call'[c] = Idle \/ call'[c].cmd = call[c].cmd
  BY <1>11 DEF Moves
<1>13. log' = log /\ workload' = workload /\ issued' = issued /\ tally' = tally
  BY DEF PutKey
<1>14. raced \subseteq raced' /\ raced' \subseteq Keys /\ lossy' \subseteq Keys
  BY <1>4, KeysOfType DEF PutKey, Typed
<1>15. Step(c)
  BY <1>1, <1>2, <1>9, <1>10, <1>11, <1>13, <1>14, StringStep
<1>16. Balanced
  BY <1>9, <1>13, StringsBalanced
<1>17. DOMAIN db'["str"] \subseteq DOMAIN db["str"] \cup {k}
  BY <1>9 DEF StringsChange
<1> QED
  BY <1>1, <1>2, <1>3, <1>11, <1>12, <1>15, <1>16, <1>17 DEF Plain

(* DEL of one key. *)
LEMMA DelKeyIsPlain ==
    ASSUME Typed, NEW c \in Clients, DelKey(c)
    PROVE  Plain(c)
<1>1. call[c].pc = "run" /\ call[c].cmd.op = "DEL"
  BY DEF DelKey, At
<1>2. call[c].cmd.op \notin OnObjects
  BY <1>1 DEF OnObjects, Creating, Removing
<1>3. Moves(c) /\ call'[c].pc # "put"
  BY <1>1, IteratingOut DEF DelKey
<1>4. StringsChange(db, db', {})
  BY DeleteFacts DEF DelKey, Typed
<1>5. log' = log /\ workload' = workload /\ issued' = issued /\ tally' = tally
      /\ raced \subseteq raced' /\ raced' \subseteq Keys /\ lossy' \subseteq Keys
  BY DEF DelKey, Typed
<1>6. Step(c)
  BY <1>1, <1>2, <1>3, <1>4, <1>5, StringStep
<1>7. Balanced
  BY <1>4, <1>5, StringsBalanced
<1> QED
  BY <1>3, <1>6, <1>7 DEF Plain

(* APPEND reads the value. *)
LEMMA AppendGetIsPlain ==
    ASSUME Typed, NEW c \in Clients, AppendGet(c)
    PROVE  Plain(c)
<1>1. call[c].pc = "run" /\ call[c].cmd.op = "APPEND"
  BY DEF AppendGet, At
<1>2. call[c].cmd.op \notin OnObjects
  BY <1>1 DEF OnObjects, Creating, Removing
<1>3. PICK old : old = IF Found(db, Key(c)) THEN db.str[Key(c)].val ELSE <<>>
  OBVIOUS
<1>4. old \in Seq(Values)
  <2>1. CASE Found(db, Key(c))
    <3>1. Key(c) \in DOMAIN db["str"] /\ "str" \in Types
      BY <2>1 DEF Found, HasKey, Types
    <3>2. IsItem(db["str"][Key(c)])
      BY <3>1 DEF Typed, IsCache, IsObject
    <3> QED
      BY <1>3, <2>1, <3>2 DEF IsItem
  <2>2. CASE ~ Found(db, Key(c))
    BY <1>3, <2>2
  <2> QED
    BY <2>1, <2>2
<1>5. PICK x : x = call[c]
  OBVIOUS
<1>6. x \in [pc : Pcs, cmd : workload, i : Nat, id : Nat, old : Seq(Values)]
      /\ x.id < issued /\ InRange(x.cmd, x.i)
  BY <1>1, <1>5, InHandler DEF IsCall
<1>7. PICK y : y = [x EXCEPT !.pc = "put", !.old = old]
  OBVIOUS
<1>8. call' = [call EXCEPT ![c] = y]
  BY <1>3, <1>5, <1>7 DEF AppendGet
<1>9. y \in [pc : Pcs, cmd : workload, i : Nat, id : Nat, old : Seq(Values)]
      /\ y.id = x.id /\ y.cmd = x.cmd /\ y.i = x.i
  BY <1>4, <1>6, <1>7 DEF Pcs
<1>10. IsCall(y, workload, issued) /\ y.cmd = call[c].cmd
  BY <1>5, <1>6, <1>9 DEF IsCall
<1>11. pending' = pending
  BY DEF AppendGet
<1>12. Moves(c)
  BY <1>8, <1>10, <1>11 DEF Moves, Typed
<1>13. StringsChange(db, db', {})
  BY AfterGetFacts DEF AppendGet, Typed
<1>14. log' = log /\ workload' = workload /\ issued' = issued /\ tally' = tally
       /\ raced \subseteq raced' /\ raced' \subseteq Keys /\ lossy' \subseteq Keys
  BY DEF AppendGet, Typed
<1>15. Step(c)
  BY <1>1, <1>2, <1>12, <1>13, <1>14, StringStep
<1>16. Balanced
  BY <1>13, <1>14, StringsBalanced
<1> QED
  BY <1>1, <1>15, <1>16 DEF Plain

(* APPEND stores the longer value. *)
LEMMA AppendSetIsPlain ==
    ASSUME Typed, NEW c \in Clients, AppendSet(c)
    PROVE  Plain(c)
<1>1. call[c].pc = "put" /\ call[c].cmd.op = "APPEND"
  BY DEF AppendSet, At
<1>2. call[c].cmd.op \notin OnObjects /\ call[c].cmd.op \in Writing
      /\ call[c].cmd.op \notin Storing \cup {"DEL", "MGET"}
  BY <1>1 DEF OnObjects, Creating, Removing, Writing, Storing
<1>3. PICK k : k = call[c].cmd.key
  OBVIOUS
<1>4. k \in Keys /\ Arg(c) \in Seq(Values) /\ call[c].old \in Seq(Values)
  BY <1>1, <1>3, InHandler, ArgTypes DEF IsCall, Arg
<1>5. PICK item : item = [val |-> call[c].old \o Arg(c), ttl |-> "none"]
  OBVIOUS
<1>6. call[c].old \o Arg(c) \in Seq(Values)
  BY <1>4, ConcatProperties
<1>7. IsItem(item)
  BY <1>5, <1>6 DEF IsItem
<1>8. StringsChange(db, db', {k})
  BY <1>3, <1>4, <1>5, <1>7, SetItemFacts DEF AppendSet, Typed, Key
<1>9. Busy(call[c], k)
  BY <1>1, <1>2, <1>3, KeysOfOps DEF Busy
<1>10. Moves(c) /\ call'[c].pc # "put"
  BY <1>1, Ending DEF AppendSet, Idle
<1>11. log' = log /\ workload' = workload /\ issued' = issued /\ tally' = tally
       /\ raced \subseteq raced' /\ raced' \subseteq Keys /\ lossy' \subseteq Keys
  BY DEF AppendSet, Typed
<1>12. Step(c)
  BY <1>1, <1>2, <1>8, <1>9, <1>10, <1>11, StringStep
<1>13. Balanced
  BY <1>8, <1>11, StringsBalanced
<1> QED
  BY <1>10, <1>12, <1>13 DEF Plain

(* A look-up of one key. *)
LEMMA LookIsPlain ==
    ASSUME Typed, NEW c \in Clients, Look(c)
    PROVE  Plain(c)
<1>1. call[c].pc = "run" /\ call[c].cmd.op \in Looking
  BY DEF Look, At
<1>2. call[c].cmd.op \notin OnObjects
  BY <1>1 DEF OnObjects, Creating, Removing, Looking
<1>3. Moves(c) /\ call'[c].pc # "put"
  <2>1. CASE call[c].i < Len(call[c].cmd.args)
    <3>1. call[c].i \in Nat /\ Len(call[c].cmd.args) \in Nat
      BY <1>1, InHandler, ArgsAreSequences DEF IsCall
    <3>2. PICK i \in Nat : i = call[c].i + 1
      BY <3>1
    <3>3. Goto(c, "run", i) /\ InRange(call[c].cmd, i)
      BY <2>1, <3>1, <3>2 DEF Look, InRange
    <3> QED
      BY <1>1, <3>3, Going DEF Pcs
  <2>2. CASE ~ (call[c].i < Len(call[c].cmd.args))
    BY <1>1, <2>2, Ending DEF Look, Idle
  <2> QED
    BY <2>1, <2>2
<1>4. StringsChange(db, db', {})
  BY AfterGetFacts DEF Look, Typed
<1>5. log' = log /\ workload' = workload /\ issued' = issued /\ tally' = tally
      /\ raced \subseteq raced' /\ raced' \subseteq Keys /\ lossy' \subseteq Keys
  BY DEF Look, Typed
<1>6. Step(c)
  BY <1>1, <1>2, <1>3, <1>4, <1>5, StringStep
<1>7. Balanced
  BY <1>4, <1>5, StringsBalanced
<1> QED
  BY <1>3, <1>6, <1>7 DEF Plain

-----------------------------------------------------------------------------
(* The inductive invariant *)

(* Write commands that are under way on one key have been seen to overlap. *)
NoRivals ==
    \A b, c \in Clients :
        b # c => \A k : Busy(call[b], k) /\ Busy(call[c], k) => k \in raced

(* What an MSETNX x knows: of the keys it has tested, only those of R can be
   present; of the keys it stores, also those it has stored. *)
Knows(x, d, R) ==
    x.pc # "idle" /\ x.cmd.op = "MSETNX" =>
        /\ x.pc = "check" => \A j \in 1 .. (x.i - 1) :
               x.cmd.args[j][1] \in DOMAIN d["str"] => x.cmd.args[j][1] \in R
        /\ x.pc = "run" => \A j \in DOMAIN x.cmd.args :
               x.cmd.args[j][1] \in DOMAIN d["str"] =>
                   \/ x.cmd.args[j][1] \in R
                   \/ \E l \in 1 .. (x.i - 1) : x.cmd.args[l][1] = x.cmd.args[j][1]

Tested == \A c \in Clients : Knows(call[c], db, raced)

(* x has counted a field of hash k that it has still to store. *)
Owes(x, d, k) ==
    /\ x.pc = "put" /\ x.cmd.op = "HSET" /\ x.cmd.key = k
    /\ x.cmd.args[x.i][1] \notin DOMAIN d["hash"][k]

(* The counts are the sizes; for a hash whose commands did not overlap, with
   the one field that is counted and not stored. *)
Counts ==
    /\ \A t \in Sized \ {"hash"}, k \in Keys : Excess(db, tally, t, k) = 0
    /\ \A k \in Keys \ raced :
           Excess(db, tally, "hash", k) = IF \E c \in Clients : Owes(call[c], db, k)
                                          THEN 1 ELSE 0

Inv == Typed /\ NoRivals /\ Tested /\ Counts

(* A step makes no handler busy that was not. *)
LEMMA StepKeepsNoRivals ==
    ASSUME NoRivals, NEW c \in Clients, call[c].pc # "idle", Step(c)
    PROVE  NoRivals'
<1>1. \A b \in Clients : \A k : Busy(call'[b], k) => Busy(call[b], k)
  BY DEF Step, Moves, Busy, Idle
<1>2. raced \subseteq raced'
  BY DEF Step
<1> QED
  BY <1>1, <1>2 DEF NoRivals

(* What the other MSETNX know survives a step of c: c adds only keys of its own
   command, and a key of two of them has raced. *)
LEMMA StepKeepsTested ==
    ASSUME Typed, NoRivals, Tested, NEW c \in Clients, call[c].pc # "idle", Step(c),
           Knows(call'[c], db', raced')
    PROVE  Tested'
<1> SUFFICES ASSUME NEW b \in Clients, b # c
             PROVE  Knows(call'[b], db', raced')
  BY DEF Tested
<1>1. PICK x : x = call[b]
  OBVIOUS
<1>2. call'[b] = x
  BY <1>1 DEF Step, Moves
<1> SUFFICES ASSUME x.pc # "idle", x.cmd.op = "MSETNX"
             PROVE  Knows(x, db', raced')
  BY <1>2 DEF Knows
<1>3. Knows(x, db, raced)
  BY <1>1 DEF Tested
<1>4. x.i \in Nat /\ x.i <= Len(x.cmd.args) /\ DOMAIN x.cmd.args = 1 .. Len(x.cmd.args)
      /\ Len(x.cmd.args) \in Nat
  BY <1>1, InHandler, ArgsAreSequences DEF IsCall, InRange
<1>5. ASSUME NEW j \in DOMAIN x.cmd.args, x.cmd.args[j][1] \in DOMAIN db'["str"]
      PROVE  x.cmd.args[j][1] \in DOMAIN db["str"] \/ x.cmd.args[j][1] \in raced
  <2>1. PICK k : k = x.cmd.args[j][1]
    OBVIOUS
  <2>2. Busy(x, k)
    BY <2>1, KeysOfOps DEF Busy, Storing, Writing
  <2>3. k \in DOMAIN db["str"] \/ Busy(call[c], k)
    BY <1>5, <2>1 DEF Step
  <2> QED
    BY <1>1, <2>1, <2>2, <2>3 DEF NoRivals
<1>6. raced \subseteq raced'
  BY DEF Step
<1>7. \A j \in 1 .. (x.i - 1) : j \in DOMAIN x.cmd.args
  BY <1>4
<1> QED
  BY <1>3, <1>5, <1>6, <1>7 DEF Knows

(* Whoever is not in MSETNX knows nothing. *)
LEMMA OthersKnowNothing ==
    ASSUME NEW c \in Clients, Step(c), call[c].cmd.op # "MSETNX"
    PROVE  Knows(call'[c], db', raced')
  BY DEF Step, Moves, Knows, Idle

(* On a key that has not raced, nobody owes but the one who is busy with it. *)
LEMMA OnlyOneOwes ==
    ASSUME NoRivals, NEW c \in Clients, NEW k, Busy(call[c], k), k \notin raced,
           NEW b \in Clients, b # c, NEW d
    PROVE  ~ Owes(call[b], d, k)
<1>1. Owes(call[b], d, k) => Busy(call[b], k)
  BY KeysOfOps DEF Owes, Busy, Writing, Creating, Storing
<1> QED
  BY <1>1 DEF NoRivals

(* A step of c leaves what the others owe. *)
LEMMA OthersOweAlike ==
    ASSUME Typed, NoRivals, NEW c \in Clients, call[c].pc # "idle", Step(c),
           NEW b \in Clients, b # c, NEW k \in Keys, k \notin raced
    PROVE  Owes(call'[b], db', k) <=> Owes(call[b], db, k)
<1>1. call'[b] = call[b]
  BY DEF Step, Moves
<1>2. CASE Busy(call[c], k)
  BY <1>1, <1>2, OnlyOneOwes
<1>3. CASE ~ Busy(call[c], k)
  <2>1. CASE k \in DOMAIN db["hash"]
    <3>1. db'["hash"][k] = db["hash"][k]
      BY <1>3, <2>1 DEF Step
    <3> QED
      BY <1>1, <3>1 DEF Owes
  <2>2. CASE k \notin DOMAIN db["hash"]
    <3>1. ~ (call[b].pc = "put" /\ call[b].cmd.op = "HSET" /\ call[b].cmd.key = k)
      BY <2>2, InHandler, TypeOfOps DEF HasObject, OnObjects, Creating
    <3> QED
      BY <1>1, <3>1 DEF Owes
  <2> QED
    BY <2>1, <2>2
<1> QED
  BY <1>2, <1>3

(* A plain step keeps the counts right. *)
LEMMA PlainKeepsCounts ==
    ASSUME Typed, NoRivals, Counts, NEW c \in Clients, call[c].pc # "idle", Plain(c),
           call[c].pc = "put" => call[c].cmd.op # "HSET"
    PROVE  Counts'
<1>1. \A t \in Sized, k \in Keys : Excess(db', tally', t, k) = Excess(db, tally, t, k)
  BY DEF Plain, Balanced
<1>2. ASSUME NEW k \in Keys \ raced'
      PROVE  (\E b \in Clients : Owes(call'[b], db', k))
                 <=> (\E b \in Clients : Owes(call[b], db, k))
  <2>1. k \in Keys /\ k \notin raced
    BY DEF Plain, Step
  <2>2. \A b \in Clients : b # c => (Owes(call'[b], db', k) <=> Owes(call[b], db, k))
    BY <2>1, OthersOweAlike DEF Plain
  <2>3. ~ Owes(call[c], db, k)
    BY DEF Owes
  <2>4. ~ Owes(call'[c], db', k)
    BY DEF Owes, Plain, Step, Moves, Idle
  <2> QED
    BY <2>2, <2>3, <2>4
<1>3. raced \subseteq raced'
  BY DEF Plain, Step
<1>4. \A t \in Sized \ {"hash"}, k \in Keys : Excess(db', tally', t, k) = 0
  BY <1>1 DEF Counts
<1>5. \A k \in Keys \ raced' :
          Excess(db', tally', "hash", k) = IF \E b \in Clients : Owes(call'[b], db', k)
                                           THEN 1 ELSE 0
  BY <1>1, <1>2, <1>3 DEF Counts, Sized
<1> QED
  BY <1>4, <1>5 DEF Counts

(* HSET's two steps with a field: between them the hash is one field short. *)
LEMMA HSetHasKeepsCounts ==
    ASSUME Typed, NoRivals, Counts, NEW c \in Clients, HSetHas(c)
    PROVE  Counts'
<1>1. PICK k : k = call[c].cmd.key
  OBVIOUS
<1>2. PICK f : f = Arg(c)[1]
  OBVIOUS
<1>3. PICK n : n = IF f \in DOMAIN db["hash"][k] THEN 0 ELSE 1
  OBVIOUS
<1>4. /\ Step(c) /\ k \in Keys /\ db' = db
      /\ call[c].pc = "run" /\ call[c].cmd.op = "HSET"
      /\ call'[c].pc = "put" /\ call'[c].i = call[c].i /\ call'[c].cmd = call[c].cmd
      /\ \A u \in Sized, j \in Keys :
             tally'[u][j] = tally[u][j] + IF u = "hash" /\ j = k THEN n ELSE 0
  BY <1>1, <1>2, <1>3, HSetHasCounts
<1>5. ASSUME NEW u \in Sized, NEW j \in Keys
      PROVE  Excess(db', tally', u, j) =
                 Excess(db, tally, u, j) + IF u = "hash" /\ j = k THEN n ELSE 0
  <2>1. tally'[u][j] = tally[u][j] + IF u = "hash" /\ j = k THEN n ELSE 0
    BY <1>4
  <2>2. tally[u][j] \in Int /\ Size(db, u, j) \in Int /\ n \in Int
        /\ Size(db', u, j) = Size(db, u, j)
    BY <1>3, <1>4, SizeType DEF Typed, Tallies, Sized, ObjectTypes
  <2> QED
    BY <2>1, <2>2 DEF Excess
<1>6. Busy(call[c], k)
  BY <1>1, <1>4, KeysOfOps DEF Busy, Writing, Creating, Storing
<1>7. \A t \in Sized \ {"hash"}, j \in Keys : Excess(db', tally', t, j) = 0
  BY <1>5 DEF Counts
<1>8. ASSUME NEW j \in Keys \ raced'
      PROVE  Excess(db', tally', "hash", j) = IF \E b \in Clients : Owes(call'[b], db', j)
                                              THEN 1 ELSE 0
  <2>1. j \in Keys /\ j \notin raced
    BY <1>4 DEF Step
  <2>2. \A b \in Clients : b # c => (Owes(call'[b], db', j) <=> Owes(call[b], db, j))
    BY <1>4, <2>1, OthersOweAlike
  <2>3. ~ Owes(call[c], db, j)
    BY <1>4 DEF Owes
  <2>4. Owes(call'[c], db', j) <=> j = k /\ n = 1
    BY <1>1, <1>2, <1>3, <1>4 DEF Owes, Arg
  <2>5. Excess(db, tally, "hash", j) = IF \E b \in Clients : Owes(call[b], db, j) THEN 1 ELSE 0
    BY <2>1 DEF Counts
  <2>6. Excess(db', tally', "hash", j) =
            Excess(db, tally, "hash", j) + IF j = k THEN n ELSE 0
    BY <1>5, <2>1 DEF Sized
  <2>7. CASE j = k
    <3>1. \A b \in Clients : b # c => ~ Owes(call[b], db, j)
      BY <1>6, <2>1, <2>7, OnlyOneOwes
    <3>2. Excess(db, tally, "hash", j) = 0
      BY <2>3, <2>5, <3>1
    <3>3. (\E b \in Clients : Owes(call'[b], db', j)) <=> n = 1
      BY <2>2, <2>4, <2>7, <3>1
    <3> QED
      BY <1>3, <2>6, <2>7, <3>2, <3>3
  <2>8. CASE j # k
    <3>1. (\E b \in Clients : Owes(call'[b], db', j)) <=> (\E b \in Clients : Owes(call[b], db, j))
      BY <2>2, <2>3, <2>4, <2>8
    <3> QED
      BY <2>5, <2>6, <2>8, <3>1
  <2> QED
    BY <2>7, <2>8
<1> QED
  BY <1>7, <1>8 DEF Counts

(* HSET settles what it owes. *)
LEMMA HSetPutKeepsCounts ==
    ASSUME Typed, NoRivals, Counts, NEW c \in Clients, HSetPut(c)
    PROVE  Counts'
<1>1. PICK k : k = call[c].cmd.key
  OBVIOUS
<1>2. PICK f : f = Arg(c)[1]
  OBVIOUS
<1>3. PICK n : n = IF f \in DOMAIN db["hash"][k] THEN 0 ELSE 1
  OBVIOUS
<1>4. /\ Step(c) /\ k \in Keys /\ tally' = tally /\ call'[c].pc # "put"
      /\ raced' = raced /\ call[c].pc = "put" /\ call[c].cmd.op = "HSET"
      /\ \A u \in Sized, j \in Keys :
             Size(db', u, j) = Size(db, u, j) + IF u = "hash" /\ j = k THEN n ELSE 0
  BY <1>1, <1>2, <1>3, HSetPutStores
<1>5. ASSUME NEW u \in Sized, NEW j \in Keys
      PROVE  Excess(db', tally', u, j) =
                 Excess(db, tally, u, j) - IF u = "hash" /\ j = k THEN n ELSE 0
  <2>1. Size(db', u, j) = Size(db, u, j) + IF u = "hash" /\ j = k THEN n ELSE 0
    BY <1>4
  <2>2. tally[u][j] \in Int /\ Size(db, u, j) \in Int /\ n \in Int /\ tally'[u][j] = tally[u][j]
    <3>1. tally[u][j] \in Int
      BY DEF Typed, Tallies, Sized, ObjectTypes
    <3>2. Size(db, u, j) \in Int
      BY SizeType DEF Typed, Sized, ObjectTypes
    <3> QED
      BY <1>3, <1>4, <3>1, <3>2
  <2> QED
    BY <2>1, <2>2 DEF Excess
<1>6. Busy(call[c], k)
  BY <1>1, <1>4, KeysOfOps DEF Busy, Writing, Creating, Storing
<1>7. \A t \in Sized \ {"hash"}, j \in Keys : Excess(db', tally', t, j) = 0
  BY <1>5 DEF Counts
<1>8. ASSUME NEW j \in Keys \ raced'
      PROVE  Excess(db', tally', "hash", j) = IF \E b \in Clients : Owes(call'[b], db', j)
                                              THEN 1 ELSE 0
  <2>1. j \in Keys /\ j \notin raced
    BY <1>4 DEF Step
  <2>2. \A b \in Clients : b # c => (Owes(call'[b], db', j) <=> Owes(call[b], db, j))
    BY <1>4, <2>1, OthersOweAlike
  <2>3. ~ Owes(call'[c], db', j)
    BY <1>4 DEF Owes
  <2>4. Owes(call[c], db, j) <=> j = k /\ n = 1
    BY <1>1, <1>2, <1>3, <1>4 DEF Owes, Arg
  <2>5. Excess(db, tally, "hash", j) = IF \E b \in Clients : Owes(call[b], db, j) THEN 1 ELSE 0
    BY <2>1 DEF Counts
  <2>6. Excess(db', tally', "hash", j) =
            Excess(db, tally, "hash", j) - IF j = k THEN n ELSE 0
    BY <1>5, <2>1 DEF Sized
  <2>7. CASE j = k
    <3>1. \A b \in Clients : b # c => ~ Owes(call[b], db, j)
      BY <1>6, <2>1, <2>7, OnlyOneOwes
    <3>2. ~ \E b \in Clients : Owes(call'[b], db', j)
      BY <2>2, <2>3, <3>1
    <3>3. (\E b \in Clients : Owes(call[b], db, j)) <=> n = 1
      BY <2>4, <2>7, <3>1
    <3> QED
      BY <1>3, <2>5, <2>6, <2>7, <3>2, <3>3
  <2>8. CASE j # k
    <3>1. (\E b \in Clients : Owes(call'[b], db', j)) <=> (\E b \in Clients : Owes(call[b], db, j))
      BY <2>2, <2>3, <2>4, <2>8
    <3> QED
      BY <2>5, <2>6, <2>8, <3>1
  <2> QED
    BY <2>7, <2>8
<1> QED
  BY <1>7, <1>8 DEF Counts

(* MSETNX's test of a key adds the key to what it knows. *)
LEMMA NxCheckKnows ==
    ASSUME Typed, Tested, NEW c \in Clients, NxCheck(c)
    PROVE  Knows(call'[c], db', raced')
<1>1. PICK x : x = call[c]
  OBVIOUS
<1>2. /\ db' = db /\ raced' = raced /\ x.pc = "check" /\ x.cmd.op = "MSETNX"
      /\ \/ call'[c] = Idle
         \/ /\ Arg(c)[1] \notin DOMAIN db["str"]
            /\ call'[c].cmd = x.cmd
            /\ \/ call'[c].pc = "check" /\ call'[c].i = x.i + 1
               \/ call'[c].pc = "run" /\ call'[c].i = 1 /\ x.i = Len(x.cmd.args)
  BY <1>1, NxCheckIsPlain
<1>3. x.i \in Nat /\ x.i >= 1 /\ DOMAIN x.cmd.args = 1 .. Len(x.cmd.args)
  BY <1>1, <1>2, InHandler, ArgsAreSequences DEF IsCall, InRange
<1>4. \A j \in 1 .. (x.i - 1) : x.cmd.args[j][1] \in DOMAIN db["str"] => x.cmd.args[j][1] \in raced
  BY <1>1, <1>2 DEF Tested, Knows
<1>5. CASE call'[c] = Idle
  BY <1>5 DEF Knows, Idle
<1>6. CASE Arg(c)[1] \notin DOMAIN db["str"] /\ call'[c].cmd = x.cmd
  <2>1. x.cmd.args[x.i][1] \notin DOMAIN db["str"]
    BY <1>1, <1>6 DEF Arg
  <2>2. \A j \in 1 .. x.i : j = x.i \/ j \in 1 .. (x.i - 1)
    BY <1>3
  <2>3. \A j \in 1 .. x.i : x.cmd.args[j][1] \in DOMAIN db["str"] => x.cmd.args[j][1] \in raced
    BY <1>4, <2>1, <2>2
  <2>4. (x.i + 1) - 1 = x.i
    BY <1>3
  <2>5. CASE call'[c].pc = "check" /\ call'[c].i = x.i + 1
    BY <1>2, <1>6, <2>3, <2>4, <2>5 DEF Knows
  <2>6. CASE call'[c].pc = "run" /\ x.i = Len(x.cmd.args)
    BY <1>2, <1>3, <1>6, <2>3, <2>6 DEF Knows
  <2> QED
    BY <1>2, <1>6, <2>5, <2>6 DEF Knows, Idle
<1> QED
  BY <1>2, <1>5, <1>6

(* MSETNX stores a key of its own. *)
LEMMA PutKeyKnows ==
    ASSUME Typed, Tested, NEW c \in Clients, PutKey(c), call[c].cmd.op = "MSETNX"
    PROVE  Knows(call'[c], db', raced')
<1>1. PICK x : x = call[c]
  OBVIOUS
<1>2. /\ x.pc = "run" /\ x.cmd.op = "MSETNX"
      /\ DOMAIN db'["str"] \subseteq DOMAIN db["str"] \cup {Arg(c)[1]}
      /\ \/ call'[c] = Idle
         \/ call'[c].pc = "run" /\ call'[c].i = x.i + 1 /\ call'[c].cmd = x.cmd
      /\ raced \subseteq raced'
  BY <1>1, PutKeyIsPlain DEF Plain, Step
<1>3. x.i \in Nat /\ x.i >= 1
  BY <1>1, <1>2, InHandler DEF IsCall, InRange
<1>4. \A j \in DOMAIN x.cmd.args :
          x.cmd.args[j][1] \in DOMAIN db["str"] =>
              \/ x.cmd.args[j][1] \in raced
              \/ \E l \in 1 .. (x.i - 1) : x.cmd.args[l][1] = x.cmd.args[j][1]
  BY <1>1, <1>2 DEF Tested, Knows
<1>5. CASE call'[c] = Idle
  BY <1>5 DEF Knows, Idle
<1>6. CASE call'[c].pc = "run" /\ call'[c].i = x.i + 1 /\ call'[c].cmd = x.cmd
  <2>1. Arg(c)[1] = x.cmd.args[x.i][1]
    BY <1>1 DEF Arg
  <2>2. x.i \in 1 .. ((x.i + 1) - 1) /\ \A l \in 1 .. (x.i - 1) : l \in 1 .. ((x.i + 1) - 1)
    BY <1>3
  <2>3. \A j \in DOMAIN x.cmd.args :
            x.cmd.args[j][1] \in DOMAIN db'["str"] =>
                \/ x.cmd.args[j][1] \in raced'
                \/ \E l \in 1 .. ((x.i + 1) - 1) : x.cmd.args[l][1] = x.cmd.args[j][1]
    BY <1>2, <1>4, <2>1, <2>2
  <2> QED
    BY <1>6, <2>3 DEF Knows
<1> QED
  BY <1>2, <1>5, <1>6

(* A handler's step keeps the invariant. *)
LEMMA HandleKeepsInv ==
    ASSUME Inv, NEW c \in Clients, Handle(c)
    PROVE  Inv'
<1>1. Typed /\ NoRivals /\ Tested /\ Counts
  BY DEF Inv
<1>2. ASSUME call[c].pc # "idle", Plain(c), call[c].pc = "put" => call[c].cmd.op # "HSET",
             Knows(call'[c], db', raced')
      PROVE  Inv'
  <2>1. Step(c)
    BY <1>2 DEF Plain
  <2>2. Typed'
    BY <1>1, <1>2, <2>1, StepKeepsTypes
  <2>3. NoRivals'
    BY <1>1, <1>2, <2>1, StepKeepsNoRivals
  <2>4. Tested'
    BY <1>1, <1>2, <2>1, StepKeepsTested
  <2>5. Counts'
    BY <1>1, <1>2, PlainKeepsCounts
  <2> QED
    BY <2>2, <2>3, <2>4, <2>5 DEF Inv
<1>3. ASSUME call[c].pc # "idle", Plain(c), call[c].pc = "put" => call[c].cmd.op # "HSET",
             call[c].cmd.op # "MSETNX"
      PROVE  Inv'
  BY <1>2, <1>3, OthersKnowNothing DEF Plain
<1>4. ASSUME call[c].pc # "idle", Step(c), Counts', call[c].cmd.op # "MSETNX"
      PROVE  Inv'
  <2>1. Typed' /\ NoRivals'
    BY <1>1, <1>4, StepKeepsTypes, StepKeepsNoRivals
  <2>2. Tested'
    BY <1>1, <1>4, OthersKnowNothing, StepKeepsTested
  <2> QED
    BY <1>4, <2>1, <2>2 DEF Inv
<1>5. CASE Create(c)
  BY <1>1, <1>3, <1>5, CreateIsPlain DEF Create, At, Creating
<1>6. CASE Find(c)
  BY <1>1, <1>3, <1>6, FindIsPlain DEF Find, At, Removing
<1>7. CASE HSetHas(c)
  <2>1. PICK k : k = call[c].cmd.key
    OBVIOUS
  <2>2. PICK f : f = Arg(c)[1]
    OBVIOUS
  <2>3. Step(c) /\ call[c].pc = "run" /\ call[c].cmd.op = "HSET"
    BY <1>1, <1>7, <2>1, <2>2, HSetHasCounts
  <2> QED
    BY <1>1, <1>4, <1>7, <2>3, HSetHasKeepsCounts
<1>8. CASE HSetPut(c)
  <2>1. PICK k : k = call[c].cmd.key
    OBVIOUS
  <2>2. PICK f : f = Arg(c)[1]
    OBVIOUS
  <2>3. Step(c) /\ call[c].pc = "put" /\ call[c].cmd.op = "HSET"
    BY <1>1, <1>8, <2>1, <2>2, HSetPutStores
  <2> QED
    BY <1>1, <1>4, <1>8, <2>3, HSetPutKeepsCounts
<1>9. CASE HDelField(c)
  BY <1>1, <1>3, <1>9, HDelFieldIsPlain DEF HDelField, At
<1>10. CASE Push(c)
  BY <1>1, <1>3, <1>10, PushIsPlain DEF Push, At
<1>11. CASE PopEmpty(c)
  BY <1>1, <1>3, <1>11, PopEmptyIsPlain DEF PopEmpty, At
<1>12. CASE Pop(c)
  BY <1>1, <1>3, <1>12, PopIsPlain DEF Pop, At
<1>13. CASE SAdd(c)
  BY <1>1, <1>3, <1>13, SAddIsPlain DEF SAdd, At
<1>14. CASE SRem(c)
  BY <1>1, <1>3, <1>14, SRemIsPlain DEF SRem, At
<1>15. CASE ZAddPair(c)
  BY <1>1, <1>3, <1>15, ZAddPairIsPlain DEF ZAddPair, At
<1>16. CASE ZAddInvalid(c)
  BY <1>1, <1>3, <1>16, ZAddInvalidIsPlain DEF ZAddInvalid, At
<1>17. CASE ZRemMember(c)
  BY <1>1, <1>3, <1>17, ZRemMemberIsPlain DEF ZRemMember, At
<1>18. CASE NxCheck(c)
  BY <1>1, <1>2, <1>18, NxCheckIsPlain, NxCheckKnows DEF NxCheck, At
<1>19. CASE PutKey(c)
  <2>1. Plain(c) /\ call[c].pc = "run"
    BY <1>1, <1>19, PutKeyIsPlain
  <2>2. CASE call[c].cmd.op = "MSETNX"
    BY <1>1, <1>2, <1>19, <2>1, <2>2, PutKeyKnows
  <2>3. CASE call[c].cmd.op # "MSETNX"
    BY <1>3, <2>1, <2>3
  <2> QED
    BY <2>2, <2>3
<1>20. CASE DelKey(c)
  BY <1>1, <1>3, <1>20, DelKeyIsPlain DEF DelKey, At
<1>21. CASE AppendGet(c)
  BY <1>1, <1>3, <1>21, AppendGetIsPlain DEF AppendGet, At
<1>22. CASE AppendSet(c)
  BY <1>1, <1>3, <1>22, AppendSetIsPlain DEF AppendSet, At
<1>23. CASE Look(c)
  BY <1>1, <1>3, <1>23, LookIsPlain DEF Look, At, Looking
<1> QED
  BY <1>5, <1>6, <1>7, <1>8, <1>9, <1>10, <1>11, <1>12, <1>13, <1>14, <1>15, <1>16, <1>17,
     <1>18, <1>19, <1>20, <1>21, <1>22, <1>23 DEF Handle

-----------------------------------------------------------------------------
(* The steps outside of the handlers *)

(* Steps that start nothing and add no string. *)
LEMMA OutsideKeepsRest ==
    ASSUME NoRivals, Tested, Counts, call' = call, raced' = raced, tally' = tally,
           StringsChange(db, db', {})
    PROVE  NoRivals' /\ Tested' /\ Counts'
<1>1. NoRivals'
  BY DEF NoRivals
<1>2. DOMAIN db'["str"] \subseteq DOMAIN db["str"] /\ db'["hash"] = db["hash"]
  BY DEF StringsChange, Types
<1>3. Tested'
  <2> SUFFICES ASSUME NEW c \in Clients
               PROVE  Knows(call[c], db', raced)
    BY DEF Tested
  <2>1. Knows(call[c], db, raced)
    BY DEF Tested
  <2> QED
    BY <1>2, <2>1 DEF Knows
<1>4. \A t \in Sized, k \in Keys : Excess(db', tally', t, k) = Excess(db, tally, t, k)
  BY StringsBalanced DEF Balanced
<1>5. \A c \in Clients, k \in Keys : Owes(call'[c], db', k) <=> Owes(call[c], db, k)
  BY <1>2 DEF Owes
<1>6. Counts'
  BY <1>4, <1>5 DEF Counts, Sized
<1> QED
  BY <1>1, <1>3, <1>6

(* A goroutine logs its command. *)
LEMMA LogCommandKeepsInv ==
    ASSUME Inv, LogCommand
    PROVE  Inv'
<1>1. PICK r \in pending : /\ pending' = pending \ {r} /\ log' = Append(log, r.cmd)
                           /\ UNCHANGED <<db, aged, call, workload, issued, tally, raced, lossy>>
  BY DEF LogCommand
<1>2. log' \in Seq(workload)
  BY <1>1, AppendProperties DEF Inv, Typed
<1>3. Typed'
  BY <1>1, <1>2 DEF Inv, Typed
<1>4. StringsChange(db, db', {})
  BY <1>1 DEF StringsChange, Inv, Typed
<1> QED
  BY <1>1, <1>3, <1>4, OutsideKeepsRest DEF Inv

(* Steps that change nothing but the age of items. *)
LEMMA ElapseKeepsInv ==
    ASSUME Inv, UNCHANGED <<db, call, pending, log, workload, issued, tally, raced, lossy>>
    PROVE  Inv'
<1>1. Typed'
  BY DEF Inv, Typed
<1>2. StringsChange(db, db', {})
  BY DEF StringsChange, Inv, Typed
<1> QED
  BY <1>1, <1>2, OutsideKeepsRest DEF Inv

(* The time of an item runs out. *)
LEMMA ExpireKeepsInv ==
    ASSUME Inv, NEW k \in Keys, Expire(k)
    PROVE  Inv'
<1>1. k \in DOMAIN db["str"] /\ IsCache(db) /\ DOMAIN db = Types /\ "str" \in Types
  BY DEF Expire, HasKey, Inv, Typed, IsCache, Types
<1>2. PICK item : item = db["str"][k]
  OBVIOUS
<1>3. PICK old : old = [item EXCEPT !.ttl = "past"]
  OBVIOUS
<1>4. IsItem(item)
  BY <1>1, <1>2 DEF IsCache, IsObject
<1>5. IsItem(old)
  BY <1>3, <1>4 DEF IsItem
<1>6. PICK e : e = [db["str"] EXCEPT ![k] = old]
  OBVIOUS
<1>7. db' = [db EXCEPT !["str"] = e]
  BY <1>1, <1>2, <1>3, <1>6 DEF Expire
<1>8. DOMAIN e = DOMAIN db["str"] /\ e[k] = old
      /\ \A j \in DOMAIN e : j # k => e[j] = db["str"][j]
  BY <1>1, <1>6
<1>9. DOMAIN db' = Types /\ db'["str"] = e /\ \A u \in Types : u # "str" => db'[u] = db[u]
  BY <1>1, <1>7
<1>10. \A u \in Types : /\ DOMAIN db'[u] \subseteq Keys
                        /\ \A j \in DOMAIN db'[u] : IsObject(u, db'[u][j])
  <2> SUFFICES ASSUME NEW u \in Types
               PROVE  /\ DOMAIN db'[u] \subseteq Keys
                      /\ \A j \in DOMAIN db'[u] : IsObject(u, db'[u][j])
    OBVIOUS
  <2>1. DOMAIN db[u] \subseteq Keys /\ \A j \in DOMAIN db[u] : IsObject(u, db[u][j])
    BY <1>1 DEF IsCache
  <2>2. CASE u # "str"
    BY <1>9, <2>1, <2>2
  <2>3. CASE u = "str"
    <3>1. IsObject(u, old)
      BY <1>5, <2>3 DEF IsObject
    <3> QED
      BY <1>8, <1>9, <2>1, <2>3, <3>1
  <2> QED
    BY <2>2, <2>3
<1>11. IsCache(db')
  BY <1>9, <1>10 DEF IsCache
<1>12. StringsChange(db, db', {}) /\ Grows(db, db')
  BY <1>8, <1>9, <1>11 DEF StringsChange, Grows
<1>13. call' = call /\ pending' = pending /\ log' = log /\ workload' = workload
       /\ issued' = issued /\ tally' = tally /\ raced' = raced /\ lossy' = lossy \cup {k}
  BY DEF Expire
<1>14. ASSUME NEW c \in Clients
       PROVE  CallOK(call'[c], workload', issued', db')
  <2>1. CallOK(call[c], workload, issued, db) /\ issued \in Nat /\ issued <= issued
    BY DEF Inv, Typed
  <2>2. CallOK(call[c], workload, issued, db')
    BY <1>12, <2>1, CallStays
  <2> QED
    BY <1>13, <2>2
<1>15. Typed'
  BY <1>11, <1>13, <1>14 DEF Inv, Typed
<1> QED
  BY <1>12, <1>13, <1>15, OutsideKeepsRest DEF Inv

(* A handler begins: its keys and those of its rivals have raced. *)
LEMMA BeginKeepsInv ==
    ASSUME Inv, NEW c \in Clients, Begin(c)
    PROVE  Inv'
<1>1. Typed /\ NoRivals /\ Tested /\ Counts
  BY DEF Inv
<1>2. db' = db /\ pending' = pending /\ log' = log /\ workload' = workload
      /\ tally' = tally /\ issued' = issued + 1 /\ issued \in Nat /\ call[c].pc = "idle"
  BY <1>1 DEF Begin, Typed
<1>3. PICK cmd \in workload :
          IF WellFormed(cmd)
          THEN /\ call' = [call EXCEPT ![c] = [pc |-> FirstPc(cmd.op), cmd |-> cmd, i |-> 1,
                                               id |-> issued, old |-> <<>>]]
               /\ raced' = raced \cup RacedBy(cmd)
               /\ lossy' = lossy \cup LossyBy(cmd)
          ELSE UNCHANGED <<call, raced, lossy>>
  BY DEF Begin
<1>4. ASSUME NEW b \in Clients, call'[b] = call[b]
      PROVE  CallOK(call'[b], workload', issued', db')
  <2>1. CallOK(call[b], workload, issued, db) /\ issued + 1 \in Nat /\ issued <= issued + 1
        /\ Grows(db, db)
    BY <1>1, <1>2 DEF Typed, Grows
  <2>2. CallOK(call[b], workload, issued + 1, db)
    BY <1>2, <2>1, CallStays
  <2> QED
    BY <1>2, <1>4, <2>2
<1>5. CASE ~ WellFormed(cmd)
  <2>1. call' = call /\ raced' = raced /\ lossy' = lossy
    BY <1>3, <1>5
  <2>2. \A b \in Clients : CallOK(call'[b], workload', issued', db')
    BY <1>4, <2>1
  <2>3. Typed'
    BY <1>1, <1>2, <2>1, <2>2 DEF Typed
  <2>4. StringsChange(db, db', {})
    BY <1>1, <1>2 DEF StringsChange, Typed
  <2> QED
    BY <1>1, <1>2, <2>1, <2>3, <2>4, OutsideKeepsRest DEF Inv
<1>6. CASE WellFormed(cmd)
  <2>1. PICK x : x = [pc |-> FirstPc(cmd.op), cmd |-> cmd, i |-> 1, id |-> issued, old |-> <<>>]
    OBVIOUS
  <2>2. call' = [call EXCEPT ![c] = x] /\ raced' = raced \cup RacedBy(cmd)
        /\ lossy' = lossy \cup LossyBy(cmd)
    BY <1>3, <1>6, <2>1
  <2>3. DOMAIN call' = Clients /\ call'[c] = x /\ \A b \in Clients \ {c} : call'[b] = call[b]
    BY <1>1, <2>2 DEF Typed
  <2>4. cmd \in Commands /\ cmd.args \in ArgsOf(cmd.op)
    BY <1>1, CommandAssumption DEF Typed, Commands
  <2>5. KeysOf(cmd) \subseteq Keys
    BY <2>4, KeysOfType
  <2>6. FirstPc(cmd.op) \in Pcs /\ FirstPc(cmd.op) # "put"
        /\ (cmd.op = "MSETNX" => FirstPc(cmd.op) = "check")
        /\ (cmd.op \in OnObjects => FirstPc(cmd.op) # "run")
    BY DEF FirstPc, Pcs, OnObjects, Creating, Removing
  <2>7. InRange(cmd, 1)
    <3>1. Len(cmd.args) \in Nat
      BY <2>4, ArgsAreSequences
    <3> QED
      BY <1>6, <3>1 DEF WellFormed, InRange
  <2>8. CallOK(x, workload', issued', db')
    <3>1. x.cmd = cmd /\ x.i = 1 /\ x.id = issued /\ x.pc = FirstPc(cmd.op)
          /\ x \in [pc : Pcs, cmd : workload, i : Nat, id : Nat, old : Seq(Values)]
      <4>1. <<>> \in Seq(Values) /\ 1 \in Nat
        OBVIOUS
      <4> QED
        BY <1>2, <2>1, <2>6, <4>1
    <3>2. IsCall(x, workload', issued')
      BY <1>2, <2>7, <3>1 DEF IsCall
    <3>3. HasObject(x, db')
      BY <2>6, <3>1 DEF HasObject
    <3> QED
      BY <3>2, <3>3 DEF CallOK
  <2>9. \A b \in Clients : CallOK(call'[b], workload', issued', db')
    BY <1>4, <2>3, <2>8
  <2>10. RacedBy(cmd) \subseteq Keys
    <3>1. \A w \in Underway : w \in Commands
      <4>1. \A b \in Clients : call[b].pc # "idle" => call[b].cmd \in Commands
        BY <1>1, InHandler
      <4>2. \A r \in pending : r.cmd \in Commands
        BY <1>1 DEF Typed, Commands
      <4> QED
        BY <4>1, <4>2 DEF Underway
    <3>2. \A w \in Underway : KeysOf(w) \subseteq Keys
      BY <3>1, KeysOfType
    <3> QED
      BY <2>5, <3>2 DEF RacedBy
  <2>11. LossyBy(cmd) \subseteq Keys
    BY <2>5 DEF LossyBy
  <2>12. Typed'
    BY <1>1, <1>2, <2>2, <2>3, <2>9, <2>10, <2>11 DEF Typed
  <2>13. x.pc = FirstPc(cmd.op) /\ x.cmd = cmd /\ x.i = 1
    BY <2>1
  <2>14. ASSUME NEW b \in Clients \ {c}, NEW k, Busy(call[b], k), Busy(x, k)
         PROVE  k \in raced'
    <3>1. call[b].cmd \in Underway /\ call[b].cmd.op \in Writing /\ k \in KeysOf(call[b].cmd)
      BY <2>14 DEF Underway, Busy
    <3>2. cmd.op \in Writing /\ k \in KeysOf(cmd)
      BY <2>13, <2>14 DEF Busy
    <3>3. k \in RacedBy(cmd)
      BY <3>1, <3>2 DEF RacedBy
    <3> QED
      BY <2>2, <3>3
  <2>15. NoRivals'
    <3> SUFFICES ASSUME NEW a \in Clients, NEW b \in Clients, a # b, NEW k,
                        Busy(call'[a], k), Busy(call'[b], k)
                 PROVE  k \in raced'
      BY DEF NoRivals
    <3>1. CASE a = c
      BY <2>3, <2>14, <3>1
    <3>2. CASE b = c
      BY <2>3, <2>14, <3>2
    <3>3. CASE a # c /\ b # c
      BY <1>1, <2>2, <2>3, <3>3 DEF NoRivals
    <3> QED
      BY <3>1, <3>2, <3>3
  <2>16. Tested'
    <3> SUFFICES ASSUME NEW b \in Clients
                 PROVE  Knows(call'[b], db', raced')
      BY DEF Tested
    <3>1. CASE b = c
      <4>1. 1 .. (1 - 1) = {}
        OBVIOUS
      <4>2. Knows(x, db', raced')
        BY <2>6, <2>13, <4>1 DEF Knows
      <4> QED
        BY <2>3, <3>1, <4>2
    <3>2. CASE b # c
      <4>1. Knows(call[b], db, raced)
        BY <1>1 DEF Tested
      <4>2. Knows(call[b], db, raced')
        BY <2>2, <4>1 DEF Knows
      <4> QED
        BY <1>2, <2>3, <3>2, <4>2
    <3> QED
      BY <3>1, <3>2
  <2>17. Counts'
    <3>1. ASSUME NEW b \in Clients, NEW k
          PROVE  Owes(call'[b], db', k) <=> Owes(call[b], db, k)
      <4>1. CASE b = c
        BY <1>2, <2>3, <2>6, <2>13, <4>1 DEF Owes
      <4>2. CASE b # c
        BY <1>2, <2>3, <4>2
      <4> QED
        BY <4>1, <4>2
    <3> QED
      BY <1>1, <1>2, <2>2, <3>1 DEF Counts
  <2> QED
    BY <2>12, <2>15, <2>16, <2>17 DEF Inv
<1> QED
  BY <1>5, <1>6

-----------------------------------------------------------------------------
(* Theorems *)

(* The invariant holds at the start. *)
LEMMA InitInv ==
    ASSUME Init
    PROVE  Inv
<1>1. /\ DOMAIN EmptyDB = Types /\ \A t \in Types : EmptyDB[t] = <<>>
  BY DEF EmptyDB, Types
<1>2. DOMAIN <<>> = {}
  OBVIOUS
<1>3. IsCache(db)
  BY <1>1, <1>2 DEF Init, IsCache
<1>4. DOMAIN call = Clients /\ \A c \in Clients : call[c] = Idle
  BY DEF Init
<1>5. tally \in Tallies
  BY DEF Init, Tallies
<1>6. Typed
  <2>1. <<>> \in Seq(workload)
    OBVIOUS
  <2> QED
    BY <1>3, <1>4, <1>5, <2>1 DEF Init, Typed, CallOK
<1>7. NoRivals
  BY <1>4 DEF NoRivals, Busy, Idle
<1>8. Tested
  BY <1>4 DEF Tested, Knows, Idle
<1>9. Counts
  <2>1. \A c \in Clients, k \in Keys : ~ Owes(call[c], db, k)
    BY <1>4 DEF Owes, Idle
  <2>2. \A t \in Sized, k \in Keys : tally[t][k] = 0
    BY DEF Init, Sized
  <2>3. \A t \in Sized, k \in Keys : Size(db, t, k) = 0
    BY <1>1, <1>2 DEF Init, Size, Sized, Types
  <2>4. \A t \in Sized, k \in Keys : Excess(db, tally, t, k) = 0
    BY <2>2, <2>3 DEF Excess
  <2> QED
    BY <2>1, <2>4 DEF Counts, Sized
<1> QED
  BY <1>6, <1>7, <1>8, <1>9 DEF Inv

(* The invariant is inductive: handlers of any number of connections, in any
   interleaving of their calls of the cache, keep it. *)
THEOREM Invariance == Spec => []Inv
<1>1. Init => Inv
  BY InitInv
<1>2. Inv /\ [Next]_vars => Inv'
  <2> SUFFICES ASSUME Inv, [Next]_vars
               PROVE  Inv'
    OBVIOUS
  <2>1. ASSUME NEW c \in Clients, Begin(c)
        PROVE  Inv'
    BY <2>1, BeginKeepsInv
  <2>2. ASSUME NEW c \in Clients, Handle(c)
        PROVE  Inv'
    BY <2>2, HandleKeepsInv
  <2>3. CASE LogCommand
    BY <2>3, LogCommandKeepsInv
  <2>4. ASSUME NEW k \in Keys, Expire(k)
        PROVE  Inv'
    BY <2>4, ExpireKeepsInv
  <2>5. CASE UNCHANGED vars
    BY <2>5, ElapseKeepsInv DEF vars
  <2>6. ASSUME NEW k \in Keys, Elapse(k)
        PROVE  Inv'
    BY <2>6, ElapseKeepsInv DEF Elapse
  <2> QED
    BY <2>1, <2>2, <2>3, <2>4, <2>5, <2>6 DEF Next
<1> QED
  BY <1>1, <1>2, PTL DEF Spec

(* Time goes by for the strings of known keys. *)
LEMMA AgedType == Spec => [](aged \subseteq Keys)
<1>1. Init => aged \subseteq Keys
  BY DEF Init
<1>2. aged \subseteq Keys /\ [Next]_vars => (aged \subseteq Keys)'
  <2> SUFFICES ASSUME aged \subseteq Keys, [Next]_vars
               PROVE  aged' \subseteq Keys
    OBVIOUS
  <2>1. ASSUME NEW c \in Clients, Begin(c) \/ Handle(c)
        PROVE  aged' \subseteq aged
    BY <2>1 DEF Begin, Handle, Create, Find, HSetHas, HSetPut, HDelField, Push, PopEmpty, Pop,
                SAdd, SRem, ZAddPair, ZAddInvalid, ZRemMember, NxCheck, PutKey, DelKey,
                AppendGet, AppendSet, Look
  <2>2. ASSUME NEW k \in Keys, Elapse(k) \/ Expire(k)
        PROVE  aged' \subseteq aged \cup {k}
    BY <2>2 DEF Elapse, Expire
  <2>3. CASE LogCommand \/ UNCHANGED vars
    BY <2>3 DEF LogCommand, vars
  <2> QED
    BY <2>1, <2>2, <2>3 DEF Next
<1> QED
  BY <1>1, <1>2, PTL DEF Spec

(* Every object of the cache is of the type of its map, every command under way,
   waiting for the log or logged is one of the workload. *)
THEOREM TypeCorrect == Spec => []TypeOK
<1>1. Inv /\ aged \subseteq Keys => TypeOK
  <2> SUFFICES ASSUME Inv, aged \subseteq Keys
               PROVE  TypeOK
    OBVIOUS
  <2>1. Typed /\ IsCache(db)
    BY DEF Inv, Typed
  <2>2. \A t \in DOMAIN db : DOMAIN db[t] \subseteq Keys
    BY <2>1 DEF IsCache
  <2>3. \A t \in Types : \A k \in DOMAIN db[t] : IsObject(t, db[t][k])
    BY <2>1 DEF IsCache
  <2>4. \A k \in DOMAIN db.str : /\ db.str[k].val \in Seq(Values)
                                 /\ db.str[k].ttl \in {"none", "EX", "PX", "past"}
    <3>1. \A k \in DOMAIN db["str"] : IsItem(db["str"][k])
      BY <2>3 DEF IsObject, Types
    <3> QED
      BY <3>1 DEF IsItem
  <2>5. \A k \in DOMAIN db.hash :
            DOMAIN db.hash[k] \subseteq Members /\ Range(db.hash[k]) \subseteq Values
    <3>1. \A k \in DOMAIN db["hash"] : IsHash(db["hash"][k])
      BY <2>3 DEF IsObject, Types
    <3> QED
      BY <3>1 DEF IsHash, Range
  <2>6. \A k \in DOMAIN db.list : db.list[k] \in Seq(Values)
    BY <2>3 DEF IsObject, Types
  <2>7. \A k \in DOMAIN db.set : db.set[k] \subseteq Members
    <3>1. \A k \in DOMAIN db["set"] : IsSet(db["set"][k])
      BY <2>3 DEF IsObject, Types
    <3> QED
      BY <3>1 DEF IsSet
  <2>8. \A k \in DOMAIN db.zset :
            DOMAIN db.zset[k] \subseteq Members /\ Range(db.zset[k]) \subseteq Int
    <3>1. \A k \in DOMAIN db["zset"] : IsSortedSet(db["zset"][k])
      BY <2>3 DEF IsObject, Types
    <3> QED
      BY <3>1 DEF IsSortedSet, Range
  <2>9. \A c \in Clients :
            call[c].pc # "idle" => call[c].cmd \in workload /\ call[c].id < issued
    BY <2>1, InHandler DEF IsCall
  <2>10. ToSet(log) \subseteq workload
    BY <2>1, MembersFinite DEF Typed
  <2> QED
    BY <2>1, <2>2, <2>4, <2>5, <2>6, <2>7, <2>8, <2>9, <2>10 DEF TypeOK, Typed, Tallies
<1> QED
  BY <1>1, Invariance, AgedType, PTL

(* When the handlers have returned, the numbers that SADD, ZADD, HSET and their
   opposites have reported add up to the sizes that SCARD, ZCARD and HLEN give,
   for any number of connections and every interleaving; for a sorted set unless
   a ZADD of it failed half-way and reported an error, for a hash as long as its
   commands do not overlap. *)
THEOREM CountsAreRight == Spec => []CountsAddUp
<1>1. Inv => CountsAddUp
  <2> SUFFICES ASSUME Inv, Quiet, NEW k \in Keys
               PROVE  /\ k \in DOMAIN db.set => tally.set[k] = SCard(db, k)
                      /\ k \in DOMAIN db.zset \ lossy => tally.zset[k] = ZCard(db, k)
                      /\ k \in DOMAIN db.hash \ raced => tally.hash[k] = HLen(db, k)
    BY DEF CountsAddUp
  <2>1. ASSUME NEW t \in Sized
        PROVE  tally[t][k] \in Int /\ Size(db, t, k) \in Int
    <3>1. tally[t][k] \in Int
      BY DEF Inv, Typed, Tallies, Sized, ObjectTypes
    <3>2. Size(db, t, k) \in Int
      BY SizeType DEF Inv, Typed, Sized, ObjectTypes
    <3> QED
      BY <3>1, <3>2
  <2>2. \A t \in Sized : Excess(db, tally, t, k) = 0 => tally[t][k] = Size(db, t, k)
    BY <2>1 DEF Excess
  <2>3. Size(db, "set", k) = SCard(db, k) /\ Size(db, "zset", k) = ZCard(db, k)
        /\ Size(db, "hash", k) = HLen(db, k)
    BY DEF Size, SizeOf, SCard, ZCard, HLen
  <2>4. tally["set"][k] = SCard(db, k) /\ tally["zset"][k] = ZCard(db, k)
    BY <2>2, <2>3 DEF Inv, Counts, Sized
  <2>5. k \notin raced => tally["hash"][k] = HLen(db, k)
    <3> SUFFICES ASSUME k \notin raced
                 PROVE  tally["hash"][k] = HLen(db, k)
      OBVIOUS
    <3>1. ~ \E c \in Clients : Owes(call[c], db, k)
      BY DEF Quiet, Owes
    <3>2. Excess(db, tally, "hash", k) = 0
      BY <3>1 DEF Inv, Counts
    <3> QED
      BY <2>2, <2>3, <3>2 DEF Sized
  <2> QED
    BY <2>4, <2>5
<1> QED
  BY <1>1, Invariance, PTL

(* MSETNX overwrites nobody else's value unless another command on the key
   overlapped it: what its tests of all keys found still holds when it stores. *)
THEOREM MsetnxIsCareful == Spec => MsetnxKeepsValues
<1>1. ASSUME Inv, NEW c \in Clients, At(c, "run", {"MSETNX"}), HasKey(db, Arg(c)[1])
      PROVE  \/ Arg(c)[1] \in raced
             \/ \E j \in 1 .. call[c].i - 1 : call[c].cmd.args[j][1] = Arg(c)[1]
  <2>1. call[c].pc = "run" /\ call[c].cmd.op = "MSETNX"
    BY <1>1 DEF At
  <2>2. Knows(call[c], db, raced)
    BY <1>1 DEF Inv, Tested
  <2>3. call[c].i \in DOMAIN call[c].cmd.args
    BY <1>1, <2>1, InHandler, ArgTypes DEF Inv, IsCall
  <2> QED
    BY <1>1, <2>1, <2>2, <2>3 DEF Knows, HasKey, Arg
<1> DEFINE Careful ==
        \A c \in Clients :
            At(c, "run", {"MSETNX"}) /\ db' # db /\ HasKey(db, Arg(c)[1])
                => \/ Arg(c)[1] \in raced
                   \/ \E j \in 1 .. call[c].i - 1 : call[c].cmd.args[j][1] = Arg(c)[1]
<1>2. Inv => [Careful]_vars
  BY <1>1
<1> QED
  BY <1>2, Invariance, PTL DEF MsetnxKeepsValues

(* LRANGE and ZRANGE cut what they are asked for out of every list and every
   sorted set that the handlers can build. *)
THEOREM RangesCutSlices == Spec => []RangesAreSlices
<1>1. Inv => RangesAreSlices
  <2> SUFFICES ASSUME Inv, NEW start \in -4 .. 4, NEW stop \in -4 .. 4
               PROVE  /\ \A k \in DOMAIN db.list :
                             LRange(db.list[k], start, stop) = Slice(db.list[k], start, stop)
                      /\ \A k \in DOMAIN db.zset :
                             ZRange(db.zset[k], start, stop) =
                                 {Slice(s, start, stop) : s \in Rankings(db.zset[k])}
    BY DEF RangesAreSlices
  <2>1. \A t \in Types : \A k \in DOMAIN db[t] : IsObject(t, db[t][k])
    BY DEF Inv, Typed, IsCache
  <2>2. start \in Int /\ stop \in Int
    OBVIOUS
  <2>3. ASSUME NEW k \in DOMAIN db["list"]
        PROVE  LRange(db["list"][k], start, stop) = Slice(db["list"][k], start, stop)
    <3>1. PICK l : l = db["list"][k]
      OBVIOUS
    <3>2. l \in Seq(Values)
      BY <2>1, <3>1 DEF IsObject, Types
    <3> QED
      BY <2>2, <3>1, <3>2, LRangeIsSlice
  <2>4. ASSUME NEW k \in DOMAIN db["zset"]
        PROVE  ZRange(db["zset"][k], start, stop) =
                   {Slice(s, start, stop) : s \in Rankings(db["zset"][k])}
    <3>1. PICK z : z = db["zset"][k]
      OBVIOUS
    <3>2. IsSortedSet(z)
      BY <2>1, <3>1 DEF IsObject, Types
    <3>3. ZRange(z, start, stop) = {Slice(s, start, stop) : s \in Rankings(z)}
      BY <2>2, <3>2, ZRangeIsSlices DEF IsSortedSet
    <3> QED
      BY <3>1, <3>3
  <2> QED
    BY <2>3, <2>4
<1> QED
  BY <1>1, Invariance, PTL

-----------------------------------------------------------------------------
(* Replay *)

(* The caches that replay can build, as a set.  A logged score may be anything
   here; that it is a number is not needed. *)
MapsTo(D, S) == UNION {[E -> S] : E \in SUBSET D}

ObjectsOf ==
    [str |-> [val : Seq(Values), ttl : {"none", "EX", "PX", "past"}],
     hash |-> MapsTo(Members, Values),
     list |-> Seq(Values),
     set |-> SUBSET Members,
     zset |-> MapsTo(Members, Int \cup {BadScore})]

LEMMA ObjectsOfTypes ==
    /\ ObjectsOf["str"] = [val : Seq(Values), ttl : {"none", "EX", "PX", "past"}]
    /\ ObjectsOf["hash"] = MapsTo(Members, Values)
    /\ ObjectsOf["list"] = Seq(Values)
    /\ ObjectsOf["set"] = SUBSET Members
    /\ ObjectsOf["zset"] = MapsTo(Members, Int \cup {BadScore})
  BY DEF ObjectsOf

Caches ==
    {d \in [Types -> MapsTo(Keys, UNION {ObjectsOf[t] : t \in Types})] :
        \A t \in Types : d[t] \in MapsTo(Keys, ObjectsOf[t])}

(* Maps are functions ... *)
LEMMA MapFacts ==
    ASSUME NEW D, NEW S, NEW f \in MapsTo(D, S)
    PROVE  /\ DOMAIN f \subseteq D /\ \A x \in DOMAIN f : f[x] \in S
           /\ f = [x \in DOMAIN f |-> f[x]]
<1>1. PICK E \in SUBSET D : f \in [E -> S]
  BY DEF MapsTo
<1> QED
  BY <1>1

(* ... that stay maps when something is added ... *)
LEMMA PutClosed ==
    ASSUME NEW D, NEW S, NEW f \in MapsTo(D, S), NEW x \in D, NEW v \in S
    PROVE  Put(f, x, v) \in MapsTo(D, S)
<1>1. DOMAIN f \subseteq D /\ \A z \in DOMAIN f : f[z] \in S
  BY MapFacts
<1>2. Put(f, x, v) \in [DOMAIN f \cup {x} -> S] /\ DOMAIN f \cup {x} \in SUBSET D
  BY <1>1 DEF Put
<1> QED
  BY <1>2 DEF MapsTo

(* ... or taken out. *)
LEMMA DropClosed ==
    ASSUME NEW D, NEW S, NEW f \in MapsTo(D, S), NEW x
    PROVE  Drop(f, x) \in MapsTo(D, S)
<1>1. DOMAIN f \subseteq D /\ \A z \in DOMAIN f : f[z] \in S
  BY MapFacts
<1>2. Drop(f, x) \in [DOMAIN f \ {x} -> S] /\ DOMAIN f \ {x} \in SUBSET D
  BY <1>1 DEF Drop, Restrict
<1> QED
  BY <1>2 DEF MapsTo

LEMMA CacheFacts ==
    ASSUME NEW d \in Caches
    PROVE  /\ DOMAIN d = Types
           /\ \A t \in Types : /\ d[t] \in MapsTo(Keys, ObjectsOf[t])
                               /\ DOMAIN d[t] \subseteq Keys
                               /\ \A k \in DOMAIN d[t] : d[t][k] \in ObjectsOf[t]
<1>1. DOMAIN d = Types /\ \A t \in Types : d[t] \in MapsTo(Keys, ObjectsOf[t])
  BY DEF Caches
<1>2. ASSUME NEW t \in Types
      PROVE  /\ d[t] \in MapsTo(Keys, ObjectsOf[t])
             /\ DOMAIN d[t] \subseteq Keys
             /\ \A k \in DOMAIN d[t] : d[t][k] \in ObjectsOf[t]
  <2>1. d[t] \in MapsTo(Keys, ObjectsOf[t])
    BY <1>1
  <2> QED
    BY <2>1, MapFacts
<1> QED
  BY <1>1, <1>2

(* A cache with another map in it. *)
LEMMA CacheClosed ==
    ASSUME NEW d \in Caches, NEW t \in Types, NEW m \in MapsTo(Keys, ObjectsOf[t])
    PROVE  [d EXCEPT ![t] = m] \in Caches
<1> DEFINE All == UNION {ObjectsOf[u] : u \in Types}
           e == [d EXCEPT ![t] = m]
<1>1. m \in MapsTo(Keys, All)
  <2>1. PICK E \in SUBSET Keys : m \in [E -> ObjectsOf[t]]
    BY DEF MapsTo
  <2>2. ObjectsOf[t] \subseteq All
    OBVIOUS
  <2> HIDE DEF All
  <2>3. m \in [E -> All]
    BY <2>1, <2>2
  <2> QED
    BY <2>3 DEF MapsTo
<1>2. d \in [Types -> MapsTo(Keys, All)] /\ \A u \in Types : d[u] \in MapsTo(Keys, ObjectsOf[u])
  BY DEF Caches
<1> HIDE DEF All
<1>3. e \in [Types -> MapsTo(Keys, All)]
  BY <1>1, <1>2
<1>4. \A u \in Types : e[u] \in MapsTo(Keys, ObjectsOf[u])
  BY <1>2
<1> HIDE DEF e
<1> QED
  BY <1>3, <1>4 DEF Caches, All, e

LEMMA StoreClosed ==
    ASSUME NEW d \in Caches, NEW t \in Types, NEW k \in Keys, NEW o \in ObjectsOf[t]
    PROVE  Store(d, t, k, o) \in Caches
<1>1. Put(d[t], k, o) \in MapsTo(Keys, ObjectsOf[t])
  BY CacheFacts, PutClosed
<1>2. [d EXCEPT ![t] = Put(d[t], k, o)] \in Caches
  BY <1>1, CacheClosed
<1> QED
  BY <1>2 DEF Store

LEMMA EmptyIsCache == EmptyDB \in Caches
<1> DEFINE All == UNION {ObjectsOf[u] : u \in Types}
<1>1. \A S : <<>> \in MapsTo(Keys, S)
  <2> SUFFICES ASSUME NEW S
               PROVE  <<>> \in MapsTo(Keys, S)
    OBVIOUS
  <2>1. <<>> \in [{} -> S]
    OBVIOUS
  <2>2. {} \in SUBSET Keys
    OBVIOUS
  <2> QED
    BY <2>1, <2>2 DEF MapsTo
<1>2. EmptyDB \in [Types -> {<<>>}]
  BY DEF EmptyDB, Types
<1>3. \A t \in Types : EmptyDB[t] = <<>>
  BY <1>2
<1>4. EmptyDB \in [Types -> MapsTo(Keys, All)]
  <2> HIDE DEF All
  <2> QED
    BY <1>1, <1>2
<1> QED
  BY <1>1, <1>3, <1>4 DEF Caches

(* The object that a command finds or creates. *)
Object(d, t, k) == IF k \in DOMAIN d[t] THEN d[t][k] ELSE NewObject[t]

LEMMA ObjectFound ==
    ASSUME NEW d, DOMAIN d = Types, NEW t \in Types, NEW k
    PROVE  GetOrCreate(d, t, k)[t][k] = Object(d, t, k)
  BY DEF GetOrCreate, Object, Store, Put

LEMMA ObjectType ==
    ASSUME NEW d \in Caches, NEW t \in ObjectTypes, NEW k
    PROVE  Object(d, t, k) \in ObjectsOf[t]
<1>1. t \in Types
  BY DEF ObjectTypes, Types
<1>2. CASE k \in DOMAIN d[t]
  BY <1>1, <1>2, CacheFacts DEF Object
<1>3. CASE k \notin DOMAIN d[t]
  <2>1. \A D, S : <<>> \in MapsTo(D, S)
    <3> SUFFICES ASSUME NEW D, NEW S
                 PROVE  <<>> \in MapsTo(D, S)
      OBVIOUS
    <3>1. <<>> \in [{} -> S] /\ {} \in SUBSET D
      OBVIOUS
    <3> QED
      BY <3>1 DEF MapsTo
  <2>2. <<>> \in Seq(Values) /\ {} \in SUBSET Members
    OBVIOUS
  <2>3. NewObject[t] \in ObjectsOf[t]
    <3>1. NewObject["hash"] = <<>> /\ NewObject["list"] = <<>>
          /\ NewObject["set"] = {} /\ NewObject["zset"] = <<>>
      BY DEF NewObject
    <3>2. CASE t \in {"list", "set"}
      BY <2>2, <3>1, <3>2, ObjectsOfTypes
    <3>3. CASE t = "hash"
      BY <2>1, <3>1, <3>3, ObjectsOfTypes
    <3>4. CASE t = "zset"
      BY <2>1, <3>1, <3>4, ObjectsOfTypes
    <3> QED
      BY <3>2, <3>3, <3>4 DEF ObjectTypes
  <2> QED
    BY <1>3, <2>3 DEF Object
<1> QED
  BY <1>2, <1>3

(* The commands that replay and handlers work through argument by argument. *)
Loops == {"HSET", "HDEL", "ZADD", "ZREM", "DEL"} \cup Storing

ReplayedItem(cmd, i) ==
    [val |-> cmd.args[i][2],
     ttl |-> IF cmd.op = "SET" /\ cmd.opt = "EX" THEN "EX" ELSE "none"]

(* What one argument does. *)
LEMMA ReplayArgIs ==
    ASSUME NEW d, DOMAIN d = Types, NEW cmd, NEW i,
           NEW k, k = cmd.key, NEW arg, arg = cmd.args[i]
    PROVE  /\ cmd.op = "HSET" => ReplayArg(d, cmd, i) =
                  Store(d, "hash", k, Put(Object(d, "hash", k), arg[1], arg[2]))
           /\ cmd.op = "HDEL" => ReplayArg(d, cmd, i) =
                  IF k \in DOMAIN d["hash"]
                  THEN Store(d, "hash", k, Drop(Object(d, "hash", k), arg)) ELSE d
           /\ cmd.op = "ZADD" => ReplayArg(d, cmd, i) =
                  Store(d, "zset", k, Put(Object(d, "zset", k), arg[2], arg[1]))
           /\ cmd.op = "ZREM" => ReplayArg(d, cmd, i) =
                  IF k \in DOMAIN d["zset"]
                  THEN Store(d, "zset", k, Drop(Object(d, "zset", k), arg)) ELSE d
           /\ cmd.op \in Storing => ReplayArg(d, cmd, i) =
                  Store(d, "str", arg[1], ReplayedItem(cmd, i))
           /\ cmd.op = "DEL" => ReplayArg(d, cmd, i) = Delete(d, arg)
           /\ cmd.op \notin Loops => ReplayArg(d, cmd, i) = d
<1>1. "hash" \in Types /\ "zset" \in Types
  BY DEF Types
<1>2. GetOrCreate(d, "hash", k)["hash"][k] = Object(d, "hash", k)
  BY <1>1, ObjectFound
<1>3. GetOrCreate(d, "zset", k)["zset"][k] = Object(d, "zset", k)
  BY <1>1, ObjectFound
<1>4. CASE cmd.op \in {"HSET", "HDEL"}
  <2>1. ReplayArg(d, cmd, i) = ReplayHash(d, cmd, arg)
    BY <1>4 DEF ReplayArg
  <2> QED
    BY <1>2, <1>4, <2>1 DEF ReplayHash, Storing, Loops
<1>5. CASE cmd.op \in {"ZADD", "ZREM"}
  <2>1. ReplayArg(d, cmd, i) = ReplaySortedSet(d, cmd, arg)
    BY <1>5 DEF ReplayArg
  <2> QED
    BY <1>3, <1>5, <2>1 DEF ReplaySortedSet, Storing, Loops
<1>6. CASE cmd.op \notin {"HSET", "HDEL", "ZADD", "ZREM"}
  <2>1. ReplayArg(d, cmd, i) = ReplayString(d, cmd, i)
    BY <1>6 DEF ReplayArg
  <2>2. PICK item : item = [NewItem(cmd, i) EXCEPT !.ttl = IF @ = "EX" THEN "EX" ELSE "none"]
    OBVIOUS
  <2>3. CASE cmd.op \in Storing
    <3>1. ReplayString(d, cmd, i) = SetItem(d, arg[1], item)
      BY <2>2, <2>3 DEF ReplayString, Storing
    <3>2. item = ReplayedItem(cmd, i)
      BY <2>2 DEF NewItem, ReplayedItem
    <3>3. ReplayArg(d, cmd, i) = Store(d, "str", arg[1], ReplayedItem(cmd, i))
      BY <2>1, <3>1, <3>2 DEF SetItem
    <3> QED
      BY <1>6, <2>3, <3>3 DEF Storing, Loops
  <2>4. CASE cmd.op \notin Storing
    BY <1>6, <2>1, <2>4 DEF ReplayString, Loops
  <2> QED
    BY <2>3, <2>4
<1> QED
  BY <1>4, <1>5, <1>6

(* The arguments of a command that works through them. *)
LEMMA LoopArgs ==
    ASSUME NEW cmd \in Commands, NEW i \in DOMAIN cmd.args, NEW arg, arg = cmd.args[i]
    PROVE  /\ cmd.op = "HSET" => arg[1] \in Members /\ arg[2] \in Values
           /\ cmd.op = "ZADD" => arg[1] \in Int \cup {BadScore} /\ arg[2] \in Members
           /\ cmd.op \in {"HDEL", "ZREM"} => arg \in Members
           /\ cmd.op \in Storing => /\ arg[1] \in Keys /\ arg[1] \in KeysOf(cmd)
                                    /\ arg[2] \in Seq(Values)
           /\ cmd.op = "DEL" => arg \in Keys /\ arg \in KeysOf(cmd)
<1>1. cmd.args \in ArgsOf(cmd.op)
  BY CommandAssumption DEF Commands
<1>2. ASSUME NEW S, cmd.args \in Seq(S)
      PROVE  arg \in S
  BY <1>2, LenProperties
<1>3. cmd.op = "HSET" => arg \in Members \X Values
  BY <1>1, <1>2, ArgsOfOps
<1>4. cmd.op = "ZADD" => arg \in (Int \cup {BadScore}) \X Members
  BY <1>1, <1>2, ArgsOfOps
<1>5. cmd.op \in {"HDEL", "ZREM"} => arg \in Members
  BY <1>1, <1>2, ArgsOfOps
<1>6. cmd.op \in Storing => arg \in Keys \X Seq(Values) /\ arg[1] \in KeysOf(cmd)
  BY <1>1, <1>2, ArgsOfOps, KeysOfOps
<1>7. cmd.op = "DEL" => arg \in Keys /\ arg \in KeysOf(cmd)
  <2> SUFFICES ASSUME cmd.op = "DEL"
               PROVE  arg \in Keys /\ arg \in KeysOf(cmd)
    OBVIOUS
  <2>1. arg \in Keys
    BY <1>1, <1>2, ArgsOfOps
  <2>2. arg \in ToSet(cmd.args)
    BY DEF ToSet
  <2> QED
    BY <2>1, <2>2, KeysOfOps
<1> QED
  BY <1>3, <1>4, <1>5, <1>6, <1>7

(* An argument makes a cache of a cache. *)
LEMMA ReplayArgType ==
    ASSUME NEW d \in Caches, NEW cmd \in Commands, NEW i \in DOMAIN cmd.args
    PROVE  ReplayArg(d, cmd, i) \in Caches
<1>1. DOMAIN d = Types /\ cmd.key \in Keys /\ "hash" \in ObjectTypes /\ "zset" \in ObjectTypes
      /\ "hash" \in Types /\ "zset" \in Types /\ "str" \in Types
      /\ cmd.opt \in {"none", "EX", "PX"}
  BY CacheFacts, CommandAssumption DEF Commands, Types, ObjectTypes
<1>2. PICK k \in Keys, arg \in {cmd.args[i]} : k = cmd.key
  BY <1>1
<1> DEFINE h == Object(d, "hash", k)
           z == Object(d, "zset", k)
<1>3. h \in MapsTo(Members, Values) /\ z \in MapsTo(Members, Int \cup {BadScore})
  BY <1>1, ObjectType, ObjectsOfTypes
<1> HIDE DEF h, z
<1>4. CASE cmd.op = "HSET"
  <2>1. arg[1] \in Members /\ arg[2] \in Values
    BY <1>2, <1>4, LoopArgs
  <2>2. Put(h, arg[1], arg[2]) \in MapsTo(Members, Values)
    BY <1>3, <2>1, PutClosed
  <2>3. Put(h, arg[1], arg[2]) \in ObjectsOf["hash"]
    BY <2>2, ObjectsOfTypes
  <2> QED
    BY <1>1, <1>2, <1>4, <2>3, StoreClosed, ReplayArgIs DEF h
<1>5. CASE cmd.op = "HDEL"
  <2>1. Drop(h, arg) \in MapsTo(Members, Values)
    BY <1>3, DropClosed
  <2>2. Drop(h, arg) \in ObjectsOf["hash"]
    BY <2>1, ObjectsOfTypes
  <2> QED
    BY <1>1, <1>2, <1>5, <2>2, StoreClosed, ReplayArgIs DEF h
<1>6. CASE cmd.op = "ZADD"
  <2>1. arg[2] \in Members /\ arg[1] \in Int \cup {BadScore}
    BY <1>2, <1>6, LoopArgs
  <2>2. Put(z, arg[2], arg[1]) \in MapsTo(Members, Int \cup {BadScore})
    BY <1>3, <2>1, PutClosed
  <2>3. Put(z, arg[2], arg[1]) \in ObjectsOf["zset"]
    BY <2>2, ObjectsOfTypes
  <2> QED
    BY <1>1, <1>2, <1>6, <2>3, StoreClosed, ReplayArgIs DEF z
<1>7. CASE cmd.op = "ZREM"
  <2>1. Drop(z, arg) \in MapsTo(Members, Int \cup {BadScore})
    BY <1>3, DropClosed
  <2>2. Drop(z, arg) \in ObjectsOf["zset"]
    BY <2>1, ObjectsOfTypes
  <2> QED
    BY <1>1, <1>2, <1>7, <2>2, StoreClosed, ReplayArgIs DEF z
<1>8. CASE cmd.op \in Storing
  <2>1. arg[1] \in Keys /\ arg[2] \in Seq(Values)
    BY <1>2, <1>8, LoopArgs
  <2>2. ReplayedItem(cmd, i) \in ObjectsOf["str"]
    BY <1>2, <2>1, ObjectsOfTypes DEF ReplayedItem
  <2> QED
    BY <1>1, <1>2, <1>8, <2>1, <2>2, StoreClosed, ReplayArgIs
<1>9. CASE cmd.op = "DEL"
  <2>1. d["str"] \in MapsTo(Keys, ObjectsOf["str"])
    BY <1>1, CacheFacts
  <2>3. Drop(d["str"], arg) \in MapsTo(Keys, ObjectsOf["str"])
    BY <2>1, DropClosed
  <2>4. [d EXCEPT !["str"] = Drop(d["str"], arg)] \in Caches
    BY <1>1, <2>3, CacheClosed
  <2>5. Delete(d, arg) \in Caches
    BY <2>4 DEF Delete
  <2> QED
    BY <1>1, <1>2, <1>9, <2>5, ReplayArgIs
<1>10. CASE cmd.op \notin Loops
  BY <1>1, <1>2, <1>10, ReplayArgIs
<1> QED
  BY <1>4, <1>5, <1>6, <1>7, <1>8, <1>9, <1>10 DEF Loops

(* FoldLeft takes the positions of a sequence from the last one down. *)
LEMMA MaxPicksLast ==
    ASSUME NEW n \in Nat
    PROVE  PicksLast([s \in SUBSET (1 .. n) |-> Max(s)], n)
<1> SUFFICES ASSUME NEW s \in SUBSET (1 .. n), s # {}
             PROVE  Max(s) \in s /\ \A x \in s : x <= Max(s)
  BY DEF PicksLast
<1>1. PICK m \in s : \A x \in s : x <= m
  BY GreatestNat
<1>2. m \in Int /\ \A x \in s : x \in Int /\ m >= x
  BY <1>1
<1>3. Max(s) \in s /\ \A x \in s : Max(s) >= x
  BY <1>2 DEF Max
<1> QED
  BY <1>2, <1>3

(* acc goes through the first n arguments of a command, beginning with d. *)
GoesThrough(acc, d, cmd, n) ==
    /\ acc[0] = d
    /\ \A i \in 1 .. n : acc[i] = ReplayArg(acc[i - 1], cmd, i)

(* The loop over the arguments is such a chain of caches. *)
LEMMA ArgsChain ==
    ASSUME NEW d \in Caches, NEW cmd \in Commands, NEW n \in Nat,
           1 .. n \subseteq DOMAIN cmd.args
    PROVE  \E acc : GoesThrough(acc, d, cmd, n) /\ ReplayArgs(d, cmd, n) = acc[n]
<1> DEFINE D == 1 .. n
           seq == [i \in D |-> i]
           ch == [s \in SUBSET D |-> Max(s)]
           step == [i \in D |-> [b \in Caches |-> ReplayArg(b, cmd, i)]]
           body(g) == [s \in SUBSET DOMAIN seq |->
                          IF s = {} THEN d
                          ELSE LET x == Max(s)
                               IN  ReplayArg(g[s \ {x}], cmd, seq[x])]
           iter == CHOOSE g : g = body(g)
<1>1. DOMAIN seq = D /\ \A i \in D : seq[i] = i
  OBVIOUS
<1>2. PicksLast(ch, n) /\ \A s \in SUBSET D : ch[s] = Max(s)
  BY MaxPicksLast
<1>3. step \in [D -> [Caches -> Caches]]
  BY ReplayArgType
<1>4. \A i \in D : \A b \in Caches : step[i][b] = ReplayArg(b, cmd, i)
  OBVIOUS
<1>5. ReplayArgs(d, cmd, n) = iter[D]
  BY <1>1 DEF ReplayArgs, FoldLeft, MapThenFoldSet
<1> HIDE DEF seq, ch, step
<1>6. PICK g : Folds(g, D, Caches, d, ch, step)
  <2>1. D = 1 .. n
    OBVIOUS
  <2> HIDE DEF D
  <2> QED
    BY <1>2, <1>3, <2>1, FoldExists
<1>7. ASSUME NEW s \in SUBSET D
      PROVE  g[s] = IF s = {} THEN d ELSE ReplayArg(g[s \ {Max(s)}], cmd, seq[Max(s)])
  <2>1. CASE s = {}
    BY <1>6, <2>1 DEF Folds
  <2>2. CASE s # {}
    <3>1. PICK x : x = Max(s)
      OBVIOUS
    <3>2. ch[s] = x
      BY <1>2, <3>1
    <3>3. x \in D /\ g[s \ {x}] \in Caches /\ g[s] = step[x][g[s \ {x}]]
      BY <1>6, <2>2, <3>2 DEF Folds
    <3>4. g[s] = ReplayArg(g[s \ {x}], cmd, x) /\ seq[x] = x
      BY <1>1, <1>4, <3>3
    <3> QED
      BY <2>2, <3>1, <3>4
  <2> QED
    BY <2>1, <2>2
<1>8. g = body(g)
  <2>1. \E S : g \in [SUBSET D -> S]
    BY <1>6 DEF Folds
  <2> QED
    BY <1>1, <1>7, <2>1
<1>9. iter = body(iter)
  <2> HIDE DEF body
  <2> QED
    BY <1>8
<1>10. {} \in SUBSET D
  OBVIOUS
<1>11. iter[{}] = d
  BY <1>1, <1>9, <1>10
<1>12. ASSUME NEW i \in 1 .. n
       PROVE  iter[1 .. i] = ReplayArg(iter[1 .. (i - 1)], cmd, i)
  <2>0. PICK s : s = 1 .. i
    OBVIOUS
  <2>1. /\ s \in SUBSET D /\ s # {}
        /\ ch[s] = i /\ s \ {i} = 1 .. (i - 1)
    BY <1>2, <2>0, PrefixEnds
  <2>2. Max(s) = i
    BY <1>2, <2>1
  <2>3. iter[s] = ReplayArg(iter[s \ {Max(s)}], cmd, seq[Max(s)])
    BY <1>1, <1>9, <2>1
  <2> QED
    BY <1>1, <2>0, <2>1, <2>2, <2>3
<1> HIDE DEF iter, body
<1> DEFINE acc == [i \in 0 .. n |-> iter[1 .. i]]
<1>13. \A i \in 0 .. n : acc[i] = iter[1 .. i]
  OBVIOUS
<1>14. 1 .. 0 = {} /\ 0 \in 0 .. n /\ n \in 0 .. n
       /\ \A i \in 1 .. n : i \in 0 .. n /\ i - 1 \in 0 .. n
  OBVIOUS
<1> HIDE DEF acc
<1>15. GoesThrough(acc, d, cmd, n) /\ ReplayArgs(d, cmd, n) = acc[n]
  BY <1>5, <1>11, <1>12, <1>13, <1>14 DEF GoesThrough
<1> QED
  BY <1>15

(* Two chains that begin alike are alike, and they consist of caches. *)
LEMMA ChainsAgree ==
    ASSUME NEW d \in Caches, NEW cmd \in Commands, NEW n \in Nat, NEW m \in Nat, n <= m,
           1 .. m \subseteq DOMAIN cmd.args,
           NEW acc, GoesThrough(acc, d, cmd, n), NEW bcc, GoesThrough(bcc, d, cmd, m)
    PROVE  acc[n] = bcc[n] /\ bcc[n] \in Caches
<1> DEFINE S == {i \in Nat : i <= n => acc[i] = bcc[i] /\ bcc[i] \in Caches}
<1>1. 0 \in S
  BY DEF GoesThrough
<1>2. ASSUME NEW i \in Nat, i \in S
      PROVE  i + 1 \in S
  <2> SUFFICES ASSUME i + 1 <= n
               PROVE  acc[i + 1] = bcc[i + 1] /\ bcc[i + 1] \in Caches
    OBVIOUS
  <2>1. i + 1 \in 1 .. n /\ i + 1 \in 1 .. m /\ (i + 1) - 1 = i /\ i <= n
    OBVIOUS
  <2>2. acc[i + 1] = ReplayArg(acc[i], cmd, i + 1) /\ bcc[i + 1] = ReplayArg(bcc[i], cmd, i + 1)
    BY <2>1 DEF GoesThrough
  <2>3. acc[i] = bcc[i] /\ bcc[i] \in Caches /\ i + 1 \in DOMAIN cmd.args
    BY <1>2, <2>1
  <2> QED
    BY <2>2, <2>3, ReplayArgType
<1>3. \A i \in Nat : i \in S
  <2> HIDE DEF S
  <2> QED
    BY <1>1, <1>2, NatSetInduction
<1>4. n \in S
  BY <1>3
<1> QED
  BY <1>4

(* The loop, argument by argument. *)
LEMMA ReplayArgsSteps ==
    ASSUME NEW d \in Caches, NEW cmd \in Commands
    PROVE  /\ ReplayArgs(d, cmd, 0) = d
           /\ \A n \in 0 .. Len(cmd.args) : ReplayArgs(d, cmd, n) \in Caches
           /\ \A n \in 1 .. Len(cmd.args) :
                  ReplayArgs(d, cmd, n) = ReplayArg(ReplayArgs(d, cmd, n - 1), cmd, n)
<1>1. Len(cmd.args) \in Nat /\ DOMAIN cmd.args = 1 .. Len(cmd.args)
  BY CommandAssumption, ArgsAreSequences DEF Commands
<1>2. ASSUME NEW n \in 0 .. Len(cmd.args)
      PROVE  /\ n \in Nat /\ 1 .. n \subseteq DOMAIN cmd.args
             /\ \E acc : GoesThrough(acc, d, cmd, n) /\ ReplayArgs(d, cmd, n) = acc[n]
  <2>1. n \in Nat /\ 1 .. n \subseteq DOMAIN cmd.args
    BY <1>1
  <2> QED
    BY <2>1, ArgsChain
<1>3. ReplayArgs(d, cmd, 0) = d
  <2>1. 0 \in 0 .. Len(cmd.args)
    BY <1>1
  <2> QED
    BY <1>2, <2>1 DEF GoesThrough
<1>4. ASSUME NEW n \in 0 .. Len(cmd.args)
      PROVE  ReplayArgs(d, cmd, n) \in Caches
  <2>1. PICK acc : GoesThrough(acc, d, cmd, n) /\ ReplayArgs(d, cmd, n) = acc[n]
    BY <1>2
  <2>2. n \in Nat /\ 1 .. n \subseteq DOMAIN cmd.args /\ n <= n
    BY <1>2
  <2>3. acc[n] \in Caches
    BY <2>1, <2>2, ChainsAgree
  <2> QED
    BY <2>1, <2>3
<1>5. ASSUME NEW n \in 1 .. Len(cmd.args)
      PROVE  ReplayArgs(d, cmd, n) = ReplayArg(ReplayArgs(d, cmd, n - 1), cmd, n)
  <2>1. PICK m : m = n - 1
    OBVIOUS
  <2>2. m \in 0 .. Len(cmd.args) /\ n \in 0 .. Len(cmd.args) /\ m <= n /\ n \in 1 .. n
    BY <1>1, <2>1
  <2>3. m \in Nat /\ n \in Nat /\ 1 .. n \subseteq DOMAIN cmd.args
    BY <1>2, <2>2
  <2>4. PICK acc : GoesThrough(acc, d, cmd, m) /\ ReplayArgs(d, cmd, m) = acc[m]
    BY <1>2, <2>2
  <2>5. PICK bcc : GoesThrough(bcc, d, cmd, n) /\ ReplayArgs(d, cmd, n) = bcc[n]
    BY <1>2, <2>2
  <2>6. acc[m] = bcc[m]
    BY <2>2, <2>3, <2>4, <2>5, ChainsAgree
  <2>7. bcc[n] = ReplayArg(bcc[m], cmd, n)
    BY <2>1, <2>2, <2>5 DEF GoesThrough
  <2> QED
    BY <2>1, <2>4, <2>5, <2>6, <2>7
<1> QED
  BY <1>3, <1>4, <1>5

-----------------------------------------------------------------------------
(* What a key shows: the object that a command would find or create, or the
   string, as a sequence of at most one item. *)
View(d, t, k) ==
    IF t = "str" THEN (IF k \in DOMAIN d["str"] THEN <<d["str"][k]>> ELSE <<>>)
    ELSE Object(d, t, k)

(* Two caches show the same at key k. *)
Alike(d, e, k) == \A t \in Types : View(d, t, k) = View(e, t, k)

(* e shows what d shows but for v, of type t at key k. *)
Sets(d, e, t, k, v) ==
    /\ DOMAIN e = Types
    /\ \A u \in Types, j \in Keys :
           View(e, u, j) = IF u = t /\ j = k THEN v ELSE View(d, u, j)

LEMMA AlikeIsEquivalence ==
    ASSUME NEW k
    PROVE  /\ \A d : Alike(d, d, k)
           /\ \A d, e : Alike(d, e, k) => Alike(e, d, k)
           /\ \A d, e, f : Alike(d, e, k) /\ Alike(e, f, k) => Alike(d, f, k)
  BY DEF Alike

(* Storing an object ... *)
LEMMA StoreSets ==
    ASSUME NEW d, DOMAIN d = Types, NEW t \in ObjectTypes, NEW k, NEW o
    PROVE  Sets(d, Store(d, t, k, o), t, k, o)
<1> DEFINE e == Store(d, t, k, o)
<1>1. t \in Types /\ t # "str"
  BY DEF ObjectTypes, Types
<1>2. DOMAIN e = Types /\ e[t] = Put(d[t], k, o) /\ \A u \in Types : u # t => e[u] = d[u]
  BY <1>1 DEF Store
<1> HIDE DEF e
<1>3. /\ DOMAIN e[t] = DOMAIN d[t] \cup {k} /\ e[t][k] = o
      /\ \A j \in DOMAIN d[t] : j # k => e[t][j] = d[t][j]
  <2>1. PICK m : m = d[t]
    OBVIOUS
  <2>2. e[t] = Put(m, k, o)
    BY <1>2, <2>1
  <2> QED
    BY <2>1, <2>2 DEF Put
<1>4. ASSUME NEW u \in Types, NEW j
      PROVE  View(e, u, j) = IF u = t /\ j = k THEN o ELSE View(d, u, j)
  <2>1. CASE u # t
    BY <1>1, <1>2, <2>1 DEF View, Object, Types
  <2>2. CASE u = t /\ j = k
    BY <1>1, <1>3, <2>2 DEF View, Object
  <2>3. CASE u = t /\ j # k
    BY <1>1, <1>3, <2>3 DEF View, Object
  <2> QED
    BY <2>1, <2>2, <2>3
<1> QED
  BY <1>2, <1>4 DEF Sets, e

(* ... or a string ... *)
LEMMA SetItemSets ==
    ASSUME NEW d, DOMAIN d = Types, NEW k, NEW o
    PROVE  Sets(d, Store(d, "str", k, o), "str", k, <<o>>)
<1> DEFINE e == Store(d, "str", k, o)
<1>1. "str" \in Types
  BY DEF Types
<1>2. DOMAIN e = Types /\ e["str"] = Put(d["str"], k, o)
      /\ \A u \in Types : u # "str" => e[u] = d[u]
  BY <1>1 DEF Store
<1> HIDE DEF e
<1>3. /\ DOMAIN e["str"] = DOMAIN d["str"] \cup {k} /\ e["str"][k] = o
      /\ \A j \in DOMAIN d["str"] : j # k => e["str"][j] = d["str"][j]
  <2>1. PICK m : m = d["str"]
    OBVIOUS
  <2>2. e["str"] = Put(m, k, o)
    BY <1>2, <2>1
  <2> QED
    BY <2>1, <2>2 DEF Put
<1>4. ASSUME NEW u \in Types, NEW j
      PROVE  View(e, u, j) = IF u = "str" /\ j = k THEN <<o>> ELSE View(d, u, j)
  <2>1. CASE u # "str"
    BY <1>2, <2>1 DEF View, Object
  <2>2. CASE u = "str" /\ j = k
    BY <1>3, <2>2 DEF View
  <2>3. CASE u = "str" /\ j # k
    BY <1>3, <2>3 DEF View
  <2> QED
    BY <2>1, <2>2, <2>3
<1> QED
  BY <1>2, <1>4 DEF Sets, e

(* ... or deleting one shows at its key only; ... *)
LEMMA DeleteSets ==
    ASSUME NEW d, DOMAIN d = Types, NEW k
    PROVE  Sets(d, Delete(d, k), "str", k, <<>>)
<1> DEFINE e == Delete(d, k)
<1>1. "str" \in Types
  BY DEF Types
<1>2. DOMAIN e = Types /\ e["str"] = Drop(d["str"], k)
      /\ \A u \in Types : u # "str" => e[u] = d[u]
  BY <1>1 DEF Delete
<1> HIDE DEF e
<1>3. /\ DOMAIN e["str"] = DOMAIN d["str"] \ {k}
      /\ \A j \in DOMAIN d["str"] : j # k => e["str"][j] = d["str"][j]
  <2>1. PICK m : m = d["str"]
    OBVIOUS
  <2>2. e["str"] = Drop(m, k)
    BY <1>2, <2>1
  <2> QED
    BY <2>1, <2>2 DEF Drop, Restrict
<1>4. ASSUME NEW u \in Types, NEW j
      PROVE  View(e, u, j) = IF u = "str" /\ j = k THEN <<>> ELSE View(d, u, j)
  <2>1. CASE u # "str"
    BY <1>2, <2>1 DEF View, Object
  <2>2. CASE u = "str" /\ j = k
    BY <1>3, <2>2 DEF View
  <2>3. CASE u = "str" /\ j # k
    BY <1>3, <2>3 DEF View
  <2> QED
    BY <2>1, <2>2, <2>3
<1> QED
  BY <1>2, <1>4 DEF Sets, e

(* ... and leaving a cache alone sets what is there. *)
LEMMA NothingSets ==
    ASSUME NEW d, DOMAIN d = Types, NEW t, NEW k, NEW v, v = View(d, t, k)
    PROVE  Sets(d, d, t, k, v)
  BY DEF Sets

(* Caches that are alike at k stay so when the same is set in both. *)
LEMMA SetsAlike ==
    ASSUME NEW d, NEW e, NEW f, NEW g, NEW t, NEW j, NEW v, NEW w, NEW k \in Keys,
           Sets(d, f, t, j, v), Sets(e, g, t, j, w), Alike(d, e, k), j = k => v = w
    PROVE  Alike(f, g, k)
  BY DEF Sets, Alike

(* Nothing changes at another key. *)
LEMMA SetsElsewhere ==
    ASSUME NEW d, NEW e, NEW t, NEW j, NEW v, NEW k \in Keys, Sets(d, e, t, j, v), j # k
    PROVE  Alike(d, e, k)
  BY DEF Sets, Alike

(* The commands that replay and handlers carry out in one call of the object. *)
Whole == {"LPUSH", "RPUSH", "LPOP", "RPOP", "SADD", "SREM"}

(* The key that argument i of a command changes ... *)
Target(cmd, i) ==
    IF cmd.op \in Storing THEN cmd.args[i][1]
    ELSE IF cmd.op = "DEL" THEN cmd.args[i] ELSE cmd.key

(* ... and what it makes of v there. *)
Changed(cmd, v, i) ==
    CASE cmd.op = "HSET" -> Put(v, cmd.args[i][1], cmd.args[i][2])
      [] cmd.op = "ZADD" -> Put(v, cmd.args[i][2], cmd.args[i][1])
      [] cmd.op \in {"HDEL", "ZREM"} -> Drop(v, cmd.args[i])
      [] cmd.op = "LPUSH" -> LPush(v, cmd.args)
      [] cmd.op = "RPUSH" -> RPush(v, cmd.args)
      [] cmd.op = "LPOP" -> IF v = <<>> THEN v ELSE LPop(v).rest
      [] cmd.op = "RPOP" -> IF v = <<>> THEN v ELSE RPop(v).rest
      [] cmd.op = "SADD" -> SetAdd(v, cmd.args).set
      [] cmd.op = "SREM" -> SetRemove(v, cmd.args).set
      [] cmd.op \in {"SET", "MSET", "MSETNX"} -> <<ReplayedItem(cmd, i)>>
      [] OTHER -> <<>>

(* A field taken out of nothing leaves nothing. *)
LEMMA DropFromNew ==
    ASSUME NEW x
    PROVE  Drop(<<>>, x) = <<>>
<1>1. DOMAIN <<>> = {}
  OBVIOUS
<1>2. Drop(<<>>, x) = [y \in {} |-> <<>>[y]]
  BY <1>1 DEF Drop, Restrict
<1> QED
  BY <1>2

(* Replay of one argument. *)
LEMMA ArgSets ==
    ASSUME NEW d, DOMAIN d = Types, NEW cmd, cmd.op \in Loops, NEW i,
           NEW t, t = TypeOf(cmd.op), NEW k, k = Target(cmd, i)
    PROVE  Sets(d, ReplayArg(d, cmd, i), t, k, Changed(cmd, View(d, t, k), i))
<1>1. PICK arg : arg = cmd.args[i]
  OBVIOUS
<1>2. PICK j : j = cmd.key
  OBVIOUS
<1>3. /\ cmd.op = "HSET" => ReplayArg(d, cmd, i) =
             Store(d, "hash", j, Put(Object(d, "hash", j), arg[1], arg[2]))
      /\ cmd.op = "HDEL" => ReplayArg(d, cmd, i) =
             IF j \in DOMAIN d["hash"]
             THEN Store(d, "hash", j, Drop(Object(d, "hash", j), arg)) ELSE d
      /\ cmd.op = "ZADD" => ReplayArg(d, cmd, i) =
             Store(d, "zset", j, Put(Object(d, "zset", j), arg[2], arg[1]))
      /\ cmd.op = "ZREM" => ReplayArg(d, cmd, i) =
             IF j \in DOMAIN d["zset"]
             THEN Store(d, "zset", j, Drop(Object(d, "zset", j), arg)) ELSE d
      /\ cmd.op \in Storing => ReplayArg(d, cmd, i) =
             Store(d, "str", arg[1], ReplayedItem(cmd, i))
      /\ cmd.op = "DEL" => ReplayArg(d, cmd, i) = Delete(d, arg)
  BY <1>1, <1>2, ReplayArgIs
<1>4. /\ "hash" \in ObjectTypes /\ "zset" \in ObjectTypes
      /\ \A h : View(d, "hash", h) = Object(d, "hash", h)
      /\ \A h : View(d, "zset", h) = Object(d, "zset", h)
      /\ NewObject["hash"] = <<>> /\ NewObject["zset"] = <<>>
  BY DEF View, ObjectTypes, NewObject
<1>5. cmd.op \in {"HSET", "HDEL", "ZADD", "ZREM"} => k = j
  BY <1>2 DEF Target, Storing
<1>6. CASE cmd.op = "HSET"
  <2>1. t = "hash" /\ Changed(cmd, View(d, t, k), i) = Put(Object(d, "hash", k), arg[1], arg[2])
    BY <1>1, <1>4, <1>6, TypeOfOps DEF Changed
  <2> QED
    BY <1>3, <1>4, <1>5, <1>6, <2>1, StoreSets
<1>7. CASE cmd.op = "ZADD"
  <2>1. t = "zset" /\ Changed(cmd, View(d, t, k), i) = Put(Object(d, "zset", k), arg[2], arg[1])
    BY <1>1, <1>4, <1>7, TypeOfOps DEF Changed
  <2> QED
    BY <1>3, <1>4, <1>5, <1>7, <2>1, StoreSets
<1>8. CASE cmd.op = "HDEL"
  <2>1. t = "hash" /\ Changed(cmd, View(d, t, k), i) = Drop(Object(d, "hash", k), arg)
    BY <1>1, <1>4, <1>8, TypeOfOps DEF Changed
  <2>2. CASE k \in DOMAIN d["hash"]
    BY <1>3, <1>4, <1>5, <1>8, <2>1, <2>2, StoreSets
  <2>3. CASE k \notin DOMAIN d["hash"]
    <3>1. Object(d, "hash", k) = <<>> /\ ReplayArg(d, cmd, i) = d
      BY <1>3, <1>4, <1>5, <1>8, <2>3 DEF Object
    <3> QED
      BY <1>4, <2>1, <3>1, DropFromNew, NothingSets
  <2> QED
    BY <2>2, <2>3
<1>9. CASE cmd.op = "ZREM"
  <2>1. t = "zset" /\ Changed(cmd, View(d, t, k), i) = Drop(Object(d, "zset", k), arg)
    BY <1>1, <1>4, <1>9, TypeOfOps DEF Changed
  <2>2. CASE k \in DOMAIN d["zset"]
    BY <1>3, <1>4, <1>5, <1>9, <2>1, <2>2, StoreSets
  <2>3. CASE k \notin DOMAIN d["zset"]
    <3>1. Object(d, "zset", k) = <<>> /\ ReplayArg(d, cmd, i) = d
      BY <1>3, <1>4, <1>5, <1>9, <2>3 DEF Object
    <3> QED
      BY <1>4, <2>1, <3>1, DropFromNew, NothingSets
  <2> QED
    BY <2>2, <2>3
<1>10. CASE cmd.op \in Storing
  <2>1. t = "str" /\ k = arg[1] /\ Changed(cmd, View(d, t, k), i) = <<ReplayedItem(cmd, i)>>
    BY <1>1, <1>10 DEF TypeOf, Storing, Target, Changed
  <2> QED
    BY <1>3, <1>10, <2>1, SetItemSets
<1>11. CASE cmd.op = "DEL"
  <2>1. t = "str" /\ k = arg /\ Changed(cmd, View(d, t, k), i) = <<>>
    BY <1>1, <1>11 DEF TypeOf, Storing, Target, Changed
  <2> QED
    BY <1>3, <1>11, <2>1, DeleteSets
<1> QED
  BY <1>6, <1>7, <1>8, <1>9, <1>10, <1>11 DEF Loops

(* Which part of replay a command belongs to. *)
LEMMA ReplayCommandIs ==
    ASSUME NEW d, NEW cmd
    PROVE  /\ cmd.op \in {"LPUSH", "RPUSH"} => replayCommand(d, cmd) = ReplayPush(d, cmd)
           /\ cmd.op \in {"LPOP", "RPOP"} => replayCommand(d, cmd) = ReplayPop(d, cmd)
           /\ cmd.op \in {"SADD", "SREM"} => replayCommand(d, cmd) = ReplaySet(d, cmd)
           /\ cmd.op \notin Whole => replayCommand(d, cmd) =
                  IF SkipsNx(d, cmd) THEN d ELSE ReplayArgs(d, cmd, Len(cmd.args))
           /\ cmd.op # "MSETNX" => ~ SkipsNx(d, cmd)
  BY DEF replayCommand, Whole, SkipsNx

(* Replay of a command that is carried out in one call. *)
LEMMA WholeSets ==
    ASSUME NEW d, DOMAIN d = Types, NEW cmd, cmd.op \in Whole, NEW i,
           NEW t, t = TypeOf(cmd.op), NEW k, k = cmd.key
    PROVE  Sets(d, replayCommand(d, cmd), t, k, Changed(cmd, View(d, t, k), i))
<1>1. /\ "list" \in ObjectTypes /\ "set" \in ObjectTypes /\ "list" \in Types /\ "set" \in Types
      /\ View(d, "list", k) = Object(d, "list", k)
      /\ View(d, "set", k) = Object(d, "set", k)
      /\ NewObject["list"] = <<>> /\ NewObject["set"] = {}
  BY DEF View, ObjectTypes, Types, NewObject
<1>2. GetOrCreate(d, "list", k)["list"][k] = Object(d, "list", k)
      /\ GetOrCreate(d, "set", k)["set"][k] = Object(d, "set", k)
  BY <1>1, ObjectFound
<1>3. CASE cmd.op \in {"LPUSH", "RPUSH"}
  <2>1. t = "list" /\ replayCommand(d, cmd) = Store(d, "list", k,
            IF cmd.op = "LPUSH" THEN LPush(Object(d, "list", k), cmd.args)
            ELSE RPush(Object(d, "list", k), cmd.args))
    BY <1>2, <1>3, TypeOfOps, ReplayCommandIs DEF ReplayPush
  <2>2. Changed(cmd, View(d, t, k), i) =
            IF cmd.op = "LPUSH" THEN LPush(Object(d, "list", k), cmd.args)
            ELSE RPush(Object(d, "list", k), cmd.args)
    BY <1>1, <1>3, <2>1 DEF Changed
  <2> QED
    BY <1>1, <2>1, <2>2, StoreSets
<1>4. CASE cmd.op \in {"LPOP", "RPOP"}
  <2>1. PICK l : l = Object(d, "list", k)
    OBVIOUS
  <2>2. PICK o : o = IF cmd.op = "LPOP" THEN LPop(l).rest ELSE RPop(l).rest
    OBVIOUS
  <2>3. t = "list" /\ Changed(cmd, View(d, t, k), i) = IF l = <<>> THEN l ELSE o
    BY <1>1, <1>4, <2>1, <2>2, TypeOfOps DEF Changed
  <2>4. k \notin DOMAIN d["list"] => l = <<>>
    BY <1>1, <2>1 DEF Object
  <2>5. k \in DOMAIN d["list"] => l = d["list"][k]
    BY <2>1 DEF Object
  <2>6. replayCommand(d, cmd) = IF l = <<>> THEN d ELSE Store(d, "list", k, o)
    BY <1>4, <2>2, <2>4, <2>5, ReplayCommandIs DEF ReplayPop
  <2>7. CASE l = <<>>
    BY <1>1, <2>1, <2>3, <2>6, <2>7, NothingSets
  <2>8. CASE l # <<>>
    BY <1>1, <2>3, <2>6, <2>8, StoreSets
  <2> QED
    BY <2>7, <2>8
<1>5. CASE cmd.op = "SADD"
  <2>1. t = "set" /\ replayCommand(d, cmd) =
            Store(d, "set", k, SetAdd(Object(d, "set", k), cmd.args).set)
    BY <1>2, <1>5, TypeOfOps, ReplayCommandIs DEF ReplaySet
  <2>2. Changed(cmd, View(d, t, k), i) = SetAdd(Object(d, "set", k), cmd.args).set
    BY <1>1, <1>5, <2>1 DEF Changed
  <2> QED
    BY <1>1, <2>1, <2>2, StoreSets
<1>6. CASE cmd.op = "SREM"
  <2>1. t = "set" /\ Changed(cmd, View(d, t, k), i) = SetRemove(Object(d, "set", k), cmd.args).set
    BY <1>1, <1>6, TypeOfOps DEF Changed
  <2>2. replayCommand(d, cmd) =
            IF k \in DOMAIN d["set"]
            THEN Store(d, "set", k, SetRemove(Object(d, "set", k), cmd.args).set) ELSE d
    BY <1>2, <1>6, ReplayCommandIs DEF ReplaySet
  <2>3. k \notin DOMAIN d["set"] =>
            SetRemove(Object(d, "set", k), cmd.args).set = Object(d, "set", k)
    BY <1>1 DEF Object, SetRemove
  <2>4. CASE k \in DOMAIN d["set"]
    BY <1>1, <2>1, <2>2, <2>4, StoreSets
  <2>5. CASE k \notin DOMAIN d["set"]
    BY <1>1, <2>1, <2>2, <2>3, <2>5, NothingSets
  <2> QED
    BY <2>4, <2>5
<1> QED
  BY <1>3, <1>4, <1>5, <1>6 DEF Whole

(* Replay makes caches of caches. *)
LEMMA ReplayCommandType ==
    ASSUME NEW d \in Caches, NEW cmd \in Commands
    PROVE  replayCommand(d, cmd) \in Caches
<1>1. cmd.key \in Keys /\ cmd.args \in ArgsOf(cmd.op) /\ DOMAIN d = Types
      /\ "list" \in Types /\ "set" \in Types
  BY CommandAssumption, CacheFacts DEF Commands, Types
<1>2. PICK k \in Keys : k = cmd.key
  BY <1>1
<1>3. PICK l : l = Object(d, "list", k)
  OBVIOUS
<1>4. PICK s : s = Object(d, "set", k)
  OBVIOUS
<1>5. l \in Seq(Values) /\ s \in SUBSET Members
  BY <1>3, <1>4, ObjectType, ObjectsOfTypes DEF ObjectTypes
<1>6. GetOrCreate(d, "list", k)["list"][k] = l /\ GetOrCreate(d, "set", k)["set"][k] = s
  BY <1>1, <1>3, <1>4, ObjectFound
<1>7. CASE cmd.op \in {"LPUSH", "RPUSH"}
  <2>1. cmd.args \in Seq(Values)
    BY <1>1, <1>7, ArgsOfOps
  <2>2. LPush(l, cmd.args) \in Seq(Values) /\ RPush(l, cmd.args) \in Seq(Values)
    BY <1>5, <2>1, PushFacts
  <2>3. Store(d, "list", k, LPush(l, cmd.args)) \in Caches
        /\ Store(d, "list", k, RPush(l, cmd.args)) \in Caches
    BY <1>1, <2>2, StoreClosed, ObjectsOfTypes
  <2> QED
    BY <1>2, <1>6, <1>7, <2>3, ReplayCommandIs DEF ReplayPush
<1>8. CASE cmd.op \in {"LPOP", "RPOP"}
  <2>1. k \in DOMAIN d["list"] => d["list"][k] = l
    BY <1>3 DEF Object
  <2>2. l # <<>> => LPop(l).rest \in Seq(Values) /\ RPop(l).rest \in Seq(Values)
    BY <1>5, PopFacts
  <2>3. l # <<>> => /\ Store(d, "list", k, LPop(l).rest) \in Caches
                    /\ Store(d, "list", k, RPop(l).rest) \in Caches
    BY <1>1, <2>2, StoreClosed, ObjectsOfTypes
  <2> QED
    BY <1>2, <1>8, <2>1, <2>3, ReplayCommandIs DEF ReplayPop
<1>9. CASE cmd.op \in {"SADD", "SREM"}
  <2>1. cmd.args \in Seq(Members)
    BY <1>1, <1>9, ArgsOfOps
  <2>2. ToSet(cmd.args) \in SUBSET Members
    BY <2>1, MembersFinite
  <2>3. SetAdd(s, cmd.args).set \in SUBSET Members /\ SetRemove(s, cmd.args).set \in SUBSET Members
    BY <1>5, <2>2 DEF SetAdd, SetRemove
  <2>4. Store(d, "set", k, SetAdd(s, cmd.args).set) \in Caches
        /\ Store(d, "set", k, SetRemove(s, cmd.args).set) \in Caches
    BY <1>1, <2>3, StoreClosed, ObjectsOfTypes
  <2> QED
    BY <1>2, <1>6, <1>9, <2>4, ReplayCommandIs DEF ReplaySet
<1>10. CASE cmd.op \notin Whole
  <2>1. Len(cmd.args) \in 0 .. Len(cmd.args)
    BY <1>1, ArgsAreSequences
  <2>2. ReplayArgs(d, cmd, Len(cmd.args)) \in Caches
    BY <2>1, ReplayArgsSteps
  <2> QED
    BY <1>10, <2>2, ReplayCommandIs
<1> QED
  BY <1>7, <1>8, <1>9, <1>10 DEF Whole

-----------------------------------------------------------------------------
(* Replay of the log *)

Loads(l) == FoldLeft(replayCommand, EmptyDB, l)

(* acc goes through the first n records of l. *)
GoesThroughLog(acc, l, n) ==
    /\ acc[0] = EmptyDB
    /\ \A i \in 1 .. n : acc[i] = replayCommand(acc[i - 1], l[i])

LEMMA LoadChain ==
    ASSUME NEW l \in Seq(Commands)
    PROVE  \E acc : GoesThroughLog(acc, l, Len(l)) /\ Loads(l) = acc[Len(l)]
<1> DEFINE n == Len(l)
           D == 1 .. n
           ch == [s \in SUBSET D |-> Max(s)]
           step == [i \in D |-> [b \in Caches |-> replayCommand(b, l[i])]]
           body(g) == [s \in SUBSET DOMAIN l |->
                          IF s = {} THEN EmptyDB
                          ELSE LET x == Max(s)
                               IN  replayCommand(g[s \ {x}], l[x])]
           iter == CHOOSE g : g = body(g)
<1>1. n \in Nat /\ DOMAIN l = D /\ \A i \in D : l[i] \in Commands
  BY LenProperties
<1>2. PicksLast(ch, n) /\ \A s \in SUBSET D : ch[s] = Max(s)
  BY <1>1, MaxPicksLast
<1>3. step \in [D -> [Caches -> Caches]]
  BY <1>1, ReplayCommandType
<1>4. \A i \in D : \A b \in Caches : step[i][b] = replayCommand(b, l[i])
  OBVIOUS
<1>5. Loads(l) = iter[D]
  BY <1>1 DEF Loads, FoldLeft, MapThenFoldSet
<1> HIDE DEF n, ch, step
<1>6. PICK g : Folds(g, D, Caches, EmptyDB, ch, step)
  <2>1. D = 1 .. n /\ EmptyDB \in Caches
    BY EmptyIsCache
  <2> HIDE DEF D
  <2> QED
    BY <1>1, <1>2, <1>3, <2>1, FoldExists
<1>7. ASSUME NEW s \in SUBSET D
      PROVE  g[s] = IF s = {} THEN EmptyDB ELSE replayCommand(g[s \ {Max(s)}], l[Max(s)])
  <2>1. CASE s = {}
    BY <1>6, <2>1 DEF Folds
  <2>2. CASE s # {}
    <3>1. PICK x : x = Max(s)
      OBVIOUS
    <3>2. ch[s] = x
      BY <1>2, <3>1
    <3>3. x \in D /\ g[s \ {x}] \in Caches /\ g[s] = step[x][g[s \ {x}]]
      BY <1>6, <2>2, <3>2 DEF Folds
    <3> QED
      BY <1>4, <2>2, <3>1, <3>3
  <2> QED
    BY <2>1, <2>2
<1>8. g = body(g)
  <2>1. \E S : g \in [SUBSET D -> S]
    BY <1>6 DEF Folds
  <2> QED
    BY <1>1, <1>7, <2>1
<1>9. iter = body(iter)
  <2> HIDE DEF body
  <2> QED
    BY <1>8
<1>10. {} \in SUBSET D
  OBVIOUS
<1>11. iter[{}] = EmptyDB
  BY <1>1, <1>9, <1>10
<1>12. ASSUME NEW i \in 1 .. n
       PROVE  iter[1 .. i] = replayCommand(iter[1 .. (i - 1)], l[i])
  <2>1. PICK s : s = 1 .. i
    OBVIOUS
  <2>2. s \in SUBSET D /\ s # {} /\ ch[s] = i /\ s \ {i} = 1 .. (i - 1)
    BY <1>1, <1>2, <2>1, PrefixEnds
  <2>3. Max(s) = i
    BY <1>2, <2>2
  <2>4. iter[s] = replayCommand(iter[s \ {Max(s)}], l[Max(s)])
    BY <1>1, <1>9, <2>2
  <2> QED
    BY <2>1, <2>2, <2>3, <2>4
<1> HIDE DEF iter, body
<1> DEFINE acc == [i \in 0 .. n |-> iter[1 .. i]]
<1>13. \A i \in 0 .. n : acc[i] = iter[1 .. i]
  OBVIOUS
<1>14. 1 .. 0 = {} /\ 0 \in 0 .. n /\ n \in 0 .. n
       /\ \A i \in 1 .. n : i \in 0 .. n /\ i - 1 \in 0 .. n
  BY <1>1
<1> HIDE DEF acc
<1>15. GoesThroughLog(acc, l, n) /\ Loads(l) = acc[n]
  BY <1>5, <1>11, <1>12, <1>13, <1>14 DEF GoesThroughLog
<1> QED
  BY <1>15 DEF n

(* The replay of a log with one record more replays that record last. *)
LEMMA LoadSteps ==
    ASSUME NEW l \in Seq(Commands)
    PROVE  /\ Loads(<<>>) = EmptyDB
           /\ Loads(l) \in Caches
           /\ \A cmd \in Commands : Loads(Append(l, cmd)) = replayCommand(Loads(l), cmd)
<1>1. ASSUME NEW m \in Seq(Commands), NEW acc, GoesThroughLog(acc, m, Len(m))
      PROVE  \A i \in 0 .. Len(m) : acc[i] \in Caches
  <2> DEFINE S == {i \in Nat : i <= Len(m) => acc[i] \in Caches}
  <2>1. 0 \in S
    BY <1>1, EmptyIsCache DEF GoesThroughLog
  <2>2. ASSUME NEW i \in Nat, i \in S
        PROVE  i + 1 \in S
    <3> SUFFICES ASSUME i + 1 <= Len(m)
                 PROVE  acc[i + 1] \in Caches
      OBVIOUS
    <3>1. Len(m) \in Nat /\ i + 1 \in 1 .. Len(m) /\ (i + 1) - 1 = i /\ i <= Len(m)
      BY LenProperties
    <3>2. m[i + 1] \in Commands
      BY <3>1, LenProperties
    <3>3. acc[i + 1] = replayCommand(acc[i], m[i + 1]) /\ acc[i] \in Caches
      BY <1>1, <2>2, <3>1 DEF GoesThroughLog
    <3> QED
      BY <3>2, <3>3, ReplayCommandType
  <2> HIDE DEF S
  <2>3. \A i \in Nat : i \in S
    BY <2>1, <2>2, NatSetInduction
  <2> QED
    BY <2>3, LenProperties DEF S
<1>2. Loads(<<>>) = EmptyDB
  <2>1. <<>> \in Seq(Commands) /\ Len(<<>>) = 0
    OBVIOUS
  <2> QED
    BY <2>1, LoadChain DEF GoesThroughLog
<1>3. PICK acc : GoesThroughLog(acc, l, Len(l)) /\ Loads(l) = acc[Len(l)]
  BY LoadChain
<1>4. Len(l) \in Nat /\ Len(l) \in 0 .. Len(l)
  BY LenProperties
<1>5. Loads(l) \in Caches
  BY <1>1, <1>3, <1>4
<1>6. ASSUME NEW cmd \in Commands
      PROVE  Loads(Append(l, cmd)) = replayCommand(Loads(l), cmd)
  <2>1. PICK m : m = Append(l, cmd)
    OBVIOUS
  <2>2. PICK n \in Nat : n = Len(l)
    BY <1>4
  <2>3. m \in Seq(Commands) /\ Len(m) = n + 1 /\ m[n + 1] = cmd /\ \A i \in 1 .. n : m[i] = l[i]
    BY <2>1, <2>2, AppendProperties
  <2>4. PICK bcc : GoesThroughLog(bcc, m, n + 1) /\ Loads(m) = bcc[n + 1]
    BY <2>3, LoadChain
  <2> DEFINE S == {i \in Nat : i <= n => acc[i] = bcc[i]}
  <2>5. 0 \in S
    BY <1>3, <2>4 DEF GoesThroughLog
  <2>6. ASSUME NEW i \in Nat, i \in S
        PROVE  i + 1 \in S
    <3> SUFFICES ASSUME i + 1 <= n
                 PROVE  acc[i + 1] = bcc[i + 1]
      OBVIOUS
    <3>1. i + 1 \in 1 .. n /\ i + 1 \in 1 .. (n + 1) /\ (i + 1) - 1 = i /\ i <= n
      OBVIOUS
    <3>2. acc[i + 1] = replayCommand(acc[i], l[i + 1]) /\ bcc[i + 1] = replayCommand(bcc[i], m[i + 1])
      BY <1>3, <2>2, <2>4, <3>1 DEF GoesThroughLog
    <3> QED
      BY <2>3, <2>6, <3>1, <3>2
  <2> HIDE DEF S
  <2>7. n \in S
    BY <2>5, <2>6, NatSetInduction
  <2>8. acc[n] = bcc[n]
    BY <2>7 DEF S
  <2>9. n + 1 \in 1 .. (n + 1) /\ (n + 1) - 1 = n
    OBVIOUS
  <2>10. bcc[n + 1] = replayCommand(bcc[n], cmd)
    BY <2>3, <2>4, <2>9 DEF GoesThroughLog
  <2> QED
    BY <1>3, <2>1, <2>2, <2>4, <2>8, <2>10
<1> QED
  BY <1>2, <1>5, <1>6

-----------------------------------------------------------------------------
(* Replay looks at and changes the keys of its command only *)

(* The argument of a command that works through them changes one of its keys. *)
LEMMA TargetIsKey ==
    ASSUME NEW cmd \in Commands, cmd.op \in Loops, NEW i \in DOMAIN cmd.args
    PROVE  Target(cmd, i) \in KeysOf(cmd) /\ Target(cmd, i) \in Keys
<1>1. Target(cmd, i) \in KeysOf(cmd)
  <2>1. CASE cmd.op \in Storing
    BY <2>1, LoopArgs DEF Target
  <2>2. CASE cmd.op = "DEL"
    BY <2>2, LoopArgs DEF Target, Storing
  <2>3. CASE cmd.op \in {"HSET", "HDEL", "ZADD", "ZREM"}
    BY <2>3, KeysOfOps DEF Target, Storing
  <2> QED
    BY <2>1, <2>2, <2>3 DEF Loops
<1> QED
  BY <1>1, KeysOfType

(* The first n arguments change what is alike alike ... *)
LEMMA ArgsAlike ==
    ASSUME NEW cmd \in Commands, NEW d \in Caches, NEW e \in Caches, NEW k \in Keys,
           Alike(d, e, k)
    PROVE  \A n \in 0 .. Len(cmd.args) :
               Alike(ReplayArgs(d, cmd, n), ReplayArgs(e, cmd, n), k)
<1>1. Len(cmd.args) \in Nat /\ DOMAIN cmd.args = 1 .. Len(cmd.args)
  BY CommandAssumption, ArgsAreSequences DEF Commands
<1> DEFINE S == {n \in Nat : n <= Len(cmd.args) =>
                     Alike(ReplayArgs(d, cmd, n), ReplayArgs(e, cmd, n), k)}
<1>2. 0 \in S
  BY ReplayArgsSteps
<1>3. ASSUME NEW n \in Nat, n \in S
      PROVE  n + 1 \in S
  <2> SUFFICES ASSUME n + 1 <= Len(cmd.args)
               PROVE  Alike(ReplayArgs(d, cmd, n + 1), ReplayArgs(e, cmd, n + 1), k)
    OBVIOUS
  <2>1. PICK i : i = n + 1
    OBVIOUS
  <2>2. i \in 1 .. Len(cmd.args) /\ i - 1 = n /\ n \in 0 .. Len(cmd.args) /\ n <= Len(cmd.args)
    BY <1>1, <2>1
  <2>3. PICK f \in Caches : f = ReplayArgs(d, cmd, n)
    BY <2>2, ReplayArgsSteps
  <2>4. PICK g \in Caches : g = ReplayArgs(e, cmd, n)
    BY <2>2, ReplayArgsSteps
  <2>5. ReplayArgs(d, cmd, i) = ReplayArg(f, cmd, i) /\ ReplayArgs(e, cmd, i) = ReplayArg(g, cmd, i)
    BY <2>2, <2>3, <2>4, ReplayArgsSteps
  <2>6. Alike(f, g, k) /\ DOMAIN f = Types /\ DOMAIN g = Types
    BY <1>3, <2>2, <2>3, <2>4, CacheFacts
  <2>7. CASE cmd.op \in Loops
    <3>1. PICK t \in Types : t = TypeOf(cmd.op)
      BY DEF TypeOf, Types
    <3>2. PICK j : j = Target(cmd, i)
      OBVIOUS
    <3>3. /\ Sets(f, ReplayArg(f, cmd, i), t, j, Changed(cmd, View(f, t, j), i))
          /\ Sets(g, ReplayArg(g, cmd, i), t, j, Changed(cmd, View(g, t, j), i))
      BY <2>6, <2>7, <3>1, <3>2, ArgSets
    <3>4. j = k => View(f, t, j) = View(g, t, j)
      BY <2>6 DEF Alike
    <3>5. j = k => Changed(cmd, View(f, t, j), i) = Changed(cmd, View(g, t, j), i)
      BY <3>4
    <3>6. Alike(ReplayArg(f, cmd, i), ReplayArg(g, cmd, i), k)
      BY <2>6, <3>3, <3>5, SetsAlike
    <3> QED
      BY <2>1, <2>5, <3>6
  <2>8. CASE cmd.op \notin Loops
    <3>1. ReplayArg(f, cmd, i) = f /\ ReplayArg(g, cmd, i) = g
      BY <2>6, <2>8, ReplayArgIs
    <3> QED
      BY <2>1, <2>5, <2>6, <3>1
  <2> QED
    BY <2>7, <2>8
<1> HIDE DEF S
<1>4. \A n \in Nat : n \in S
  BY <1>2, <1>3, NatSetInduction
<1> QED
  BY <1>1, <1>4 DEF S

(* ... and nothing at another key. *)
LEMMA ArgsElsewhere ==
    ASSUME NEW cmd \in Commands, NEW d \in Caches, NEW k \in Keys, k \notin KeysOf(cmd)
    PROVE  \A n \in 0 .. Len(cmd.args) : Alike(d, ReplayArgs(d, cmd, n), k)
<1>1. Len(cmd.args) \in Nat /\ DOMAIN cmd.args = 1 .. Len(cmd.args)
  BY CommandAssumption, ArgsAreSequences DEF Commands
<1> DEFINE S == {n \in Nat : n <= Len(cmd.args) => Alike(d, ReplayArgs(d, cmd, n), k)}
<1>2. 0 \in S
  BY ReplayArgsSteps, AlikeIsEquivalence
<1>3. ASSUME NEW n \in Nat, n \in S
      PROVE  n + 1 \in S
  <2> SUFFICES ASSUME n + 1 <= Len(cmd.args)
               PROVE  Alike(d, ReplayArgs(d, cmd, n + 1), k)
    OBVIOUS
  <2>1. PICK i : i = n + 1
    OBVIOUS
  <2>2. i \in 1 .. Len(cmd.args) /\ i - 1 = n /\ n \in 0 .. Len(cmd.args) /\ n <= Len(cmd.args)
    BY <1>1, <2>1
  <2>3. PICK f \in Caches : f = ReplayArgs(d, cmd, n)
    BY <2>2, ReplayArgsSteps
  <2>4. ReplayArgs(d, cmd, i) = ReplayArg(f, cmd, i)
    BY <2>2, <2>3, ReplayArgsSteps
  <2>5. Alike(d, f, k) /\ DOMAIN f = Types
    BY <1>3, <2>2, <2>3, CacheFacts
  <2>6. Alike(f, ReplayArg(f, cmd, i), k)
    <3>1. CASE cmd.op \in Loops
      <4>1. PICK t : t = TypeOf(cmd.op)
        OBVIOUS
      <4>2. PICK j : j = Target(cmd, i)
        OBVIOUS
      <4>3. Sets(f, ReplayArg(f, cmd, i), t, j, Changed(cmd, View(f, t, j), i))
        BY <2>5, <3>1, <4>1, <4>2, ArgSets
      <4>4. j # k
        BY <1>1, <2>2, <3>1, <4>2, TargetIsKey
      <4> QED
        BY <4>3, <4>4, SetsElsewhere
    <3>2. CASE cmd.op \notin Loops
      BY <2>5, <3>2, ReplayArgIs, AlikeIsEquivalence
    <3> QED
      BY <3>1, <3>2
  <2> QED
    BY <2>1, <2>4, <2>5, <2>6, AlikeIsEquivalence
<1> HIDE DEF S
<1>4. \A n \in Nat : n \in S
  BY <1>2, <1>3, NatSetInduction
<1> QED
  BY <1>1, <1>4 DEF S

(* A record changes nothing at a key that it is not about. *)
LEMMA CommandElsewhere ==
    ASSUME NEW cmd \in Commands, NEW d \in Caches, NEW k \in Keys, k \notin KeysOf(cmd)
    PROVE  Alike(d, replayCommand(d, cmd), k)
<1>1. CASE cmd.op \in Whole
  <2>1. PICK t : t = TypeOf(cmd.op)
    OBVIOUS
  <2>2. PICK j : j = cmd.key
    OBVIOUS
  <2>3. DOMAIN d = Types /\ KeysOf(cmd) = {j}
    BY <1>1, <2>2, CacheFacts, KeysOfOps DEF Whole, Storing
  <2>4. Sets(d, replayCommand(d, cmd), t, j, Changed(cmd, View(d, t, j), 1))
    BY <1>1, <2>1, <2>2, <2>3, WholeSets
  <2> QED
    BY <2>3, <2>4, SetsElsewhere
<1>2. CASE cmd.op \notin Whole
  <2>1. Len(cmd.args) \in 0 .. Len(cmd.args)
    BY CommandAssumption, ArgsAreSequences DEF Commands
  <2>2. Alike(d, ReplayArgs(d, cmd, Len(cmd.args)), k) /\ Alike(d, d, k)
    BY <2>1, ArgsElsewhere, AlikeIsEquivalence
  <2> QED
    BY <1>2, <2>2, ReplayCommandIs
<1> QED
  BY <1>1, <1>2

(* A record does the same to caches that are alike at all its keys. *)
LEMMA CommandAlike ==
    ASSUME NEW cmd \in Commands, NEW d \in Caches, NEW e \in Caches, NEW k \in KeysOf(cmd),
           \A j \in KeysOf(cmd) : Alike(d, e, j)
    PROVE  Alike(replayCommand(d, cmd), replayCommand(e, cmd), k)
<1>1. k \in Keys /\ DOMAIN d = Types /\ DOMAIN e = Types /\ Alike(d, e, k)
  BY KeysOfType, CacheFacts
<1>2. CASE cmd.op \in Whole
  <2>1. PICK t \in Types : t = TypeOf(cmd.op)
    BY DEF TypeOf, Types
  <2>2. PICK j : j = cmd.key
    OBVIOUS
  <2>3. /\ Sets(d, replayCommand(d, cmd), t, j, Changed(cmd, View(d, t, j), 1))
        /\ Sets(e, replayCommand(e, cmd), t, j, Changed(cmd, View(e, t, j), 1))
    BY <1>1, <1>2, <2>1, <2>2, WholeSets
  <2>4. j = k => View(d, t, j) = View(e, t, j)
    BY <1>1 DEF Alike
  <2>5. j = k => Changed(cmd, View(d, t, j), 1) = Changed(cmd, View(e, t, j), 1)
    BY <2>4
  <2> QED
    BY <1>1, <2>3, <2>5, SetsAlike
<1>3. CASE cmd.op \notin Whole
  <2>1. Len(cmd.args) \in 0 .. Len(cmd.args)
    BY CommandAssumption, ArgsAreSequences DEF Commands
  <2>2. Alike(ReplayArgs(d, cmd, Len(cmd.args)), ReplayArgs(e, cmd, Len(cmd.args)), k)
    BY <1>1, <2>1, ArgsAlike
  <2>3. \A j \in KeysOf(cmd) : j \in DOMAIN d["str"] <=> j \in DOMAIN e["str"]
    <3> SUFFICES ASSUME NEW j \in KeysOf(cmd)
                 PROVE  j \in DOMAIN d["str"] <=> j \in DOMAIN e["str"]
      OBVIOUS
    <3>1. View(d, "str", j) = View(e, "str", j)
      BY DEF Alike, Types
    <3>2. \A x : <<x>> # <<>>
      OBVIOUS
    <3> QED
      BY <3>1, <3>2 DEF View
  <2>4. SkipsNx(d, cmd) <=> SkipsNx(e, cmd)
    BY <2>3 DEF SkipsNx, HasKey
  <2> QED
    BY <1>1, <1>3, <2>2, <2>4, ReplayCommandIs
<1> QED
  BY <1>2, <1>3

-----------------------------------------------------------------------------
(* The log keeps up with the cache *)

(* The keys that are neither raced nor lossy: the log describes them. *)
Clean == Keys \ (raced \cup lossy)

(* The arguments that handler x has carried out. *)
Done(x) == IF x.pc \in {"run", "put"} /\ x.cmd.op \in Loops THEN x.i - 1 ELSE 0

(* Write commands that share a key on their way to the log have all their keys
   raced, whether they are in their handlers or wait to be logged. *)
Rivals ==
    /\ \A b, c \in Clients : b # c => \A k \in Keys :
           Busy(call[b], k) /\ Busy(call[c], k) => KeysOf(call[b].cmd) \subseteq raced
    /\ \A c \in Clients, r \in pending : \A k \in Keys :
           Busy(call[c], k) /\ k \in KeysOf(r.cmd) =>
               KeysOf(call[c].cmd) \subseteq raced /\ KeysOf(r.cmd) \subseteq raced
    /\ \A r, s \in pending : r # s => \A k \in Keys :
           k \in KeysOf(r.cmd) /\ k \in KeysOf(s.cmd) => KeysOf(r.cmd) \subseteq raced

(* Only write commands are logged. *)
Written == \A r \in pending : r.cmd.op \in Writing

(* The keys of commands that replay does not carry out are lossy. *)
Lost == \A c \in Clients : call[c].pc # "idle" => LossyBy(call[c].cmd) \subseteq lossy

(* The items that are not lossy have not expired, and will not soon. *)
Lasting(v) == v # <<>> => v[1].ttl \in {"none", "EX"}

Lives == \A k \in Keys \ lossy : Lasting(View(db, "str", k))

(* x is an MSETNX that stores its keys: replay will not find them in d. *)
Unseen(x, d, C) ==
    x.pc = "run" /\ x.cmd.op = "MSETNX" =>
        \A k \in KeysOf(x.cmd) \cap C : k \notin DOMAIN d["str"]

NxAbsent == \A c \in Clients : Unseen(call[c], Loads(log), Clean)

(* What the cache shows at a clean key is what the log and the one command that
   is on its way make of it. *)
Mirror ==
    \A k \in Clean :
        /\ \A c \in Clients : Busy(call[c], k) =>
               Alike(ReplayArgs(Loads(log), call[c].cmd, Done(call[c])), db, k)
        /\ \A r \in pending : k \in KeysOf(r.cmd) =>
               Alike(replayCommand(Loads(log), r.cmd), db, k)
        /\ (\A c \in Clients : ~ Busy(call[c], k)) /\ (\A r \in pending : k \notin KeysOf(r.cmd))
               => Alike(Loads(log), db, k)

ReplayInv == Inv /\ Rivals /\ Written /\ Lost /\ Lives /\ NxAbsent /\ Mirror

LEMMA LoadIsCache ==
    ASSUME Typed
    PROVE  /\ Loads(log) \in Caches /\ DOMAIN Loads(log) = Types
           /\ log \in Seq(Commands) /\ DOMAIN db = Types
<1>1. log \in Seq(Commands)
  BY DEF Typed, Commands
<1> QED
  BY <1>1, LoadSteps, CacheFacts DEF Typed, IsCache

(* What a step of the handler of c does to clean key k. *)
Mirrored(c, k) ==
    IF Busy(call[c], k)
    THEN \/ /\ Busy(call'[c], k) /\ pending' = pending
            /\ Alike(ReplayArgs(Loads(log), call[c].cmd, Done(call'[c])), db', k)
         \/ /\ call'[c] = Idle /\ pending' = pending
            /\ Alike(Loads(log), db', k)
         \/ /\ call'[c] = Idle /\ \E r \in pending' : r.cmd = call[c].cmd
            /\ Alike(replayCommand(Loads(log), call[c].cmd), db', k)
    ELSE Alike(db, db', k)

(* A step of the handler of c that keeps the log up with the cache. *)
Faithful(c) ==
    /\ Step(c)
    /\ pending \subseteq pending' /\ lossy \subseteq lossy'
    /\ \A r \in pending' : \/ r \in pending
                           \/ r.cmd = call[c].cmd /\ call'[c] = Idle /\ r.cmd.op \in Writing
    /\ \A r, s \in pending' \ pending : r = s
    /\ Lives'
    /\ Unseen(call'[c], Loads(log), Clean')
    /\ \A k \in Clean' : Mirrored(c, k)

(* Such a step keeps the invariant. *)
LEMMA FaithfulKeepsRivals ==
    ASSUME ReplayInv, NEW c \in Clients, call[c].pc # "idle", Faithful(c)
    PROVE  Rivals' /\ Written' /\ Lost'
<1>1. \A b \in Clients : \A k : Busy(call'[b], k) => Busy(call[b], k) /\ call'[b].cmd = call[b].cmd
  BY DEF Faithful, Step, Moves, Busy, Idle
<1>2. raced \subseteq raced' /\ lossy \subseteq lossy'
  BY DEF Faithful, Step
<1>3. \A r \in pending' : \/ r \in pending
                          \/ r.cmd = call[c].cmd /\ call'[c] = Idle /\ r.cmd.op \in Writing
  BY DEF Faithful
<1>4. \A k : ~ Busy(Idle, k)
  BY DEF Busy, Idle
<1>5. \A r \in pending' : r \in pending \/ \A k \in KeysOf(r.cmd) : Busy(call[c], k)
  BY <1>3 DEF Busy
<1>6. Written'
  BY <1>3 DEF Written, ReplayInv
<1>7. Lost'
  <2> SUFFICES ASSUME NEW b \in Clients, call'[b].pc # "idle"
               PROVE  LossyBy(call'[b].cmd) \subseteq lossy'
    BY DEF Lost
  <2>1. call[b].pc # "idle" /\ call'[b].cmd = call[b].cmd
    BY DEF Faithful, Step, Moves, Idle
  <2> QED
    BY <1>2, <2>1 DEF ReplayInv, Lost
<1>8. ASSUME NEW a \in Clients, NEW b \in Clients, a # b, NEW k \in Keys,
             Busy(call'[a], k), Busy(call'[b], k)
      PROVE  KeysOf(call'[a].cmd) \subseteq raced'
  BY <1>1, <1>2, <1>8 DEF ReplayInv, Rivals
<1>9. ASSUME NEW b \in Clients, NEW r \in pending', NEW k \in Keys,
             Busy(call'[b], k), k \in KeysOf(r.cmd)
      PROVE  KeysOf(call'[b].cmd) \subseteq raced' /\ KeysOf(r.cmd) \subseteq raced'
  <2>1. Busy(call[b], k) /\ call'[b].cmd = call[b].cmd
    BY <1>1, <1>9
  <2>2. CASE r \in pending
    BY <1>2, <1>9, <2>1, <2>2 DEF ReplayInv, Rivals
  <2>3. CASE r \notin pending
    <3>1. r.cmd = call[c].cmd /\ b # c /\ Busy(call[c], k)
      BY <1>3, <1>4, <1>5, <1>9, <2>3
    <3> QED
      BY <1>2, <2>1, <3>1 DEF ReplayInv, Rivals
  <2> QED
    BY <2>2, <2>3
<1>10. ASSUME NEW r \in pending', NEW s \in pending', r # s, NEW k \in Keys,
              k \in KeysOf(r.cmd), k \in KeysOf(s.cmd)
       PROVE  KeysOf(r.cmd) \subseteq raced'
  <2>1. CASE r \in pending /\ s \in pending
    BY <1>2, <1>10, <2>1 DEF ReplayInv, Rivals
  <2>2. CASE r \in pending /\ s \notin pending
    BY <1>2, <1>3, <1>5, <1>10, <2>2 DEF ReplayInv, Rivals
  <2>3. CASE r \notin pending /\ s \in pending
    BY <1>2, <1>3, <1>5, <1>10, <2>3 DEF ReplayInv, Rivals
  <2>4. CASE r \notin pending /\ s \notin pending
    BY <1>10, <2>4 DEF Faithful
  <2> QED
    BY <2>1, <2>2, <2>3, <2>4
<1> QED
  BY <1>6, <1>7, <1>8, <1>9, <1>10 DEF Rivals

LEMMA FaithfulKeepsMirror ==
    ASSUME ReplayInv, NEW c \in Clients, call[c].pc # "idle", Faithful(c)
    PROVE  Mirror'
<1>1. /\ log' = log /\ pending \subseteq pending'
      /\ \A b \in Clients \ {c} : call'[b] = call[b]
      /\ Clean' \subseteq Clean
  BY DEF Faithful, Step, Moves, Clean
<1>2. \A r \in pending' : \/ r \in pending
                          \/ r.cmd = call[c].cmd /\ call'[c] = Idle /\ r.cmd.op \in Writing
  BY DEF Faithful
<1>3. call'[c] = Idle \/ call'[c].cmd = call[c].cmd
  BY DEF Faithful, Step, Moves
<1>4. \A k : ~ Busy(Idle, k)
  BY DEF Busy, Idle
<1> SUFFICES ASSUME NEW k \in Clean'
             PROVE  /\ \A b \in Clients : Busy(call'[b], k) =>
                           Alike(ReplayArgs(Loads(log), call'[b].cmd, Done(call'[b])), db', k)
                    /\ \A r \in pending' : k \in KeysOf(r.cmd) =>
                           Alike(replayCommand(Loads(log), r.cmd), db', k)
                    /\ /\ \A b \in Clients : ~ Busy(call'[b], k)
                       /\ \A r \in pending' : k \notin KeysOf(r.cmd)
                       => Alike(Loads(log), db', k)
  BY <1>1 DEF Mirror
<1>5. Mirrored(c, k) /\ k \in Clean /\ k \in Keys /\ k \notin raced
  BY <1>1 DEF Faithful, Clean
<1>6. /\ \A b \in Clients : Busy(call[b], k) =>
             Alike(ReplayArgs(Loads(log), call[b].cmd, Done(call[b])), db, k)
      /\ \A r \in pending : k \in KeysOf(r.cmd) => Alike(replayCommand(Loads(log), r.cmd), db, k)
      /\ (\A b \in Clients : ~ Busy(call[b], k)) /\ (\A r \in pending : k \notin KeysOf(r.cmd))
             => Alike(Loads(log), db, k)
  BY <1>5 DEF ReplayInv, Mirror
<1>7. ~ Busy(call[c], k) => Alike(db, db', k)
  BY <1>5 DEF Mirrored
<1>8. Busy(call[c], k) =>
          /\ \A b \in Clients \ {c} : ~ Busy(call[b], k)
          /\ \A r \in pending : k \notin KeysOf(r.cmd)
  <2>1. Busy(call[c], k) => k \in KeysOf(call[c].cmd)
    BY DEF Busy
  <2> QED
    BY <1>5, <2>1 DEF ReplayInv, Rivals
<1>9. ASSUME NEW b \in Clients, Busy(call'[b], k)
      PROVE  Alike(ReplayArgs(Loads(log), call'[b].cmd, Done(call'[b])), db', k)
  <2>1. CASE b = c
    <3>1. call'[c].cmd = call[c].cmd /\ Busy(call[c], k) /\ call'[c] # Idle
      BY <1>3, <1>4, <1>9, <2>1 DEF Busy
    <3> QED
      BY <1>5, <2>1, <3>1 DEF Mirrored
  <2>2. CASE b # c
    <3>1. call'[b] = call[b] /\ ~ Busy(call[c], k)
      BY <1>1, <1>8, <1>9, <2>2
    <3> QED
      BY <1>6, <1>7, <1>9, <3>1, AlikeIsEquivalence
  <2> QED
    BY <2>1, <2>2
<1>10. ASSUME NEW r \in pending', k \in KeysOf(r.cmd)
       PROVE  Alike(replayCommand(Loads(log), r.cmd), db', k)
  <2>1. CASE r \in pending
    BY <1>6, <1>7, <1>8, <1>10, <2>1, AlikeIsEquivalence
  <2>2. CASE r \notin pending
    <3>1. r.cmd = call[c].cmd /\ Busy(call[c], k) /\ pending' # pending
      BY <1>2, <1>10, <2>2 DEF Busy
    <3> QED
      BY <1>5, <3>1 DEF Mirrored
  <2> QED
    BY <2>1, <2>2
<1>11. ASSUME \A b \in Clients : ~ Busy(call'[b], k), \A r \in pending' : k \notin KeysOf(r.cmd)
       PROVE  Alike(Loads(log), db', k)
  <2>1. CASE Busy(call[c], k)
    <3>1. k \in KeysOf(call[c].cmd)
      BY <2>1 DEF Busy
    <3> QED
      BY <1>5, <1>11, <2>1, <3>1 DEF Mirrored
  <2>2. CASE ~ Busy(call[c], k)
    <3>1. \A b \in Clients : ~ Busy(call[b], k)
      BY <1>1, <1>11, <2>2
    <3>2. Alike(Loads(log), db, k)
      BY <1>1, <1>6, <1>11, <3>1
    <3> QED
      BY <1>7, <2>2, <3>2, AlikeIsEquivalence
  <2> QED
    BY <2>1, <2>2
<1> QED
  BY <1>9, <1>10, <1>11

LEMMA FaithfulKeeps ==
    ASSUME ReplayInv, NEW c \in Clients, call[c].pc # "idle", Faithful(c), Inv'
    PROVE  ReplayInv'
<1>1. Rivals' /\ Written' /\ Lost' /\ Mirror'
  BY FaithfulKeepsRivals, FaithfulKeepsMirror
<1>2. Lives'
  BY DEF Faithful
<1>3. NxAbsent'
  <2> SUFFICES ASSUME NEW b \in Clients
               PROVE  Unseen(call'[b], Loads(log'), Clean')
    BY DEF NxAbsent
  <2>1. log' = log /\ Clean' \subseteq Clean /\ (b # c => call'[b] = call[b])
    BY DEF Faithful, Step, Moves, Clean
  <2>2. Unseen(call[b], Loads(log), Clean)
    BY DEF ReplayInv, NxAbsent
  <2>3. CASE b = c
    BY <2>1, <2>3 DEF Faithful
  <2>4. CASE b # c
    BY <2>1, <2>2, <2>4 DEF Unseen
  <2> QED
    BY <2>3, <2>4
<1> QED
  BY <1>1, <1>2, <1>3 DEF ReplayInv

(* What is known of a handler that is at work. *)
LEMMA AtWork ==
    ASSUME ReplayInv, NEW c \in Clients, call[c].pc # "idle"
    PROVE  /\ Typed /\ Loads(log) \in Caches /\ DOMAIN Loads(log) = Types /\ DOMAIN db = Types
           /\ call[c].cmd \in Commands /\ call[c].i \in Nat
           /\ Len(call[c].cmd.args) \in Nat
           /\ DOMAIN call[c].cmd.args = 1 .. Len(call[c].cmd.args)
           /\ call[c].cmd.op \notin {"LPOP", "RPOP"} => call[c].i \in 1 .. Len(call[c].cmd.args)
           /\ \A k \in Clean : Busy(call[c], k) =>
                  Alike(ReplayArgs(Loads(log), call[c].cmd, Done(call[c])), db, k)
<1>1. Typed
  BY DEF ReplayInv, Inv
<1>2. IsCall(call[c], workload, issued) /\ call[c].cmd \in Commands
      /\ call[c].cmd.args \in ArgsOf(call[c].cmd.op)
  BY <1>1, InHandler
<1>3. Len(call[c].cmd.args) \in Nat /\ DOMAIN call[c].cmd.args = 1 .. Len(call[c].cmd.args)
  BY <1>2, ArgsAreSequences
<1>4. call[c].i \in Nat /\ InRange(call[c].cmd, call[c].i)
  BY <1>2 DEF IsCall
<1>5. call[c].cmd.op \notin {"LPOP", "RPOP"} => call[c].i \in 1 .. Len(call[c].cmd.args)
  BY <1>3, <1>4 DEF InRange
<1>6. \A k \in Clean : Busy(call[c], k) =>
          Alike(ReplayArgs(Loads(log), call[c].cmd, Done(call[c])), db, k)
  BY DEF ReplayInv, Mirror
<1> QED
  BY <1>1, <1>2, <1>3, <1>4, <1>5, <1>6, LoadIsCache

(* A step that shows nothing at the keys that are not lossy: the handler ends
   before it has carried out anything, or goes on. *)
LEMMA QuietIsFaithful ==
    ASSUME ReplayInv, NEW c \in Clients, call[c].pc # "idle", Step(c), pending' = pending,
           lossy \subseteq lossy', \A k \in Keys \ lossy' : Alike(db, db', k),
           \A k \in Clean' : Busy(call[c], k) =>
               \/ call'[c] = Idle /\ Done(call[c]) = 0
               \/ call'[c].pc # "idle" /\ Done(call'[c]) = Done(call[c]),
           Unseen(call'[c], Loads(log), Clean')
    PROVE  Faithful(c)
<1>1. /\ Loads(log) \in Caches /\ call[c].cmd \in Commands
      /\ \A k \in Clean : Busy(call[c], k) =>
             Alike(ReplayArgs(Loads(log), call[c].cmd, Done(call[c])), db, k)
  BY AtWork
<1>2. Clean' \subseteq Clean /\ Clean' \subseteq Keys \ lossy' /\ Keys \ lossy' \subseteq Keys \ lossy
  BY DEF Step, Clean
<1>3. call'[c] = Idle \/ call'[c].cmd = call[c].cmd
  BY DEF Step, Moves
<1>4. Lives'
  <2> SUFFICES ASSUME NEW k \in Keys \ lossy'
               PROVE  Lasting(View(db', "str", k))
    BY DEF Lives
  <2>1. Lasting(View(db, "str", k))
    BY <1>2 DEF ReplayInv, Lives
  <2>2. View(db, "str", k) = View(db', "str", k)
    BY DEF Alike, Types
  <2> QED
    BY <2>1, <2>2
<1>5. ASSUME NEW k \in Clean'
      PROVE  Mirrored(c, k)
  <2>1. Alike(db, db', k)
    BY <1>2
  <2>2. CASE Busy(call[c], k)
    <3>1. Alike(ReplayArgs(Loads(log), call[c].cmd, Done(call[c])), db', k)
      BY <1>1, <1>2, <2>1, <2>2, AlikeIsEquivalence
    <3>2. CASE call'[c] = Idle /\ Done(call[c]) = 0
      <4>1. Alike(Loads(log), db', k)
        BY <1>1, <3>1, <3>2, ReplayArgsSteps
      <4> QED
        BY <2>2, <3>2, <4>1 DEF Mirrored
    <3>3. CASE call'[c].pc # "idle" /\ Done(call'[c]) = Done(call[c])
      <4>1. Busy(call'[c], k)
        BY <1>3, <2>2, <3>3 DEF Busy, Idle
      <4> QED
        BY <2>2, <3>1, <3>3, <4>1 DEF Mirrored
    <3> QED
      BY <2>2, <3>2, <3>3
  <2>3. CASE ~ Busy(call[c], k)
    BY <2>1, <2>3 DEF Mirrored
  <2> QED
    BY <2>2, <2>3
<1> QED
  BY <1>4, <1>5 DEF Faithful

(* A step that sets v, of type t at key j. *)
LEMMA SetsLives ==
    ASSUME ReplayInv, lossy \subseteq lossy', NEW t, NEW j, NEW v, Sets(db, db', t, j, v),
           t = "str" /\ j \notin lossy' => Lasting(v)
    PROVE  Lives'
<1> SUFFICES ASSUME NEW k \in Keys \ lossy'
             PROVE  Lasting(View(db', "str", k))
  BY DEF Lives
<1>1. Lasting(View(db, "str", k))
  BY DEF ReplayInv, Lives
<1>2. View(db', "str", k) = IF "str" = t /\ k = j THEN v ELSE View(db, "str", k)
  BY DEF Sets, Types
<1> QED
  BY <1>1, <1>2

(* The end of an iteration. *)
LEMMA IterationEnds ==
    ASSUME ReplayInv, NEW c \in Clients, call[c].pc # "idle",
           call[c].cmd.op \notin {"LPOP", "RPOP"}, NextArg(c, "run")
    PROVE  \/ /\ call'[c].pc = "run" /\ call'[c].cmd = call[c].cmd
              /\ call'[c].i = call[c].i + 1 /\ pending' = pending
           \/ /\ call'[c] = Idle /\ call[c].i = Len(call[c].cmd.args)
              /\ pending' = pending \cup {[id |-> call[c].id, cmd |-> call[c].cmd]}
<1>1. /\ Typed /\ call[c].i \in 1 .. Len(call[c].cmd.args)
      /\ Len(call[c].cmd.args) \in Nat
  BY AtWork
<1>2. CASE call[c].i < Len(call[c].cmd.args)
  <2>1. Goto(c, "run", call[c].i + 1)
    BY <1>2 DEF NextArg
  <2>2. PICK x : x = call[c]
    OBVIOUS
  <2>3. IsCall(x, workload, issued) /\ DOMAIN call = Clients
    BY <1>1, <2>2, InHandler DEF Typed
  <2>4. call'[c] = [x EXCEPT !.pc = "run", !.i = x.i + 1] /\ pending' = pending
    BY <2>1, <2>2, <2>3 DEF Goto
  <2>5. x \in [pc : Pcs, cmd : workload, i : Nat, id : Nat, old : Seq(Values)]
    BY <2>3 DEF IsCall
  <2>6. call'[c].pc = "run" /\ call'[c].cmd = x.cmd /\ call'[c].i = x.i + 1
    BY <2>4, <2>5
  <2> QED
    BY <2>2, <2>4, <2>6
<1>3. CASE ~ (call[c].i < Len(call[c].cmd.args))
  <2>1. LogAndReturn(c) /\ call[c].i = Len(call[c].cmd.args)
    BY <1>1, <1>3 DEF NextArg
  <2> QED
    BY <1>1, <2>1 DEF LogAndReturn, Typed
<1> QED
  BY <1>2, <1>3

(* A step that carries out one argument, as its replay will. *)
LEMMA LoopIsFaithful ==
    ASSUME ReplayInv, NEW c \in Clients, call[c].pc \in {"run", "put"}, call[c].cmd.op \in Loops,
           call[c].cmd.op = "MSETNX" => call[c].pc = "run", Step(c), lossy \subseteq lossy',
           NEW t \in Types, t = TypeOf(call[c].cmd.op),
           NEW j, j = Target(call[c].cmd, call[c].i), NEW v, Sets(db, db', t, j, v),
           j \notin lossy' => v = Changed(call[c].cmd, View(db, t, j), call[c].i),
           t = "str" /\ j \notin lossy' => Lasting(v),
           NextArg(c, "run"),
           \A k \in Clean' : Busy(call[c], k) => ~ SkipsNx(Loads(log), call[c].cmd)
    PROVE  Faithful(c)
<1>1. PICK cmd : cmd = call[c].cmd
  OBVIOUS
<1>2. PICK i : i = call[c].i
  OBVIOUS
<1>3. PICK L : L = Loads(log)
  OBVIOUS
<1>4. cmd.op \notin {"LPOP", "RPOP"} /\ cmd.op \in Writing /\ cmd.op \notin Whole
  BY <1>1 DEF Loops, Storing, Writing, Creating, Removing, Whole
<1>5. /\ L \in Caches /\ cmd \in Commands /\ DOMAIN cmd.args = 1 .. Len(cmd.args)
      /\ Len(cmd.args) \in Nat /\ i \in 1 .. Len(cmd.args)
      /\ \A k \in Clean : Busy(call[c], k) =>
             Alike(ReplayArgs(L, cmd, Done(call[c])), db, k)
  <2>1. call[c].pc # "idle"
    OBVIOUS
  <2> QED
    BY <1>1, <1>2, <1>3, <1>4, <2>1, AtWork
<1>6. Clean' \subseteq Clean /\ \A k \in Clean' : k \in Keys /\ k \notin lossy'
  BY DEF Step, Clean
<1>7. Done(call[c]) = i - 1
  BY <1>2 DEF Done
<1>8. \/ /\ call'[c].pc = "run" /\ call'[c].cmd = cmd
         /\ call'[c].i = i + 1 /\ pending' = pending
      \/ /\ call'[c] = Idle /\ i = Len(cmd.args)
         /\ pending' = pending \cup {[id |-> call[c].id, cmd |-> cmd]}
  BY <1>1, <1>2, <1>4, IterationEnds
<1>9. ASSUME NEW k \in Clean', Busy(call[c], k)
      PROVE  Alike(ReplayArgs(L, cmd, i), db', k)
  <2>1. PICK f : f = ReplayArgs(L, cmd, i - 1)
    OBVIOUS
  <2>2. i - 1 \in 0 .. Len(cmd.args)
    BY <1>5
  <2>3. f \in Caches /\ DOMAIN f = Types /\ ReplayArgs(L, cmd, i) = ReplayArg(f, cmd, i)
    BY <1>5, <2>1, <2>2, ReplayArgsSteps, CacheFacts
  <2>4. Alike(f, db, k) /\ k \in Keys
    BY <1>5, <1>6, <1>7, <1>9, <2>1
  <2>5. Sets(f, ReplayArg(f, cmd, i), t, j, Changed(cmd, View(f, t, j), i))
    BY <1>1, <1>2, <2>3, ArgSets
  <2>6. j = k => Changed(cmd, View(f, t, j), i) = v
    <3>1. j = k => View(f, t, j) = View(db, t, j) /\ j \notin lossy'
      BY <1>6, <2>4 DEF Alike
    <3> QED
      BY <1>1, <1>2, <3>1
  <2> QED
    BY <2>3, <2>4, <2>5, <2>6, SetsAlike
<1>10. ASSUME NEW k \in Clean', ~ Busy(call[c], k)
       PROVE  Alike(db, db', k)
  <2>1. j \in KeysOf(cmd)
    BY <1>1, <1>2, <1>5, TargetIsKey
  <2>2. j # k
    BY <1>1, <1>4, <1>10, <2>1 DEF Busy
  <2> QED
    BY <1>6, <2>2, SetsElsewhere
<1>11. ASSUME NEW k \in Clean'
       PROVE  Mirrored(c, k)
  <2>1. CASE ~ Busy(call[c], k)
    BY <1>10, <2>1 DEF Mirrored
  <2>2. CASE /\ Busy(call[c], k) /\ call'[c].pc = "run" /\ call'[c].cmd = cmd
             /\ call'[c].i = i + 1 /\ pending' = pending
    <3>1. Busy(call'[c], k) /\ Done(call'[c]) = i
      BY <1>1, <1>5, <2>2 DEF Busy, Done
    <3> QED
      BY <1>1, <1>3, <1>9, <2>2, <3>1 DEF Mirrored
  <2>3. CASE /\ Busy(call[c], k) /\ call'[c] = Idle /\ i = Len(cmd.args)
             /\ pending' = pending \cup {[id |-> call[c].id, cmd |-> cmd]}
    <3>1. replayCommand(L, cmd) = ReplayArgs(L, cmd, i)
      BY <1>1, <1>3, <1>4, <2>3, ReplayCommandIs
    <3>2. \E r \in pending' : r.cmd = cmd
      <4>1. PICK r : r = [id |-> call[c].id, cmd |-> cmd]
        OBVIOUS
      <4>2. r.cmd = cmd /\ r \in pending'
        BY <2>3, <4>1
      <4> QED
        BY <4>2
    <3> QED
      BY <1>1, <1>3, <1>9, <2>3, <3>1, <3>2 DEF Mirrored
  <2> QED
    BY <1>8, <2>1, <2>2, <2>3
<1>12. Lives'
  BY SetsLives
<1>13. Unseen(call'[c], Loads(log), Clean')
  <2>1. Unseen(call[c], Loads(log), Clean)
    BY DEF ReplayInv, NxAbsent
  <2> QED
    BY <1>1, <1>6, <1>8, <2>1 DEF Unseen, Idle
<1>14. /\ pending \subseteq pending'
       /\ \A r \in pending' : \/ r \in pending
                              \/ r.cmd = call[c].cmd /\ call'[c] = Idle /\ r.cmd.op \in Writing
       /\ \A r, s \in pending' \ pending : r = s
  BY <1>1, <1>4, <1>8
<1> QED
  BY <1>11, <1>12, <1>13, <1>14 DEF Faithful

(* A step that carries out the whole command, as its replay will. *)
LEMMA WholeIsFaithful ==
    ASSUME ReplayInv, NEW c \in Clients, call[c].pc # "idle", call[c].cmd.op \in Whole,
           Step(c), lossy' = lossy, NEW t \in Types, t = TypeOf(call[c].cmd.op),
           NEW j, j = call[c].cmd.key,
           Sets(db, db', t, j, Changed(call[c].cmd, View(db, t, j), 1)), LogAndReturn(c)
    PROVE  Faithful(c)
<1>1. PICK cmd : cmd = call[c].cmd
  OBVIOUS
<1>2. PICK L : L = Loads(log)
  OBVIOUS
<1>3. cmd.op \notin Loops /\ cmd.op \in Writing /\ t # "str" /\ KeysOf(cmd) = {j}
      /\ cmd.op # "MSETNX"
  BY <1>1, TypeOfOps, KeysOfOps DEF Loops, Storing, Writing, Creating, Removing, Whole
<1>4. /\ L \in Caches /\ DOMAIN L = Types /\ cmd \in Commands /\ DOMAIN call = Clients
      /\ \A k \in Clean : Busy(call[c], k) =>
             Alike(ReplayArgs(L, cmd, Done(call[c])), db, k)
  BY <1>1, <1>2, AtWork DEF Typed
<1>5. Clean' \subseteq Clean /\ \A k \in Clean' : k \in Keys
  BY DEF Step, Clean
<1>6. Done(call[c]) = 0 /\ ReplayArgs(L, cmd, 0) = L
  BY <1>1, <1>3, <1>4, ReplayArgsSteps DEF Done
<1>7. /\ call'[c] = Idle /\ pending' = pending \cup {[id |-> call[c].id, cmd |-> cmd]}
  BY <1>1, <1>4 DEF LogAndReturn
<1>8. ASSUME NEW k \in Clean'
      PROVE  Mirrored(c, k)
  <2>1. CASE Busy(call[c], k)
    <3>1. Alike(L, db, k) /\ k \in Keys
      BY <1>4, <1>5, <1>6, <2>1
    <3>2. Sets(L, replayCommand(L, cmd), t, j, Changed(cmd, View(L, t, j), 1))
      BY <1>1, <1>4, WholeSets
    <3>3. j = k => Changed(cmd, View(L, t, j), 1) = Changed(cmd, View(db, t, j), 1)
      <4>1. j = k => View(L, t, j) = View(db, t, j)
        BY <3>1 DEF Alike
      <4> QED
        BY <4>1
    <3>4. Alike(replayCommand(L, cmd), db', k)
      BY <1>1, <3>1, <3>2, <3>3, SetsAlike
    <3>5. \E r \in pending' : r.cmd = cmd
      <4>1. PICK r : r = [id |-> call[c].id, cmd |-> cmd]
        OBVIOUS
      <4>2. r.cmd = cmd /\ r \in pending'
        BY <1>7, <4>1
      <4> QED
        BY <4>2
    <3> QED
      BY <1>1, <1>2, <1>7, <2>1, <3>4, <3>5 DEF Mirrored
  <2>2. CASE ~ Busy(call[c], k)
    <3>1. j # k
      BY <1>1, <1>3, <2>2 DEF Busy
    <3> QED
      BY <1>5, <2>2, <3>1, SetsElsewhere DEF Mirrored
  <2> QED
    BY <2>1, <2>2
<1>9. Lives'
  BY <1>3, SetsLives
<1>10. Unseen(call'[c], Loads(log), Clean')
  BY <1>7 DEF Unseen, Idle
<1>11. /\ pending \subseteq pending'
       /\ \A r \in pending' : \/ r \in pending
                              \/ r.cmd = call[c].cmd /\ call'[c] = Idle /\ r.cmd.op \in Writing
       /\ \A r, s \in pending' \ pending : r = s
  BY <1>1, <1>3, <1>7
<1> QED
  BY <1>8, <1>9, <1>10, <1>11 DEF Faithful

-----------------------------------------------------------------------------
(* The handlers are faithful, one step at a time *)

(* A step of a handler that has its object and works through its arguments. *)
LEMMA ObjectLoop ==
    ASSUME ReplayInv, NEW c \in Clients, call[c].pc \in {"run", "put"},
           call[c].cmd.op \in {"HSET", "HDEL", "ZADD", "ZREM"}, Step(c), lossy' = lossy,
           NEW t, t = TypeOf(call[c].cmd.op), NEW k, k = call[c].cmd.key,
           db' = Store(db, t, k, Changed(call[c].cmd, db[t][k], call[c].i)),
           NextArg(c, "run")
    PROVE  Faithful(c)
<1>1. Typed /\ DOMAIN db = Types
  BY AtWork
<1>2. call[c].cmd.op \in OnObjects /\ call[c].cmd.op \in Loops /\ call[c].cmd.op # "MSETNX"
      /\ call[c].cmd.op \notin Storing
  BY DEF OnObjects, Creating, Removing, Loops, Storing
<1>3. t \in ObjectTypes /\ t \in Types /\ t # "str" /\ k \in DOMAIN db[t]
  BY <1>1, <1>2, ObjectAt DEF ObjectTypes, Types
<1>4. View(db, t, k) = db[t][k]
  BY <1>3 DEF View, Object
<1>5. k = Target(call[c].cmd, call[c].i)
  BY <1>2 DEF Target
<1>6. PICK v : v = Changed(call[c].cmd, View(db, t, k), call[c].i)
  OBVIOUS
<1>7. Sets(db, db', t, k, v)
  BY <1>1, <1>3, <1>4, <1>6, StoreSets
<1>8. ~ SkipsNx(Loads(log), call[c].cmd)
  BY <1>2, ReplayCommandIs
<1> QED
  BY <1>2, <1>3, <1>5, <1>6, <1>7, <1>8, LoopIsFaithful

(* A step of a handler that has its object and carries out all at once. *)
LEMMA ObjectWhole ==
    ASSUME ReplayInv, NEW c \in Clients, call[c].pc = "run",
           call[c].cmd.op \in Whole, Step(c), lossy' = lossy,
           NEW t, t = TypeOf(call[c].cmd.op), NEW k, k = call[c].cmd.key,
           db' = Store(db, t, k, Changed(call[c].cmd, db[t][k], 1)),
           LogAndReturn(c)
    PROVE  Faithful(c)
<1>1. Typed /\ DOMAIN db = Types
  BY AtWork
<1>2. call[c].cmd.op \in OnObjects
  BY DEF OnObjects, Creating, Removing, Whole
<1>3. t \in ObjectTypes /\ t \in Types /\ t # "str" /\ k \in DOMAIN db[t]
  BY <1>1, <1>2, ObjectAt DEF ObjectTypes, Types
<1>4. View(db, t, k) = db[t][k]
  BY <1>3 DEF View, Object
<1>5. Sets(db, db', t, k, Changed(call[c].cmd, View(db, t, k), 1))
  BY <1>1, <1>3, <1>4, StoreSets
<1> QED
  BY <1>3, <1>5, WholeIsFaithful

(* Creating an object shows nothing. *)
LEMMA CreateShowsNothing ==
    ASSUME NEW d, DOMAIN d = Types, NEW t \in ObjectTypes, NEW k, NEW j \in Keys
    PROVE  Alike(d, GetOrCreate(d, t, k), j)
<1>1. CASE k \in DOMAIN d[t]
  BY <1>1, AlikeIsEquivalence DEF GetOrCreate
<1>2. CASE k \notin DOMAIN d[t]
  <2>1. PICK v : v = NewObject[t]
    OBVIOUS
  <2>2. GetOrCreate(d, t, k) = Store(d, t, k, v) /\ View(d, t, k) = v
    BY <1>2, <2>1 DEF GetOrCreate, View, Object, ObjectTypes
  <2>3. Sets(d, Store(d, t, k, v), t, k, v) /\ Sets(d, d, t, k, v)
    BY <2>2, StoreSets, NothingSets
  <2> QED
    BY <2>2, <2>3, SetsAlike, AlikeIsEquivalence
<1> QED
  BY <1>1, <1>2

LEMMA CreateIsFaithful ==
    ASSUME ReplayInv, NEW c \in Clients, Create(c)
    PROVE  Faithful(c)
<1>1. call[c].pc = "create" /\ call[c].cmd.op \in Creating /\ Goto(c, "run", 1)
      /\ pending' = pending /\ lossy' = lossy
  BY DEF Create, At, Goto
<1>2. call[c].pc # "idle" /\ call[c].cmd.op \in OnObjects /\ call[c].cmd.op # "MSETNX"
  BY <1>1 DEF OnObjects, Creating
<1>3. Typed /\ DOMAIN db = Types
  BY <1>2, AtWork
<1>4. Step(c)
  BY <1>3, CreateIsPlain DEF Plain
<1>5. PICK t \in ObjectTypes : t = TypeOf(call[c].cmd.op)
  BY <1>2, TypeOfOps DEF ObjectTypes
<1>6. db' = GetOrCreate(db, t, Key(c))
  BY <1>5 DEF Create
<1>7. \A k \in Keys \ lossy' : Alike(db, db', k)
  BY <1>3, <1>6, CreateShowsNothing
<1>8. InRange(call[c].cmd, 1)
  BY <1>2, <1>3, FirstPlace
<1>9. Moves(c) /\ call'[c].pc = "run" /\ call'[c].i = 1
  BY <1>1, <1>2, <1>3, <1>8, Going DEF Pcs
<1>10. call'[c].cmd = call[c].cmd
  BY <1>9 DEF Moves, Idle
<1>11. Done(call'[c]) = 0 /\ Done(call[c]) = 0
  BY <1>1, <1>9 DEF Done
<1>12. Unseen(call'[c], Loads(log), Clean')
  BY <1>2, <1>10 DEF Unseen
<1> QED
  BY <1>1, <1>2, <1>4, <1>7, <1>9, <1>11, <1>12, QuietIsFaithful

LEMMA FindIsFaithful ==
    ASSUME ReplayInv, NEW c \in Clients, Find(c)
    PROVE  Faithful(c)
<1>1. call[c].pc = "find" /\ call[c].cmd.op \in Removing
      /\ pending' = pending /\ lossy' = lossy /\ db' = db
  BY DEF Find, At, Goto, Return
<1>2. call[c].pc # "idle" /\ call[c].cmd.op \in OnObjects /\ call[c].cmd.op # "MSETNX"
  BY <1>1 DEF OnObjects, Removing
<1>3. Typed
  BY <1>2, AtWork
<1>4. Step(c)
  BY <1>3, FindIsPlain DEF Plain
<1>5. \A k \in Keys \ lossy' : Alike(db, db', k)
  BY <1>1, AlikeIsEquivalence
<1>6. call'[c] = Idle \/ (call'[c].pc = "run" /\ call'[c].i = 1)
  <2>1. InRange(call[c].cmd, 1)
    BY <1>2, <1>3, FirstPlace
  <2> QED
    BY <1>2, <1>3, <2>1, Going, Ending DEF Pcs, Find
<1>7. call'[c] = Idle \/ call'[c].cmd = call[c].cmd
  BY <1>4 DEF Step, Moves
<1>8. Done(call[c]) = 0 /\ (call'[c] = Idle \/ Done(call'[c]) = 0)
  BY <1>1, <1>6 DEF Done
<1>9. Unseen(call'[c], Loads(log), Clean')
  BY <1>2, <1>7 DEF Unseen, Idle
<1> QED
  BY <1>1, <1>2, <1>4, <1>5, <1>6, <1>8, <1>9, QuietIsFaithful

LEMMA HSetIsFaithful ==
    ASSUME ReplayInv, NEW c \in Clients, HSetHas(c) \/ HSetPut(c)
    PROVE  Faithful(c)
<1>1. PICK k : k = call[c].cmd.key
  OBVIOUS
<1>2. PICK f : f = Arg(c)[1]
  OBVIOUS
<1>3. Typed
  BY DEF ReplayInv, Inv
<1>4. CASE HSetHas(c)
  <2>1. /\ Step(c) /\ db' = db /\ call[c].pc = "run" /\ call[c].cmd.op = "HSET"
        /\ call'[c].pc = "put" /\ call'[c].i = call[c].i /\ call'[c].cmd = call[c].cmd
    BY <1>1, <1>2, <1>3, <1>4, HSetHasCounts
  <2>2. pending' = pending /\ lossy' = lossy
    BY <1>4 DEF HSetHas, Goto
  <2>3. \A k2 \in Keys \ lossy' : Alike(db, db', k2)
    BY <2>1, AlikeIsEquivalence
  <2>4. Done(call'[c]) = Done(call[c])
    BY <2>1 DEF Done
  <2>5. Unseen(call'[c], Loads(log), Clean')
    BY <2>1 DEF Unseen
  <2> QED
    BY <2>1, <2>2, <2>3, <2>4, <2>5, QuietIsFaithful
<1>5. CASE HSetPut(c)
  <2>1. Step(c) /\ call[c].pc = "put" /\ call[c].cmd.op = "HSET"
    BY <1>1, <1>2, <1>3, <1>5, HSetPutStores
  <2>2. TypeOf(call[c].cmd.op) = "hash" /\ lossy' = lossy /\ NextArg(c, "run")
    BY <1>5, <2>1, TypeOfOps DEF HSetPut
  <2>3. db' = Store(db, "hash", k, Changed(call[c].cmd, db["hash"][k], call[c].i))
    BY <1>1, <1>5, <2>1 DEF HSetPut, Key, Arg, Changed
  <2> QED
    BY <1>1, <2>1, <2>2, <2>3, ObjectLoop
<1> QED
  BY <1>4, <1>5

LEMMA HDelFieldIsFaithful ==
    ASSUME ReplayInv, NEW c \in Clients, HDelField(c)
    PROVE  Faithful(c)
<1>1. PICK k : k = call[c].cmd.key
  OBVIOUS
<1>2. call[c].pc = "run" /\ call[c].cmd.op = "HDEL" /\ lossy' = lossy /\ NextArg(c, "run")
  BY DEF HDelField, At
<1>3. Step(c) /\ TypeOf(call[c].cmd.op) = "hash"
  BY <1>2, HDelFieldIsPlain, TypeOfOps DEF Plain, ReplayInv, Inv
<1>4. db' = Store(db, "hash", k, Changed(call[c].cmd, db["hash"][k], call[c].i))
  BY <1>1, <1>2 DEF HDelField, Key, Arg, Changed
<1> QED
  BY <1>1, <1>2, <1>3, <1>4, ObjectLoop

LEMMA ZAddPairIsFaithful ==
    ASSUME ReplayInv, NEW c \in Clients, ZAddPair(c)
    PROVE  Faithful(c)
<1>1. PICK k : k = call[c].cmd.key
  OBVIOUS
<1>2. call[c].pc = "run" /\ call[c].cmd.op = "ZADD" /\ lossy' = lossy /\ NextArg(c, "run")
  BY DEF ZAddPair, At
<1>3. Step(c) /\ TypeOf(call[c].cmd.op) = "zset"
  BY <1>2, ZAddPairIsPlain, TypeOfOps DEF Plain, ReplayInv, Inv
<1>4. db' = Store(db, "zset", k, Changed(call[c].cmd, db["zset"][k], call[c].i))
  BY <1>1, <1>2 DEF ZAddPair, Key, Arg, Changed
<1> QED
  BY <1>1, <1>2, <1>3, <1>4, ObjectLoop

LEMMA ZRemMemberIsFaithful ==
    ASSUME ReplayInv, NEW c \in Clients, ZRemMember(c)
    PROVE  Faithful(c)
<1>1. PICK k : k = call[c].cmd.key
  OBVIOUS
<1>2. call[c].pc = "run" /\ call[c].cmd.op = "ZREM" /\ lossy' = lossy /\ NextArg(c, "run")
  BY DEF ZRemMember, At
<1>3. Step(c) /\ TypeOf(call[c].cmd.op) = "zset"
  BY <1>2, ZRemMemberIsPlain, TypeOfOps DEF Plain, ReplayInv, Inv
<1>4. db' = Store(db, "zset", k, Changed(call[c].cmd, db["zset"][k], call[c].i))
  BY <1>1, <1>2 DEF ZRemMember, Key, Arg, Changed
<1> QED
  BY <1>1, <1>2, <1>3, <1>4, ObjectLoop

LEMMA PushIsFaithful ==
    ASSUME ReplayInv, NEW c \in Clients, Push(c)
    PROVE  Faithful(c)
<1>1. PICK k : k = call[c].cmd.key
  OBVIOUS
<1>2. call[c].pc = "run" /\ call[c].cmd.op \in {"LPUSH", "RPUSH"} /\ lossy' = lossy
      /\ LogAndReturn(c)
  BY DEF Push, At
<1>3. Step(c) /\ TypeOf(call[c].cmd.op) = "list" /\ call[c].cmd.op \in Whole
  BY <1>2, PushIsPlain, TypeOfOps DEF Plain, ReplayInv, Inv, Whole
<1>4. db' = Store(db, "list", k, Changed(call[c].cmd, db["list"][k], 1))
  BY <1>1, <1>2 DEF Push, Key, Changed
<1> QED
  BY <1>1, <1>2, <1>3, <1>4, ObjectWhole

LEMMA PopIsFaithful ==
    ASSUME ReplayInv, NEW c \in Clients, Pop(c)
    PROVE  Faithful(c)
<1>1. PICK k : k = call[c].cmd.key
  OBVIOUS
<1>2. call[c].pc = "run" /\ call[c].cmd.op \in {"LPOP", "RPOP"} /\ lossy' = lossy
      /\ LogAndReturn(c)
  BY DEF Pop, At
<1>3. Step(c) /\ TypeOf(call[c].cmd.op) = "list" /\ call[c].cmd.op \in Whole
  BY <1>2, PopIsPlain, TypeOfOps DEF Plain, ReplayInv, Inv, Whole
<1>4. db' = Store(db, "list", k, Changed(call[c].cmd, db["list"][k], 1))
  BY <1>1, <1>2 DEF Pop, Key, Changed
<1> QED
  BY <1>1, <1>2, <1>3, <1>4, ObjectWhole

LEMMA PopEmptyIsFaithful ==
    ASSUME ReplayInv, NEW c \in Clients, PopEmpty(c)
    PROVE  Faithful(c)
<1>1. call[c].pc = "run" /\ call[c].cmd.op \in {"LPOP", "RPOP"} /\ db' = db /\ lossy' = lossy
      /\ pending' = pending /\ Return(c)
  BY DEF PopEmpty, At, Return
<1>2. Typed
  BY DEF ReplayInv, Inv
<1>3. Step(c) /\ call'[c] = Idle
  BY <1>1, <1>2, PopEmptyIsPlain, Ending DEF Plain
<1>4. \A k \in Keys \ lossy' : Alike(db, db', k)
  BY <1>1, AlikeIsEquivalence
<1>5. Done(call[c]) = 0
  BY <1>1 DEF Done, Loops, Storing
<1>6. Unseen(call'[c], Loads(log), Clean')
  BY <1>3 DEF Unseen, Idle
<1> QED
  BY <1>1, <1>3, <1>4, <1>5, <1>6, QuietIsFaithful

LEMMA SetsAreFaithful ==
    ASSUME ReplayInv, NEW c \in Clients, SAdd(c) \/ SRem(c)
    PROVE  Faithful(c)
<1>1. PICK k : k = call[c].cmd.key
  OBVIOUS
<1>2. call[c].pc = "run" /\ call[c].cmd.op \in {"SADD", "SREM"} /\ lossy' = lossy
      /\ LogAndReturn(c)
  BY DEF SAdd, SRem, At
<1>3. Step(c) /\ TypeOf(call[c].cmd.op) = "set" /\ call[c].cmd.op \in Whole
  BY <1>2, SAddIsPlain, SRemIsPlain, TypeOfOps DEF Plain, ReplayInv, Inv, Whole
<1>4. db' = Store(db, "set", k, Changed(call[c].cmd, db["set"][k], 1))
  BY <1>1, <1>2 DEF SAdd, SRem, At, Key, Changed
<1> QED
  BY <1>1, <1>2, <1>3, <1>4, ObjectWhole

LEMMA ZAddInvalidIsFaithful ==
    ASSUME ReplayInv, NEW c \in Clients, ZAddInvalid(c)
    PROVE  Faithful(c)
<1>1. call[c].pc = "run" /\ call[c].cmd.op = "ZADD" /\ db' = db /\ Return(c) /\ pending' = pending
      /\ lossy' = IF call[c].i > 1 THEN lossy \cup {call[c].cmd.key} ELSE lossy
  BY DEF ZAddInvalid, At, Return, Key
<1>2. Typed /\ call[c].i \in Nat /\ call[c].i \in 1 .. Len(call[c].cmd.args)
      /\ Len(call[c].cmd.args) \in Nat
  BY <1>1, AtWork
<1>3. Step(c) /\ call'[c] = Idle
  BY <1>1, <1>2, ZAddInvalidIsPlain, Ending DEF Plain
<1>4. \A k \in Keys \ lossy' : Alike(db, db', k)
  BY <1>1, AlikeIsEquivalence
<1>5. ASSUME NEW k \in Clean', Busy(call[c], k)
      PROVE  Done(call[c]) = 0
  <2>1. k = call[c].cmd.key
    BY <1>1, <1>5, KeysOfOps DEF Busy, Storing
  <2>2. ~ (call[c].i > 1)
    BY <1>1, <1>5, <2>1 DEF Clean
  <2> QED
    BY <1>1, <1>2, <2>2 DEF Done
<1>6. Unseen(call'[c], Loads(log), Clean')
  BY <1>3 DEF Unseen, Idle
<1>7. lossy \subseteq lossy'
  BY <1>1
<1> QED
  BY <1>1, <1>3, <1>4, <1>5, <1>6, <1>7, QuietIsFaithful

(* A key that shows no string has none. *)
LEMMA ShowsNoString ==
    ASSUME NEW d, NEW k
    PROVE  View(d, "str", k) = <<>> <=> k \notin DOMAIN d["str"]
<1>1. \A x : <<x>> # <<>>
  OBVIOUS
<1> QED
  BY <1>1 DEF View

LEMMA NxCheckIsFaithful ==
    ASSUME ReplayInv, NEW c \in Clients, NxCheck(c)
    PROVE  Faithful(c)
<1>1. Typed /\ Tested
  BY DEF ReplayInv, Inv
<1>2. /\ Plain(c) /\ db' = db /\ raced' = raced
      /\ call[c].pc = "check" /\ call[c].cmd.op = "MSETNX"
      /\ \/ call'[c] = Idle
         \/ /\ call'[c].cmd = call[c].cmd
            /\ \/ call'[c].pc = "check"
               \/ call'[c].pc = "run" /\ call'[c].i = 1
  BY <1>1, NxCheckIsPlain
<1>3. pending' = pending /\ lossy' = lossy
  BY DEF NxCheck, Return, Goto
<1>4. Step(c) /\ call[c].pc # "idle"
  BY <1>2 DEF Plain
<1>5. \A k \in Keys \ lossy' : Alike(db, db', k)
  BY <1>2, AlikeIsEquivalence
<1>6. Done(call[c]) = 0 /\ (call'[c] = Idle \/ Done(call'[c]) = 0)
  BY <1>2 DEF Done
<1>7. call'[c] = Idle \/ call'[c].pc # "idle"
  BY <1>2
<1>8. Unseen(call'[c], Loads(log), Clean')
  <2> SUFFICES ASSUME call'[c].pc = "run", NEW k \in KeysOf(call'[c].cmd) \cap Clean'
               PROVE  k \notin DOMAIN Loads(log)["str"]
    BY DEF Unseen
  <2>1. call'[c].cmd = call[c].cmd /\ call'[c].i = 1
    BY <1>2 DEF Idle
  <2>2. Knows(call'[c], db, raced)
    BY <1>1, <1>2, NxCheckKnows
  <2>3. k \in KeysOf(call[c].cmd) /\ k \in Clean /\ k \notin raced
    BY <1>2, <1>3, <2>1 DEF Clean
  <2>4. PICK j \in DOMAIN call[c].cmd.args : k = call[c].cmd.args[j][1]
    BY <1>2, <2>3, KeysOfOps DEF Storing
  <2>5. 1 .. (1 - 1) = {}
    OBVIOUS
  <2>6. k \notin DOMAIN db["str"]
    BY <1>2, <2>1, <2>2, <2>3, <2>4, <2>5 DEF Knows
  <2>7. Busy(call[c], k)
    BY <1>2, <2>3 DEF Busy, Writing, Storing
  <2>8. Alike(Loads(log), db, k)
    BY <1>4, <1>6, <2>3, <2>7, AtWork, ReplayArgsSteps
  <2>9. View(Loads(log), "str", k) = View(db, "str", k)
    BY <2>8 DEF Alike, Types
  <2> QED
    BY <2>6, <2>9, ShowsNoString
<1> QED
  BY <1>3, <1>4, <1>5, <1>6, <1>7, <1>8, QuietIsFaithful

LEMMA PutKeyIsFaithful ==
    ASSUME ReplayInv, NEW c \in Clients, PutKey(c)
    PROVE  Faithful(c)
<1>1. PICK cmd : cmd = call[c].cmd
  OBVIOUS
<1>2. PICK i : i = call[c].i
  OBVIOUS
<1>3. PICK j : j = cmd.args[i][1]
  OBVIOUS
<1>4. Typed
  BY DEF ReplayInv, Inv
<1>5. Step(c) /\ call[c].pc = "run" /\ cmd.op \in Storing
  BY <1>1, <1>4, PutKeyIsPlain DEF Plain
<1>6. /\ lossy' = IF cmd.op = "MSETNX" /\ KeysOf(cmd) \cap lossy # {}
                  THEN lossy \cup KeysOf(cmd) ELSE lossy
      /\ raced' = IF cmd.op = "MSETNX" /\ KeysOf(cmd) \cap raced # {}
                  THEN raced \cup KeysOf(cmd) ELSE raced
      /\ NextArg(c, "run")
  BY <1>1 DEF PutKey
<1>7. PICK item : item = NewItem(cmd, i)
  OBVIOUS
<1>8. db' = Store(db, "str", j, item)
  BY <1>1, <1>2, <1>3, <1>7 DEF PutKey, Arg, SetItem
<1>9. DOMAIN db = Types /\ cmd \in Commands /\ i \in DOMAIN cmd.args /\ call[c].pc # "idle"
  BY <1>1, <1>2, <1>5, AtWork DEF Storing
<1>10. Sets(db, db', "str", j, <<item>>)
  BY <1>8, <1>9, SetItemSets
<1>11. TypeOf(cmd.op) = "str" /\ cmd.op \in Loops /\ j = Target(cmd, i) /\ "str" \in Types
  BY <1>3, <1>5 DEF TypeOf, Storing, Loops, Target, Types
<1>12. j \in KeysOf(cmd)
  BY <1>9, <1>11, TargetIsKey
<1>13. j \notin lossy' => ~ (cmd.op = "SET" /\ cmd.opt = "PX")
  <2>1. LossyBy(cmd) \subseteq lossy
    BY <1>1, <1>9 DEF ReplayInv, Lost
  <2>2. lossy \subseteq lossy'
    BY <1>6
  <2> QED
    BY <1>12, <2>1, <2>2 DEF LossyBy
<1>14. cmd.opt \in {"none", "EX", "PX"}
  BY <1>9, CommandAssumption DEF Commands
<1>15. j \notin lossy' => /\ <<item>> = Changed(cmd, View(db, "str", j), i)
                          /\ Lasting(<<item>>)
  <2> SUFFICES ASSUME j \notin lossy'
               PROVE  /\ <<item>> = Changed(cmd, View(db, "str", j), i)
                      /\ Lasting(<<item>>)
    OBVIOUS
  <2>1. item = ReplayedItem(cmd, i) /\ item.ttl \in {"none", "EX"}
    BY <1>7, <1>13, <1>14 DEF NewItem, ReplayedItem
  <2>2. Changed(cmd, View(db, "str", j), i) = <<ReplayedItem(cmd, i)>>
    BY <1>5 DEF Changed, Storing
  <2>3. <<item>>[1] = item
    OBVIOUS
  <2> QED
    BY <2>1, <2>2, <2>3 DEF Lasting
<1>16. ASSUME NEW k \in Clean', Busy(call[c], k)
       PROVE  ~ SkipsNx(Loads(log), cmd)
  <2> SUFFICES ASSUME cmd.op = "MSETNX"
               PROVE  ~ SkipsNx(Loads(log), cmd)
    BY DEF SkipsNx
  <2>1. k \in KeysOf(cmd) /\ k \notin lossy' /\ k \notin raced'
    BY <1>1, <1>16 DEF Busy, Clean
  <2>2. KeysOf(cmd) \cap lossy = {} /\ KeysOf(cmd) \cap raced = {} /\ KeysOf(cmd) \subseteq Keys
    BY <1>6, <1>9, <2>1, KeysOfType
  <2>3. KeysOf(cmd) \subseteq Clean
    BY <2>2 DEF Clean
  <2>4. Unseen(call[c], Loads(log), Clean)
    BY DEF ReplayInv, NxAbsent
  <2> QED
    BY <1>1, <1>5, <2>3, <2>4 DEF Unseen, SkipsNx, HasKey
<1>17. lossy \subseteq lossy'
  BY <1>6
<1>18. PICK v : v = <<item>>
  OBVIOUS
<1> QED
  BY <1>1, <1>2, <1>5, <1>6, <1>10, <1>11, <1>15, <1>16, <1>17, <1>18, LoopIsFaithful

LEMMA DelKeyIsFaithful ==
    ASSUME ReplayInv, NEW c \in Clients, DelKey(c)
    PROVE  Faithful(c)
<1>1. PICK j : j = Arg(c)
  OBVIOUS
<1>2. call[c].pc = "run" /\ call[c].cmd.op = "DEL" /\ lossy' = lossy /\ NextArg(c, "run")
      /\ db' = Delete(db, j)
  BY <1>1 DEF DelKey, At
<1>3. Typed /\ DOMAIN db = Types
  BY <1>2, AtWork
<1>4. Step(c)
  BY <1>3, DelKeyIsPlain DEF Plain
<1>5. PICK v : v = <<>>
  OBVIOUS
<1>6. Sets(db, db', "str", j, v)
  BY <1>2, <1>3, <1>5, DeleteSets
<1>7. /\ TypeOf(call[c].cmd.op) = "str" /\ call[c].cmd.op \in Loops /\ "str" \in Types
      /\ j = Target(call[c].cmd, call[c].i)
      /\ v = Changed(call[c].cmd, View(db, "str", j), call[c].i) /\ Lasting(v)
  BY <1>1, <1>2, <1>5 DEF TypeOf, Loops, Target, Types, Arg, Storing, Changed, Lasting
<1>8. ~ SkipsNx(Loads(log), call[c].cmd)
  BY <1>2 DEF SkipsNx
<1> QED
  BY <1>2, <1>4, <1>6, <1>7, <1>8, LoopIsFaithful

(* Looking up shows nothing but that an expired item goes. *)
LEMMA LookingShowsNothing ==
    ASSUME ReplayInv, DOMAIN db = Types, NEW j, NEW k \in Keys \ lossy
    PROVE  Alike(db, AfterGet(db, j), k)
<1>1. AfterGet(db, j) = db \/ (AfterGet(db, j) = Delete(db, j) /\ HasKey(db, j) /\ ~ Found(db, j))
  BY DEF AfterGet
<1>2. CASE AfterGet(db, j) = db
  BY <1>2, AlikeIsEquivalence
<1>3. CASE AfterGet(db, j) = Delete(db, j) /\ HasKey(db, j) /\ ~ Found(db, j)
  <2>1. j # k
    <3>1. db["str"][j].ttl = "past" /\ j \in DOMAIN db["str"]
      BY <1>3 DEF Found, HasKey, IsExpired
    <3>2. Lasting(View(db, "str", k))
      BY DEF ReplayInv, Lives
    <3>3. k \in DOMAIN db["str"] => View(db, "str", k) = <<db["str"][k]>>
      BY DEF View
    <3>4. \A x : <<x>> # <<>> /\ <<x>>[1] = x
      OBVIOUS
    <3>5. k \in DOMAIN db["str"] => db["str"][k].ttl \in {"none", "EX"}
      BY <3>2, <3>3, <3>4 DEF Lasting
    <3> QED
      BY <3>1, <3>5
  <2>2. Sets(db, Delete(db, j), "str", j, <<>>)
    BY DeleteSets
  <2> QED
    BY <1>3, <2>1, <2>2, SetsElsewhere
<1> QED
  BY <1>1, <1>2, <1>3

LEMMA AppendGetIsFaithful ==
    ASSUME ReplayInv, NEW c \in Clients, AppendGet(c)
    PROVE  Faithful(c)
<1>1. call[c].pc = "run" /\ call[c].cmd.op = "APPEND" /\ lossy' = lossy /\ pending' = pending
      /\ db' = AfterGet(db, Key(c))
  BY DEF AppendGet, At
<1>2. Typed /\ DOMAIN db = Types
  BY <1>1, AtWork
<1>3. Step(c)
  BY <1>2, AppendGetIsPlain DEF Plain
<1>4. \A k \in Keys \ lossy' : Alike(db, db', k)
  BY <1>1, <1>2, LookingShowsNothing
<1>5. LossyBy(call[c].cmd) \subseteq lossy
  BY <1>1 DEF ReplayInv, Lost
<1>6. \A k \in Clean' : ~ Busy(call[c], k)
  BY <1>1, <1>5 DEF LossyBy, Busy, Clean
<1>7. Unseen(call'[c], Loads(log), Clean')
  BY <1>1, <1>3 DEF Step, Moves, Unseen, Idle
<1>8. call[c].pc # "idle" /\ lossy \subseteq lossy'
  BY <1>1
<1> QED
  BY <1>1, <1>3, <1>4, <1>6, <1>7, <1>8, QuietIsFaithful

LEMMA AppendSetIsFaithful ==
    ASSUME ReplayInv, NEW c \in Clients, AppendSet(c)
    PROVE  Faithful(c)
<1>1. PICK j : j = call[c].cmd.key
  OBVIOUS
<1>2. PICK item : item = [val |-> call[c].old \o Arg(c), ttl |-> "none"]
  OBVIOUS
<1>3. call[c].pc = "put" /\ call[c].cmd.op = "APPEND" /\ lossy' = lossy /\ LogAndReturn(c)
      /\ db' = Store(db, "str", j, item)
  BY <1>1, <1>2 DEF AppendSet, At, Key, SetItem
<1>4. Typed /\ DOMAIN db = Types /\ DOMAIN call = Clients
  BY <1>3, AtWork DEF Typed
<1>5. Step(c)
  BY <1>4, AppendSetIsPlain DEF Plain
<1>6. Sets(db, db', "str", j, <<item>>)
  BY <1>3, <1>4, SetItemSets
<1>7. KeysOf(call[c].cmd) = {j} /\ j \in lossy
  BY <1>1, <1>3, KeysOfOps DEF ReplayInv, Lost, LossyBy, Storing
<1>8. Lives'
  BY <1>3, <1>6, <1>7, SetsLives
<1>9. /\ call'[c] = Idle
      /\ pending' = pending \cup {[id |-> call[c].id, cmd |-> call[c].cmd]}
  BY <1>3, <1>4 DEF LogAndReturn
<1>10. Unseen(call'[c], Loads(log), Clean')
  BY <1>9 DEF Unseen, Idle
<1>11. ASSUME NEW k \in Clean'
       PROVE  Mirrored(c, k)
  <2>1. k \in Keys /\ k # j /\ ~ Busy(call[c], k)
    BY <1>3, <1>7 DEF Clean, Busy
  <2> QED
    BY <1>6, <2>1, SetsElsewhere DEF Mirrored
<1>12. /\ pending \subseteq pending'
       /\ \A r \in pending' : \/ r \in pending
                              \/ r.cmd = call[c].cmd /\ call'[c] = Idle /\ r.cmd.op \in Writing
       /\ \A r, s \in pending' \ pending : r = s
  BY <1>3, <1>9 DEF Writing
<1> QED
  BY <1>3, <1>5, <1>8, <1>10, <1>11, <1>12 DEF Faithful

LEMMA LookIsFaithful ==
    ASSUME ReplayInv, NEW c \in Clients, Look(c)
    PROVE  Faithful(c)
<1>1. call[c].pc = "run" /\ call[c].cmd.op \in Looking /\ lossy' = lossy /\ pending' = pending
      /\ db' = AfterGet(db, Arg(c))
  BY DEF Look, At, Goto, Return
<1>2. Typed /\ DOMAIN db = Types
  BY <1>1, AtWork
<1>3. Step(c)
  BY <1>2, LookIsPlain DEF Plain
<1>4. \A k \in Keys \ lossy' : Alike(db, db', k)
  BY <1>1, <1>2, LookingShowsNothing
<1>5. call[c].cmd.op \notin Writing /\ call[c].cmd.op # "MSETNX"
  BY <1>1 DEF Looking, Writing, Creating, Removing, Storing
<1>6. \A k \in Clean' : ~ Busy(call[c], k)
  BY <1>5 DEF Busy
<1>7. Unseen(call'[c], Loads(log), Clean')
  BY <1>3, <1>5 DEF Step, Moves, Unseen, Idle
<1>8. call[c].pc # "idle" /\ lossy \subseteq lossy'
  BY <1>1
<1> QED
  BY <1>1, <1>3, <1>4, <1>6, <1>7, <1>8, QuietIsFaithful

-----------------------------------------------------------------------------
(* Every step keeps the log up with the cache *)

(* A step of a handler. *)
LEMMA HandleKeepsReplayInv ==
    ASSUME ReplayInv, NEW c \in Clients, Handle(c)
    PROVE  ReplayInv'
<1>1. Inv'
  BY HandleKeepsInv DEF ReplayInv
<1>2. ASSUME Faithful(c), call[c].pc # "idle"
      PROVE  ReplayInv'
  BY <1>1, <1>2, FaithfulKeeps
<1>3. CASE Create(c)
  BY <1>2, <1>3, CreateIsFaithful DEF Create, At
<1>4. CASE Find(c)
  BY <1>2, <1>4, FindIsFaithful DEF Find, At
<1>5. CASE HSetHas(c) \/ HSetPut(c)
  BY <1>2, <1>5, HSetIsFaithful DEF HSetHas, HSetPut, At
<1>6. CASE HDelField(c)
  BY <1>2, <1>6, HDelFieldIsFaithful DEF HDelField, At
<1>7. CASE Push(c)
  BY <1>2, <1>7, PushIsFaithful DEF Push, At
<1>8. CASE PopEmpty(c)
  BY <1>2, <1>8, PopEmptyIsFaithful DEF PopEmpty, At
<1>9. CASE Pop(c)
  BY <1>2, <1>9, PopIsFaithful DEF Pop, At
<1>10. CASE SAdd(c) \/ SRem(c)
  BY <1>2, <1>10, SetsAreFaithful DEF SAdd, SRem, At
<1>11. CASE ZAddPair(c)
  BY <1>2, <1>11, ZAddPairIsFaithful DEF ZAddPair, At
<1>12. CASE ZAddInvalid(c)
  BY <1>2, <1>12, ZAddInvalidIsFaithful DEF ZAddInvalid, At
<1>13. CASE ZRemMember(c)
  BY <1>2, <1>13, ZRemMemberIsFaithful DEF ZRemMember, At
<1>14. CASE NxCheck(c)
  BY <1>2, <1>14, NxCheckIsFaithful DEF NxCheck, At
<1>15. CASE PutKey(c)
  BY <1>2, <1>15, PutKeyIsFaithful DEF PutKey, At
<1>16. CASE DelKey(c)
  BY <1>2, <1>16, DelKeyIsFaithful DEF DelKey, At
<1>17. CASE AppendGet(c)
  BY <1>2, <1>17, AppendGetIsFaithful DEF AppendGet, At
<1>18. CASE AppendSet(c)
  BY <1>2, <1>18, AppendSetIsFaithful DEF AppendSet, At
<1>19. CASE Look(c)
  BY <1>2, <1>19, LookIsFaithful DEF Look, At
<1> QED
  BY <1>3, <1>4, <1>5, <1>6, <1>7, <1>8, <1>9, <1>10, <1>11, <1>12, <1>13, <1>14, <1>15,
     <1>16, <1>17, <1>18, <1>19 DEF Handle

(* A handler has not carried out more arguments than it has. *)
LEMMA DoneInRange ==
    ASSUME ReplayInv, NEW c \in Clients, call[c].pc # "idle"
    PROVE  Done(call[c]) \in 0 .. Len(call[c].cmd.args)
<1>1. /\ call[c].i \in Nat /\ Len(call[c].cmd.args) \in Nat
      /\ call[c].cmd.op \notin {"LPOP", "RPOP"} => call[c].i \in 1 .. Len(call[c].cmd.args)
  BY AtWork
<1>2. call[c].cmd.op \in Loops => call[c].i \in 1 .. Len(call[c].cmd.args)
  BY <1>1 DEF Loops, Storing
<1> QED
  BY <1>1, <1>2 DEF Done

(* A goroutine logs its command: the commands on the way at clean keys have
   other keys. *)
LEMMA LogCommandKeepsReplayInv ==
    ASSUME ReplayInv, LogCommand
    PROVE  ReplayInv'
<1>1. PICK r \in pending : /\ pending' = pending \ {r} /\ log' = Append(log, r.cmd)
                           /\ UNCHANGED <<db, aged, call, workload, issued, tally, raced, lossy>>
  BY DEF LogCommand
<1>2. db' = db /\ call' = call /\ raced' = raced /\ lossy' = lossy /\ Clean' = Clean
  BY <1>1 DEF Clean
<1>3. Inv'
  BY LogCommandKeepsInv DEF ReplayInv
<1>4. Rivals' /\ Written' /\ Lost' /\ Lives'
  <2>1. pending' \subseteq pending
    BY <1>1
  <2>2. Rivals'
    BY <1>2, <2>1 DEF ReplayInv, Rivals
  <2> QED
    BY <1>2, <2>1, <2>2 DEF ReplayInv, Written, Lost, Lives
<1>5. Typed /\ Typed'
  BY <1>3 DEF ReplayInv, Inv
<1>6. PICK d \in Caches : d = Loads(log)
  BY <1>5, LoadIsCache
<1>7. r.cmd \in Commands
  BY <1>5 DEF Typed, Commands
<1>8. PICK e \in Caches : e = replayCommand(d, r.cmd)
  BY <1>6, <1>7, ReplayCommandType
<1>9. Loads(log') = e
  BY <1>1, <1>5, <1>6, <1>7, <1>8, LoadIsCache, LoadSteps
<1>10. \A k \in Keys \ KeysOf(r.cmd) : Alike(d, e, k)
  BY <1>7, <1>8, CommandElsewhere
<1>11. \A k \in Clean : k \in Keys /\ k \notin raced
  BY DEF Clean
<1>12. \A k \in Clean, c \in Clients : Busy(call[c], k) => k \notin KeysOf(r.cmd)
  BY <1>11 DEF ReplayInv, Rivals
<1>13. NxAbsent'
  <2> SUFFICES ASSUME NEW c \in Clients, call[c].pc = "run", call[c].cmd.op = "MSETNX",
                      NEW k \in KeysOf(call[c].cmd) \cap Clean
               PROVE  k \notin DOMAIN e["str"]
    BY <1>2, <1>9 DEF NxAbsent, Unseen
  <2>1. k \notin DOMAIN d["str"]
    BY <1>6 DEF ReplayInv, NxAbsent, Unseen
  <2>2. Busy(call[c], k)
    BY DEF Busy, Writing, Storing
  <2>3. View(d, "str", k) = View(e, "str", k)
    BY <1>10, <1>11, <1>12, <2>2 DEF Alike, Types
  <2> QED
    BY <2>1, <2>3, ShowsNoString
<1>14. Mirror'
  <2> SUFFICES ASSUME NEW k \in Clean
               PROVE  /\ \A c \in Clients : Busy(call[c], k) =>
                             Alike(ReplayArgs(e, call[c].cmd, Done(call[c])), db, k)
                      /\ \A q \in pending' : k \in KeysOf(q.cmd) =>
                             Alike(replayCommand(e, q.cmd), db, k)
                      /\ /\ \A c \in Clients : ~ Busy(call[c], k)
                         /\ \A q \in pending' : k \notin KeysOf(q.cmd)
                         => Alike(e, db, k)
    BY <1>2, <1>9 DEF Mirror
  <2>1. /\ \A c \in Clients : Busy(call[c], k) =>
               Alike(ReplayArgs(d, call[c].cmd, Done(call[c])), db, k)
        /\ \A q \in pending : k \in KeysOf(q.cmd) => Alike(replayCommand(d, q.cmd), db, k)
        /\ (\A c \in Clients : ~ Busy(call[c], k)) /\ (\A q \in pending : k \notin KeysOf(q.cmd))
               => Alike(d, db, k)
    BY <1>6 DEF ReplayInv, Mirror
  <2>2. ASSUME NEW c \in Clients, Busy(call[c], k)
        PROVE  Alike(ReplayArgs(e, call[c].cmd, Done(call[c])), db, k)
    <3>1. call[c].pc # "idle" /\ k \notin KeysOf(r.cmd) /\ k \in Keys
      BY <1>11, <1>12, <2>2 DEF Busy
    <3>2. Alike(e, d, k)
      BY <1>10, <3>1, AlikeIsEquivalence
    <3>3. call[c].cmd \in Commands /\ Done(call[c]) \in 0 .. Len(call[c].cmd.args)
      BY <3>1, AtWork, DoneInRange
    <3>4. Alike(ReplayArgs(e, call[c].cmd, Done(call[c])),
                ReplayArgs(d, call[c].cmd, Done(call[c])), k)
      BY <3>1, <3>2, <3>3, ArgsAlike
    <3> QED
      BY <2>1, <2>2, <3>4, AlikeIsEquivalence
  <2>3. ASSUME NEW q \in pending', k \in KeysOf(q.cmd)
        PROVE  Alike(replayCommand(e, q.cmd), db, k)
    <3>1. q \in pending /\ q # r /\ q.cmd \in Commands
      BY <1>1, <1>5 DEF Typed, Commands
    <3>2. ASSUME NEW j \in KeysOf(q.cmd)
          PROVE  Alike(e, d, j)
      <4>1. j \in Keys
        BY <3>1, KeysOfType
      <4>2. j \notin KeysOf(r.cmd)
        BY <1>11, <2>3, <3>1, <4>1 DEF ReplayInv, Rivals
      <4> QED
        BY <1>10, <4>1, <4>2, AlikeIsEquivalence
    <3>3. Alike(replayCommand(e, q.cmd), replayCommand(d, q.cmd), k)
      BY <2>3, <3>1, <3>2, CommandAlike
    <3> QED
      BY <2>1, <2>3, <3>1, <3>3, AlikeIsEquivalence
  <2>4. ASSUME \A c \in Clients : ~ Busy(call[c], k), \A q \in pending' : k \notin KeysOf(q.cmd)
        PROVE  Alike(e, db, k)
    <3>1. CASE k \in KeysOf(r.cmd)
      BY <1>8, <2>1, <3>1
    <3>2. CASE k \notin KeysOf(r.cmd)
      <4>1. \A q \in pending : k \notin KeysOf(q.cmd)
        BY <1>1, <2>4, <3>2
      <4>2. Alike(d, db, k)
        BY <2>1, <2>4, <4>1
      <4> QED
        BY <1>10, <1>11, <3>2, <4>2, AlikeIsEquivalence
    <3> QED
      BY <3>1, <3>2
  <2> QED
    BY <2>2, <2>3, <2>4
<1> QED
  BY <1>3, <1>4, <1>13, <1>14 DEF ReplayInv

(* A step that shows nothing at the keys that stay clean, starts nothing and
   logs nothing. *)
LEMMA ShownAlikeKeeps ==
    ASSUME ReplayInv, Inv', call' = call, pending' = pending, log' = log, raced' = raced,
           lossy \subseteq lossy', \A k \in Keys \ lossy' : Alike(db, db', k)
    PROVE  ReplayInv'
<1>1. Clean' \subseteq Clean /\ Clean' \subseteq Keys \ lossy' /\ Keys \ lossy' \subseteq Keys \ lossy
  BY DEF Clean
<1>2. Rivals' /\ Written'
  BY DEF ReplayInv, Rivals, Written
<1>3. Lost'
  BY DEF ReplayInv, Lost
<1>4. Lives'
  <2> SUFFICES ASSUME NEW k \in Keys \ lossy'
               PROVE  Lasting(View(db', "str", k))
    BY DEF Lives
  <2>1. Lasting(View(db, "str", k))
    BY <1>1 DEF ReplayInv, Lives
  <2>2. View(db, "str", k) = View(db', "str", k)
    BY DEF Alike, Types
  <2> QED
    BY <2>1, <2>2
<1>5. NxAbsent'
  <2> SUFFICES ASSUME NEW c \in Clients
               PROVE  Unseen(call[c], Loads(log), Clean')
    BY DEF NxAbsent
  <2>1. Unseen(call[c], Loads(log), Clean)
    BY DEF ReplayInv, NxAbsent
  <2> QED
    BY <1>1, <2>1 DEF Unseen
<1>6. Mirror'
  <2> SUFFICES ASSUME NEW k \in Clean'
               PROVE  /\ \A c \in Clients : Busy(call[c], k) =>
                             Alike(ReplayArgs(Loads(log), call[c].cmd, Done(call[c])), db', k)
                      /\ \A r \in pending : k \in KeysOf(r.cmd) =>
                             Alike(replayCommand(Loads(log), r.cmd), db', k)
                      /\ /\ \A c \in Clients : ~ Busy(call[c], k)
                         /\ \A r \in pending : k \notin KeysOf(r.cmd)
                         => Alike(Loads(log), db', k)
    BY DEF Mirror
  <2>1. /\ \A c \in Clients : Busy(call[c], k) =>
               Alike(ReplayArgs(Loads(log), call[c].cmd, Done(call[c])), db, k)
        /\ \A r \in pending : k \in KeysOf(r.cmd) => Alike(replayCommand(Loads(log), r.cmd), db, k)
        /\ (\A c \in Clients : ~ Busy(call[c], k)) /\ (\A r \in pending : k \notin KeysOf(r.cmd))
               => Alike(Loads(log), db, k)
    BY <1>1 DEF ReplayInv, Mirror
  <2>2. Alike(db, db', k)
    BY <1>1
  <2> QED
    BY <2>1, <2>2, AlikeIsEquivalence
<1> QED
  BY <1>2, <1>3, <1>4, <1>5, <1>6 DEF ReplayInv

(* Time that goes by shows in no record. *)
LEMMA ElapseKeepsReplayInv ==
    ASSUME ReplayInv,
           UNCHANGED <<db, call, pending, log, workload, issued, tally, raced, lossy>>
    PROVE  ReplayInv'
<1>1. Inv'
  BY ElapseKeepsInv DEF ReplayInv
<1>2. lossy \subseteq lossy' /\ \A k \in Keys \ lossy' : Alike(db, db', k)
  BY AlikeIsEquivalence
<1> QED
  BY <1>1, <1>2, ShownAlikeKeeps

(* The time of an item runs out: its key becomes lossy. *)
LEMMA ExpireKeepsReplayInv ==
    ASSUME ReplayInv, NEW k \in Keys, Expire(k)
    PROVE  ReplayInv'
<1>1. Inv'
  BY ExpireKeepsInv DEF ReplayInv
<1>2. call' = call /\ pending' = pending /\ log' = log /\ raced' = raced
      /\ lossy' = lossy \cup {k}
  BY DEF Expire
<1>3. DOMAIN db = Types /\ "str" \in Types
  BY LoadIsCache DEF ReplayInv, Inv, Types
<1>4. PICK f : f = [db["str"] EXCEPT ![k].ttl = "past"]
  OBVIOUS
<1>5. db' = [db EXCEPT !["str"] = f]
  BY <1>3, <1>4 DEF Expire
<1>6. DOMAIN f = DOMAIN db["str"] /\ \A j \in DOMAIN f : j # k => f[j] = db["str"][j]
  BY <1>4
<1>7. db'["str"] = f /\ \A u \in Types : u # "str" => db'[u] = db[u]
  BY <1>3, <1>5
<1>8. ASSUME NEW j \in Keys \ lossy'
      PROVE  Alike(db, db', j)
  <2>1. j # k
    BY <1>2
  <2>2. ASSUME NEW u \in Types
        PROVE  View(db, u, j) = View(db', u, j)
    BY <1>6, <1>7, <2>1 DEF View, Object
  <2> QED
    BY <2>2 DEF Alike
<1>9. lossy \subseteq lossy'
  BY <1>2
<1> QED
  BY <1>1, <1>2, <1>8, <1>9, ShownAlikeKeeps

(* A handler begins: at its clean keys nothing is on the way. *)
LEMMA BeginKeepsReplayInv ==
    ASSUME ReplayInv, NEW c \in Clients, Begin(c)
    PROVE  ReplayInv'
<1>1. Inv'
  BY BeginKeepsInv DEF ReplayInv
<1>2. db' = db /\ pending' = pending /\ log' = log /\ call[c].pc = "idle"
      /\ Typed /\ DOMAIN call = Clients
  BY DEF Begin, ReplayInv, Inv, Typed
<1>3. PICK cmd \in workload :
          IF WellFormed(cmd)
          THEN /\ call' = [call EXCEPT ![c] = [pc |-> FirstPc(cmd.op), cmd |-> cmd, i |-> 1,
                                               id |-> issued, old |-> <<>>]]
               /\ raced' = raced \cup RacedBy(cmd)
               /\ lossy' = lossy \cup LossyBy(cmd)
          ELSE UNCHANGED <<call, raced, lossy>>
  BY DEF Begin
<1>4. CASE ~ WellFormed(cmd)
  <2>1. call' = call /\ raced' = raced /\ lossy' = lossy
    BY <1>3, <1>4
  <2>2. lossy \subseteq lossy' /\ \A k \in Keys \ lossy' : Alike(db, db', k)
    BY <1>2, <2>1, AlikeIsEquivalence
  <2> QED
    BY <1>1, <1>2, <2>1, <2>2, ShownAlikeKeeps
<1>5. CASE WellFormed(cmd)
  <2>1. PICK x : x = [pc |-> FirstPc(cmd.op), cmd |-> cmd, i |-> 1, id |-> issued, old |-> <<>>]
    OBVIOUS
  <2>2. call' = [call EXCEPT ![c] = x] /\ raced' = raced \cup RacedBy(cmd)
        /\ lossy' = lossy \cup LossyBy(cmd)
    BY <1>3, <1>5, <2>1
  <2>3. call'[c] = x /\ \A b \in Clients : b # c => call'[b] = call[b]
    BY <1>2, <2>2
  <2>4. x.pc = FirstPc(cmd.op) /\ x.cmd = cmd /\ x.i = 1 /\ cmd \in Commands
    BY <1>2, <2>1 DEF Typed, Commands
  <2>5. raced \subseteq raced' /\ lossy \subseteq lossy' /\ Clean' \subseteq Clean
        /\ Keys \ lossy' \subseteq Keys \ lossy
    BY <2>2 DEF Clean
  <2>6. cmd.op = "MSETNX" => x.pc = "check"
    BY <2>4 DEF FirstPc, Creating, Removing
  <2>7. Done(x) = 0
    BY <2>4 DEF Done
  <2>8. \A k : ~ Busy(call[c], k)
    BY <1>2 DEF Busy
  <2>9. ASSUME NEW w \in Underway, w.op \in Writing, NEW k, k \in KeysOf(w), Busy(x, k)
        PROVE  KeysOf(w) \subseteq raced' /\ KeysOf(cmd) \subseteq raced'
    <3>1. cmd.op \in Writing /\ k \in KeysOf(cmd)
      BY <2>4, <2>9 DEF Busy
    <3> DEFINE R == {v \in Underway : v.op \in Writing /\ KeysOf(v) \cap KeysOf(cmd) # {}}
    <3>2. w \in R
      BY <2>9, <3>1
    <3>3. RacedBy(cmd) = KeysOf(cmd) \cup UNION {KeysOf(v) : v \in R}
      BY <3>1, <3>2 DEF RacedBy
    <3> QED
      BY <2>2, <3>2, <3>3
  <2>10. ASSUME NEW b \in Clients, NEW k, Busy(call[b], k), Busy(x, k)
         PROVE  KeysOf(call[b].cmd) \subseteq raced' /\ KeysOf(cmd) \subseteq raced'
    <3>1. call[b].cmd \in Underway /\ call[b].cmd.op \in Writing /\ k \in KeysOf(call[b].cmd)
      BY <2>10 DEF Underway, Busy
    <3> QED
      BY <2>9, <2>10, <3>1
  <2>11. ASSUME NEW r \in pending, NEW k, k \in KeysOf(r.cmd), Busy(x, k)
         PROVE  KeysOf(r.cmd) \subseteq raced' /\ KeysOf(cmd) \subseteq raced'
    <3>1. r.cmd \in Underway /\ r.cmd.op \in Writing
      BY DEF Underway, ReplayInv, Written
    <3> QED
      BY <2>9, <2>11, <3>1
  <2>12. Rivals'
    <3>1. ASSUME NEW a \in Clients, NEW b \in Clients, a # b, NEW k \in Keys,
                 Busy(call'[a], k), Busy(call'[b], k)
          PROVE  KeysOf(call'[a].cmd) \subseteq raced'
      <4>1. CASE a = c
        BY <2>3, <2>4, <2>10, <3>1, <4>1
      <4>2. CASE b = c
        BY <2>3, <2>4, <2>10, <3>1, <4>2
      <4>3. CASE a # c /\ b # c
        BY <2>3, <2>5, <3>1, <4>3 DEF ReplayInv, Rivals
      <4> QED
        BY <4>1, <4>2, <4>3
    <3>2. ASSUME NEW b \in Clients, NEW r \in pending, NEW k \in Keys,
                 Busy(call'[b], k), k \in KeysOf(r.cmd)
          PROVE  KeysOf(call'[b].cmd) \subseteq raced' /\ KeysOf(r.cmd) \subseteq raced'
      <4>1. CASE b = c
        BY <2>3, <2>4, <2>11, <3>2, <4>1
      <4>2. CASE b # c
        BY <2>3, <2>5, <3>2, <4>2 DEF ReplayInv, Rivals
      <4> QED
        BY <4>1, <4>2
    <3>3. ASSUME NEW r \in pending, NEW s \in pending, r # s, NEW k \in Keys,
                 k \in KeysOf(r.cmd), k \in KeysOf(s.cmd)
          PROVE  KeysOf(r.cmd) \subseteq raced'
      BY <2>5, <3>3 DEF ReplayInv, Rivals
    <3> QED
      BY <1>2, <3>1, <3>2, <3>3 DEF Rivals
  <2>13. Written'
    BY <1>2 DEF ReplayInv, Written
  <2>14. Lost'
    <3> SUFFICES ASSUME NEW b \in Clients, call'[b].pc # "idle"
                 PROVE  LossyBy(call'[b].cmd) \subseteq lossy'
      BY DEF Lost
    <3>1. CASE b = c
      BY <2>2, <2>3, <2>4, <3>1
    <3>2. CASE b # c
      BY <2>3, <2>5, <3>2 DEF ReplayInv, Lost
    <3> QED
      BY <3>1, <3>2
  <2>15. Lives'
    BY <1>2, <2>5 DEF ReplayInv, Lives
  <2>16. NxAbsent'
    <3> SUFFICES ASSUME NEW b \in Clients
                 PROVE  Unseen(call'[b], Loads(log), Clean')
      BY <1>2 DEF NxAbsent
    <3>1. CASE b = c
      BY <2>3, <2>4, <2>6, <3>1 DEF Unseen
    <3>2. CASE b # c
      <4>1. Unseen(call[b], Loads(log), Clean)
        BY DEF ReplayInv, NxAbsent
      <4> QED
        BY <2>3, <2>5, <3>2, <4>1 DEF Unseen
    <3> QED
      BY <3>1, <3>2
  <2>17. Mirror'
    <3> SUFFICES ASSUME NEW k \in Clean'
                 PROVE  /\ \A b \in Clients : Busy(call'[b], k) =>
                               Alike(ReplayArgs(Loads(log), call'[b].cmd, Done(call'[b])), db, k)
                        /\ \A r \in pending : k \in KeysOf(r.cmd) =>
                               Alike(replayCommand(Loads(log), r.cmd), db, k)
                        /\ /\ \A b \in Clients : ~ Busy(call'[b], k)
                           /\ \A r \in pending : k \notin KeysOf(r.cmd)
                           => Alike(Loads(log), db, k)
      BY <1>2 DEF Mirror
    <3>1. k \notin raced' /\ k \in Clean
      BY <2>5 DEF Clean
    <3>2. /\ \A b \in Clients : Busy(call[b], k) =>
                 Alike(ReplayArgs(Loads(log), call[b].cmd, Done(call[b])), db, k)
          /\ \A r \in pending : k \in KeysOf(r.cmd) => Alike(replayCommand(Loads(log), r.cmd), db, k)
          /\ (\A b \in Clients : ~ Busy(call[b], k)) /\ (\A r \in pending : k \notin KeysOf(r.cmd))
                 => Alike(Loads(log), db, k)
      BY <3>1 DEF ReplayInv, Mirror
    <3>3. Busy(x, k) => k \in KeysOf(cmd)
      BY <2>4 DEF Busy
    <3>4. ASSUME Busy(x, k)
          PROVE  Alike(ReplayArgs(Loads(log), x.cmd, Done(x)), db, k)
      <4>1. \A b \in Clients : ~ Busy(call[b], k)
        BY <2>10, <3>1, <3>3, <3>4
      <4>2. \A r \in pending : k \notin KeysOf(r.cmd)
        BY <2>11, <3>1, <3>3, <3>4
      <4>3. Alike(Loads(log), db, k)
        BY <3>2, <4>1, <4>2
      <4>4. ReplayArgs(Loads(log), cmd, 0) = Loads(log)
        BY <1>2, <2>4, LoadIsCache, ReplayArgsSteps
      <4> QED
        BY <2>4, <2>7, <4>3, <4>4
    <3>5. \A b \in Clients : Busy(call'[b], k) =>
              Alike(ReplayArgs(Loads(log), call'[b].cmd, Done(call'[b])), db, k)
      <4> SUFFICES ASSUME NEW b \in Clients, Busy(call'[b], k)
                   PROVE  Alike(ReplayArgs(Loads(log), call'[b].cmd, Done(call'[b])), db, k)
        OBVIOUS
      <4>1. CASE b = c
        BY <2>3, <3>4, <4>1
      <4>2. CASE b # c
        BY <2>3, <3>2, <4>2
      <4> QED
        BY <4>1, <4>2
    <3>6. (\A b \in Clients : ~ Busy(call'[b], k)) => \A b \in Clients : ~ Busy(call[b], k)
      BY <2>3, <2>8
    <3> QED
      BY <3>2, <3>5, <3>6
  <2> QED
    BY <1>1, <2>12, <2>13, <2>14, <2>15, <2>16, <2>17 DEF ReplayInv
<1> QED
  BY <1>4, <1>5

(* At the start nothing is stored and nothing is logged. *)
LEMMA InitReplayInv ==
    ASSUME Init
    PROVE  ReplayInv
<1>1. Inv
  BY InitInv
<1>2. \A c \in Clients : call[c] = Idle
  BY DEF Init
<1>3. pending = {} /\ Loads(log) = EmptyDB /\ db = EmptyDB
  <2>1. <<>> \in Seq(Commands)
    OBVIOUS
  <2> QED
    BY <2>1, LoadSteps DEF Init
<1>4. Rivals /\ Written /\ Lost
  BY <1>2, <1>3 DEF Rivals, Written, Lost, Busy, Idle
<1>5. NxAbsent
  BY <1>2 DEF NxAbsent, Unseen, Idle
<1>6. Lives
  <2>1. db["str"] = <<>> /\ DOMAIN <<>> = {}
    BY <1>3 DEF EmptyDB
  <2> QED
    BY <2>1 DEF Lives, Lasting, View
<1>7. Mirror
  BY <1>2, <1>3, AlikeIsEquivalence DEF Mirror, Busy, Idle
<1> QED
  BY <1>1, <1>4, <1>5, <1>6, <1>7 DEF ReplayInv

(* The invariant of replay is inductive: at every key whose commands did not
   overlap and whose changes the log describes, the log and the one command on
   its way to it account for what the cache shows, whatever the interleaving of
   the handlers' calls and of the goroutines that log. *)
THEOREM ReplayInvariance == Spec => []ReplayInv
<1>1. Init => ReplayInv
  BY InitReplayInv
<1>2. ReplayInv /\ [Next]_vars => ReplayInv'
  <2> SUFFICES ASSUME ReplayInv, [Next]_vars
               PROVE  ReplayInv'
    OBVIOUS
  <2>1. ASSUME NEW c \in Clients, Begin(c)
        PROVE  ReplayInv'
    BY <2>1, BeginKeepsReplayInv
  <2>2. ASSUME NEW c \in Clients, Handle(c)
        PROVE  ReplayInv'
    BY <2>2, HandleKeepsReplayInv
  <2>3. CASE LogCommand
    BY <2>3, LogCommandKeepsReplayInv
  <2>4. ASSUME NEW k \in Keys, Expire(k)
        PROVE  ReplayInv'
    BY <2>4, ExpireKeepsReplayInv
  <2>5. CASE UNCHANGED vars
    BY <2>5, ElapseKeepsReplayInv DEF vars
  <2>6. ASSUME NEW k \in Keys, Elapse(k)
        PROVE  ReplayInv'
    BY <2>6, ElapseKeepsReplayInv DEF Elapse
  <2> QED
    BY <2>1, <2>2, <2>3, <2>4, <2>5, <2>6 DEF Next
<1> QED
  BY <1>1, <1>2, PTL DEF Spec

-----------------------------------------------------------------------------
(* Caches that show the same answer alike *)

(* Replies about a key without an object are those about an empty one. *)
LEMMA EmptyReplies ==
    /\ NewObject["hash"] = <<>> /\ NewObject["zset"] = <<>> /\ NewObject["list"] = <<>>
    /\ NewObject["set"] = {} /\ DOMAIN <<>> = {} /\ Len(<<>>) = 0
    /\ Cardinality({}) = 0 /\ Range(<<>>) = {}
    /\ LRange(<<>>, 0, -1) = <<>> /\ ZRange(<<>>, 0, -1) = {<<>>}
<1>1. DOMAIN <<>> = {} /\ Len(<<>>) = 0 /\ Cardinality({}) = 0
  BY FS_EmptySet
<1>2. Range(<<>>) = {}
  BY <1>1 DEF Range
<1>3. LRange(<<>>, 0, -1) = <<>>
  BY <1>1 DEF LRange
<1>4. Bounds(0, 0, -1).from = 0 /\ Bounds(0, 0, -1).to = -1
  BY DEF Bounds
<1>5. ZRange(<<>>, 0, -1) = {<<>>}
  BY <1>1, <1>4 DEF ZRange
<1> QED
  BY <1>1, <1>2, <1>3, <1>5 DEF NewObject

(* What HVALS makes of a hash: how often it has each value. *)
ValueCounts(h) == [v \in Range(h) |-> Cardinality({f \in DOMAIN h : h[f] = v})]

LEMMA HashReplies ==
    ASSUME NEW d, NEW k, NEW h, h = Object(d, "hash", k)
    PROVE  /\ \A f : HGet(d, k, f) = IF f \in DOMAIN h THEN <<h[f]>> ELSE <<>>
           /\ \A f : HExists(d, k, f) <=> f \in DOMAIN h
           /\ HGetAll(d, k) = h /\ HLen(d, k) = Cardinality(DOMAIN h)
           /\ HKeys(d, k) = DOMAIN h /\ HVals(d, k) = ValueCounts(h)
<1>1. CASE k \in DOMAIN d["hash"]
  <2>1. h = d["hash"][k]
    BY <1>1 DEF Object
  <2> QED
    BY <1>1, <2>1 DEF HGet, HExists, HGetAll, HLen, HKeys, HVals, ValueCounts
<1>2. CASE k \notin DOMAIN d["hash"]
  <2>1. h = <<>> /\ DOMAIN h = {} /\ Cardinality(DOMAIN h) = 0 /\ Range(h) = {}
    BY <1>2, EmptyReplies DEF Object
  <2>2. ValueCounts(h) = <<>>
    BY <2>1 DEF ValueCounts
  <2> QED
    BY <1>2, <2>1, <2>2 DEF HGet, HExists, HGetAll, HLen, HKeys, HVals
<1> QED
  BY <1>1, <1>2

LEMMA ListReplies ==
    ASSUME NEW d, NEW k, NEW l, l = Object(d, "list", k)
    PROVE  LRangeOf(d, k, 0, -1) = LRange(l, 0, -1) /\ LLen(d, k) = Len(l)
<1>1. CASE k \in DOMAIN d["list"]
  BY <1>1 DEF Object, LRangeOf, LLen
<1>2. CASE k \notin DOMAIN d["list"]
  BY <1>2, EmptyReplies DEF Object, LRangeOf, LLen
<1> QED
  BY <1>1, <1>2

LEMMA SetReplies ==
    ASSUME NEW d, NEW k, NEW s, s = Object(d, "set", k)
    PROVE  /\ SMembers(d, k) = s /\ SCard(d, k) = Cardinality(s)
           /\ \A x : SIsMember(d, k, x) <=> x \in s
<1>1. CASE k \in DOMAIN d["set"]
  BY <1>1 DEF Object, SMembers, SCard, SIsMember
<1>2. CASE k \notin DOMAIN d["set"]
  BY <1>2, EmptyReplies DEF Object, SMembers, SCard, SIsMember
<1> QED
  BY <1>1, <1>2

LEMMA SortedSetReplies ==
    ASSUME NEW d, NEW k, NEW z, z = Object(d, "zset", k)
    PROVE  /\ ZRangeOf(d, k, 0, -1) = ZRange(z, 0, -1) /\ ZCard(d, k) = Cardinality(DOMAIN z)
           /\ \A x : ZScore(d, k, x) = IF x \in DOMAIN z THEN <<z[x]>> ELSE <<>>
<1>1. CASE k \in DOMAIN d["zset"]
  BY <1>1 DEF Object, ZRangeOf, ZCard, ZScore
<1>2. CASE k \notin DOMAIN d["zset"]
  BY <1>2, EmptyReplies DEF Object, ZRangeOf, ZCard, ZScore
<1> QED
  BY <1>1, <1>2

LEMMA StringReplies ==
    ASSUME NEW d, NEW e, NEW k, View(d, "str", k) = View(e, "str", k)
    PROVE  /\ Get(d, k) = Get(e, k) /\ Exists(d, k) = Exists(e, k)
           /\ Strlen(d, k) = Strlen(e, k) /\ \A old : TTL(d, old, k) = TTL(e, old, k)
<1>1. k \in DOMAIN d["str"] <=> k \in DOMAIN e["str"]
  BY ShowsNoString
<1>2. CASE k \notin DOMAIN d["str"]
  BY <1>1, <1>2 DEF Get, Exists, Strlen, TTL, Found, HasKey
<1>3. CASE k \in DOMAIN d["str"]
  <2>1. \A x, y : <<x>> = <<y>> => x = y
    OBVIOUS
  <2>2. d["str"][k] = e["str"][k]
    BY <1>1, <1>3, <2>1 DEF View
  <2> QED
    BY <1>1, <1>3, <2>2 DEF Get, Exists, Strlen, TTL, Found, HasKey
<1> QED
  BY <1>2, <1>3

LEMMA RepliesAlike ==
    ASSUME NEW d, NEW e, NEW k, Alike(d, e, k)
    PROVE  Replies(d, k) = Replies(e, k)
<1>1. PICK h : h = Object(d, "hash", k)
  OBVIOUS
<1>2. PICK l : l = Object(d, "list", k)
  OBVIOUS
<1>3. PICK s : s = Object(d, "set", k)
  OBVIOUS
<1>4. PICK z : z = Object(d, "zset", k)
  OBVIOUS
<1>5. /\ h = Object(e, "hash", k) /\ l = Object(e, "list", k)
      /\ s = Object(e, "set", k) /\ z = Object(e, "zset", k)
      /\ View(d, "str", k) = View(e, "str", k)
  <2>1. \A t \in Types : View(d, t, k) = View(e, t, k)
    BY DEF Alike
  <2>2. View(d, "str", k) = View(e, "str", k)
    BY <2>1 DEF Types
  <2>3. \A t \in Types : t # "str" => Object(d, t, k) = Object(e, t, k)
    BY <2>1 DEF View
  <2> QED
    BY <1>1, <1>2, <1>3, <1>4, <2>2, <2>3 DEF Types
<1>6. /\ \A f : HGet(d, k, f) = HGet(e, k, f) /\ HExists(d, k, f) = HExists(e, k, f)
      /\ HGetAll(d, k) = HGetAll(e, k) /\ HLen(d, k) = HLen(e, k)
      /\ HKeys(d, k) = HKeys(e, k) /\ HVals(d, k) = HVals(e, k)
  <2>1. \A f : HGet(d, k, f) = HGet(e, k, f)
    BY <1>1, <1>5, HashReplies
  <2>2. \A f : HExists(d, k, f) <=> HExists(e, k, f)
    BY <1>1, <1>5, HashReplies
  <2>3. \A f : HExists(d, k, f) = HExists(e, k, f)
    BY <2>2 DEF HExists
  <2> QED
    BY <1>1, <1>5, <2>1, <2>3, HashReplies
<1>7. LRangeOf(d, k, 0, -1) = LRangeOf(e, k, 0, -1) /\ LLen(d, k) = LLen(e, k)
  BY <1>2, <1>5, ListReplies
<1>8. /\ SMembers(d, k) = SMembers(e, k) /\ SCard(d, k) = SCard(e, k)
      /\ \A x : SIsMember(d, k, x) = SIsMember(e, k, x)
  <2>1. \A x : SIsMember(d, k, x) <=> SIsMember(e, k, x)
    BY <1>3, <1>5, SetReplies
  <2>2. \A x : SIsMember(d, k, x) = SIsMember(e, k, x)
    BY <2>1 DEF SIsMember
  <2> QED
    BY <1>3, <1>5, <2>2, SetReplies
<1>9. /\ ZRangeOf(d, k, 0, -1) = ZRangeOf(e, k, 0, -1) /\ ZCard(d, k) = ZCard(e, k)
      /\ \A x : ZScore(d, k, x) = ZScore(e, k, x)
  BY <1>4, <1>5, SortedSetReplies
<1>10. /\ Get(d, k) = Get(e, k) /\ Exists(d, k) = Exists(e, k)
       /\ Strlen(d, k) = Strlen(e, k)
  BY <1>5, StringReplies
<1> QED
  BY <1>6, <1>7, <1>8, <1>9, <1>10 DEF Replies

(* When nothing is under way, the cache that replayCommand rebuilds from the
   log answers every read command about a key as the running cache does, except
   that TTL begins again at its full length, unless commands on that key
   overlapped or changed it without a record that replay understands: for every
   workload, any number of connections and keys, and every interleaving of
   handlers and logging goroutines. *)
THEOREM ReplayIsFaithful == Spec => []ReplayAnswersAlike
<1>1. ReplayInv => ReplayAnswersAlike
  <2> SUFFICES ASSUME ReplayInv, Quiet, NEW k \in Keys \ (raced \cup lossy)
               PROVE  /\ Replies(Load, k) = Replies(db, k)
                      /\ TTL(Load, {}, k) = IF TTL(db, aged, k) = "part" THEN "all"
                                            ELSE TTL(db, aged, k)
    BY DEF ReplayAnswersAlike
  <2>1. k \in Clean
    BY DEF Clean
  <2>2. pending = {} /\ \A c \in Clients : ~ Busy(call[c], k)
    BY DEF Quiet, Busy
  <2>3. Alike(Loads(log), db, k)
    BY <2>1, <2>2 DEF ReplayInv, Mirror
  <2>4. Load = Loads(log)
    BY DEF Load, Loads
  <2>5. TTL(Load, {}, k) = TTL(db, {}, k)
    <3>1. View(Load, "str", k) = View(db, "str", k)
      BY <2>3, <2>4 DEF Alike, Types
    <3> QED
      BY <3>1, StringReplies
  <2>6. TTL(db, {}, k) = IF TTL(db, aged, k) = "part" THEN "all" ELSE TTL(db, aged, k)
    BY DEF TTL
  <2> QED
    BY <2>3, <2>4, <2>5, <2>6, RepliesAlike
<1> QED
  BY <1>1, ReplayInvariance, PTL

=============================================================================
