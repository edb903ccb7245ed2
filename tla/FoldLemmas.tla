----------------------------- MODULE FoldLemmas -----------------------------
(* Induction and recursion over natural numbers and finite sets, stated with
   sets and functions in place of predicates and operators: every use of them
   instantiates a first-order fact.  The recursive functions that the models
   define (a sum over a finite map, the replay of a log) are reasoned about
   with these lemmas.                                                        *)
EXTENDS FiniteSetTheorems, Integers, TLAPS

(* A set of naturals that is not empty has a least element ... *)
LEMMA LeastNat ==
    ASSUME NEW T \in SUBSET Nat, T # {}
    PROVE  \E m \in T : \A n \in T : m <= n
<1> DEFINE R == {p \in Nat \X Nat : p[1] < p[2]}
<1>1. IsWellFoundedOn(R, Nat)
  BY NatLessThanWellFounded DEF OpToRel
<1>2. PICK m \in T : \A n \in T : ~ (<<n, m>> \in R)
  <2> HIDE DEF R
  <2> QED
    BY <1>1, WFMin
<1>3. \A n \in T : ~ (n < m)
  BY <1>2
<1> QED
  BY <1>3

(* ... and a greatest one, if it is bounded. *)
LEMMA GreatestNat ==
    ASSUME NEW b \in Nat, NEW s \in SUBSET (1 .. b), s # {}
    PROVE  \E m \in s : \A n \in s : n <= m
<1> DEFINE T == {m \in Nat : \A n \in s : n <= m}
<1>1. T \in SUBSET Nat /\ b \in T
  OBVIOUS
<1>2. PICK m \in T : \A n \in T : m <= n
  <2> HIDE DEF T
  <2> QED
    BY <1>1, LeastNat
<1>3. m \in s
  <2> SUFFICES ASSUME m \notin s
               PROVE  FALSE
    OBVIOUS
  <2>1. \A n \in s : n \in Nat /\ n <= m /\ n # m /\ n >= 1
    BY <1>2
  <2>2. m \in Nat /\ m >= 1
    <3>1. PICK n \in s : TRUE
      OBVIOUS
    <3>2. n \in Nat /\ n >= 1 /\ n <= m
      BY <2>1
    <3> QED
      BY <1>2, <3>2
  <2>3. m - 1 \in Nat /\ \A n \in s : n <= m - 1
    BY <2>1, <2>2
  <2>4. m - 1 \in T
    BY <2>3
  <2> QED
    BY <1>2, <2>2, <2>4
<1> QED
  BY <1>2, <1>3

(* Induction over the naturals: the least number outside of S is neither zero
   nor the successor of a member. *)
LEMMA NatSetInduction ==
    ASSUME NEW S, 0 \in S, \A n \in Nat : n \in S => n + 1 \in S
    PROVE  \A n \in Nat : n \in S
<1> DEFINE T == {n \in Nat : n \notin S}
<1> SUFFICES ASSUME T # {}
             PROVE  FALSE
  OBVIOUS
<1>1. PICK n \in T : \A m \in T : n <= m
  <2>1. T \in SUBSET Nat
    OBVIOUS
  <2> HIDE DEF T
  <2> QED
    BY <2>1, LeastNat
<1>2. n \in Nat /\ n # 0 /\ n - 1 \in Nat /\ ~ (n <= n - 1) /\ (n - 1) + 1 = n
  OBVIOUS
<1>3. n - 1 \in S
  BY <1>1, <1>2
<1> QED
  BY <1>1, <1>2, <1>3

(* Induction over the subsets of a finite set: a smallest subset outside of Q
   has all its proper subsets in Q. *)
LEMMA SubsetInduction ==
    ASSUME NEW D, IsFiniteSet(D), NEW Q,
           \A s \in SUBSET D : (\A t \in SUBSET s : t # s => t \in Q) => s \in Q
    PROVE  \A s \in SUBSET D : s \in Q
<1> DEFINE T == {s \in SUBSET D : s \notin Q}
<1> SUFFICES ASSUME T # {}
             PROVE  FALSE
  OBVIOUS
<1>1. IsWellFoundedOn(StrictSubsetOrdering(D), FiniteSubsetsOf(D))
  BY FS_StrictSubsetOrderingWellFounded
<1>2. T \subseteq FiniteSubsetsOf(D)
  BY FS_Subset DEF FiniteSubsetsOf
<1>3. PICK s \in T : \A t \in T : <<t, s>> \notin StrictSubsetOrdering(D)
  <2> HIDE DEF T
  <2> QED
    BY <1>1, <1>2, WFMin
<1>4. ASSUME NEW t \in SUBSET s, t # s
      PROVE  t \in Q
  <2>1. <<t, s>> \in StrictSubsetOrdering(D)
    BY <1>4 DEF StrictSubsetOrdering
  <2> QED
    BY <1>3, <2>1
<1> QED
  BY <1>3, <1>4

-----------------------------------------------------------------------------
(* Recursion over the subsets of a finite set D: ch picks the element of a
   subset that is dealt with first, step combines it with the result for the
   rest. *)
Picks(ch, D) == \A s \in SUBSET D : s # {} => ch[s] \in s

Recurses(f, D, base, ch, step) ==
    f = [s \in SUBSET D |->
            IF s = {} THEN base ELSE step[ch[s]][f[s \ {ch[s]}]]]

(* Subsets of at most n elements. *)
UpTo(D, n) == {s \in SUBSET D : Cardinality(s) <= n}

(* The recursion has a solution.  It is built up by the size of the subsets. *)
LEMMA RecursionExists ==
    ASSUME NEW D, IsFiniteSet(D), NEW B, NEW base \in B,
           NEW ch, Picks(ch, D), NEW step \in [D -> [B -> B]]
    PROVE  \E f \in [SUBSET D -> B] : Recurses(f, D, base, ch, step)
<1> DEFINE rest(s) == s \ {ch[s]}
           Good(f, n) == \A s \in UpTo(D, n) :
                             f[s] = IF s = {} THEN base ELSE step[ch[s]][f[rest(s)]]
           S == {n \in Nat : \E f \in [SUBSET D -> B] : Good(f, n)}
<1>1. \A s \in SUBSET D : /\ IsFiniteSet(s)
                          /\ Cardinality(s) \in Nat
                          /\ Cardinality(s) <= Cardinality(D)
  BY FS_Subset, FS_CardinalityType
<1>2. \A s \in SUBSET D : s # {} => /\ ch[s] \in D
                                   /\ rest(s) \in SUBSET D
                                   /\ Cardinality(rest(s)) = Cardinality(s) - 1
  BY <1>1, FS_RemoveElement DEF Picks
<1>3. 0 \in S
  <2> DEFINE f == [s \in SUBSET D |-> base]
  <2>1. \A s \in UpTo(D, 0) : s = {}
    BY <1>1, FS_EmptySet DEF UpTo
  <2>2. f \in [SUBSET D -> B] /\ Good(f, 0)
    BY <2>1 DEF UpTo
  <2> QED
    BY <2>2
<1>4. ASSUME NEW n \in Nat, n \in S
      PROVE  n + 1 \in S
  <2>1. PICK f \in [SUBSET D -> B] : Good(f, n)
    BY <1>4
  <2> DEFINE g == [s \in SUBSET D |->
                      IF s = {} THEN base ELSE step[ch[s]][f[rest(s)]]]
  <2>2. g \in [SUBSET D -> B]
    <3>1. ASSUME NEW s \in SUBSET D, s # {}
          PROVE  step[ch[s]][f[rest(s)]] \in B
      <4>1. ch[s] \in D /\ rest(s) \in SUBSET D
        BY <1>2, <3>1
      <4>2. f[rest(s)] \in B
        <5> HIDE DEF rest
        <5> QED
          BY <4>1
      <4>3. step[ch[s]] \in [B -> B]
        BY <4>1
      <4> QED
        BY <4>2, <4>3
    <3> HIDE DEF rest
    <3> QED
      BY <3>1
  <2>3. \A s \in UpTo(D, n) : g[s] = f[s]
    BY <2>1 DEF UpTo
  <2>4. \A s \in UpTo(D, n + 1) : s # {} => rest(s) \in UpTo(D, n)
    BY <1>1, <1>2 DEF UpTo
  <2>5. Good(g, n + 1)
    <3> SUFFICES ASSUME NEW s \in UpTo(D, n + 1)
                 PROVE  g[s] = IF s = {} THEN base ELSE step[ch[s]][g[rest(s)]]
      OBVIOUS
    <3>1. s \in SUBSET D
      BY DEF UpTo
    <3>2. s # {} => g[rest(s)] = f[rest(s)]
      BY <2>3, <2>4
    <3> QED
      BY <3>1, <3>2
  <2> HIDE DEF g, Good
  <2> QED
    BY <2>2, <2>5
<1>5. Cardinality(D) \in S
  <2> HIDE DEF S
  <2>1. \A n \in Nat : n \in S
    BY <1>3, <1>4, NatSetInduction
  <2> QED
    BY <1>1, <2>1
<1>6. PICK f \in [SUBSET D -> B] : Good(f, Cardinality(D))
  BY <1>5
<1>7. Recurses(f, D, base, ch, step)
  BY <1>1, <1>6 DEF UpTo, Recurses
<1> QED
  BY <1>7

(* Two functions start alike, and go on alike where they agree on the rest. *)
GoAlike(f, g, D, ch) ==
    /\ f[{}] = g[{}]
    /\ \A s \in SUBSET D :
           s # {} /\ f[s \ {ch[s]}] = g[s \ {ch[s]}] => f[s] = g[s]

(* Then they are alike: a recursion has one solution. *)
LEMMA RecursionUnique ==
    ASSUME NEW D, IsFiniteSet(D), NEW ch, Picks(ch, D), NEW f, NEW g, GoAlike(f, g, D, ch)
    PROVE  \A s \in SUBSET D : f[s] = g[s]
<1> DEFINE Q == {s \in SUBSET D : f[s] = g[s]}
<1>1. ASSUME NEW s \in SUBSET D, \A t \in SUBSET s : t # s => t \in Q
      PROVE  s \in Q
  <2>1. CASE s = {}
    BY <2>1 DEF GoAlike
  <2>2. CASE s # {}
    <3>1. ch[s] \in s
      BY <2>2 DEF Picks
    <3>2. s \ {ch[s]} \in Q
      BY <1>1, <3>1
    <3> QED
      BY <2>2, <3>2 DEF GoAlike
  <2> QED
    BY <2>1, <2>2
<1> HIDE DEF Q
<1>2. \A s \in SUBSET D : s \in Q
  BY <1>1, SubsetInduction
<1> QED
  BY <1>2 DEF Q

-----------------------------------------------------------------------------
(* Sums over finite sets *)

(* g gives the sum of the weights w over every subset of D, whichever element
   is taken out first. *)
Adds(g, D, w) ==
    /\ g \in [SUBSET D -> Int]
    /\ g[{}] = 0
    /\ \A s \in SUBSET D : \A k \in s : g[s] = w[k] + g[s \ {k}]

(* A sum that takes out some element first takes out any element first: the
   order does not matter. *)
LEMMA OrderOfSum ==
    ASSUME NEW D, IsFiniteSet(D), NEW w \in [D -> Int], NEW g \in [SUBSET D -> Int],
           NEW ch, Picks(ch, D),
           g[{}] = 0,
           \A s \in SUBSET D : s # {} => g[s] = w[ch[s]] + g[s \ {ch[s]}]
    PROVE  Adds(g, D, w)
<1> DEFINE Q == {s \in SUBSET D : \A k \in s : g[s] = w[k] + g[s \ {k}]}
<1>1. ASSUME NEW s \in SUBSET D, \A t \in SUBSET s : t # s => t \in Q
      PROVE  s \in Q
  <2> SUFFICES ASSUME NEW k \in s
               PROVE  g[s] = w[k] + g[s \ {k}]
    OBVIOUS
  <2> DEFINE x == ch[s]
             both == (s \ {x}) \ {k}
  <2>1. x \in s /\ g[s] = w[x] + g[s \ {x}]
    BY DEF Picks
  <2>2. CASE x = k
    BY <2>1, <2>2
  <2>3. CASE x # k
    <3>1. g[s \ {x}] = w[k] + g[both]
      <4>1. s \ {x} \in Q /\ k \in s \ {x}
        BY <1>1, <2>1, <2>3
      <4> QED
        BY <4>1
    <3>2. g[s \ {k}] = w[x] + g[both]
      <4>1. s \ {k} \in Q /\ x \in s \ {k} /\ (s \ {k}) \ {x} = both
        BY <1>1, <2>1, <2>3
      <4> QED
        BY <4>1
    <3>3. w[x] \in Int /\ w[k] \in Int /\ g[both] \in Int
      BY <2>1
    <3> QED
      BY <2>1, <3>1, <3>2, <3>3
  <2> QED
    BY <2>2, <2>3
<1> HIDE DEF Q
<1>2. \A s \in SUBSET D : s \in Q
  BY <1>1, SubsetInduction
<1> QED
  BY <1>2 DEF Q, Adds

(* Two sums with the same weights on D agree on D. *)
LEMMA SumsAgree ==
    ASSUME NEW D, IsFiniteSet(D), NEW E, D \subseteq E, NEW w, NEW v,
           \A k \in D : w[k] = v[k],
           NEW g, Adds(g, D, w), NEW h, Adds(h, E, v)
    PROVE  g[D] = h[D]
<1> DEFINE Q == {s \in SUBSET D : g[s] = h[s]}
<1>1. ASSUME NEW s \in SUBSET D, \A t \in SUBSET s : t # s => t \in Q
      PROVE  s \in Q
  <2>1. CASE s = {}
    BY <2>1 DEF Adds
  <2>2. CASE s # {}
    <3>1. PICK k \in s : TRUE
      BY <2>2
    <3>2. s \ {k} \in Q
      BY <1>1, <3>1
    <3>3. g[s] = w[k] + g[s \ {k}]
      BY <3>1 DEF Adds
    <3>4. h[s] = v[k] + h[s \ {k}]
      BY <3>1 DEF Adds
    <3> QED
      BY <3>1, <3>2, <3>3, <3>4
  <2> QED
    BY <2>1, <2>2
<1> HIDE DEF Q
<1>2. \A s \in SUBSET D : s \in Q
  BY <1>1, SubsetInduction
<1> QED
  BY <1>2 DEF Q

-----------------------------------------------------------------------------
(* Folds over sequences *)

(* ch picks the last of a set of positions. *)
PicksLast(ch, n) ==
    \A s \in SUBSET (1 .. n) : s # {} => ch[s] \in s /\ \A x \in s : x <= ch[s]

(* f goes through the positions up to n from the first to the last. *)
InOrder(f, n, base, step) ==
    /\ f[1 .. 0] = base
    /\ \A i \in 1 .. n : f[1 .. i] = step[i][f[1 .. (i - 1)]]

(* A recursion over sets of positions that takes out the last one goes through
   the positions in order. *)
LEMMA RecursionInOrder ==
    ASSUME NEW n \in Nat, NEW base, NEW ch, NEW step, NEW f, PicksLast(ch, n),
           Recurses(f, 1 .. n, base, ch, step)
    PROVE  InOrder(f, n, base, step)
<1>1. 1 .. 0 = {}
  OBVIOUS
<1>2. f[1 .. 0] = base
  BY <1>1 DEF Recurses
<1>3. ASSUME NEW i \in 1 .. n
      PROVE  f[1 .. i] = step[i][f[1 .. (i - 1)]]
  <2> DEFINE s == 1 .. i
  <2>1. s \in SUBSET (1 .. n) /\ s # {} /\ i \in s
    <3>1. i \in Nat /\ 1 <= i /\ i <= n
      OBVIOUS
    <3>2. i \in s /\ \A x \in s : x \in 1 .. n
      BY <3>1
    <3> QED
      BY <3>2
  <2>2. ch[s] \in s /\ i <= ch[s]
    BY <2>1 DEF PicksLast
  <2>3. ch[s] = i
    BY <2>2
  <2>4. s \ {i} = 1 .. (i - 1)
    OBVIOUS
  <2> HIDE DEF s
  <2>5. f[s] = step[ch[s]][f[s \ {ch[s]}]]
    BY <2>1 DEF Recurses
  <2> QED
    BY <2>3, <2>4, <2>5 DEF s
<1> QED
  BY <1>2, <1>3 DEF InOrder

(* The prefixes of 1 .. n, and what ch picks from them. *)
LEMMA PrefixEnds ==
    ASSUME NEW n \in Nat, NEW ch, PicksLast(ch, n), NEW i \in 1 .. n
    PROVE  /\ 1 .. i \in SUBSET (1 .. n) /\ 1 .. i # {}
           /\ ch[1 .. i] = i /\ (1 .. i) \ {i} = 1 .. (i - 1)
<1> DEFINE s == 1 .. i
<1>1. i \in Nat /\ 1 <= i /\ i <= n
  OBVIOUS
<1>2. i \in s /\ \A x \in s : x \in 1 .. n
  BY <1>1
<1>3. s \in SUBSET (1 .. n) /\ s # {}
  BY <1>2
<1>4. ch[s] \in s /\ i <= ch[s]
  BY <1>2, <1>3 DEF PicksLast
<1>5. ch[s] = i
  BY <1>4
<1>6. (1 .. i) \ {i} = 1 .. (i - 1)
  BY <1>1
<1> QED
  BY <1>3, <1>5, <1>6

(* g has the value of a fold for every set of positions. *)
Folds(g, D, B, base, ch, step) ==
    /\ g \in [SUBSET D -> B]
    /\ g[{}] = base
    /\ \A s \in SUBSET D : s # {} => /\ ch[s] \in D
                                    /\ g[s \ {ch[s]}] \in B
                                    /\ g[s] = step[ch[s]][g[s \ {ch[s]}]]

(* A fold over the positions up to n has such values. *)
LEMMA FoldExists ==
    ASSUME NEW n \in Nat, NEW D, D = 1 .. n, NEW B, NEW base \in B,
           NEW ch, PicksLast(ch, n), NEW step \in [D -> [B -> B]]
    PROVE  \E g : Folds(g, D, B, base, ch, step)
<1>1. IsFiniteSet(D)
  BY FS_Interval
<1>2. Picks(ch, D)
  BY DEF Picks, PicksLast
<1>3. PICK g \in [SUBSET D -> B] : Recurses(g, D, base, ch, step)
  BY <1>1, <1>2, RecursionExists
<1>4. g[{}] = base
  BY <1>3 DEF Recurses
<1>5. ASSUME NEW s \in SUBSET D, s # {}
      PROVE  /\ ch[s] \in D
             /\ g[s \ {ch[s]}] \in B
             /\ g[s] = step[ch[s]][g[s \ {ch[s]}]]
  <2>1. ch[s] \in D /\ s \ {ch[s]} \in SUBSET D
    BY <1>2, <1>5 DEF Picks
  <2>2. g[s \ {ch[s]}] \in B
    BY <2>1
  <2>3. g[s] = step[ch[s]][g[s \ {ch[s]}]]
    BY <1>3, <1>5 DEF Recurses
  <2> QED
    BY <2>1, <2>2, <2>3
<1>6. Folds(g, D, B, base, ch, step)
  BY <1>3, <1>4, <1>5 DEF Folds
<1> QED
  BY <1>6

=============================================================================
