----------------------------- MODULE AOFProofs -----------------------------
(* Proofs about AOF for every set of connections, keys and pieces, every choice
   of commands and every bound on them.  *)
EXTENDS AOF, FoldLemmas, SequenceTheorems, TLAPS

Stores == [Keys -> Seq(Pieces)]

(* The records that handlers make: SET carries a string. *)
Good == {r \in Records : r.op = "SET" => r.piece \in Pieces}

EmptyStore == [k \in Keys |-> Absent]

-----------------------------------------------------------------------------
(* Replay, one record after the other *)

(* Replaying a record keeps the cache well-formed. *)
LEMMA ReplayType ==
    ASSUME NEW s \in Stores, NEW r \in Good
    PROVE  replayCommand(s, r) \in Stores
<1>1. r.key \in Keys /\ (r.op = "SET" => r.piece \in Pieces)
  BY DEF Good, Records
<1>2. Absent \in Seq(Pieces)
  BY DEF Absent
<1>3. r.op = "SET" => <<r.piece>> \in Seq(Pieces)
  BY <1>1
<1> QED
  BY <1>1, <1>2, <1>3 DEF replayCommand, Stores

(* AOF.Load goes through the log in order: there is a chain of caches from the
   empty one to the result. *)
LEMMA LoadSteps ==
    ASSUME NEW log \in Seq(Good)
    PROVE  \E acc \in [0 .. Len(log) -> Stores] :
               /\ acc[0] = EmptyStore
               /\ \A i \in 1 .. Len(log) : acc[i] = replayCommand(acc[i - 1], log[i])
               /\ Load(log) = acc[Len(log)]
<1> DEFINE n == Len(log)
           D == 1 .. n
           ch == [s \in SUBSET D |-> Max(s)]
           step == [i \in D |-> [b \in Stores |-> replayCommand(b, log[i])]]
           body(g) == [s \in SUBSET DOMAIN log |->
                          IF s = {} THEN EmptyStore
                          ELSE LET x == Max(s)
                               IN  replayCommand(g[s \ {x}], log[x])]
           iter == CHOOSE g : g = body(g)
<1>1. n \in Nat /\ DOMAIN log = D /\ \A i \in D : log[i] \in Good
  BY LenProperties
<1>2. IsFiniteSet(D)
  BY <1>1, FS_Interval
<1>3. \A s \in SUBSET D : s # {} => Max(s) \in s /\ \A x \in s : x <= Max(s)
  <2> SUFFICES ASSUME NEW s \in SUBSET D, s # {}
               PROVE  Max(s) \in s /\ \A x \in s : x <= Max(s)
    OBVIOUS
  <2>1. PICK m \in s : \A x \in s : x <= m
    BY <1>1, GreatestNat
  <2>2. m \in Int /\ \A x \in s : x \in Int /\ m >= x
    BY <1>1, <2>1
  <2>3. Max(s) \in s /\ \A x \in s : Max(s) >= x
    BY <2>2 DEF Max
  <2> QED
    BY <2>2, <2>3
<1>4. \A s \in SUBSET D : ch[s] = Max(s)
  OBVIOUS
<1>5. Picks(ch, D) /\ PicksLast(ch, n)
  BY <1>3, <1>4 DEF Picks, PicksLast
<1>6. step \in [D -> [Stores -> Stores]]
  BY <1>1, ReplayType
<1>7. \A i \in D : \A b \in Stores : step[i][b] = replayCommand(b, log[i])
  OBVIOUS
<1>8. EmptyStore \in Stores
  <2>1. Absent \in Seq(Pieces)
    BY DEF Absent
  <2> QED
    BY <2>1 DEF EmptyStore, Stores
<1> HIDE DEF n, ch, step
<1>9. PICK g \in [SUBSET D -> Stores] : Recurses(g, D, EmptyStore, ch, step)
  <2> HIDE DEF D
  <2> QED
    BY <1>2, <1>5, <1>6, <1>8, RecursionExists
<1>10. ASSUME NEW s \in SUBSET D, s # {}
       PROVE  g[s] = replayCommand(g[s \ {ch[s]}], log[ch[s]])
  <2>1. ch[s] \in D /\ s \ {ch[s]} \in SUBSET D
    BY <1>5, <1>10 DEF Picks
  <2>2. g[s] = step[ch[s]][g[s \ {ch[s]}]]
    BY <1>9, <1>10 DEF Recurses
  <2>3. g[s \ {ch[s]}] \in Stores
    BY <2>1
  <2> QED
    BY <1>7, <2>1, <2>2, <2>3
<1>11. Load(log) = iter[D]
  BY <1>1 DEF Load, FoldLeft, MapThenFoldSet, EmptyStore
<1>12. g[{}] = EmptyStore
  BY <1>9 DEF Recurses
<1>13. g = body(g)
  <2>1. \A s \in SUBSET D : g[s] = IF s = {} THEN EmptyStore
                                   ELSE replayCommand(g[s \ {Max(s)}], log[Max(s)])
    BY <1>4, <1>10, <1>12
  <2> QED
    BY <1>1, <2>1
<1>14. iter = body(iter)
  <2> HIDE DEF body
  <2> QED
    BY <1>13
<1>15. iter[{}] = EmptyStore
  BY <1>14
<1>16. ASSUME NEW s \in SUBSET D, s # {}
       PROVE  iter[s] = replayCommand(iter[s \ {ch[s]}], log[ch[s]])
  <2>1. iter[s] = replayCommand(iter[s \ {Max(s)}], log[Max(s)])
    BY <1>1, <1>14, <1>16
  <2> QED
    BY <1>4, <1>16, <2>1
<1> HIDE DEF iter, body
<1>17. GoAlike(iter, g, D, ch)
  <2>1. \A s \in SUBSET D :
            s # {} /\ iter[s \ {ch[s]}] = g[s \ {ch[s]}] => iter[s] = g[s]
    BY <1>10, <1>16
  <2>2. iter[{}] = g[{}]
    BY <1>12, <1>15
  <2> QED
    BY <2>1, <2>2 DEF GoAlike
<1>18. iter[D] = g[D]
  <2>1. \A s \in SUBSET D : iter[s] = g[s]
    <3> HIDE DEF D
    <3> QED
      BY <1>2, <1>5, <1>17, RecursionUnique
  <2> QED
    BY <2>1
<1>19. /\ g[1 .. 0] = EmptyStore
       /\ \A i \in 1 .. n : g[1 .. i] = step[i][g[1 .. (i - 1)]]
  <2>1. n \in Nat /\ Recurses(g, 1 .. n, EmptyStore, ch, step)
    BY <1>1, <1>9
  <2>2. InOrder(g, n, EmptyStore, step)
    BY <1>5, <2>1, RecursionInOrder
  <2> QED
    BY <2>2 DEF InOrder
<1> DEFINE acc == [i \in 0 .. n |-> g[1 .. i]]
<1>20. \A i \in 0 .. n : 1 .. i \in SUBSET D
  BY <1>1
<1>21. acc \in [0 .. n -> Stores]
  BY <1>20
<1>22. ASSUME NEW i \in 1 .. n
       PROVE  acc[i] = replayCommand(acc[i - 1], log[i])
  <2>1. i \in 0 .. n /\ i - 1 \in 0 .. n
    BY <1>1
  <2>2. acc[i] = step[i][acc[i - 1]] /\ acc[i - 1] \in Stores
    BY <1>19, <1>21, <2>1
  <2> HIDE DEF acc
  <2> QED
    BY <1>7, <2>2
<1>23. acc[0] = EmptyStore /\ acc[n] = g[D]
  BY <1>1, <1>19
<1> HIDE DEF acc
<1> QED
  BY <1>11, <1>18, <1>21, <1>22, <1>23 DEF n

-----------------------------------------------------------------------------
(* What a log says about a key *)

(* The value that a record other than APPEND leaves behind. *)
Effect(r) == IF r.op = "SET" THEN <<r.piece>> ELSE Absent

NoneOf(log, k) == \A i \in DOMAIN log : log[i].key # k

LastOf(log, k, j) ==
    /\ j \in DOMAIN log
    /\ log[j].key = k
    /\ \A i \in DOMAIN log : i > j => log[i].key # k

(* The last record of k decides its value, unless it is an APPEND. *)
Tells(log, k, v) ==
    \/ NoneOf(log, k) /\ v = Absent
    \/ \E j \in DOMAIN log : /\ LastOf(log, k, j)
                             /\ log[j].op # "APPEND"
                             /\ v = Effect(log[j])

NoAppend(log, k) == \A i \in DOMAIN log : log[i].key = k => log[i].op # "APPEND"

(* A record has an effect on its own key only. *)
LEMMA ReplayKey ==
    ASSUME NEW s \in Stores, NEW r \in Good, NEW k \in Keys
    PROVE  /\ r.key # k => replayCommand(s, r)[k] = s[k]
           /\ r.key = k /\ r.op # "APPEND" => replayCommand(s, r)[k] = Effect(r)
<1>1. r.op \in {"SET", "DEL", "APPEND"}
  BY OpsAssumption DEF Good, Records
<1>2. s \in [Keys -> Seq(Pieces)]
  BY DEF Stores
<1> QED
  BY <1>1, <1>2 DEF replayCommand, Effect

(* Replay gives a key the value its last record tells: what comes after that
   record leaves the key alone. *)
LEMMA LoadTells ==
    ASSUME NEW log \in Seq(Good), NEW k \in Keys, NEW v, Tells(log, k, v)
    PROVE  Load(log)[k] = v
<1> DEFINE n == Len(log)
<1>1. PICK acc \in [0 .. n -> Stores] :
          /\ acc[0] = EmptyStore
          /\ \A i \in 1 .. n : acc[i] = replayCommand(acc[i - 1], log[i])
          /\ Load(log) = acc[n]
  BY LoadSteps
<1>2. n \in Nat /\ DOMAIN log = 1 .. n /\ \A i \in 1 .. n : log[i] \in Good
  BY LenProperties
<1> HIDE DEF n
<1>3. ASSUME NEW i \in 1 .. n
      PROVE  /\ log[i].key # k => acc[i][k] = acc[i - 1][k]
             /\ log[i].key = k /\ log[i].op # "APPEND" => acc[i][k] = Effect(log[i])
  <2>1. acc[i] = replayCommand(acc[i - 1], log[i])
    BY <1>1
  <2>2. acc[i - 1] \in Stores /\ log[i] \in Good
    BY <1>2
  <2> QED
    BY <2>1, <2>2, ReplayKey
<1>4. ASSUME NEW j \in 0 .. n, \A i \in 1 .. n : i > j => log[i].key # k
      PROVE  acc[n][k] = acc[j][k]
  <2> DEFINE S == {i \in Nat : j <= i /\ i <= n => acc[i][k] = acc[j][k]}
  <2>1. 0 \in S
    OBVIOUS
  <2>2. ASSUME NEW i \in Nat, i \in S
        PROVE  i + 1 \in S
    <3> SUFFICES ASSUME j <= i + 1, i + 1 <= n
                 PROVE  acc[i + 1][k] = acc[j][k]
      OBVIOUS
    <3>1. CASE j = i + 1
      BY <3>1
    <3>2. CASE j # i + 1
      <4>1. i + 1 \in 1 .. n /\ i + 1 > j /\ j <= i /\ i <= n /\ (i + 1) - 1 = i
        BY <1>2, <3>2
      <4>2. acc[i + 1][k] = acc[i][k]
        BY <1>3, <1>4, <4>1
      <4> QED
        BY <2>2, <4>1, <4>2
    <3> QED
      BY <3>1, <3>2
  <2>3. \A i \in Nat : i \in S
    <3> HIDE DEF S
    <3> QED
      BY <2>1, <2>2, NatSetInduction
  <2>4. j <= n /\ n \in S
    BY <1>2, <2>3
  <2> QED
    BY <1>2, <2>4
<1>5. CASE NoneOf(log, k) /\ v = Absent
  <2>1. 0 \in 0 .. n /\ \A i \in 1 .. n : log[i].key # k
    BY <1>2, <1>5 DEF NoneOf
  <2>2. acc[n][k] = acc[0][k]
    BY <1>4, <2>1
  <2> QED
    BY <1>1, <1>5, <2>2 DEF EmptyStore
<1>6. ASSUME NEW j \in DOMAIN log, LastOf(log, k, j), log[j].op # "APPEND", v = Effect(log[j])
      PROVE  Load(log)[k] = v
  <2>1. j \in 1 .. n /\ j \in 0 .. n /\ log[j].key = k
        /\ \A i \in 1 .. n : i > j => log[i].key # k
    BY <1>2, <1>6 DEF LastOf
  <2>2. acc[n][k] = acc[j][k]
    BY <1>4, <2>1
  <2>3. acc[j][k] = Effect(log[j])
    BY <1>3, <1>6, <2>1
  <2> QED
    BY <1>1, <1>6, <2>2, <2>3
<1> QED
  BY <1>5, <1>6 DEF Tells

(* A log without APPENDs of a key tells its value. *)
LEMMA TellsLoad ==
    ASSUME NEW log \in Seq(Good), NEW k \in Keys, NoAppend(log, k)
    PROVE  Tells(log, k, Load(log)[k])
<1> DEFINE s == {i \in 1 .. Len(log) : log[i].key = k}
<1>1. Len(log) \in Nat /\ DOMAIN log = 1 .. Len(log)
  BY LenProperties
<1>2. CASE s = {}
  <2>1. NoneOf(log, k)
    BY <1>1, <1>2 DEF NoneOf
  <2>2. Tells(log, k, Absent)
    BY <2>1 DEF Tells
  <2>3. Load(log)[k] = Absent
    BY <2>2, LoadTells
  <2> QED
    BY <2>2, <2>3
<1>3. CASE s # {}
  <2>1. PICK j \in s : \A i \in s : i <= j
    <3>1. s \in SUBSET (1 .. Len(log))
      OBVIOUS
    <3> HIDE DEF s
    <3> QED
      BY <1>1, <1>3, <3>1, GreatestNat
  <2>2. LastOf(log, k, j)
    BY <1>1, <2>1 DEF LastOf
  <2>3. j \in DOMAIN log /\ log[j].op # "APPEND"
    BY <2>2 DEF LastOf, NoAppend
  <2>4. Tells(log, k, Effect(log[j]))
    BY <2>2, <2>3 DEF Tells
  <2>5. Load(log)[k] = Effect(log[j])
    BY <2>4, LoadTells
  <2> QED
    BY <2>4, <2>5
<1> QED
  BY <1>2, <1>3

-----------------------------------------------------------------------------
(* How a log changes *)

(* A record at the end: the last of its own key, no matter to the others. *)
LEMMA TellsAppend ==
    ASSUME NEW log \in Seq(Good), NEW r \in Good, NEW k
    PROVE  LET m == Append(log, r)
           IN  /\ m \in Seq(Good)
               /\ DOMAIN m = 1 .. (Len(log) + 1)
               /\ m[Len(log) + 1] = r
               /\ \A i \in DOMAIN log : i \in DOMAIN m /\ m[i] = log[i] /\ i # Len(log) + 1
               /\ r.key = k /\ r.op # "APPEND" => Tells(m, k, Effect(r))
               /\ \A v : r.key # k /\ Tells(log, k, v) => Tells(m, k, v)
<1> DEFINE m == Append(log, r)
<1>1. Len(log) \in Nat /\ DOMAIN log = 1 .. Len(log)
  BY LenProperties
<1>2. m \in Seq(Good) /\ DOMAIN m = 1 .. (Len(log) + 1)
  BY <1>1, AppendProperties, LenProperties
<1>3. m[Len(log) + 1] = r /\ \A i \in 1 .. Len(log) : m[i] = log[i]
  BY AppendProperties
<1> HIDE DEF m
<1>4. \A i \in DOMAIN log : i \in DOMAIN m /\ m[i] = log[i] /\ i # Len(log) + 1
  BY <1>1, <1>2, <1>3
<1>5. \A i \in DOMAIN m : i \in DOMAIN log \/ i = Len(log) + 1
  BY <1>1, <1>2
<1>6. ASSUME r.key = k, r.op # "APPEND"
      PROVE  Tells(m, k, Effect(r))
  <2>1. Len(log) + 1 \in DOMAIN m /\ \A i \in DOMAIN m : ~ (i > Len(log) + 1)
    BY <1>1, <1>2
  <2>2. LastOf(m, k, Len(log) + 1)
    BY <1>3, <1>6, <2>1 DEF LastOf
  <2> QED
    BY <1>3, <1>6, <2>1, <2>2 DEF Tells
<1>7. ASSUME NEW v, r.key # k, Tells(log, k, v)
      PROVE  Tells(m, k, v)
  <2>1. CASE NoneOf(log, k) /\ v = Absent
    <3>1. NoneOf(m, k)
      BY <1>3, <1>4, <1>5, <1>7, <2>1 DEF NoneOf
    <3> QED
      BY <2>1, <3>1 DEF Tells
  <2>2. ASSUME NEW j \in DOMAIN log, LastOf(log, k, j), log[j].op # "APPEND",
               v = Effect(log[j])
        PROVE  Tells(m, k, v)
    <3>1. LastOf(m, k, j)
      BY <1>3, <1>4, <1>5, <1>7, <2>2 DEF LastOf
    <3> QED
      BY <1>4, <2>2, <3>1 DEF Tells
  <2> QED
    BY <1>7, <2>1, <2>2 DEF Tells
<1> QED
  BY <1>2, <1>3, <1>4, <1>6, <1>7 DEF m

(* Where the record at place j of the log was before the record at place n + i
   moved ahead to place n + 1. *)
Before(n, i, j) ==
    IF j <= n \/ j > n + i THEN j ELSE IF j = n + 1 THEN n + i ELSE j - 1

Moved(log, m, n, i) ==
    /\ n \in Nat /\ i \in Nat /\ i >= 1
    /\ n + i \in DOMAIN log
    /\ DOMAIN m = DOMAIN log
    /\ \A j \in DOMAIN m : m[j] = log[Before(n, i, j)]

(* What is left of the goroutines when the one at place i has run. *)
LEMMA RemoveAtElements ==
    ASSUME NEW p \in Seq(Good), NEW i \in DOMAIN p
    PROVE  /\ RemoveAt(p, i) \in Seq(Good)
           /\ Len(RemoveAt(p, i)) = Len(p) - 1
           /\ \A j \in 1 .. (Len(p) - 1) :
                  RemoveAt(p, i)[j] = IF j < i THEN p[j] ELSE p[j + 1]
<1> DEFINE a == SubSeq(p, 1, i - 1)
           b == SubSeq(p, i + 1, Len(p))
<1>1. Len(p) \in Nat /\ i \in 1 .. Len(p) /\ \A j \in 1 .. Len(p) : p[j] \in Good
  BY LenProperties
<1>2. /\ a \in Seq(Good) /\ Len(a) = i - 1
      /\ \A j \in 1 .. (i - 1) : a[j] = p[j]
  <2>1. \A j \in 1 .. (i - 1) : p[j] \in Good
    BY <1>1
  <2> QED
    BY <1>1, <2>1, SubSeqProperties
<1>3. /\ b \in Seq(Good) /\ Len(b) = Len(p) - i
      /\ \A j \in 1 .. (Len(p) - i) : b[j] = p[i + j]
  <2>1. \A j \in (i + 1) .. Len(p) : p[j] \in Good
    BY <1>1
  <2> QED
    BY <1>1, <2>1, SubSeqProperties
<1> HIDE DEF a, b
<1>4. /\ a \o b \in Seq(Good) /\ Len(a \o b) = Len(a) + Len(b)
      /\ \A j \in 1 .. (Len(a) + Len(b)) :
             (a \o b)[j] = IF j <= Len(a) THEN a[j] ELSE b[j - Len(a)]
  BY <1>2, <1>3, ConcatProperties
<1>5. ASSUME NEW j \in 1 .. (Len(p) - 1)
      PROVE  (a \o b)[j] = IF j < i THEN p[j] ELSE p[j + 1]
  <2>1. j \in 1 .. (Len(a) + Len(b))
    BY <1>1, <1>2, <1>3
  <2>2. CASE j < i
    BY <1>1, <1>2, <1>4, <2>1, <2>2
  <2>3. CASE ~ (j < i)
    <3>1. j - Len(a) \in 1 .. (Len(p) - i) /\ i + (j - Len(a)) = j + 1 /\ ~ (j <= Len(a))
      BY <1>1, <1>2, <2>3
    <3>2. (a \o b)[j] = p[i + (j - Len(a))]
      BY <1>3, <1>4, <2>1, <3>1
    <3> QED
      BY <2>3, <3>1, <3>2
  <2> QED
    BY <2>2, <2>3
<1>6. RemoveAt(p, i) = a \o b
  BY DEF RemoveAt, a, b
<1>7. Len(a \o b) = Len(p) - 1
  BY <1>1, <1>2, <1>3, <1>4
<1> QED
  BY <1>4, <1>5, <1>6, <1>7

(* LogCommand moves one record ahead of the other goroutines' records. *)
LEMMA LogCommandMoves ==
    ASSUME NEW a \in Seq(Good), NEW p \in Seq(Good), NEW i \in DOMAIN p
    PROVE  /\ Append(a, p[i]) \o RemoveAt(p, i) \in Seq(Good)
           /\ Moved(a \o p, Append(a, p[i]) \o RemoveAt(p, i), Len(a), i)
<1> DEFINE n == Len(a)
           x == Append(a, p[i])
           q == RemoveAt(p, i)
           log == a \o p
           m == x \o q
<1>1. n \in Nat /\ Len(p) \in Nat /\ i \in 1 .. Len(p) /\ p[i] \in Good
  BY LenProperties
<1>2. /\ x \in Seq(Good) /\ Len(x) = n + 1 /\ x[n + 1] = p[i]
      /\ \A j \in 1 .. n : x[j] = a[j]
  BY <1>1, AppendProperties
<1>3. /\ q \in Seq(Good) /\ Len(q) = Len(p) - 1
      /\ \A j \in 1 .. (Len(p) - 1) : q[j] = IF j < i THEN p[j] ELSE p[j + 1]
  BY RemoveAtElements
<1> HIDE DEF x, q
<1>4. /\ log \in Seq(Good) /\ Len(log) = n + Len(p)
      /\ \A j \in 1 .. (n + Len(p)) : log[j] = IF j <= n THEN a[j] ELSE p[j - n]
  BY ConcatProperties
<1>5. /\ m \in Seq(Good) /\ Len(m) = Len(x) + Len(q)
      /\ \A j \in 1 .. (Len(x) + Len(q)) : m[j] = IF j <= Len(x) THEN x[j] ELSE q[j - Len(x)]
  BY <1>2, <1>3, ConcatProperties
<1> HIDE DEF n, log, m
<1>6. DOMAIN log = 1 .. (n + Len(p)) /\ DOMAIN m = 1 .. (n + Len(p))
      /\ Len(x) + Len(q) = n + Len(p)
  <2>1. Len(x) + Len(q) = n + Len(p)
    BY <1>1, <1>2, <1>3
  <2>2. Len(log) = n + Len(p) /\ Len(m) = n + Len(p)
    BY <1>4, <1>5, <2>1
  <2>3. DOMAIN log = 1 .. Len(log) /\ DOMAIN m = 1 .. Len(m)
    BY <1>4, <1>5, LenProperties
  <2> QED
    BY <2>1, <2>2, <2>3
<1>7. ASSUME NEW j \in 1 .. (n + Len(p))
      PROVE  m[j] = log[Before(n, i, j)]
  <2>1. m[j] = IF j <= n + 1 THEN x[j] ELSE q[j - (n + 1)]
    BY <1>2, <1>5, <1>6
  <2>2. CASE j <= n
    <3>1. m[j] = a[j] /\ log[j] = a[j]
      BY <1>1, <1>2, <1>4, <2>1, <2>2
    <3> QED
      BY <2>2, <3>1 DEF Before
  <2>3. CASE j = n + 1
    <3>1. n + i \in 1 .. (n + Len(p)) /\ ~ (n + i <= n) /\ (n + i) - n = i
      BY <1>1
    <3>2. log[n + i] = p[i] /\ m[j] = p[i]
      BY <1>1, <1>2, <1>4, <2>1, <2>3, <3>1
    <3>3. Before(n, i, j) = n + i
      BY <1>1, <2>3 DEF Before
    <3> QED
      BY <3>2, <3>3
  <2>4. CASE j > n + 1 /\ j <= n + i
    <3>1. j - (n + 1) \in 1 .. (Len(p) - 1) /\ j - (n + 1) < i /\ ~ (j <= n + 1)
      BY <1>1, <2>4
    <3>2. j - 1 \in 1 .. (n + Len(p)) /\ ~ (j - 1 <= n) /\ (j - 1) - n = j - (n + 1)
      BY <1>1, <2>4
    <3>3. m[j] = p[j - (n + 1)]
      BY <1>3, <2>1, <3>1
    <3>4. log[j - 1] = p[j - (n + 1)]
      BY <1>4, <3>2
    <3>5. Before(n, i, j) = j - 1
      BY <1>1, <2>4 DEF Before
    <3> QED
      BY <3>3, <3>4, <3>5
  <2>5. CASE j > n + i
    <3>1. j - (n + 1) \in 1 .. (Len(p) - 1) /\ ~ (j - (n + 1) < i) /\ ~ (j <= n + 1)
          /\ (j - (n + 1)) + 1 = j - n /\ ~ (j <= n)
      BY <1>1, <2>5
    <3>2. m[j] = p[j - n]
      BY <1>3, <2>1, <3>1
    <3>3. log[j] = p[j - n]
      BY <1>4, <3>1
    <3> QED
      BY <2>5, <3>2, <3>3 DEF Before
  <2> QED
    BY <1>1, <2>2, <2>3, <2>4, <2>5
<1>8. n + i \in DOMAIN log
  BY <1>1, <1>6
<1>9. Moved(log, m, n, i)
  BY <1>1, <1>6, <1>7, <1>8 DEF Moved
<1> QED
  BY <1>5, <1>9 DEF m, log, n, x, q

Permutes(log, m, n, i) ==
    /\ \A j \in DOMAIN m : Before(n, i, j) \in DOMAIN log
    /\ \A j, l \in DOMAIN m : Before(n, i, j) = Before(n, i, l) => j = l
    /\ \A j \in DOMAIN log : \E l \in DOMAIN m : j = Before(n, i, l)

(* Every place has an origin of its own. *)
LEMMA MovedIsPermutation ==
    ASSUME NEW log \in Seq(Good), NEW m, NEW n, NEW i, Moved(log, m, n, i)
    PROVE  Permutes(log, m, n, i)
<1>1. Len(log) \in Nat /\ DOMAIN log = 1 .. Len(log)
  BY LenProperties
<1>2. n \in Nat /\ i \in Nat /\ i >= 1 /\ n + i <= Len(log) /\ DOMAIN m = 1 .. Len(log)
  BY <1>1 DEF Moved
<1>3. \A j \in DOMAIN m : Before(n, i, j) \in DOMAIN log
  BY <1>1, <1>2 DEF Before
<1>4. \A j, l \in DOMAIN m : Before(n, i, j) = Before(n, i, l) => j = l
  BY <1>1, <1>2 DEF Before
<1>5. ASSUME NEW j \in DOMAIN log
      PROVE  \E l \in DOMAIN m : j = Before(n, i, l)
  <2> DEFINE l == IF j <= n \/ j > n + i THEN j ELSE IF j = n + i THEN n + 1 ELSE j + 1
  <2>1. l \in DOMAIN m /\ j = Before(n, i, l)
    BY <1>1, <1>2 DEF Before
  <2> QED
    BY <2>1
<1> QED
  BY <1>3, <1>4, <1>5 DEF Permutes

(* The record that moves is the only one of its key among those under way. *)
MovesAlone(log, n, i, k) ==
    log[n + i].key = k => \A j \in DOMAIN log : j > n /\ log[j].key = k => j = n + i

(* The log still tells the same of a key that had no other record under way:
   the record that moved is of another key or is the last of its own. *)
LEMMA TellsMoved ==
    ASSUME NEW log \in Seq(Good), NEW m, NEW n, NEW i, Moved(log, m, n, i),
           NEW k, NEW v, Tells(log, k, v), MovesAlone(log, n, i, k)
    PROVE  Tells(m, k, v)
<1>1. Len(log) \in Nat /\ DOMAIN log = 1 .. Len(log)
  BY LenProperties
<1>2. n \in Nat /\ i \in Nat /\ i >= 1 /\ n + i <= Len(log) /\ DOMAIN m = 1 .. Len(log)
  BY <1>1 DEF Moved
<1>3. \A l \in DOMAIN m : m[l] = log[Before(n, i, l)] /\ Before(n, i, l) \in DOMAIN log
  BY MovedIsPermutation DEF Moved, Permutes
<1>4. CASE NoneOf(log, k) /\ v = Absent
  BY <1>3, <1>4 DEF NoneOf, Tells
<1>5. ASSUME NEW j \in DOMAIN log, LastOf(log, k, j), log[j].op # "APPEND",
             v = Effect(log[j])
      PROVE  Tells(m, k, v)
  <2>1. PICK l \in DOMAIN m : j = Before(n, i, l)
    BY MovedIsPermutation DEF Permutes
  <2>2. m[l] = log[j]
    BY <1>3, <2>1
  <2>3. ASSUME NEW x \in DOMAIN m, x > l
        PROVE  m[x].key # k
    <3> SUFFICES ASSUME m[x].key = k
                 PROVE  FALSE
      OBVIOUS
    <3> DEFINE y == Before(n, i, x)
    <3>1. y \in DOMAIN log /\ log[y].key = k
      BY <1>3
    <3>2. ~ (y > j)
      BY <1>5, <3>1 DEF LastOf
    <3>3. l \in 1 .. Len(log) /\ x \in 1 .. Len(log)
      BY <1>2
    <3>4. CASE l = n + 1
      <4>1. j = n + i /\ log[n + i].key = k
        BY <1>2, <1>5, <2>1, <3>4 DEF Before, LastOf
      <4>2. y > n
        BY <1>2, <2>3, <3>3, <3>4 DEF Before
      <4>3. y = n + i
        BY <3>1, <4>1, <4>2 DEF MovesAlone
      <4>4. x = l
        <5>1. \A c, d \in DOMAIN m : Before(n, i, c) = Before(n, i, d) => c = d
          BY MovedIsPermutation DEF Permutes
        <5>2. Before(n, i, x) = Before(n, i, l)
          BY <2>1, <4>1, <4>3
        <5> QED
          BY <5>1, <5>2
      <4> QED
        BY <2>3, <3>3, <4>4
    <3>5. CASE l # n + 1 /\ x = n + 1
      <4>1. y = n + i /\ l <= n /\ j = l
        BY <1>2, <2>1, <2>3, <3>3, <3>5 DEF Before
      <4> QED
        BY <1>2, <3>2, <3>3, <4>1
    <3>6. CASE l # n + 1 /\ x # n + 1
      BY <1>2, <2>1, <2>3, <3>2, <3>3, <3>6 DEF Before
    <3> QED
      BY <3>4, <3>5, <3>6
  <2>4. LastOf(m, k, l)
    BY <1>5, <2>2, <2>3 DEF LastOf
  <2> QED
    BY <1>5, <2>2, <2>4 DEF Tells
<1> QED
  BY <1>4, <1>5 DEF Tells

(* A record at the end of the last part is at the end of the whole. *)
LEMMA ConcatAppend ==
    ASSUME NEW S, NEW s \in Seq(S), NEW t \in Seq(S), NEW x \in S
    PROVE  s \o Append(t, x) = Append(s \o t, x)
<1>1. t \o <<x>> = Append(t, x) /\ (s \o t) \o <<x>> = Append(s \o t, x)
  BY ConcatProperties, AppendIsConcat
<1>2. <<x>> \in Seq(S)
  OBVIOUS
<1> QED
  BY <1>1, <1>2, ConcatAssociative

-----------------------------------------------------------------------------
(* The inductive invariant *)

Typed ==
    /\ store \in Stores
    /\ conn \in [Conns -> {Idle} \cup (Keys \X Pieces \X Seq(Pieces))]
    /\ pending \in Seq(Good)
    /\ buffer \in Seq(Good)
    /\ file \in Seq(Good)
    /\ mode \in {"up", "stopping", "down"}
    /\ writes \in 0 .. MaxWrites
    /\ raced \subseteq Keys
    /\ \A c \in Conns : conn[c] # Idle => "APPEND" \in Ops

(* A process that is down has nothing in memory. *)
MemoryLost == mode = "down" => pending = <<>> /\ buffer = <<>>

(* A key that is not raced has at most one record under way. *)
OneWaits ==
    \A k \in Keys : k \notin raced =>
        \A i, j \in DOMAIN pending :
            pending[i].key = k /\ pending[j].key = k => i = j

Numbered == \A i \in DOMAIN Log : Log[i].id <= writes

LogTells ==
    Serving => \A k \in Keys : Replayable(k) => Tells(Log, k, store[k])

Inv == Typed /\ MemoryLost /\ OneWaits /\ Numbered /\ RecordedOnce /\ LogTells

(* The parts of the log make a log. *)
LEMMA LogType ==
    ASSUME Typed
    PROVE  /\ file \o buffer \in Seq(Good)
           /\ Log \in Seq(Good)
           /\ DOMAIN Log = 1 .. Len(Log)
           /\ Len(Log) \in Nat
<1>1. file \o buffer \in Seq(Good)
  BY ConcatProperties DEF Typed
<1>2. Log \in Seq(Good)
  BY <1>1, ConcatProperties DEF Typed, Log
<1> QED
  BY <1>1, <1>2, LenProperties

(* The invariant holds at the start: the log is empty. *)
LEMMA InitInv == Init => Inv
<1> SUFFICES ASSUME Init
             PROVE  Inv
  OBVIOUS
<1> USE DEF Init
<1>1. Typed
  <2>1. <<>> \in Seq(Pieces) /\ <<>> \in Seq(Good)
    OBVIOUS
  <2> QED
    BY <2>1, MaxWritesAssumption DEF Typed, Stores, Absent
<1>2. Log = <<>> /\ DOMAIN Log = {}
  BY DEF Log
<1>3. MemoryLost /\ OneWaits
  BY DEF MemoryLost, OneWaits
<1>4. Numbered /\ RecordedOnce
  BY <1>2 DEF Numbered, RecordedOnce
<1>5. LogTells
  BY <1>2 DEF LogTells, Tells, NoneOf
<1> QED
  BY <1>1, <1>3, <1>4, <1>5 DEF Inv

(* The end of a handler: SET, DEL and APPEND add a record to the log. *)
LEMMA ApplyKeeps ==
    ASSUME Inv, NEW op \in Ops, NEW k \in Keys, NEW p \in Pieces \cup {NoPiece},
           NEW v \in Seq(Pieces), Apply(op, k, p, v), Serving,
           op = "SET" => p \in Pieces,
           op # "APPEND" => v = Effect(Record(writes + 1, op, k, p)),
           conn' \in [Conns -> {Idle} \cup (Keys \X Pieces \X Seq(Pieces))],
           \A c \in Conns : conn'[c] # Idle => "APPEND" \in Ops
    PROVE  Inv'
<1> DEFINE r == Record(writes + 1, op, k, p)
<1>1. Typed /\ writes \in Nat /\ writes + 1 \in 1 .. MaxWrites
  BY MaxWritesAssumption DEF Inv, Typed, Apply
<1>2. r \in Good /\ r.key = k /\ r.op = op /\ r.id = writes + 1
  BY <1>1 DEF Record, Good, Records
<1> HIDE DEF r
<1>3. pending' = Append(pending, r) /\ buffer' = buffer /\ file' = file /\ mode' = mode
      /\ writes' = writes + 1 /\ store' = [store EXCEPT ![k] = v]
      /\ raced \subseteq raced' /\ raced' \subseteq raced \cup {k}
      /\ ((\E i \in DOMAIN pending : pending[i].key = k) => k \in raced')
  BY DEF Apply, r
<1>4. Typed'
  <2>1. pending' \in Seq(Good)
    BY <1>1, <1>2, <1>3, AppendProperties DEF Typed
  <2> QED
    BY <1>1, <1>3, <2>1 DEF Typed, Stores
<1>5. Log' = Append(Log, r)
  <2>1. file \o buffer \in Seq(Good) /\ pending \in Seq(Good)
    BY <1>1, LogType DEF Typed
  <2>2. (file \o buffer) \o Append(pending, r) = Append((file \o buffer) \o pending, r)
    BY <1>2, <2>1, ConcatAppend
  <2> QED
    BY <1>3, <2>2 DEF Log
<1>6. Log \in Seq(Good) /\ DOMAIN Log = 1 .. Len(Log) /\ Len(Log) \in Nat
  BY <1>1, LogType
<1> DEFINE n == Len(Log) + 1
<1>7. /\ DOMAIN Log' = 1 .. n /\ Log'[n] = r
      /\ \A i \in DOMAIN Log : i \in DOMAIN Log' /\ Log'[i] = Log[i]
      /\ \A i \in DOMAIN Log' : i \in DOMAIN Log \/ i = n
  <2>1. DOMAIN Log' = 1 .. n /\ Log'[n] = r
      /\ \A i \in DOMAIN Log : i \in DOMAIN Log' /\ Log'[i] = Log[i]
    BY <1>2, <1>5, <1>6, TellsAppend
  <2> QED
    BY <1>6, <2>1
<1> HIDE DEF n
<1>8. MemoryLost'
  BY <1>3 DEF MemoryLost, Serving
<1>9. OneWaits'
  <2> SUFFICES ASSUME NEW x \in Keys, x \notin raced',
                      NEW i \in DOMAIN pending', NEW j \in DOMAIN pending',
                      pending'[i].key = x, pending'[j].key = x
               PROVE  i = j
    BY DEF OneWaits
  <2>1. Len(pending) \in Nat /\ DOMAIN pending = 1 .. Len(pending)
        /\ DOMAIN pending' = 1 .. (Len(pending) + 1)
        /\ pending'[Len(pending) + 1] = r
        /\ \A l \in 1 .. Len(pending) : pending'[l] = pending[l]
    BY <1>1, <1>2, <1>3, AppendProperties, LenProperties DEF Typed
  <2>2. CASE x = k
    <3>1. \A l \in DOMAIN pending : pending[l].key # k
      BY <1>3, <2>2
    <3>2. \A l \in DOMAIN pending' : pending'[l].key = k => l = Len(pending) + 1
      BY <2>1, <3>1
    <3> QED
      BY <2>2, <3>2
  <2>3. CASE x # k
    <3>1. i \in DOMAIN pending /\ j \in DOMAIN pending
      BY <1>2, <2>1, <2>3
    <3>2. pending[i].key = x /\ pending[j].key = x /\ x \notin raced
      BY <1>3, <2>1, <3>1
    <3> QED
      BY <3>1, <3>2 DEF Inv, OneWaits
  <2> QED
    BY <2>2, <2>3
<1>10. Numbered'
  <2> SUFFICES ASSUME NEW i \in DOMAIN Log'
               PROVE  Log'[i].id <= writes'
    BY DEF Numbered
  <2>1. CASE i = n
    BY <1>1, <1>2, <1>3, <1>7, <2>1
  <2>2. CASE i \in DOMAIN Log
    <3>1. Log[i].id <= writes /\ Log[i] \in Good
      BY <1>6, <2>2 DEF Inv, Numbered
    <3>2. Log[i].id \in Nat
      BY <3>1 DEF Good, Records
    <3> QED
      BY <1>1, <1>3, <1>7, <2>2, <3>1, <3>2
  <2> QED
    BY <1>7, <2>1, <2>2
<1>11. RecordedOnce'
  <2> SUFFICES ASSUME NEW i \in DOMAIN Log', NEW j \in DOMAIN Log', Log'[i].id = Log'[j].id
               PROVE  i = j
    BY DEF RecordedOnce
  <2>1. \A l \in DOMAIN Log : Log'[l].id # r.id
    <3> SUFFICES ASSUME NEW l \in DOMAIN Log
                 PROVE  Log[l].id # r.id
      BY <1>7
    <3>1. Log[l].id <= writes /\ Log[l] \in Good
      BY <1>6 DEF Inv, Numbered
    <3>2. Log[l].id \in Nat
      BY <3>1 DEF Good, Records
    <3> QED
      BY <1>1, <1>2, <3>1, <3>2
  <2>2. CASE i \in DOMAIN Log /\ j \in DOMAIN Log
    BY <1>7, <2>2 DEF Inv, RecordedOnce
  <2>3. CASE i = n \/ j = n
    BY <1>7, <2>1, <2>3
  <2> QED
    BY <1>7, <2>2, <2>3
<1>12. LogTells'
  <2> SUFFICES ASSUME NEW x \in Keys, Replayable(x)'
               PROVE  Tells(Log', x, store'[x])
    BY DEF LogTells
  <2>1. x \notin raced' /\ \A i \in DOMAIN Log' : Log'[i].key = x => Log'[i].op # "APPEND"
    BY DEF Replayable
  <2>2. CASE x = k
    <3>1. r.op # "APPEND"
      <4>1. n \in DOMAIN Log'
        BY <1>6, <1>7 DEF n
      <4> QED
        BY <1>2, <1>7, <2>1, <2>2, <4>1
    <3>2. Tells(Append(Log, r), k, Effect(r))
      BY <1>2, <1>6, <3>1, TellsAppend
    <3>3. store'[k] = Effect(r)
      BY <1>1, <1>2, <1>3, <3>1 DEF Typed, Stores, r
    <3> QED
      BY <1>5, <2>2, <3>2, <3>3
  <2>3. CASE x # k
    <3>1. Replayable(x)
      BY <1>3, <1>7, <2>1 DEF Replayable
    <3>2. Tells(Log, x, store[x])
      BY <3>1 DEF Inv, LogTells
    <3>3. Tells(Append(Log, r), x, store[x])
      BY <1>2, <1>6, <2>3, <3>2, TellsAppend
    <3>4. store'[x] = store[x]
      BY <1>1, <1>3, <2>3 DEF Typed, Stores
    <3> QED
      BY <1>5, <3>3, <3>4
  <2> QED
    BY <2>2, <2>3
<1> QED
  BY <1>4, <1>8, <1>9, <1>10, <1>11, <1>12 DEF Inv

(* LogCommand moves a record from the goroutines to the buffer. *)
LEMMA LogCommandKeeps ==
    ASSUME Inv, LogCommand
    PROVE  Inv'
<1>1. Typed
  BY DEF Inv
<1>2. PICK i \in DOMAIN pending : buffer' = Append(buffer, pending[i])
                                  /\ pending' = RemoveAt(pending, i)
  BY DEF LogCommand
<1>3. UNCHANGED <<store, conn, file, mode, writes, raced>> /\ Serving
  BY DEF LogCommand
<1> DEFINE a == file \o buffer
           n == Len(a)
<1>4. a \in Seq(Good) /\ pending \in Seq(Good) /\ buffer \in Seq(Good) /\ file \in Seq(Good)
      /\ pending[i] \in Good
  <2>1. pending \in Seq(Good) /\ a \in Seq(Good)
    BY <1>1, LogType DEF Typed
  <2>2. pending[i] \in Good
    BY <2>1, LenProperties
  <2> QED
    BY <1>1, <2>1, <2>2 DEF Typed
<1>5. n \in Nat /\ Len(pending) \in Nat /\ DOMAIN pending = 1 .. Len(pending)
  BY <1>4, LenProperties
<1>6. Log' = Append(a, pending[i]) \o RemoveAt(pending, i)
  <2>1. file \o Append(buffer, pending[i]) = Append(a, pending[i])
    BY <1>4, ConcatAppend
  <2> QED
    BY <1>2, <1>3, <2>1 DEF Log
<1>7. Log = a \o pending
  BY DEF Log
<1>8. Log \in Seq(Good) /\ DOMAIN Log = 1 .. (n + Len(pending))
      /\ \A j \in 1 .. Len(pending) : Log[n + j] = pending[j]
  <2>1. Log \in Seq(Good) /\ Len(Log) = n + Len(pending)
        /\ \A j \in 1 .. (n + Len(pending)) : Log[j] = IF j <= n THEN a[j] ELSE pending[j - n]
    BY <1>4, <1>7, ConcatProperties
  <2>2. DOMAIN Log = 1 .. Len(Log)
    BY <2>1, LenProperties
  <2>3. ASSUME NEW j \in 1 .. Len(pending)
        PROVE  Log[n + j] = pending[j]
    <3>1. n + j \in 1 .. (n + Len(pending)) /\ ~ (n + j <= n) /\ (n + j) - n = j
      BY <1>5
    <3> QED
      BY <2>1, <3>1
  <2> QED
    BY <2>1, <2>2, <2>3
<1> HIDE DEF a
<1>9. Moved(Log, Log', n, i)
  BY <1>4, <1>6, <1>7, LogCommandMoves
<1> HIDE DEF n
<1>10. /\ DOMAIN Log' = DOMAIN Log
       /\ \A j \in DOMAIN Log' : Log'[j] = Log[Before(n, i, j)]
  BY <1>9 DEF Moved
<1>11. /\ \A j \in DOMAIN Log' : Before(n, i, j) \in DOMAIN Log
       /\ \A j, l \in DOMAIN Log' : Before(n, i, j) = Before(n, i, l) => j = l
       /\ \A j \in DOMAIN Log : \E l \in DOMAIN Log' : j = Before(n, i, l)
  <2>1. Permutes(Log, Log', n, i)
    BY <1>8, <1>9, MovedIsPermutation
  <2> QED
    BY <2>1 DEF Permutes
<1>12. Typed'
  <2>1. pending' \in Seq(Good)
    BY <1>2, <1>4, RemoveAtElements
  <2>2. buffer' \in Seq(Good)
    BY <1>2, <1>4, AppendProperties
  <2> QED
    BY <1>1, <1>3, <2>1, <2>2 DEF Typed
<1>13. MemoryLost'
  BY <1>3 DEF MemoryLost, Serving
<1>14. OneWaits'
  <2> SUFFICES ASSUME NEW x \in Keys, x \notin raced,
                      NEW j \in DOMAIN pending', NEW l \in DOMAIN pending',
                      pending'[j].key = x, pending'[l].key = x
               PROVE  j = l
    BY <1>3 DEF OneWaits
  <2> DEFINE from(y) == IF y < i THEN y ELSE y + 1
  <2>1. DOMAIN pending' = 1 .. (Len(pending) - 1)
        /\ \A y \in 1 .. (Len(pending) - 1) :
               pending'[y] = IF y < i THEN pending[y] ELSE pending[y + 1]
    <3>1. /\ pending' \in Seq(Good)
          /\ Len(pending') = Len(pending) - 1
          /\ \A y \in 1 .. (Len(pending) - 1) :
                 pending'[y] = IF y < i THEN pending[y] ELSE pending[y + 1]
      BY <1>2, <1>4, RemoveAtElements
    <3>2. DOMAIN pending' = 1 .. Len(pending')
      BY <3>1, LenProperties
    <3> QED
      BY <3>1, <3>2
  <2>2. from(j) \in DOMAIN pending /\ from(l) \in DOMAIN pending
    BY <1>5, <2>1
  <2>3. pending[from(j)].key = x /\ pending[from(l)].key = x
    BY <2>1
  <2>4. from(j) = from(l)
    <3> HIDE DEF from
    <3> QED
      BY <2>2, <2>3 DEF Inv, OneWaits
  <2> QED
    BY <1>5, <2>1, <2>4
<1>15. Numbered'
  <2> SUFFICES ASSUME NEW j \in DOMAIN Log'
               PROVE  Log'[j].id <= writes
    BY <1>3 DEF Numbered
  <2> QED
    BY <1>10, <1>11 DEF Inv, Numbered
<1>16. RecordedOnce'
  <2> SUFFICES ASSUME NEW j \in DOMAIN Log', NEW l \in DOMAIN Log', Log'[j].id = Log'[l].id
               PROVE  j = l
    BY DEF RecordedOnce
  <2>1. Before(n, i, j) = Before(n, i, l)
    BY <1>10, <1>11 DEF Inv, RecordedOnce
  <2> QED
    BY <1>11, <2>1
<1>17. LogTells'
  <2> SUFFICES ASSUME NEW x \in Keys, Replayable(x)'
               PROVE  Tells(Log', x, store[x])
    BY <1>3 DEF LogTells
  <2>1. x \notin raced /\ \A j \in DOMAIN Log' : Log'[j].key = x => Log'[j].op # "APPEND"
    BY <1>3 DEF Replayable
  <2>2. \A j \in DOMAIN Log : Log[j].key = x => Log[j].op # "APPEND"
    BY <1>10, <1>11, <2>1
  <2>3. Tells(Log, x, store[x])
    BY <1>3, <2>1, <2>2 DEF Inv, LogTells, Replayable
  <2>4. ASSUME Log[n + i].key = x, NEW j \in DOMAIN Log, j > n, Log[j].key = x
        PROVE  j = n + i
    <3>1. j - n \in DOMAIN pending /\ j = n + (j - n)
      BY <1>5, <1>8, <2>4
    <3>2. pending[j - n].key = x /\ pending[i].key = x
      BY <1>5, <1>8, <2>4, <3>1
    <3>3. j - n = i
      BY <2>1, <3>1, <3>2 DEF Inv, OneWaits
    <3> QED
      BY <3>1, <3>3
  <2>5. MovesAlone(Log, n, i, x)
    BY <2>4 DEF MovesAlone
  <2> QED
    BY <1>8, <1>9, <2>3, <2>5, TellsMoved
<1> QED
  BY <1>12, <1>13, <1>14, <1>15, <1>16, <1>17 DEF Inv

(* The log after the process ends: what had been written of it. *)
LEMMA ExitKeeps ==
    ASSUME Inv, Exit, file' = file \/ file' = file \o buffer
    PROVE  Inv'
<1>1. Typed
  BY DEF Inv
<1>2. mode' = "down" /\ pending' = <<>> /\ buffer' = <<>>
      /\ UNCHANGED <<store, writes, raced>> /\ conn' = [c \in Conns |-> Idle]
  BY DEF Exit
<1>3. file' \in Seq(Good)
  BY <1>1, LogType DEF Typed
<1>4. Typed'
  <2>1. <<>> \in Seq(Good)
    OBVIOUS
  <2> QED
    BY <1>1, <1>2, <1>3, <2>1 DEF Typed
<1>5. Log' = file'
  <2>1. file' \o <<>> = file' /\ <<>> \in Seq(Good)
    BY <1>3, ConcatEmptySeq
  <2> QED
    BY <1>2, <2>1 DEF Log
<1>6. \A j \in DOMAIN Log' : j \in DOMAIN Log /\ Log'[j] = Log[j]
  <2> DEFINE a == file \o buffer
  <2>1. a \in Seq(Good) /\ pending \in Seq(Good) /\ file \in Seq(Good) /\ buffer \in Seq(Good)
        /\ Log = a \o pending
    BY <1>1, LogType DEF Typed, Log
  <2>2. \A j \in DOMAIN file : j \in DOMAIN a /\ a[j] = file[j]
    <3>1. Len(file) \in Nat /\ DOMAIN file = 1 .. Len(file) /\ Len(buffer) \in Nat
          /\ DOMAIN a = 1 .. Len(a)
      BY <2>1, LenProperties
    <3>2. Len(a) = Len(file) + Len(buffer)
          /\ \A j \in 1 .. (Len(file) + Len(buffer)) :
                 a[j] = IF j <= Len(file) THEN file[j] ELSE buffer[j - Len(file)]
      BY <2>1, ConcatProperties
    <3> HIDE DEF a
    <3> QED
      BY <3>1, <3>2
  <2> HIDE DEF a
  <2>3. \A j \in DOMAIN a : j \in DOMAIN Log /\ Log[j] = a[j]
    <3>1. Len(a) \in Nat /\ DOMAIN a = 1 .. Len(a) /\ Len(pending) \in Nat
      BY <2>1, LenProperties
    <3>2. Len(Log) = Len(a) + Len(pending) /\ DOMAIN Log = 1 .. Len(Log)
          /\ \A j \in 1 .. (Len(a) + Len(pending)) :
                 Log[j] = IF j <= Len(a) THEN a[j] ELSE pending[j - Len(a)]
      BY <1>1, <2>1, ConcatProperties, LogType
    <3> QED
      BY <3>1, <3>2
  <2>4. file' = file \/ file' = a
    BY DEF a
  <2> QED
    BY <1>5, <2>2, <2>3, <2>4
<1>7. Numbered' /\ RecordedOnce'
  BY <1>2, <1>6 DEF Inv, Numbered, RecordedOnce
<1>8. MemoryLost' /\ OneWaits' /\ LogTells'
  BY <1>2 DEF MemoryLost, OneWaits, LogTells, Serving
<1> QED
  BY <1>4, <1>7, <1>8 DEF Inv

(* A step that leaves the log, its records under way and the cache alone. *)
LEMMA QuietKeeps ==
    ASSUME Inv, Typed', Log' = Log, UNCHANGED <<store, pending, writes, raced>>,
           mode' = "down" => mode = "down" /\ buffer' = buffer,
           Serving' => Serving
    PROVE  Inv'
<1>1. MemoryLost' /\ OneWaits'
  BY DEF Inv, MemoryLost, OneWaits
<1>2. Numbered' /\ RecordedOnce'
  BY DEF Inv, Numbered, RecordedOnce
<1>3. \A k \in Keys : Replayable(k)' => Replayable(k)
  BY DEF Replayable
<1>4. LogTells'
  BY <1>3 DEF Inv, LogTells
<1> QED
  BY <1>1, <1>2, <1>4 DEF Inv

(* A restart: the cache is what the file tells, and nothing is under way. *)
LEMMA StartKeeps ==
    ASSUME Inv, Start
    PROVE  Inv'
<1>1. Typed /\ pending = <<>> /\ buffer = <<>>
  BY DEF Inv, MemoryLost, Start
<1>2. mode' = "up" /\ store' = Load(file) /\ raced' = {}
      /\ UNCHANGED <<conn, pending, buffer, file, writes>>
  BY DEF Start
<1>3. file \in Seq(Good)
  BY <1>1 DEF Typed
<1>4. Typed'
  <2>1. Load(file) \in Stores
    <3>1. PICK acc \in [0 .. Len(file) -> Stores] : Load(file) = acc[Len(file)]
      BY <1>3, LoadSteps
    <3>2. Len(file) \in 0 .. Len(file)
      BY <1>3, LenProperties
    <3> QED
      BY <3>1, <3>2
  <2> QED
    BY <1>1, <1>2, <2>1 DEF Typed
<1>5. Log' = Log /\ Log = file
  <2>1. file \o <<>> = file
    BY <1>3, ConcatEmptySeq
  <2> QED
    BY <1>1, <1>2, <2>1 DEF Log
<1>6. Numbered' /\ RecordedOnce'
  BY <1>2, <1>5 DEF Inv, Numbered, RecordedOnce
<1>7. MemoryLost' /\ OneWaits'
  BY <1>1, <1>2 DEF MemoryLost, OneWaits
<1>8. LogTells'
  <2> SUFFICES ASSUME NEW k \in Keys, Replayable(k)'
               PROVE  Tells(file, k, Load(file)[k])
    BY <1>2, <1>5 DEF LogTells
  <2>1. NoAppend(file, k)
    BY <1>5 DEF Replayable, NoAppend
  <2> QED
    BY <1>3, <2>1, TellsLoad
<1> QED
  BY <1>4, <1>6, <1>7, <1>8 DEF Inv

(* Every step keeps the invariant. *)
LEMMA NextInv ==
    ASSUME Inv, [Next]_vars
    PROVE  Inv'
<1>1. Typed
  BY DEF Inv
<1>2. Absent \in Seq(Pieces)
  BY DEF Absent
<1>3. ASSUME NEW c \in Conns, Set(c)
      PROVE  Inv'
  <2>1. Serving /\ "SET" \in Ops /\ UNCHANGED conn
    BY <1>3 DEF Set
  <2>2. PICK k \in Keys, p \in Pieces : Apply("SET", k, p, <<p>>)
    BY <1>3 DEF Set
  <2>3. <<p>> \in Seq(Pieces) /\ <<p>> = Effect(Record(writes + 1, "SET", k, p))
    BY DEF Effect, Record
  <2>4. conn' \in [Conns -> {Idle} \cup (Keys \X Pieces \X Seq(Pieces))]
        /\ \A d \in Conns : conn'[d] # Idle => "APPEND" \in Ops
    BY <1>1, <2>1 DEF Typed
  <2> QED
    BY <2>1, <2>2, <2>3, <2>4, ApplyKeeps
<1>4. ASSUME NEW c \in Conns, Delete(c)
      PROVE  Inv'
  <2>1. Serving /\ "DEL" \in Ops /\ UNCHANGED conn
    BY <1>4 DEF Delete
  <2>2. PICK k \in Keys : Apply("DEL", k, NoPiece, Absent)
    BY <1>4 DEF Delete
  <2>3. Absent = Effect(Record(writes + 1, "DEL", k, NoPiece))
    BY DEF Effect, Record
  <2>4. conn' \in [Conns -> {Idle} \cup (Keys \X Pieces \X Seq(Pieces))]
        /\ \A d \in Conns : conn'[d] # Idle => "APPEND" \in Ops
    BY <1>1, <2>1 DEF Typed
  <2> QED
    BY <1>2, <2>1, <2>2, <2>3, <2>4, ApplyKeeps
<1>5. ASSUME NEW c \in Conns, AppendGet(c)
      PROVE  Inv'
  <2>1. Serving /\ "APPEND" \in Ops
        /\ UNCHANGED <<store, pending, buffer, file, mode, writes, raced>>
    BY <1>5 DEF AppendGet
  <2>2. PICK k \in Keys, p \in Pieces : conn' = [conn EXCEPT ![c] = <<k, p, store[k]>>]
    BY <1>5 DEF AppendGet
  <2>3. <<k, p, store[k]>> \in Keys \X Pieces \X Seq(Pieces)
    BY <1>1 DEF Typed, Stores
  <2>4. Typed'
    BY <1>1, <2>1, <2>2, <2>3 DEF Typed
  <2>5. Log' = Log
    BY <2>1 DEF Log
  <2> QED
    BY <2>1, <2>4, <2>5, QuietKeeps DEF Serving
<1>6. ASSUME NEW c \in Conns, AppendSet(c)
      PROVE  Inv'
  <2>1. Serving /\ conn[c] # Idle /\ conn' = [conn EXCEPT ![c] = Idle]
        /\ Apply("APPEND", conn[c][1], conn[c][2], Append(conn[c][3], conn[c][2]))
    BY <1>6 DEF AppendSet
  <2>2. "APPEND" \in Ops /\ conn[c] \in Keys \X Pieces \X Seq(Pieces)
    BY <1>1, <2>1 DEF Typed
  <2>3. conn[c][1] \in Keys /\ conn[c][2] \in Pieces /\ conn[c][3] \in Seq(Pieces)
    BY <2>2
  <2>4. Append(conn[c][3], conn[c][2]) \in Seq(Pieces)
    BY <2>3, AppendProperties
  <2>5. conn' \in [Conns -> {Idle} \cup (Keys \X Pieces \X Seq(Pieces))]
        /\ \A d \in Conns : conn'[d] # Idle => "APPEND" \in Ops
    BY <1>1, <2>1, <2>2 DEF Typed
  <2>6. PICK k \in Keys, p \in Pieces, v \in Seq(Pieces) : Apply("APPEND", k, p, v)
    BY <2>1, <2>3, <2>4
  <2> QED
    BY <2>1, <2>2, <2>5, <2>6, ApplyKeeps
<1>7. CASE LogCommand
  BY <1>7, LogCommandKeeps
<1>8. CASE Flush
  <2>1. file' = file \o buffer /\ buffer' = <<>> /\ Serving
        /\ UNCHANGED <<store, conn, pending, mode, writes, raced>>
    BY <1>8 DEF Flush
  <2>2. file' \in Seq(Good) /\ <<>> \in Seq(Good)
    BY <1>1, <2>1, LogType
  <2>3. Typed'
    BY <1>1, <2>1, <2>2 DEF Typed
  <2>4. Log' = Log
    <3>1. file' \o <<>> = file'
      BY <2>2, ConcatEmptySeq
    <3> QED
      BY <2>1, <3>1 DEF Log
  <2> QED
    BY <2>1, <2>3, <2>4, QuietKeeps DEF Serving
<1>9. CASE Signal
  <2>1. Typed'
    BY <1>1, <1>9 DEF Typed, Signal
  <2>2. Log' = Log
    BY <1>9 DEF Signal, Log
  <2> QED
    BY <1>9, <2>1, <2>2, QuietKeeps DEF Signal, Serving
<1>10. CASE Stop \/ ShutdownTimeout \/ Crash
  BY <1>10, ExitKeeps DEF Stop, ShutdownTimeout, Crash
<1>11. CASE Start
  BY <1>11, StartKeeps
<1>12. CASE UNCHANGED vars
  <2>1. Typed'
    BY <1>1, <1>12 DEF Typed, vars
  <2>2. Log' = Log
    BY <1>12 DEF vars, Log
  <2> QED
    BY <1>12, <2>1, <2>2, QuietKeeps DEF vars, Serving
<1> QED
  BY <1>3, <1>4, <1>5, <1>6, <1>7, <1>8, <1>9, <1>10, <1>11, <1>12 DEF Next

(* The invariant holds throughout. *)
THEOREM Invariance == Spec => []Inv
<1>1. Inv /\ [Next]_vars => Inv'
  BY NextInv
<1> QED
  BY InitInv, <1>1, PTL DEF Spec

-----------------------------------------------------------------------------
(* What follows *)

(* The cache, the goroutines' records, the buffer and the file are always well
   formed (aof.go, string.go). *)
THEOREM TypeCorrect == Spec => []TypeOK
<1>1. Inv => TypeOK
  <2> SUFFICES ASSUME Typed
               PROVE  TypeOK
    BY DEF Inv
  <2>1. Good \subseteq Records
    BY DEF Good
  <2>2. pending \in Seq(Records) /\ buffer \in Seq(Records) /\ file \in Seq(Records)
    BY <2>1, SeqMonotonic DEF Typed
  <2> QED
    BY <2>2 DEF Typed, TypeOK, Stores
<1> QED
  BY <1>1, Invariance, PTL

(* No record is written twice, however goroutines, flushes, crashes and
   restarts are ordered (aof.go LogCommand, Flush, Stop). *)
THEOREM NoRecordTwice == Spec => []RecordedOnce
<1>1. Inv => RecordedOnce
  BY DEF Inv
<1> QED
  BY <1>1, Invariance, PTL

(* For a key whose writes did not overlap and which no APPEND touched, the log
   with what is under way replays to the value in the cache, across crashes and
   restarts (aof.go LogCommand, replayCommand, Load). *)
THEOREM LogIsComplete == Spec => []LogCatchesUp
<1>1. Inv => LogCatchesUp
  <2> SUFFICES ASSUME Inv, Serving, NEW k \in Keys, Replayable(k)
               PROVE  Load(Log)[k] = store[k]
    BY DEF LogCatchesUp
  <2>1. Log \in Seq(Good)
    BY LogType DEF Inv
  <2>2. Tells(Log, k, store[k])
    BY DEF Inv, LogTells
  <2> QED
    BY <2>1, <2>2, LoadTells
<1> QED
  BY <1>1, Invariance, PTL

(* A graceful stop that no goroutine is late for leaves a file that replays to
   the cache, for the same keys (aof.go Stop, manager.go Stop). *)
THEOREM StopIsDurable == Spec => StopSavesLogged
<1> DEFINE Saves == (Stop /\ pending = <<>>) =>
               \A k \in Keys : Replayable(k) => Load(file')[k] = store[k]
<1>1. Inv /\ [Next]_vars => [Saves]_vars
  <2> SUFFICES ASSUME Inv, Stop, pending = <<>>, NEW k \in Keys, Replayable(k)
               PROVE  Load(file')[k] = store[k]
    OBVIOUS
  <2>1. Log \in Seq(Good) /\ file \o buffer \in Seq(Good)
    BY LogType DEF Inv
  <2>2. (file \o buffer) \o <<>> = file \o buffer
    BY <2>1, ConcatEmptySeq
  <2>3. file' = Log
    BY <2>2 DEF Stop, Log
  <2>4. Tells(Log, k, store[k])
    BY DEF Inv, LogTells, Stop, Serving
  <2> QED
    BY <2>1, <2>3, <2>4, LoadTells
<1> QED
  BY <1>1, Invariance, PTL DEF Spec, StopSavesLogged

=============================================================================
