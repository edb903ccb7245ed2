---------------------------- MODULE ShardProofs ----------------------------
(* Proofs about Shard for every set of clients, keys and values and for every
   capacity and memory limit; the last part shows that it implements
   CacheSpec.  *)
EXTENDS ShardCache, FoldLemmas, TLAPS

-----------------------------------------------------------------------------
(* The recency list as a sequence *)

Elems(s) == {s[i] : i \in 1 .. Len(s)}

NoRepeat(s) == \A i, j \in 1 .. Len(s) : s[i] = s[j] => i = j

Sorted(s, R) == \A i, j \in 1 .. Len(s) : i < j => <<s[i], s[j]>> \in R

(* A listed key has a position, and IndexOf finds it. *)
LEMMA IndexOfListed ==
    ASSUME NEW s, NEW k \in Elems(s)
    PROVE  IndexOf(k, s) \in 1 .. Len(s) /\ s[IndexOf(k, s)] = k
BY DEF Elems, IndexOf

(* Removing a list element shortens the list and keeps the others in place. *)
LEMMA DropAtShape ==
    ASSUME NEW S, NEW s \in Seq(S), NEW i \in 1 .. Len(s)
    PROVE  /\ DropAt(i, s) \in Seq(S)
           /\ Len(DropAt(i, s)) = Len(s) - 1
           /\ \A j \in 1 .. Len(s) - 1 :
                  DropAt(i, s)[j] = IF j < i THEN s[j] ELSE s[j + 1]
<1>1. Len(s) \in Nat /\ Len(s) - 1 \in Nat
  OBVIOUS
<1>2. \A j \in 1 .. Len(s) - 1 : j \in 1 .. Len(s) /\ j + 1 \in 1 .. Len(s)
  BY <1>1
<1>3. \A j \in 1 .. Len(s) : s[j] \in S
  OBVIOUS
<1>4. DropAt(i, s) \in [1 .. Len(s) - 1 -> S]
  BY <1>2, <1>3 DEF DropAt
<1>5. DropAt(i, s) \in Seq(S)
  BY <1>1, <1>4
<1>6. Len(DropAt(i, s)) = Len(s) - 1
  BY <1>1, <1>4, <1>5
<1> QED
  BY <1>5, <1>6 DEF DropAt

(* Pushing a key puts it first and shifts the others. *)
LEMMA PushFrontShape ==
    ASSUME NEW S, NEW s \in Seq(S), NEW k \in S
    PROVE  /\ PushFront(k, s) \in Seq(S)
           /\ Len(PushFront(k, s)) = Len(s) + 1
           /\ \A j \in 1 .. Len(s) + 1 :
                  PushFront(k, s)[j] = IF j = 1 THEN k ELSE s[j - 1]
<1>1. Len(s) \in Nat /\ Len(s) + 1 \in Nat
  OBVIOUS
<1>2. \A j \in 1 .. Len(s) + 1 : j # 1 => j - 1 \in 1 .. Len(s)
  BY <1>1
<1>3. \A j \in 1 .. Len(s) : s[j] \in S
  OBVIOUS
<1>4. PushFront(k, s) \in [1 .. Len(s) + 1 -> S]
  BY <1>2, <1>3 DEF PushFront
<1>5. PushFront(k, s) \in Seq(S)
  BY <1>1, <1>4
<1>6. Len(PushFront(k, s)) = Len(s) + 1
  BY <1>1, <1>4, <1>5
<1> QED
  BY <1>5, <1>6 DEF PushFront

(* Dropping an element of a list without repetitions leaves the other
   elements, without repetitions, and in the order they had. *)
LEMMA DropAtElems ==
    ASSUME NEW S, NEW s \in Seq(S), NEW i \in 1 .. Len(s), NoRepeat(s)
    PROVE  /\ NoRepeat(DropAt(i, s))
           /\ Elems(DropAt(i, s)) = Elems(s) \ {s[i]}
           /\ \A R : Sorted(s, R) => Sorted(DropAt(i, s), R)
<1> DEFINE d == DropAt(i, s)
           at(j) == IF j < i THEN j ELSE j + 1
<1>a. \A j \in 1 .. Len(s) - 1 : d[j] = IF j < i THEN s[j] ELSE s[j + 1]
  BY DropAtShape
<1>1. Len(s) \in Nat /\ Len(d) = Len(s) - 1
  BY DropAtShape
<1>2. \A j \in 1 .. Len(d) : at(j) \in 1 .. Len(s) /\ d[j] = s[at(j)] /\ at(j) # i
  <2> SUFFICES ASSUME NEW j \in 1 .. Len(d)
               PROVE  at(j) \in 1 .. Len(s) /\ d[j] = s[at(j)] /\ at(j) # i
    OBVIOUS
  <2> HIDE DEF d
  <2>1. at(j) \in 1 .. Len(s) /\ at(j) # i /\ j \in 1 .. Len(s) - 1
    BY <1>1
  <2> QED
    BY <1>a, <2>1
<1>3. \A j, l \in 1 .. Len(d) : (j < l => at(j) < at(l)) /\ (at(j) = at(l) => j = l)
  BY <1>1
<1> HIDE DEF d
<1>4. NoRepeat(d)
  <2> SUFFICES ASSUME NEW j \in 1 .. Len(d), NEW l \in 1 .. Len(d), d[j] = d[l]
               PROVE  j = l
    BY DEF NoRepeat
  <2>1. at(j) = at(l)
    BY <1>2 DEF NoRepeat
  <2> QED
    BY <2>1, <1>3
<1>5. Elems(d) \subseteq Elems(s) \ {s[i]}
  <2> SUFFICES ASSUME NEW j \in 1 .. Len(d)
               PROVE  d[j] \in Elems(s) /\ d[j] # s[i]
    BY DEF Elems
  <2> QED
    BY <1>2 DEF NoRepeat, Elems
<1>6. Elems(s) \ {s[i]} \subseteq Elems(d)
  <2> SUFFICES ASSUME NEW j \in 1 .. Len(s), j # i
               PROVE  s[j] \in Elems(d)
    BY DEF Elems
  <2>1. CASE j < i
    <3>1. j \in 1 .. Len(d) /\ at(j) = j
      BY <1>1, <2>1
    <3> QED
      BY <3>1, <1>2 DEF Elems
  <2>2. CASE j > i
    <3>1. j - 1 \in 1 .. Len(d) /\ at(j - 1) = j
      BY <1>1, <2>2
    <3> QED
      BY <3>1, <1>2 DEF Elems
  <2> QED
    BY <2>1, <2>2, <1>1
<1>7. ASSUME NEW R, Sorted(s, R)
      PROVE  Sorted(d, R)
  <2> SUFFICES ASSUME NEW j \in 1 .. Len(d), NEW l \in 1 .. Len(d), j < l
               PROVE  <<d[j], d[l]>> \in R
    BY DEF Sorted
  <2> QED
    BY <1>2, <1>3, <1>7 DEF Sorted
<1> QED
  BY <1>4, <1>5, <1>6, <1>7 DEF d

(* Pushing a new key keeps the list free of repetitions and adds the key. *)
LEMMA PushFrontElems ==
    ASSUME NEW S, NEW s \in Seq(S), NEW k \in S, NoRepeat(s), k \notin Elems(s)
    PROVE  /\ NoRepeat(PushFront(k, s))
           /\ Elems(PushFront(k, s)) = Elems(s) \cup {k}
           /\ \A R : /\ \A x \in Elems(s) : <<k, x>> \in R
                     /\ Sorted(s, R)
                     => Sorted(PushFront(k, s), R)
<1> DEFINE p == PushFront(k, s)
<1>a. \A j \in 1 .. Len(s) + 1 : p[j] = IF j = 1 THEN k ELSE s[j - 1]
  BY PushFrontShape
<1>1. Len(s) \in Nat /\ Len(p) = Len(s) + 1
  BY PushFrontShape
<1> HIDE DEF p
<1>2. p[1] = k /\ 1 \in 1 .. Len(p)
  BY <1>1, <1>a
<1>3. \A j \in 1 .. Len(p) : j # 1 => j - 1 \in 1 .. Len(s) /\ p[j] = s[j - 1]
  BY <1>1, <1>a
<1>4. \A j \in 1 .. Len(s) : j + 1 \in 1 .. Len(p) /\ p[j + 1] = s[j]
  <2> SUFFICES ASSUME NEW j \in 1 .. Len(s)
               PROVE  j + 1 \in 1 .. Len(p) /\ p[j + 1] = s[j]
    OBVIOUS
  <2>1. j + 1 \in 1 .. Len(p) /\ j + 1 # 1 /\ (j + 1) - 1 = j
    BY <1>1
  <2> QED
    BY <2>1, <1>3
<1>5. \A j \in 1 .. Len(s) : s[j] \in Elems(s) /\ s[j] # k
  BY DEF Elems
<1>6. NoRepeat(p)
  <2> SUFFICES ASSUME NEW j \in 1 .. Len(p), NEW l \in 1 .. Len(p), p[j] = p[l]
               PROVE  j = l
    BY DEF NoRepeat
  <2>1. CASE j = 1 \/ l = 1
    BY <2>1, <1>2, <1>3, <1>5
  <2>2. CASE j # 1 /\ l # 1
    <3>1. j - 1 = l - 1
      BY <2>2, <1>3 DEF NoRepeat
    <3> QED
      BY <3>1, <1>1
  <2> QED
    BY <2>1, <2>2
<1>7. Elems(p) = Elems(s) \cup {k}
  <2>1. Elems(p) \subseteq Elems(s) \cup {k}
    BY <1>2, <1>3 DEF Elems
  <2>2. Elems(s) \cup {k} \subseteq Elems(p)
    BY <1>2, <1>4 DEF Elems
  <2> QED
    BY <2>1, <2>2
<1>8. ASSUME NEW R, \A x \in Elems(s) : <<k, x>> \in R, Sorted(s, R)
      PROVE  Sorted(p, R)
  <2> SUFFICES ASSUME NEW j \in 1 .. Len(p), NEW l \in 1 .. Len(p), j < l
               PROVE  <<p[j], p[l]>> \in R
    BY DEF Sorted
  <2>1. l # 1 /\ l - 1 \in 1 .. Len(s) /\ p[l] = s[l - 1]
    BY <1>1, <1>3
  <2>2. CASE j = 1
    BY <2>1, <2>2, <1>2, <1>5, <1>8
  <2>3. CASE j # 1
    <3>1. j - 1 \in 1 .. Len(s) /\ p[j] = s[j - 1] /\ j - 1 < l - 1
      BY <2>3, <1>1, <1>3
    <3> QED
      BY <2>1, <3>1, <1>8 DEF Sorted
  <2> QED
    BY <2>2, <2>3
<1> QED
  BY <1>6, <1>7, <1>8 DEF p

-----------------------------------------------------------------------------
(* What the operations on the list and the map do to the state *)

Structure == TypeOK /\ ListMapAgree

(* The fields of a call, by the place the client has reached in it. *)
LEMMA CallFields ==
    ASSUME TypeOK, NEW c \in Clients
    PROVE  /\ call[c].pc = "set" =>
                 /\ call[c].key \in Keys
                 /\ call[c].val \in Values
                 /\ call[c].ttl \in Int
           /\ call[c].pc \in {"get", "delete"} => call[c].key \in Keys
           /\ call[c].pc \in {"add", "check", "remove"} =>
                 /\ call[c].key \in Keys
                 /\ call[c].item \in Item
           /\ call[c].pc = "check" =>
                 [call[c] EXCEPT !.pc = "remove"] \in Call
<1>1. call[c] \in Call
  BY DEF TypeOK
<1> QED
  BY <1>1, LimitAssumption DEF Call, Idle

(* The size of an entry is a number of bytes. *)
LEMMA SizeNat ==
    ASSUME NEW k \in Keys, NEW item \in Item
    PROVE  calculateSize(k, item) \in Nat
BY SizeAssumption DEF calculateSize, Item

(* LRU.Remove of a present key drops exactly that key, from the map and from
   the list, and never adds memory. *)
LEMMA RemovePresent ==
    ASSUME Structure, NEW k \in DOMAIN items, Remove(k)
    PROVE  /\ items' = [x \in DOMAIN items \ {k} |-> items[x]]
           /\ DOMAIN items' \subseteq Keys
           /\ items' \in [DOMAIN items' -> Entry]
           /\ order' \in Seq(Keys)
           /\ currentMem' \in Int
           /\ currentMem' <= currentMem
           /\ Len(order') = Len(order) - 1
           /\ ListMapAgree'
           /\ Sorted(order, usedAfter) => Sorted(order', usedAfter)
<1> DEFINE i == IndexOf(k, order)
<1>1. k \in Elems(order) /\ NoRepeat(order) /\ DOMAIN items = Elems(order)
  BY DEF Structure, ListMapAgree, Elems, NoRepeat
<1>2. i \in 1 .. Len(order) /\ order[i] = k
  BY <1>1, IndexOfListed
<1>3. order \in Seq(Keys) /\ items[k].size \in Nat /\ currentMem \in Int
  BY DEF Structure, TypeOK, Entry
<1>4. /\ order' = DropAt(i, order)
      /\ items' = Without(k, items)
      /\ currentMem' = currentMem - items[k].size
  BY DEF Remove
<1> HIDE DEF i
<1>5. order' \in Seq(Keys) /\ Len(order') = Len(order) - 1
  BY <1>2, <1>3, <1>4, DropAtShape
<1>6. /\ NoRepeat(order')
      /\ Elems(order') = Elems(order) \ {k}
      /\ Sorted(order, usedAfter) => Sorted(order', usedAfter)
  BY <1>1, <1>2, <1>3, <1>4, DropAtElems
<1>7. /\ items' = [x \in DOMAIN items \ {k} |-> items[x]]
      /\ DOMAIN items' = DOMAIN items \ {k}
  BY <1>4 DEF Without
<1>8. DOMAIN items' \subseteq Keys /\ items' \in [DOMAIN items' -> Entry]
  BY <1>7 DEF Structure, TypeOK
<1>9. ListMapAgree'
  BY <1>1, <1>6, <1>7 DEF ListMapAgree, NoRepeat, Elems
<1> QED
  BY <1>3, <1>4, <1>5, <1>6, <1>7, <1>8, <1>9

(* The oldest key is listed, so it is present. *)
LEMMA OldestPresent ==
    ASSUME Structure, Len(order) > 0
    PROVE  order[Len(order)] \in DOMAIN items
BY DEF Structure, TypeOK, ListMapAgree

(* Using a present key moves it to the front; the list keeps its elements and
   is ordered by recency with respect to the new history. *)
LEMMA MoveToFrontEffect ==
    ASSUME Structure, NEW k \in DOMAIN items
    PROVE  /\ MoveToFront(k, order) \in Seq(Keys)
           /\ Len(MoveToFront(k, order)) = Len(order)
           /\ NoRepeat(MoveToFront(k, order))
           /\ Elems(MoveToFront(k, order)) = Elems(order)
           /\ Sorted(order, usedAfter) => Sorted(MoveToFront(k, order), UseOf(k))
<1> DEFINE i == IndexOf(k, order)
           d == DropAt(i, order)
<1>1. k \in Elems(order) /\ NoRepeat(order) /\ DOMAIN items = Elems(order)
  BY DEF Structure, ListMapAgree, Elems, NoRepeat
<1>2. i \in 1 .. Len(order) /\ order[i] = k
  BY <1>1, IndexOfListed
<1>3. order \in Seq(Keys) /\ k \in Keys /\ Len(order) \in Nat /\ Elems(order) \subseteq Keys
  BY <1>1 DEF Structure, TypeOK
<1> HIDE DEF i
<1>4. d \in Seq(Keys) /\ Len(d) = Len(order) - 1
  BY <1>2, <1>3, DropAtShape
<1>5. /\ NoRepeat(d)
      /\ Elems(d) = Elems(order) \ {k}
      /\ Sorted(order, usedAfter) => Sorted(d, usedAfter)
  BY <1>1, <1>2, <1>3, DropAtElems
<1>6. MoveToFront(k, order) = PushFront(k, d)
  BY DEF MoveToFront, i
<1> HIDE DEF d
<1>7. k \notin Elems(d)
  BY <1>5
<1>8. PushFront(k, d) \in Seq(Keys) /\ Len(PushFront(k, d)) = Len(order)
  BY <1>3, <1>4, PushFrontShape
<1>9. NoRepeat(PushFront(k, d)) /\ Elems(PushFront(k, d)) = Elems(d) \cup {k}
  BY <1>3, <1>4, <1>5, <1>7, PushFrontElems
<1>10. ASSUME Sorted(order, usedAfter)
       PROVE  Sorted(PushFront(k, d), UseOf(k))
  <2>1. Sorted(d, UseOf(k))
    BY <1>5, <1>7, <1>10 DEF Sorted, UseOf, Elems
  <2>2. \A x \in Elems(d) : <<k, x>> \in UseOf(k)
    BY <1>3, <1>5 DEF UseOf
  <2> QED
    BY <2>1, <2>2, <1>3, <1>4, <1>5, <1>7, PushFrontElems
<1> QED
  BY <1>1, <1>5, <1>6, <1>8, <1>9, <1>10

(* Pushing an absent key onto any ordered list of other present keys. *)
LEMMA PushEffect ==
    ASSUME NEW s \in Seq(Keys), NEW k \in Keys, NoRepeat(s), k \notin Elems(s)
    PROVE  /\ PushFront(k, s) \in Seq(Keys)
           /\ Len(PushFront(k, s)) = Len(s) + 1
           /\ NoRepeat(PushFront(k, s))
           /\ Elems(PushFront(k, s)) = Elems(s) \cup {k}
           /\ Sorted(s, usedAfter) => Sorted(PushFront(k, s), UseOf(k))
<1>1. PushFront(k, s) \in Seq(Keys) /\ Len(PushFront(k, s)) = Len(s) + 1
  BY PushFrontShape
<1>2. NoRepeat(PushFront(k, s)) /\ Elems(PushFront(k, s)) = Elems(s) \cup {k}
  BY PushFrontElems
<1>3. ASSUME Sorted(s, usedAfter)
      PROVE  Sorted(PushFront(k, s), UseOf(k))
  <2>1. Sorted(s, UseOf(k))
    BY <1>3 DEF Sorted, UseOf, Elems
  <2>2. \A x \in Elems(s) : <<k, x>> \in UseOf(k)
    <3> SUFFICES ASSUME NEW j \in 1 .. Len(s)
                 PROVE  <<k, s[j]>> \in UseOf(k)
      BY DEF Elems
    <3>1. s[j] \in Keys /\ s[j] # k
      BY DEF Elems
    <3> QED
      BY <3>1 DEF UseOf
  <2> QED
    BY <2>1, <2>2, PushFrontElems
<1> QED
  BY <1>1, <1>2, <1>3

-----------------------------------------------------------------------------
(* The inductive invariant *)

(* The list is ordered by recency of use: the strengthening that says which
   key removeOldest finds at the back. *)
Recency == Sorted(order, usedAfter)

(* A lookup that goes on to remove a key has read an expired item for it. *)
RemoveKnowsExpired ==
    \A c \in Clients : call[c].pc = "remove" => IsExpired(call[c].item)

Inv ==
    /\ TypeOK
    /\ ListMapAgree
    /\ MemoryBound
    /\ CapacityBound
    /\ Recency
    /\ RemoveKnowsExpired

(* The part of the invariant that is about the evictor's own fields. *)
Store ==
    /\ DOMAIN items \subseteq Keys
    /\ items \in [DOMAIN items -> Entry]
    /\ order \in Seq(Keys)
    /\ currentMem \in Int
    /\ usedAfter \subseteq Keys \X Keys
    /\ ListMapAgree
    /\ MemoryBound
    /\ CapacityBound
    /\ Recency

(* Removing a key keeps the evictor's invariant. *)
LEMMA RemoveKeepsStore ==
    ASSUME Inv, NEW k \in Keys, Remove(k), UNCHANGED usedAfter
    PROVE  Store'
<1>1. CASE k \notin DOMAIN items
  <2>1. UNCHANGED <<items, order, currentMem, usedAfter>>
    BY <1>1 DEF Remove
  <2> QED
    BY <2>1 DEF Inv, TypeOK, Store, ListMapAgree, MemoryBound, CapacityBound,
                Recency, Sorted
<1>2. CASE k \in DOMAIN items
  <2>1. /\ DOMAIN items' \subseteq Keys
        /\ items' \in [DOMAIN items' -> Entry]
        /\ order' \in Seq(Keys)
        /\ currentMem' \in Int
        /\ currentMem' <= currentMem
        /\ Len(order') = Len(order) - 1
        /\ ListMapAgree'
        /\ Sorted(order, usedAfter) => Sorted(order', usedAfter)
    BY <1>2, RemovePresent DEF Inv, Structure
  <2>2. currentMem \in Int /\ Len(order) \in Nat /\ Len(order') \in Nat
    BY <2>1 DEF Inv, TypeOK
  <2>3. MemoryBound'
    BY <2>1, <2>2, LimitAssumption DEF Inv, MemoryBound
  <2>4. CapacityBound'
    BY <2>1, <2>2, LimitAssumption DEF Inv, CapacityBound
  <2>5. Recency'
    BY <2>1 DEF Inv, Recency, Sorted
  <2> QED
    BY <2>1, <2>3, <2>4, <2>5 DEF Inv, TypeOK, Store
<1> QED
  BY <1>1, <1>2

(* The history stays a relation on keys. *)
LEMMA UseOfType ==
    ASSUME TypeOK, NEW k \in Keys
    PROVE  UseOf(k) \subseteq Keys \X Keys
BY DEF TypeOK, UseOf

(* Replacing the item of a present key keeps the evictor's invariant. *)
LEMMA UpdateKeepsStore ==
    ASSUME Inv, NEW c \in Clients, AddUpdate(c)
    PROVE  Store'
<1> DEFINE k == call[c].key
           size == calculateSize(k, call[c].item)
           e == [item |-> call[c].item, size |-> size]
<1>1. k \in Keys /\ call[c].item \in Item /\ k \in DOMAIN items
  BY CallFields DEF Inv, AddUpdate
<1>2. size \in Nat /\ e \in Entry
  BY <1>1, SizeNat DEF Entry
<1>3. /\ order' = MoveToFront(k, order)
      /\ currentMem' = (currentMem - items[k].size) + size
      /\ items' = With(k, e, items)
      /\ usedAfter' = UseOf(k)
  BY DEF AddUpdate
<1>4. items[k].size \in Nat /\ currentMem \in Int /\ Len(order) \in Nat
  BY <1>1 DEF Inv, TypeOK, Entry
<1>5. Len(order) > 0
  BY <1>1, <1>4 DEF Inv, ListMapAgree
<1>6. MaxMemory > 0 => currentMem + size <= MaxMemory
  BY <1>2, <1>4, <1>5, LimitAssumption DEF AddUpdate, MustEvict
<1> HIDE DEF e, size, k
<1>7. /\ order' \in Seq(Keys)
      /\ Len(order') = Len(order)
      /\ NoRepeat(order')
      /\ Elems(order') = Elems(order)
      /\ Recency'
  BY <1>1, <1>3, MoveToFrontEffect DEF Inv, Structure, Recency
<1>8. DOMAIN items' = DOMAIN items /\ items' \in [DOMAIN items' -> Entry]
  BY <1>1, <1>2, <1>3 DEF With, Inv, TypeOK
<1>9. ListMapAgree'
  BY <1>7, <1>8 DEF Inv, ListMapAgree, NoRepeat, Elems
<1>10. currentMem' \in Int /\ MemoryBound'
  BY <1>2, <1>3, <1>4, <1>6, LimitAssumption DEF MemoryBound
<1>11. CapacityBound'
  BY <1>7 DEF Inv, CapacityBound
<1>12. usedAfter' \subseteq Keys \X Keys
  BY <1>1, <1>3, UseOfType DEF Inv
<1> QED
  BY <1>7, <1>8, <1>9, <1>10, <1>11, <1>12 DEF Store, Inv, TypeOK

(* Inserting a new key where there is room keeps the evictor's invariant. *)
LEMMA InsertKeepsStore ==
    ASSUME Inv, NEW c \in Clients, AddInsert(c)
    PROVE  Store'
<1> DEFINE k == call[c].key
           size == calculateSize(k, call[c].item)
           e == [item |-> call[c].item, size |-> size]
<1>1. k \in Keys /\ call[c].item \in Item /\ k \notin DOMAIN items
  BY CallFields DEF Inv, AddInsert
<1>2. size \in Nat /\ e \in Entry
  BY <1>1, SizeNat DEF Entry
<1>3. /\ order' = PushFront(k, order)
      /\ currentMem' = currentMem + size
      /\ items' = With(k, e, items)
      /\ usedAfter' = UseOf(k)
  BY DEF AddInsert
<1>4. /\ currentMem \in Int
      /\ Len(order) \in Nat
      /\ order \in Seq(Keys)
      /\ NoRepeat(order)
      /\ Elems(order) = DOMAIN items
  BY DEF Inv, TypeOK, ListMapAgree, NoRepeat, Elems
<1>5. MaxMemory > 0 => currentMem + size <= MaxMemory \/ Len(order) = 0
  BY <1>2, <1>4, LimitAssumption DEF AddInsert, MustEvict
<1>6. Capacity > 0 => Len(order) < Capacity
  BY <1>4, LimitAssumption DEF AddInsert, Full
<1> HIDE DEF e, size, k
<1>7. /\ order' \in Seq(Keys)
      /\ Len(order') = Len(order) + 1
      /\ NoRepeat(order')
      /\ Elems(order') = Elems(order) \cup {k}
      /\ Recency'
  BY <1>1, <1>3, <1>4, PushEffect DEF Inv, Recency
<1>8. DOMAIN items' = DOMAIN items \cup {k} /\ items' \in [DOMAIN items' -> Entry]
  BY <1>1, <1>2, <1>3 DEF With, Inv, TypeOK
<1>9. ListMapAgree'
  BY <1>4, <1>7, <1>8 DEF ListMapAgree, NoRepeat, Elems
<1>10. currentMem' \in Int /\ MemoryBound'
  BY <1>2, <1>3, <1>4, <1>5, <1>7, LimitAssumption DEF MemoryBound
<1>11. CapacityBound'
  BY <1>4, <1>6, <1>7, LimitAssumption DEF CapacityBound
<1>12. usedAfter' \subseteq Keys \X Keys
  BY <1>1, <1>3, UseOfType DEF Inv
<1> QED
  BY <1>1, <1>7, <1>8, <1>9, <1>10, <1>11, <1>12 DEF Store, Inv, TypeOK

(* Replacing the oldest key by a new one keeps the evictor's invariant. *)
LEMMA ReplaceKeepsStore ==
    ASSUME Inv, NEW c \in Clients, AddReplaceOldest(c)
    PROVE  Store'
<1> DEFINE k == call[c].key
           n == Len(order)
           old == order[n]
           d == DropAt(n, order)
           size == calculateSize(k, call[c].item)
           e == [item |-> call[c].item, size |-> size]
<1>1. k \in Keys /\ call[c].item \in Item /\ k \notin DOMAIN items
  BY CallFields DEF Inv, AddReplaceOldest
<1>2. size \in Nat /\ e \in Entry
  BY <1>1, SizeNat DEF Entry
<1>3. /\ order' = PushFront(k, d)
      /\ currentMem' = (currentMem - items[old].size) + size
      /\ items' = With(k, e, Without(old, items))
      /\ usedAfter' = UseOf(k)
  BY DEF AddReplaceOldest
<1>4. /\ currentMem \in Int
      /\ n \in Nat
      /\ order \in Seq(Keys)
      /\ NoRepeat(order)
      /\ Elems(order) = DOMAIN items
  BY DEF Inv, TypeOK, ListMapAgree, NoRepeat, Elems
<1>5. n > 0 /\ n \in 1 .. Len(order) /\ Capacity > 0
  BY <1>4, LimitAssumption DEF AddReplaceOldest, Full
<1>6. old \in DOMAIN items /\ items[old].size \in Nat
  BY <1>5, OldestPresent DEF Inv, Structure, TypeOK, Entry
<1>7. MaxMemory > 0 => currentMem + size <= MaxMemory
  BY <1>2, <1>4, <1>5, LimitAssumption DEF AddReplaceOldest, MustEvict
<1> HIDE DEF e, size, k
<1>8. d \in Seq(Keys) /\ Len(d) = n - 1
  BY <1>4, <1>5, DropAtShape
<1>9. /\ NoRepeat(d)
      /\ Elems(d) = Elems(order) \ {old}
      /\ Sorted(order, usedAfter) => Sorted(d, usedAfter)
  BY <1>4, <1>5, DropAtElems
<1> HIDE DEF d, old, n
<1>10. k \notin Elems(d)
  BY <1>1, <1>4, <1>9
<1>11. /\ order' \in Seq(Keys)
       /\ Len(order') = n
       /\ NoRepeat(order')
       /\ Elems(order') = Elems(d) \cup {k}
       /\ Recency'
  BY <1>1, <1>3, <1>4, <1>8, <1>9, <1>10, PushEffect DEF Inv, Recency
<1>12. /\ DOMAIN items' = (DOMAIN items \ {old}) \cup {k}
       /\ items' \in [DOMAIN items' -> Entry]
  BY <1>1, <1>2, <1>3 DEF With, Without, Inv, TypeOK
<1>13. ListMapAgree'
  BY <1>4, <1>9, <1>11, <1>12 DEF ListMapAgree, NoRepeat, Elems
<1>14. currentMem' \in Int /\ MemoryBound'
  BY <1>2, <1>3, <1>4, <1>6, <1>7, LimitAssumption DEF MemoryBound
<1>15. CapacityBound'
  BY <1>11 DEF Inv, CapacityBound, n
<1>16. usedAfter' \subseteq Keys \X Keys
  BY <1>1, <1>3, UseOfType DEF Inv
<1> QED
  BY <1>1, <1>11, <1>12, <1>13, <1>14, <1>15, <1>16 DEF Store, Inv, TypeOK

-----------------------------------------------------------------------------
(* Every step keeps the invariant *)

(* What is left once the evictor is taken care of. *)
Locals ==
    /\ mu \in Clients \cup {Janitor, Nobody}
    /\ now \in Nat
    /\ call \in [Clients -> Call]
    /\ pending \subseteq Keys
    /\ RemoveKnowsExpired

LEMMA InvParts == Inv <=> Store /\ Locals
BY DEF Inv, Store, Locals, TypeOK

(* A step that leaves the evictor's fields alone keeps its invariant. *)
LEMMA UnchangedStore ==
    ASSUME Inv, UNCHANGED <<items, order, currentMem, usedAfter>>
    PROVE  Store'
BY DEF Inv, TypeOK, Store, ListMapAgree, MemoryBound, CapacityBound, Recency, Sorted

(* A client that goes on to a well-formed place other than "remove" keeps the
   typing of the calls, as long as the clock stands still. *)
LEMMA GotoKeepsCalls ==
    ASSUME Inv, NEW c \in Clients, NEW next \in Call, Goto(c, next),
           now' = now, next.pc # "remove"
    PROVE  call' \in [Clients -> Call] /\ RemoveKnowsExpired'
BY DEF Inv, TypeOK, Goto, RemoveKnowsExpired, IsExpired

LEMMA IdleIsCall == Idle \in Call /\ Idle.pc = "idle"
BY DEF Call, Idle

(* Type, structure, bounds, recency and the lookup's knowledge are kept by
   every step of every client, by the janitor and by the clock. *)
LEMMA NextKeepsInv == Inv /\ [Next]_vars => Inv'
<1> SUFFICES ASSUME Inv, [Next]_vars
             PROVE  Store' /\ Locals'
  BY InvParts DEF Inv, Store, Locals, TypeOK
<1> USE IdleIsCall
<1>a. Locals /\ TypeOK
  BY InvParts DEF Inv
<1>1. ASSUME NEW c \in Clients, CallSet(c)
      PROVE  Store' /\ Locals'
  <2>1. PICK k \in Keys, v \in Values, t \in TTLs :
            Goto(c, [pc |-> "set", key |-> k, val |-> v, ttl |-> t])
    BY <1>1 DEF CallSet
  <2>2. [pc |-> "set", key |-> k, val |-> v, ttl |-> t] \in Call
    BY DEF Call
  <2>3. call' \in [Clients -> Call] /\ RemoveKnowsExpired'
    BY <1>1, <2>1, <2>2, GotoKeepsCalls DEF CallSet
  <2> QED
    BY <1>1, <1>a, <2>3, UnchangedStore DEF CallSet, Locals
<1>2. ASSUME NEW c \in Clients, CallGet(c) \/ CallDelete(c)
      PROVE  Store' /\ Locals'
  <2>1. PICK k \in Keys, p \in {"get", "delete"} : Goto(c, [pc |-> p, key |-> k])
    BY <1>2 DEF CallGet, CallDelete
  <2>2. [pc |-> p, key |-> k] \in Call
    BY DEF Call
  <2>3. call' \in [Clients -> Call] /\ RemoveKnowsExpired'
    BY <1>2, <2>1, <2>2, GotoKeepsCalls DEF CallGet, CallDelete
  <2> QED
    BY <1>2, <1>a, <2>3, UnchangedStore DEF CallGet, CallDelete, Locals
<1>3. ASSUME NEW c \in Clients, SetLock(c)
      PROVE  Store' /\ Locals'
  <2> DEFINE item == NewItem(call[c].val, call[c].ttl)
             next == [pc |-> "add", key |-> call[c].key, item |-> item]
  <2>1. call[c].key \in Keys /\ call[c].val \in Values /\ call[c].ttl \in Int
    BY <1>3, <1>a, CallFields DEF SetLock
  <2>2. item \in Item
    BY <2>1, <1>a DEF NewItem, Item, Locals
  <2>3. next \in Call /\ next.pc = "add"
    BY <2>1, <2>2 DEF Call
  <2>4. Goto(c, next) /\ now' = now
    BY <1>3 DEF SetLock
  <2> HIDE DEF next
  <2>5. call' \in [Clients -> Call] /\ RemoveKnowsExpired'
    BY <2>3, <2>4, GotoKeepsCalls
  <2> QED
    BY <1>3, <1>a, <2>5, UnchangedStore DEF SetLock, Locals
<1>4. ASSUME NEW c \in Clients, AddEvict(c)
      PROVE  Store' /\ Locals'
  <2>1. order[Len(order)] \in Keys
    BY <1>4, OldestPresent DEF AddEvict, MustEvict, Structure, Inv, TypeOK
  <2>2. Store'
    BY <1>4, <2>1, RemoveKeepsStore DEF AddEvict
  <2> QED
    BY <1>4, <1>a, <2>2 DEF AddEvict, Locals, RemoveKnowsExpired, IsExpired
<1>5. ASSUME NEW c \in Clients, AddUpdate(c) \/ AddInsert(c) \/ AddReplaceOldest(c)
      PROVE  Store' /\ Locals'
  <2>1. Store'
    BY <1>5, UpdateKeepsStore, InsertKeepsStore, ReplaceKeepsStore
  <2>2. Goto(c, Idle) /\ now' = now /\ mu' = Nobody /\ pending' = pending
    BY <1>5 DEF AddUpdate, AddInsert, AddReplaceOldest, Return
  <2>3. call' \in [Clients -> Call] /\ RemoveKnowsExpired'
    BY <2>2, GotoKeepsCalls
  <2> QED
    BY <1>a, <2>1, <2>2, <2>3 DEF Locals
<1>6. ASSUME NEW c \in Clients, ReadMissing(c)
      PROVE  Store' /\ Locals'
  <2>1. Goto(c, Idle) /\ now' = now
    BY <1>6 DEF ReadMissing, Return
  <2>2. call' \in [Clients -> Call] /\ RemoveKnowsExpired'
    BY <2>1, GotoKeepsCalls
  <2> QED
    BY <1>6, <1>a, <2>2, UnchangedStore DEF ReadMissing, Locals
<1>7. ASSUME NEW c \in Clients, ReadEntry(c)
      PROVE  Store' /\ Locals'
  <2> DEFINE k == call[c].key
             next == [pc |-> "check", key |-> k, item |-> items[k].item]
  <2>1. k \in Keys /\ k \in DOMAIN items /\ items[k].item \in Item
    BY <1>7, <1>a, CallFields DEF ReadEntry, TypeOK, Entry
  <2>2. next \in Call /\ next.pc = "check"
    BY <2>1 DEF Call
  <2>3. Goto(c, next) /\ now' = now
    BY <1>7 DEF ReadEntry
  <2>4. order' = MoveToFront(k, order) /\ usedAfter' = UseOf(k)
        /\ UNCHANGED <<items, currentMem>>
    BY <1>7 DEF ReadEntry
  <2> HIDE DEF next, k
  <2>5. call' \in [Clients -> Call] /\ RemoveKnowsExpired'
    BY <2>2, <2>3, GotoKeepsCalls
  <2>6. /\ order' \in Seq(Keys)
        /\ Len(order') = Len(order)
        /\ NoRepeat(order')
        /\ Elems(order') = Elems(order)
        /\ Recency'
    BY <2>1, <2>4, MoveToFrontEffect DEF Inv, Structure, Recency
  <2>7. ListMapAgree'
    BY <2>4, <2>6 DEF Inv, ListMapAgree, NoRepeat, Elems
  <2>8. MemoryBound' /\ CapacityBound'
    BY <2>4, <2>6 DEF Inv, MemoryBound, CapacityBound
  <2>9. usedAfter' \subseteq Keys \X Keys
    BY <2>1, <2>4, <1>a, UseOfType
  <2>10. Store'
    BY <2>4, <2>6, <2>7, <2>8, <2>9, <1>a DEF Store, TypeOK
  <2> QED
    BY <1>7, <1>a, <2>5, <2>10 DEF ReadEntry, Locals
<1>8. ASSUME NEW c \in Clients, CheckExpired(c)
      PROVE  Store' /\ Locals'
  <2>1. CASE IsExpired(call[c].item)
    <3> DEFINE next == [call[c] EXCEPT !.pc = "remove"]
    <3>1. call[c].pc = "check" /\ call' = [call EXCEPT ![c] = next] /\ now' = now
      BY <1>8, <2>1 DEF CheckExpired, Goto
    <3>2. next \in Call /\ next.item = call[c].item
      BY <3>1, <1>a, CallFields DEF TypeOK, Call, Idle
    <3> HIDE DEF next
    <3>3. call' \in [Clients -> Call]
      BY <3>1, <3>2, <1>a DEF Locals
    <3>4. RemoveKnowsExpired'
      BY <3>1, <3>2, <2>1, <1>a DEF Locals, RemoveKnowsExpired, IsExpired
    <3> QED
      BY <1>8, <1>a, <3>3, <3>4, UnchangedStore DEF CheckExpired, Locals
  <2>2. CASE ~ IsExpired(call[c].item)
    <3>1. Goto(c, Idle) /\ now' = now
      BY <1>8, <2>2 DEF CheckExpired, Return
    <3>2. call' \in [Clients -> Call] /\ RemoveKnowsExpired'
      BY <3>1, GotoKeepsCalls
    <3> QED
      BY <1>8, <1>a, <3>2, UnchangedStore DEF CheckExpired, Locals
  <2> QED
    BY <2>1, <2>2
<1>9. ASSUME NEW c \in Clients, RemoveExpired(c) \/ Delete(c)
      PROVE  Store' /\ Locals'
  <2>1. call[c].key \in Keys
    BY <1>9, <1>a, CallFields DEF RemoveExpired, Delete
  <2>2. Remove(call[c].key) /\ Goto(c, Idle) /\ UNCHANGED <<mu, now, pending, usedAfter>>
    BY <1>9 DEF RemoveExpired, Delete, Return
  <2>3. Store'
    BY <2>1, <2>2, RemoveKeepsStore
  <2>4. call' \in [Clients -> Call] /\ RemoveKnowsExpired'
    BY <2>2, GotoKeepsCalls
  <2> QED
    BY <1>a, <2>2, <2>3, <2>4 DEF Locals
<1>10. ASSUME CleanupLock \/ CleanupUnlock
       PROVE  Store' /\ Locals'
  <2>1. Store'
    BY <1>10, UnchangedStore DEF CleanupLock, CleanupUnlock
  <2> QED
    BY <1>10, <1>a, <2>1 DEF CleanupLock, CleanupUnlock, Locals, TypeOK,
                             RemoveKnowsExpired, IsExpired
<1>11. ASSUME CleanupKey
       PROVE  Store' /\ Locals'
  <2>1. PICK k \in pending :
            /\ pending' = pending \ {k}
            /\ Remove(k) \/ UNCHANGED <<items, order, currentMem>>
    BY <1>11 DEF CleanupKey
  <2>2. k \in Keys
    BY <1>a DEF Locals
  <2>3. UNCHANGED <<mu, now, call, usedAfter>>
    BY <1>11 DEF CleanupKey
  <2>4. Store'
    BY <2>1, <2>2, <2>3, RemoveKeepsStore, UnchangedStore
  <2> QED
    BY <1>a, <2>1, <2>3, <2>4 DEF Locals, RemoveKnowsExpired, IsExpired
<1>12. ASSUME Tick
       PROVE  Store' /\ Locals'
  <2>1. RemoveKnowsExpired'
    <3> SUFFICES ASSUME NEW c \in Clients, call[c].pc = "remove"
                 PROVE  IsExpired(call[c].item)'
      BY <1>12 DEF Tick, RemoveKnowsExpired
    <3>1. call[c].item.exp \in Nat /\ now \in Nat
      BY <1>a, CallFields DEF Item, Locals
    <3> QED
      BY <1>12, <1>a, <3>1 DEF Tick, Locals, RemoveKnowsExpired, IsExpired
  <2> QED
    BY <1>12, <1>a, <2>1, UnchangedStore DEF Tick, Locals
<1>13. ASSUME UNCHANGED vars
       PROVE  Store' /\ Locals'
  BY <1>13, <1>a, UnchangedStore DEF vars, Locals, RemoveKnowsExpired, IsExpired
<1> QED
  BY <1>1, <1>2, <1>3, <1>4, <1>5, <1>6, <1>7, <1>8, <1>9, <1>10, <1>11, <1>12,
     <1>13
     DEF Next, Begin, LockStep, FreeStep, Cleanup

(* The empty shard satisfies the invariant. *)
LEMMA InitInv == Init => Inv
<1> SUFFICES ASSUME Init
             PROVE  Store /\ Locals
  BY InvParts
<1>1. Store
  BY LimitAssumption
     DEF Init, Store, ListMapAgree, MemoryBound, CapacityBound, Recency, Sorted
<1>2. Locals
  BY IdleIsCall DEF Init, Locals, RemoveKnowsExpired
<1> QED
  BY <1>1, <1>2

(* The invariant holds in every reachable state of a shard, whatever its
   clients, keys and limits. *)
THEOREM Invariance == Spec => []Inv
BY InitInv, NextKeepsInv, PTL DEF Spec

-----------------------------------------------------------------------------
(* The properties of Shard *)

(* Every variable of a shard keeps its type. *)
THEOREM TypeCorrect == Spec => []TypeOK
BY Invariance, PTL DEF Inv

(* LRU.items and LRU.order hold the same keys, each of them once. *)
THEOREM ListMapCorrect == Spec => []ListMapAgree
BY Invariance, PTL DEF Inv

(* A shard with more than one entry is within max_memory. *)
THEOREM MemoryBounded == Spec => []MemoryBound
BY Invariance, PTL DEF Inv

(* A shard never has more than evictor_capacity entries. *)
THEOREM CapacityBounded == Spec => []CapacityBound
BY Invariance, PTL DEF Inv

(* Every key is used less recently than the keys before it, so the one at the
   back is the least recently used. *)
LEMMA OldestIsLeastRecent ==
    ASSUME Inv, Len(order) > 0, NEW x \in DOMAIN items, x # order[Len(order)]
    PROVE  <<x, order[Len(order)]>> \in usedAfter
<1>1. Len(order) \in Nat
  BY DEF Inv, TypeOK
<1>2. PICK i \in 1 .. Len(order) : x = order[i]
  BY DEF Inv, ListMapAgree
<1>3. i < Len(order) /\ Len(order) \in 1 .. Len(order)
  BY <1>1, <1>2
<1> QED
  BY <1>2, <1>3 DEF Inv, Recency, Sorted

(* While a Set holds the lock, only the two forms of removeOldest drop a key,
   and they drop the key at the back. *)
LEMMA SetDropsOldest ==
    ASSUME Inv, [Next]_vars, mu \in Clients, NEW k \in DOMAIN items \ DOMAIN items'
    PROVE  Len(order) > 0 /\ k = order[Len(order)]
<1>1. mu # Nobody /\ mu # Janitor
  BY LockAssumption
<1>2. items' # items
  OBVIOUS
<1>3. ~ Cleanup /\ ~ Tick /\ ~ UNCHANGED vars
  BY <1>1, <1>2 DEF Cleanup, CleanupLock, CleanupKey, CleanupUnlock, Tick, vars
<1>4. \A c \in Clients : ~ Begin(c) /\ ~ LockStep(c) /\ ~ CheckExpired(c)
  BY <1>1, <1>2 DEF Begin, CallSet, CallGet, CallDelete, LockStep, SetLock, ReadMissing,
                    ReadEntry, RemoveExpired, Delete, CheckExpired
<1>5. PICK c \in Clients :
          AddEvict(c) \/ AddUpdate(c) \/ AddInsert(c) \/ AddReplaceOldest(c)
  BY <1>3, <1>4 DEF Next, FreeStep
<1>6. CASE AddEvict(c)
  <2>1. Len(order) > 0 /\ Remove(order[Len(order)])
    BY <1>6 DEF AddEvict, MustEvict
  <2> QED
    BY <2>1 DEF Remove, Without
<1>7. CASE AddUpdate(c) \/ AddInsert(c)
  <2>1. DOMAIN items \subseteq DOMAIN items'
    BY <1>7 DEF AddUpdate, AddInsert, With
  <2> QED
    BY <2>1
<1>8. CASE AddReplaceOldest(c)
  <2>1. Len(order) > 0
    BY <1>8, LimitAssumption DEF AddReplaceOldest, Full, Inv, TypeOK
  <2>2. DOMAIN items \ {order[Len(order)]} \subseteq DOMAIN items'
    BY <1>8 DEF AddReplaceOldest, With, Without
  <2> QED
    BY <2>1, <2>2
<1> QED
  BY <1>5, <1>6, <1>7, <1>8

(* What a Set pushes out of the shard, for memory or for capacity, is the key
   that was used least recently. *)
THEOREM EvictionCorrect == Spec => EvictsLeastRecentlyUsed
<1>1. ASSUME Inv, [Next]_vars, mu \in Clients,
             NEW k \in DOMAIN items \ DOMAIN items', NEW x \in DOMAIN items \ {k}
      PROVE  <<x, k>> \in usedAfter
  BY <1>1, SetDropsOldest, OldestIsLeastRecent
<1>2. Inv /\ [Next]_vars =>
          [(mu \in Clients) =>
              \A k \in DOMAIN items \ DOMAIN items' :
                  \A x \in DOMAIN items \ {k} : <<x, k>> \in usedAfter]_vars
  BY <1>1
<1> QED
  BY <1>2, Invariance, PTL DEF Spec, EvictsLeastRecentlyUsed

(* Get and TTL delete an entry only if it has expired or if it is not the one
   they read: without a Set between their two critical sections, live data is
   safe from them. *)
THEOREM LookupRemovalCorrect == Spec => LookupRemovesExpiredOrReplaced
<1>1. ASSUME Inv, [Next]_vars, NEW c \in Clients,
             call[c].pc = "remove" /\ call'[c].pc = "idle",
             NEW k \in DOMAIN items \ DOMAIN items'
      PROVE  IsExpired(items[k].item) \/ items[k].item # call[c].item
  BY <1>1 DEF Inv, RemoveKnowsExpired
<1>2. Inv /\ [Next]_vars =>
          [\A c \in Clients :
              call[c].pc = "remove" /\ call'[c].pc = "idle" =>
                  \A k \in DOMAIN items \ DOMAIN items' :
                      \/ IsExpired(items[k].item)
                      \/ items[k].item # call[c].item]_vars
  BY <1>1
<1> QED
  BY <1>2, Invariance, PTL DEF Spec, LookupRemovesExpiredOrReplaced

(* Every step of a client or of the sweep keeps the lock with whoever is
   inside the critical section of Set. *)
LEMMA NextKeepsLock ==
    TypeOK /\ LockIsHeldInside /\ [Next]_vars => LockIsHeldInside'
<1> SUFFICES ASSUME TypeOK, LockIsHeldInside, [Next]_vars
             PROVE  LockIsHeldInside'
  OBVIOUS
<1> USE LockAssumption
<1>1. \A c \in Clients : mu = Nobody => call[c].pc # "add"
  BY DEF LockIsHeldInside
<1>2. call \in [Clients -> Call]
  BY DEF TypeOK
<1>3. ASSUME NEW c \in Clients, Begin(c) \/ CheckExpired(c)
      PROVE  LockIsHeldInside'
  <2>1. call[c].pc # "add" /\ mu' = mu
    BY <1>3 DEF Begin, CallSet, CallGet, CallDelete, CheckExpired
  <2>2. call'[c].pc # "add" /\ \A d \in Clients \ {c} : call'[d] = call[d]
    <3>1. CASE CallSet(c)
      BY <3>1, <1>2 DEF CallSet, Goto
    <3>2. CASE CallGet(c) \/ CallDelete(c)
      BY <3>2, <1>2 DEF CallGet, CallDelete, Goto
    <3>3. CASE CheckExpired(c) /\ IsExpired(call[c].item)
      <4> DEFINE next == [call[c] EXCEPT !.pc = "remove"]
      <4>1. call[c].pc = "check" /\ call' = [call EXCEPT ![c] = next]
        BY <3>3 DEF CheckExpired, Goto
      <4>2. next.pc = "remove"
        BY <4>1, <1>2 DEF Call, Idle
      <4> HIDE DEF next
      <4> QED
        BY <4>1, <4>2, <1>2
    <3>4. CASE CheckExpired(c) /\ ~ IsExpired(call[c].item)
      BY <3>4, <1>2 DEF CheckExpired, Goto, Return, Idle
    <3> QED
      BY <1>3, <3>1, <3>2, <3>3, <3>4 DEF Begin
  <2> QED
    BY <2>1, <2>2, <1>2 DEF LockIsHeldInside
<1>4. ASSUME NEW c \in Clients, SetLock(c)
      PROVE  LockIsHeldInside'
  BY <1>4, <1>1, <1>2 DEF SetLock, Goto, LockIsHeldInside
<1>5. ASSUME NEW c \in Clients,
             ReadMissing(c) \/ ReadEntry(c) \/ RemoveExpired(c) \/ Delete(c)
      PROVE  LockIsHeldInside'
  <2>1. /\ mu = Nobody /\ mu' = mu
        /\ \E n : n.pc # "add" /\ call' = [call EXCEPT ![c] = n]
    BY <1>5 DEF ReadMissing, ReadEntry, RemoveExpired, Delete, Goto, Return, Idle
  <2> QED
    BY <2>1, <1>1, <1>2 DEF LockIsHeldInside
<1>6. ASSUME NEW c \in Clients, AddEvict(c)
      PROVE  LockIsHeldInside'
  BY <1>6 DEF AddEvict, LockIsHeldInside
<1>7. ASSUME NEW c \in Clients, AddUpdate(c) \/ AddInsert(c) \/ AddReplaceOldest(c)
      PROVE  LockIsHeldInside'
  <2>1. mu = c /\ mu' = Nobody /\ call' = [call EXCEPT ![c] = Idle]
    BY <1>7 DEF AddUpdate, AddInsert, AddReplaceOldest, Goto, Return
  <2> QED
    BY <2>1, <1>2 DEF LockIsHeldInside, Idle
<1>8. CASE Cleanup \/ Tick \/ UNCHANGED vars
  <2>1. (mu \notin Clients /\ mu' \notin Clients) \/ mu' = mu
    BY <1>8 DEF Cleanup, CleanupLock, CleanupKey, CleanupUnlock, Tick, vars
  <2>2. call' = call
    BY <1>8 DEF Cleanup, CleanupLock, CleanupKey, CleanupUnlock, Tick, vars
  <2> QED
    BY <2>1, <2>2 DEF LockIsHeldInside
<1> QED
  BY <1>3, <1>4, <1>5, <1>6, <1>7, <1>8 DEF Next, LockStep, FreeStep

(* Shard.mu is locked exactly while a client is inside Set or the sweep runs:
   no call returns with the mutex, for any number of clients. *)
THEOREM LockCorrect == Spec => []LockIsHeldInside
<1>1. Init => LockIsHeldInside
  BY LockAssumption DEF Init, LockIsHeldInside, Idle
<1> QED
  BY <1>1, NextKeepsLock, TypeCorrect, PTL DEF Spec

-----------------------------------------------------------------------------
(* The memory accounting *)

(* MemOf is a sum in any order: the recursion of its definition has a solution,
   and the element it takes out first is of no importance. *)
LEMMA MemOfAdds ==
    ASSUME NEW D, IsFiniteSet(D), NEW f \in [D -> Entry]
    PROVE  \E g : Adds(g, D, [k \in D |-> f[k].size]) /\ MemOf(f) = g[D]
<1> DEFINE w == [k \in D |-> f[k].size]
           ch == [s \in SUBSET D |-> CHOOSE x \in s : TRUE]
           step == [k \in D |-> [b \in Int |-> w[k] + b]]
           body(g) == [s \in SUBSET DOMAIN f |->
                          IF s = {} THEN 0
                          ELSE LET k == CHOOSE x \in s : TRUE
                               IN  f[k].size + g[s \ {k}]]
           sum == CHOOSE g : g = body(g)
<1>1. \A k \in D : f[k].size \in Int /\ w[k] = f[k].size
  BY DEF Entry
<1>2. w \in [D -> Int] /\ DOMAIN f = D
  BY <1>1
<1>3. \A s \in SUBSET D : s # {} => ch[s] \in s /\ ch[s] = CHOOSE x \in s : TRUE
  OBVIOUS
<1>4. step \in [D -> [Int -> Int]]
  BY <1>2
<1>5. \A k \in D : \A b \in Int : step[k][b] = w[k] + b
  OBVIOUS
<1> HIDE DEF w, ch, step
<1>6. PICK g \in [SUBSET D -> Int] : Recurses(g, D, 0, ch, step)
  <2>1. 0 \in Int /\ Picks(ch, D)
    BY <1>3 DEF Picks
  <2> QED
    BY <1>4, <2>1, RecursionExists
<1>7. ASSUME NEW s \in SUBSET D, s # {}
      PROVE  /\ g[s] = w[ch[s]] + g[s \ {ch[s]}]
             /\ g[s] = f[CHOOSE x \in s : TRUE].size + g[s \ {CHOOSE x \in s : TRUE}]
  <2>1. ch[s] \in D /\ s \ {ch[s]} \in SUBSET D
    BY <1>3, <1>7
  <2>2. g[s] = step[ch[s]][g[s \ {ch[s]}]]
    BY <1>6, <1>7 DEF Recurses
  <2>3. g[s \ {ch[s]}] \in Int
    BY <2>1
  <2>4. g[s] = w[ch[s]] + g[s \ {ch[s]}]
    BY <1>5, <2>1, <2>2, <2>3
  <2>5. g[s] = f[ch[s]].size + g[s \ {ch[s]}]
    BY <1>1, <2>1, <2>4
  <2> QED
    BY <1>3, <1>7, <2>4, <2>5
<1>8. g[{}] = 0
  BY <1>6 DEF Recurses
<1>9. g = body(g)
  BY <1>2, <1>7, <1>8
<1>10. sum = body(sum)
  <2> HIDE DEF body
  <2> QED
    BY <1>9
<1>11. MemOf(f) = sum[D]
  BY <1>2 DEF MemOf
<1>12. sum[{}] = 0
  BY <1>10
<1>13. ASSUME NEW s \in SUBSET D, s # {}
       PROVE  sum[s] = f[ch[s]].size + sum[s \ {ch[s]}]
  <2>1. sum[s] = f[CHOOSE x \in s : TRUE].size + sum[s \ {CHOOSE x \in s : TRUE}]
    BY <1>2, <1>10, <1>13
  <2> QED
    BY <1>3, <1>13, <2>1
<1> HIDE DEF sum, body
<1>14. Picks(ch, D)
  BY <1>3 DEF Picks
<1>15. \A s \in SUBSET D : s # {} => g[s] = w[ch[s]] + g[s \ {ch[s]}]
  BY <1>7
<1>16. GoAlike(sum, g, D, ch)
  <2>1. \A s \in SUBSET D :
            s # {} /\ sum[s \ {ch[s]}] = g[s \ {ch[s]}] => sum[s] = g[s]
    BY <1>1, <1>13, <1>14, <1>15 DEF Picks
  <2>2. sum[{}] = g[{}]
    BY <1>8, <1>12
  <2> QED
    BY <2>1, <2>2 DEF GoAlike
<1>17. \A s \in SUBSET D : sum[s] = g[s]
  BY <1>14, <1>16, RecursionUnique
<1>18. Adds(g, D, w)
  BY <1>2, <1>8, <1>14, <1>15, OrderOfSum
<1> QED
  BY <1>11, <1>17, <1>18 DEF w


(* The entries present are finitely many: they are listed. *)
LEMMA FiniteEntries ==
    ASSUME Structure
    PROVE  IsFiniteSet(DOMAIN items)
<1>1. order \in Surjection(1 .. Len(order), DOMAIN items)
  BY DEF Structure, TypeOK, ListMapAgree, Surjection
<1>2. IsFiniteSet(1 .. Len(order))
  BY FS_Interval DEF Structure, TypeOK
<1> QED
  BY <1>1, <1>2, FS_Surjection

(* Dropping an entry takes its size off the sum. *)
LEMMA MemOfWithout ==
    ASSUME NEW D, IsFiniteSet(D), NEW f \in [D -> Entry], NEW k \in D
    PROVE  MemOf(Without(k, f)) = MemOf(f) - f[k].size /\ MemOf(f) \in Int
<1> DEFINE E == D \ {k}
           r == Without(k, f)
           w == [x \in D |-> f[x].size]
           v == [x \in E |-> r[x].size]
<1>1. r \in [E -> Entry] /\ \A x \in E : r[x] = f[x]
  BY DEF Without
<1>2. IsFiniteSet(E)
  BY FS_RemoveElement
<1>3. PICK g : Adds(g, D, w) /\ MemOf(f) = g[D]
  BY MemOfAdds
<1>4. PICK h : Adds(h, E, v) /\ MemOf(r) = h[E]
  <2> HIDE DEF r, E
  <2> QED
    BY <1>1, <1>2, MemOfAdds
<1>5. \A x \in E : v[x] = w[x]
  BY <1>1
<1>6. w[k] = f[k].size /\ f[k].size \in Int
  BY DEF Entry
<1> HIDE DEF r, w, v
<1>7. E \subseteq D
  OBVIOUS
<1>8. h[E] = g[E]
  <2> HIDE DEF E
  <2> QED
    BY <1>2, <1>3, <1>4, <1>5, <1>7, SumsAgree
<1>9. g[D] = w[k] + g[E] /\ g[E] \in Int /\ g[D] \in Int
  BY <1>3 DEF Adds
<1>10. MemOf(r) = MemOf(f) - f[k].size /\ MemOf(f) \in Int
  BY <1>3, <1>4, <1>6, <1>8, <1>9
<1> QED
  BY <1>10 DEF r

(* Storing an entry under a key puts its size in the place of the old one. *)
LEMMA MemOfWith ==
    ASSUME NEW D, IsFiniteSet(D), NEW f \in [D -> Entry], NEW k, NEW e \in Entry
    PROVE  /\ k \notin D => MemOf(With(k, e, f)) = MemOf(f) + e.size
           /\ k \in D => MemOf(With(k, e, f)) = (MemOf(f) - f[k].size) + e.size
<1> DEFINE E == D \cup {k}
           n == With(k, e, f)
<1>1. n \in [E -> Entry] /\ n[k] = e /\ k \in E
  BY DEF With
<1>2. IsFiniteSet(E)
  BY FS_AddElement
<1>3. Without(k, n) = Without(k, f)
  BY DEF With, Without
<1>4. e.size \in Int
  BY DEF Entry
<1> HIDE DEF n, E
<1>5. MemOf(Without(k, n)) = MemOf(n) - e.size /\ MemOf(n) \in Int
  BY <1>1, <1>2, MemOfWithout
<1>6. MemOf(n) = MemOf(Without(k, f)) + e.size
  BY <1>3, <1>4, <1>5
<1>7. ASSUME k \notin D
      PROVE  Without(k, f) = f
  BY <1>7 DEF Without
<1>8. ASSUME k \in D
      PROVE  MemOf(Without(k, f)) = MemOf(f) - f[k].size
  BY <1>8, MemOfWithout
<1> QED
  BY <1>6, <1>7, <1>8 DEF n

(* Removing a key, present or not, keeps the account. *)
LEMMA RemoveKeepsAccount ==
    ASSUME Structure, MemAccounting, NEW k \in Keys, Remove(k)
    PROVE  MemAccounting'
<1>1. CASE k \notin DOMAIN items
  BY <1>1 DEF Remove, MemAccounting
<1>2. CASE k \in DOMAIN items
  <2>1. IsFiniteSet(DOMAIN items) /\ items \in [DOMAIN items -> Entry]
    BY FiniteEntries DEF Structure, TypeOK
  <2>2. MemOf(Without(k, items)) = MemOf(items) - items[k].size
    BY <1>2, <2>1, MemOfWithout
  <2> QED
    BY <1>2, <2>2 DEF Remove, MemAccounting
<1> QED
  BY <1>1, <1>2

(* Storing an item, in the place of the old one, of nothing, or of the oldest
   entry, keeps the account. *)
LEMMA AddKeepsAccount ==
    ASSUME Inv, MemAccounting, NEW c \in Clients,
           AddUpdate(c) \/ AddInsert(c) \/ AddReplaceOldest(c)
    PROVE  MemAccounting'
<1> DEFINE k == call[c].key
           size == calculateSize(k, call[c].item)
           e == [item |-> call[c].item, size |-> size]
           old == order[Len(order)]
           r == Without(old, items)
<1>1. TypeOK /\ Structure
  BY DEF Inv, Structure
<1>2. IsFiniteSet(DOMAIN items) /\ items \in [DOMAIN items -> Entry]
  BY <1>1, FiniteEntries DEF TypeOK
<1>3. e \in Entry /\ e.size = size
  <2>1. call[c].pc = "add"
    BY DEF AddUpdate, AddInsert, AddReplaceOldest
  <2>2. k \in Keys /\ call[c].item \in Item
    BY <1>1, <2>1, CallFields
  <2> QED
    BY <2>2, SizeNat DEF Entry
<1>4. CASE AddUpdate(c)
  <2>1. /\ k \in DOMAIN items
        /\ currentMem' = (currentMem - items[k].size) + size
        /\ items' = With(k, e, items)
    BY <1>4 DEF AddUpdate
  <2> HIDE DEF k, e, size
  <2>2. MemOf(With(k, e, items)) = (MemOf(items) - items[k].size) + e.size
    BY <1>2, <1>3, <2>1, MemOfWith
  <2> QED
    BY <1>3, <2>1, <2>2 DEF MemAccounting
<1>5. CASE AddInsert(c)
  <2>1. /\ k \notin DOMAIN items
        /\ currentMem' = currentMem + size
        /\ items' = With(k, e, items)
    BY <1>5 DEF AddInsert
  <2> HIDE DEF k, e, size
  <2>2. MemOf(With(k, e, items)) = MemOf(items) + e.size
    BY <1>2, <1>3, <2>1, MemOfWith
  <2> QED
    BY <1>3, <2>1, <2>2 DEF MemAccounting
<1>6. CASE AddReplaceOldest(c)
  <2>1. /\ k \notin DOMAIN items
        /\ currentMem' = (currentMem - items[old].size) + size
        /\ items' = With(k, e, r)
        /\ Full
    BY <1>6 DEF AddReplaceOldest
  <2>2. old \in DOMAIN items
    BY <1>1, <2>1, OldestPresent, LimitAssumption DEF Full, TypeOK
  <2>3. r \in [DOMAIN items \ {old} -> Entry] /\ k \notin DOMAIN items \ {old}
    BY <1>2, <2>1 DEF Without
  <2> HIDE DEF k, e, size, old
  <2>4. MemOf(r) = MemOf(items) - items[old].size
    BY <1>2, <2>2, MemOfWithout
  <2>5. IsFiniteSet(DOMAIN items \ {old})
    BY <1>2, FS_RemoveElement
  <2> HIDE DEF r
  <2>6. MemOf(With(k, e, r)) = MemOf(r) + e.size
    BY <1>3, <2>3, <2>5, MemOfWith
  <2> QED
    BY <1>3, <2>1, <2>4, <2>6 DEF MemAccounting
<1> QED
  BY <1>4, <1>5, <1>6

LEMMA NextKeepsAccount == Inv /\ MemAccounting /\ [Next]_vars => MemAccounting'
<1> SUFFICES ASSUME Inv, MemAccounting, [Next]_vars
             PROVE  MemAccounting'
  OBVIOUS
<1>a. TypeOK /\ Structure
  BY DEF Inv, Structure
<1>1. CASE UNCHANGED <<items, currentMem>>
  BY <1>1 DEF MemAccounting
<1>2. ASSUME NEW c \in Clients, RemoveExpired(c) \/ Delete(c)
      PROVE  MemAccounting'
  <2>1. call[c].key \in Keys /\ Remove(call[c].key)
    BY <1>2, <1>a, CallFields DEF RemoveExpired, Delete
  <2> QED
    BY <1>a, <2>1, RemoveKeepsAccount
<1>3. ASSUME NEW c \in Clients, AddEvict(c)
      PROVE  MemAccounting'
  <2>1. Len(order) > 0 /\ Remove(order[Len(order)])
    BY <1>3 DEF AddEvict, MustEvict
  <2>2. order[Len(order)] \in Keys
    BY <1>a, <2>1, OldestPresent DEF TypeOK
  <2> QED
    BY <1>a, <2>1, <2>2, RemoveKeepsAccount
<1>4. CASE CleanupKey
  <2>1. PICK k \in pending : Remove(k) \/ UNCHANGED <<items, order, currentMem>>
    BY <1>4 DEF CleanupKey
  <2>2. k \in Keys
    BY <1>a DEF TypeOK
  <2> QED
    BY <1>1, <1>a, <2>1, <2>2, RemoveKeepsAccount
<1>5. ASSUME NEW c \in Clients,
             Begin(c) \/ SetLock(c) \/ ReadMissing(c) \/ ReadEntry(c) \/ CheckExpired(c)
      PROVE  UNCHANGED <<items, currentMem>>
  BY <1>5 DEF Begin, CallSet, CallGet, CallDelete, SetLock, ReadMissing, ReadEntry,
              CheckExpired
<1>6. CASE CleanupLock \/ CleanupUnlock \/ Tick \/ UNCHANGED vars
  BY <1>1, <1>6 DEF CleanupLock, CleanupUnlock, Tick, vars
<1> QED
  BY <1>1, <1>2, <1>3, <1>4, <1>5, <1>6, AddKeepsAccount
     DEF Next, LockStep, FreeStep, Cleanup

(* LRU.currentMem is the sum of the sizes of the entries present, after every
   sequence of sets, lookups, deletes, evictions and sweeps. *)
THEOREM MemoryCounted == Spec => []MemAccounting
<1>1. Init => MemAccounting
  <2> SUFFICES ASSUME Init
               PROVE  0 = MemOf(items)
    BY DEF Init, MemAccounting
  <2>1. items \in [{} -> Entry] /\ IsFiniteSet({})
    BY FS_EmptySet DEF Init
  <2>2. PICK g : Adds(g, {}, [k \in {} |-> items[k].size]) /\ MemOf(items) = g[{}]
    BY <2>1, MemOfAdds
  <2> QED
    BY <2>2 DEF Adds
<1> QED
  BY <1>1, NextKeepsAccount, Invariance, PTL DEF Spec

-----------------------------------------------------------------------------
(* Shard implements CacheSpec: each step of a client, of the janitor and of the
   clock is a step of the map that forgets only for a reason, or leaves it
   alone.  First, what a client in a call has asked for. *)

LEMMA AskedFacts ==
    /\ askedIn(Idle) = Cache!Nothing
    /\ \A x : x.pc = "set" => askedIn(x) =
           [op |-> "set", key |-> x.key, val |-> x.val, forever |-> x.ttl <= 0]
    /\ \A x : x.pc = "add" => askedIn(x) =
           [op |-> "set", key |-> x.key, val |-> x.item.val, forever |-> x.item.exp = 0]
    /\ \A x : x.pc \in {"get", "delete"} => askedIn(x) = [op |-> x.pc, key |-> x.key]
    /\ \A x : x.pc \in {"check", "remove"} =>
           askedIn(x) = [op |-> "got", key |-> x.key, item |-> x.item]
<1>1. askedIn(Idle) = Cache!Nothing
  BY DEF askedIn, Idle, Cache!Nothing
<1>2. ASSUME NEW x, x.pc = "set"
      PROVE  askedIn(x) =
                 [op |-> "set", key |-> x.key, val |-> x.val, forever |-> x.ttl <= 0]
  BY <1>2 DEF askedIn
<1>3. ASSUME NEW x, x.pc = "add"
      PROVE  askedIn(x) = [op |-> "set", key |-> x.key, val |-> x.item.val,
                           forever |-> x.item.exp = 0]
  BY <1>3 DEF askedIn
<1>4. ASSUME NEW x, x.pc \in {"get", "delete"}
      PROVE  askedIn(x) = [op |-> x.pc, key |-> x.key]
  BY <1>4 DEF askedIn
<1>5. ASSUME NEW x, x.pc \in {"check", "remove"}
      PROVE  askedIn(x) = [op |-> "got", key |-> x.key, item |-> x.item]
  BY <1>5 DEF askedIn
<1> QED
  BY <1>1, <1>2, <1>3, <1>4, <1>5

(* A client that goes somewhere else changes its own request only. *)
LEMMA GotoAsks ==
    ASSUME TypeOK, NEW c \in Clients, NEW next, Goto(c, next)
    PROVE  /\ Cache!Becomes(c, askedIn(next))
           /\ askedBy[c] = askedIn(call[c])
           /\ askedIn(next) = askedIn(call[c]) => UNCHANGED askedBy
<1>1. /\ askedBy = [d \in Clients |-> askedIn(call[d])]
      /\ askedBy' = [d \in Clients |-> askedIn(call'[d])]
  BY DEF askedBy
<1>2. \A d \in Clients : call'[d] = IF d = c THEN next ELSE call[d]
  BY DEF TypeOK, Goto
<1>3. askedBy' = [askedBy EXCEPT ![c] = askedIn(next)]
  BY <1>1, <1>2
<1> QED
  BY <1>1, <1>2, <1>3 DEF Cache!Becomes

(* A removal takes away the entry of its key, if there is one. *)
LEMMA RemoveForgets ==
    ASSUME Inv, NEW k \in Keys, Remove(k)
    PROVE  Cache!WithoutKey(k) /\ (k \notin DOMAIN mapOf => UNCHANGED mapOf)
<1>1. CASE k \notin DOMAIN items
  <2>1. UNCHANGED items
    BY <1>1 DEF Remove
  <2>2. mapOf' = mapOf /\ DOMAIN mapOf \ {k} = DOMAIN mapOf
    BY <1>1, <2>1 DEF mapOf
  <2>3. mapOf = [x \in DOMAIN mapOf |-> mapOf[x]]
    BY DEF mapOf
  <2> QED
    BY <2>2, <2>3 DEF Cache!WithoutKey
<1>2. CASE k \in DOMAIN items
  <2>1. items' = [x \in DOMAIN items \ {k} |-> items[x]]
    BY <1>2, RemovePresent DEF Inv, Structure
  <2>2. /\ DOMAIN mapOf = DOMAIN items
        /\ mapOf' = [x \in DOMAIN items \ {k} |-> items[x].item]
        /\ \A x \in DOMAIN items : mapOf[x] = items[x].item
    BY <2>1 DEF mapOf
  <2>3. mapOf' = [x \in DOMAIN mapOf \ {k} |-> mapOf[x]]
    BY <2>2
  <2> QED
    BY <1>2, <2>2, <2>3 DEF Cache!WithoutKey
<1> QED
  BY <1>1, <1>2

(* A Set stores under its key what it was asked to store; at most one other
   entry makes room. *)
LEMMA StoreIsPut ==
    ASSUME TypeOK, NEW c \in Clients, call[c].pc = "add", Goto(c, Idle), UNCHANGED now,
           NEW k \in Keys, k = call[c].key,
           NEW e, e.item = call[c].item, e.item \in Item, NEW D \in SUBSET DOMAIN items,
           \A x, y \in D : x = y,
           items' = [x \in (DOMAIN items \ D) \cup {k} |-> IF x = k THEN e ELSE items[x]]
    PROVE  Cache!Put(c)
<1>1. /\ DOMAIN mapOf = DOMAIN items
      /\ DOMAIN mapOf' = (DOMAIN items \ D) \cup {k}
      /\ mapOf'[k] = e.item
      /\ \A x \in DOMAIN mapOf' \ {k} : x \in DOMAIN mapOf /\ mapOf'[x] = mapOf[x]
  BY DEF mapOf
<1>2. \A x, y \in DOMAIN mapOf \ DOMAIN mapOf' : x = y
  BY <1>1
<1>3. askedBy[c] = [op |-> "set", key |-> k, val |-> e.item.val, forever |-> e.item.exp = 0]
  BY GotoAsks, AskedFacts
<1>4. /\ askedBy[c].op = "set" /\ askedBy[c].key = k /\ askedBy[c].val = e.item.val
      /\ askedBy[c].forever = (e.item.exp = 0)
  BY <1>3
<1>5. Cache!Answer(c)
  BY GotoAsks, AskedFacts DEF Cache!Answer
<1> QED
  BY <1>1, <1>2, <1>4, <1>5 DEF Cache!Put

-----------------------------------------------------------------------------
(* Every step is a step of the abstract map *)

LEMMA BeginRefines ==
    ASSUME TypeOK, NEW c \in Clients, Begin(c)
    PROVE  Cache!Ask(c)
<1>1. PICK next : Goto(c, next) /\ askedIn(next) \in Cache!Requests
  <2>1. CASE CallSet(c)
    <3>1. PICK k \in Keys, v \in Values, t \in TTLs :
              Goto(c, [pc |-> "set", key |-> k, val |-> v, ttl |-> t])
      BY <2>1 DEF CallSet
    <3>2. PICK x : x = [pc |-> "set", key |-> k, val |-> v, ttl |-> t]
      OBVIOUS
    <3>3. x.pc = "set" /\ x.key = k /\ x.val = v /\ x.ttl = t
      BY <3>2
    <3>4. askedIn(x) = [op |-> "set", key |-> k, val |-> v, forever |-> t <= 0]
      BY <3>3, AskedFacts
    <3>5. (t <= 0) \in BOOLEAN
      OBVIOUS
    <3>6. askedIn(x) \in Cache!Requests
      BY <3>4, <3>5 DEF Cache!Requests
    <3> QED
      BY <3>1, <3>2, <3>6
  <2>2. CASE CallGet(c) \/ CallDelete(c)
    <3>1. PICK k \in Keys, p \in {"get", "delete"} : Goto(c, [pc |-> p, key |-> k])
      BY <2>2 DEF CallGet, CallDelete
    <3>2. PICK x : x = [pc |-> p, key |-> k]
      OBVIOUS
    <3>3. x.pc = p /\ x.key = k
      BY <3>2
    <3>4. askedIn(x) = [op |-> p, key |-> k]
      BY <3>3, AskedFacts
    <3>5. askedIn(x) \in Cache!Requests
      BY <3>4 DEF Cache!Requests
    <3> QED
      BY <3>1, <3>2, <3>5
  <2> QED
    BY <2>1, <2>2 DEF Begin
<1>2. call[c].pc = "idle" /\ UNCHANGED <<items, now>>
  BY DEF Begin, CallSet, CallGet, CallDelete
<1>3. call[c] = Idle
  BY <1>2 DEF TypeOK, Call, Idle
<1>4. askedBy[c] = Cache!Nothing
  BY <1>1, <1>3, GotoAsks, AskedFacts
<1>5. UNCHANGED mapOf
  BY <1>2 DEF mapOf
<1> QED
  BY <1>1, <1>2, <1>4, <1>5, GotoAsks DEF Cache!Ask

LEMMA SetLockRefines ==
    ASSUME TypeOK, NEW c \in Clients, SetLock(c)
    PROVE  UNCHANGED Cache!vars
<1>1. PICK x : x = call[c]
  OBVIOUS
<1>2. x.pc = "set" /\ x.val \in Values /\ x.ttl \in TTLs /\ UNCHANGED <<items, now>>
  BY <1>1 DEF SetLock, TypeOK, Call, Idle
<1>3. PICK i : i = NewItem(x.val, x.ttl)
  OBVIOUS
<1>4. i.val = x.val /\ (i.exp = 0) = (x.ttl <= 0)
  <2>1. x.ttl \in Int /\ now \in Nat
    BY <1>2, LimitAssumption DEF TypeOK
  <2>2. i.val = x.val /\ i.exp = IF x.ttl > 0 THEN now + x.ttl ELSE 0
    BY <1>3 DEF NewItem
  <2> QED
    BY <2>1, <2>2
<1>5. PICK y : y = [pc |-> "add", key |-> x.key, item |-> i]
  OBVIOUS
<1>6. Goto(c, y) /\ y.pc = "add" /\ y.key = x.key /\ y.item = i
  BY <1>1, <1>3, <1>5 DEF SetLock
<1>7. askedIn(y) = askedIn(x)
  BY <1>2, <1>4, <1>6, AskedFacts
<1>8. UNCHANGED askedBy
  BY <1>1, <1>6, <1>7, GotoAsks
<1>9. UNCHANGED mapOf
  BY <1>2 DEF mapOf
<1> QED
  BY <1>2, <1>8, <1>9 DEF Cache!vars

LEMMA ReadRefines ==
    ASSUME TypeOK, NEW c \in Clients, ReadMissing(c) \/ ReadEntry(c)
    PROVE  Cache!Miss(c) \/ Cache!Look(c)
<1>1. PICK k : k = call[c].key
  OBVIOUS
<1>2. call[c].pc = "get" /\ UNCHANGED <<items, now>>
  BY DEF ReadMissing, ReadEntry
<1>3. PICK q : q = askedBy[c]
  OBVIOUS
<1>4. q.op = "get" /\ q.key = k
  <2>1. q = [op |-> "get", key |-> k]
    BY <1>1, <1>2, <1>3, AskedFacts DEF askedBy
  <2> QED
    BY <2>1
<1>5. UNCHANGED mapOf /\ DOMAIN mapOf = DOMAIN items
  BY <1>2 DEF mapOf
<1>6. CASE ReadMissing(c)
  <2>1. k \notin DOMAIN items /\ Goto(c, Idle)
    BY <1>1, <1>6 DEF ReadMissing, Return
  <2>2. Cache!Answer(c)
    BY <1>2, <2>1, GotoAsks, AskedFacts DEF Cache!Answer
  <2> QED
    BY <1>3, <1>4, <1>5, <2>1, <2>2 DEF Cache!Miss
<1>7. CASE ReadEntry(c)
  <2>1. PICK y : y = [pc |-> "check", key |-> k, item |-> items[k].item]
    OBVIOUS
  <2>2. k \in DOMAIN items /\ Goto(c, y)
    BY <1>1, <1>7, <2>1 DEF ReadEntry
  <2>3. y.pc = "check" /\ y.key = k /\ y.item = mapOf[k]
    BY <2>1, <2>2 DEF mapOf
  <2>4. askedIn(y) = [op |-> "got", key |-> k, item |-> mapOf[k]]
    BY <2>3, AskedFacts
  <2>5. Cache!Becomes(c, [op |-> "got", key |-> k, item |-> mapOf[k]])
    BY <2>2, <2>4, GotoAsks
  <2> QED
    BY <1>2, <1>3, <1>4, <1>5, <2>2, <2>5 DEF Cache!Look
<1> QED
  BY <1>6, <1>7

LEMMA CheckRefines ==
    ASSUME TypeOK, NEW c \in Clients, CheckExpired(c)
    PROVE  Cache!Hit(c) \/ UNCHANGED Cache!vars
<1>1. PICK x : x = call[c]
  OBVIOUS
<1>2. x.pc = "check" /\ UNCHANGED <<items, now>>
  BY <1>1 DEF CheckExpired
<1>3. UNCHANGED mapOf
  BY <1>2 DEF mapOf
<1>4. askedIn(x) = [op |-> "got", key |-> x.key, item |-> x.item]
  BY <1>2, AskedFacts
<1>5. CASE IsExpired(x.item)
  <2>1. PICK y : y = [x EXCEPT !.pc = "remove"]
    OBVIOUS
  <2>2. Goto(c, y)
    BY <1>1, <1>5, <2>1 DEF CheckExpired
  <2>3. y.pc = "remove" /\ y.key = x.key /\ y.item = x.item
    BY <1>1, <1>2, <2>1 DEF TypeOK, Call, Idle
  <2>4. askedIn(y) = askedIn(x)
    BY <1>4, <2>3, AskedFacts
  <2> QED
    BY <1>1, <1>2, <1>3, <2>2, <2>4, GotoAsks DEF Cache!vars
<1>6. CASE ~ IsExpired(x.item)
  <2>1. Goto(c, Idle)
    BY <1>1, <1>6 DEF CheckExpired, Return
  <2>2. Cache!Answer(c)
    BY <1>2, <2>1, GotoAsks, AskedFacts DEF Cache!Answer
  <2>3. askedBy[c].op = "got" /\ askedBy[c].item = x.item
    BY <1>1, <1>4, <2>1, GotoAsks
  <2> QED
    BY <1>3, <1>6, <2>2, <2>3 DEF Cache!Hit, Cache!Expired, IsExpired
<1> QED
  BY <1>5, <1>6

LEMMA RemoveRefines ==
    ASSUME Inv, NEW c \in Clients, RemoveExpired(c) \/ Delete(c)
    PROVE  Cache!DropExpired(c) \/ Cache!Delete(c)
<1>0. TypeOK
  BY DEF Inv
<1>1. PICK x : x = call[c]
  OBVIOUS
<1>2. Remove(x.key) /\ Goto(c, Idle) /\ UNCHANGED now /\ x.pc \in {"remove", "delete"}
  BY <1>1 DEF RemoveExpired, Delete, Return
<1>3. x.key \in Keys
  BY <1>0, <1>1, <1>2, CallFields
<1>4. Cache!WithoutKey(x.key)
  BY <1>2, <1>3, RemoveForgets
<1>5. Cache!Answer(c)
  BY <1>0, <1>2, GotoAsks, AskedFacts DEF Cache!Answer
<1>6. askedBy[c] = askedIn(x)
  BY <1>0, <1>1, <1>2, GotoAsks
<1>7. CASE x.pc = "remove"
  <2>1. askedIn(x) = [op |-> "got", key |-> x.key, item |-> x.item]
    BY <1>7, AskedFacts
  <2>2. askedBy[c].op = "got" /\ askedBy[c].key = x.key /\ askedBy[c].item = x.item
    BY <1>6, <2>1
  <2>3. IsExpired(x.item)
    BY <1>1, <1>7 DEF Inv, RemoveKnowsExpired
  <2> QED
    BY <1>4, <1>5, <2>2, <2>3 DEF Cache!DropExpired, Cache!Expired, IsExpired
<1>8. CASE x.pc = "delete"
  <2>1. askedIn(x) = [op |-> "delete", key |-> x.key]
    BY <1>8, AskedFacts
  <2>2. askedBy[c].op = "delete" /\ askedBy[c].key = x.key
    BY <1>6, <2>1
  <2> QED
    BY <1>4, <1>5, <2>2 DEF Cache!Delete
<1> QED
  BY <1>2, <1>7, <1>8

LEMMA EvictRefines ==
    ASSUME Inv, NEW c \in Clients, AddEvict(c)
    PROVE  \E k \in DOMAIN mapOf : Cache!Evict(c, k)
<1>1. PICK k : k = order[Len(order)]
  OBVIOUS
<1>2. /\ Len(order) > 0 /\ Remove(k) /\ UNCHANGED <<call, now>>
      /\ call[c].pc = "add"
  BY <1>1 DEF AddEvict, MustEvict
<1>3. k \in Keys /\ k \in DOMAIN items
  BY <1>1, <1>2, OldestPresent DEF Inv, Structure, TypeOK
<1>4. Cache!WithoutKey(k) /\ k \in DOMAIN mapOf
  BY <1>2, <1>3, RemoveForgets DEF mapOf
<1>5. UNCHANGED askedBy
  BY <1>2 DEF askedBy
<1>6. askedBy[c].op = "set"
  <2>1. PICK x : x = call[c] /\ askedBy[c] = askedIn(x)
    BY DEF askedBy
  <2>2. askedIn(x) =
            [op |-> "set", key |-> x.key, val |-> x.item.val, forever |-> x.item.exp = 0]
    BY <1>2, <2>1, AskedFacts
  <2> QED
    BY <2>1, <2>2
<1> QED
  BY <1>2, <1>4, <1>5, <1>6 DEF Cache!Evict

LEMMA AddRefines ==
    ASSUME Inv, NEW c \in Clients, AddUpdate(c) \/ AddInsert(c) \/ AddReplaceOldest(c)
    PROVE  Cache!Put(c)
<1>a. TypeOK
  BY DEF Inv
<1> DEFINE old == order[Len(order)]
<1>1. call[c].pc = "add" /\ Goto(c, Idle) /\ UNCHANGED now
  BY DEF AddUpdate, AddInsert, AddReplaceOldest, Return
<1>2. PICK k, e :
          /\ k = call[c].key /\ k \in Keys
          /\ e = [item |-> call[c].item, size |-> calculateSize(k, call[c].item)]
          /\ e.item = call[c].item /\ e.item \in Item
  <2>1. call[c].key \in Keys /\ call[c].item \in Item
    BY <1>a, <1>1, CallFields
  <2> DEFINE new == [item |-> call[c].item,
                     size |-> calculateSize(call[c].key, call[c].item)]
  <2>2. new.item = call[c].item /\ new.item \in Item
    BY <2>1
  <2> QED
    BY <2>1, <2>2, Zenon
<1>3. CASE AddUpdate(c) \/ AddInsert(c)
  <2>1. items' = With(k, e, items)
    BY <1>2, <1>3 DEF AddUpdate, AddInsert
  <2>2. PICK D : D = {}
    OBVIOUS
  <2>3. items' = [x \in (DOMAIN items \ D) \cup {k} |-> IF x = k THEN e ELSE items[x]]
    BY <2>1, <2>2 DEF With
  <2>4. D \in SUBSET DOMAIN items /\ \A x, y \in D : x = y
    BY <2>2
  <2> QED
    BY <1>a, <1>1, <1>2, <2>3, <2>4, StoreIsPut
<1>4. CASE AddReplaceOldest(c)
  <2>1. items' = With(k, e, Without(old, items)) /\ Full
    BY <1>2, <1>4 DEF AddReplaceOldest
  <2>2. PICK o \in DOMAIN items : o = old
    BY <2>1, OldestPresent, LimitAssumption DEF Full, Inv, Structure, TypeOK
  <2> HIDE DEF old
  <2>3. items' = [x \in (DOMAIN items \ {o}) \cup {k} |->
                     IF x = k THEN e ELSE items[x]]
    BY <2>1, <2>2 DEF With, Without
  <2>4. {o} \in SUBSET DOMAIN items /\ \A x, y \in {o} : x = y
    OBVIOUS
  <2> QED
    BY <1>a, <1>1, <1>2, <2>3, <2>4, StoreIsPut
<1> QED
  BY <1>3, <1>4

LEMMA CleanupRefines ==
    ASSUME Inv, Cleanup \/ Tick
    PROVE  Cache!Tick \/ (\E k \in DOMAIN mapOf : Cache!Expire(k)) \/ UNCHANGED Cache!vars
<1>1. UNCHANGED askedBy
  BY DEF Cleanup, CleanupLock, CleanupKey, CleanupUnlock, Tick, askedBy
<1>2. CASE CleanupKey
  <2>1. PICK k \in pending : IF IsExpired(items[k].item) THEN Remove(k) ELSE UNCHANGED items
    BY <1>2 DEF CleanupKey
  <2>2. k \in Keys /\ UNCHANGED now
    BY <1>2 DEF CleanupKey, Inv, TypeOK
  <2>3. CASE UNCHANGED items
    BY <1>1, <2>2, <2>3 DEF mapOf, Cache!vars
  <2>4. CASE IsExpired(items[k].item) /\ Remove(k)
    <3>1. Cache!WithoutKey(k)
      BY <2>2, <2>4, RemoveForgets
    <3>2. CASE k \in DOMAIN mapOf
      <4>1. mapOf[k] = items[k].item
        BY <3>2 DEF mapOf
      <4>2. Cache!Expired(mapOf[k])
        BY <2>4, <4>1 DEF Cache!Expired, IsExpired
      <4> QED
        BY <1>1, <2>2, <3>1, <3>2, <4>2 DEF Cache!Expire
    <3>3. CASE k \notin DOMAIN mapOf
      BY <1>1, <2>2, <2>4, <3>3, RemoveForgets DEF Cache!vars
    <3> QED
      BY <3>2, <3>3
  <2> QED
    BY <2>1, <2>3, <2>4
<1>3. CASE CleanupLock \/ CleanupUnlock
  BY <1>1, <1>3 DEF CleanupLock, CleanupUnlock, mapOf, Cache!vars
<1>4. CASE Tick
  BY <1>1, <1>4 DEF Tick, mapOf, Cache!Tick
<1> QED
  BY <1>2, <1>3, <1>4 DEF Cleanup

LEMMA StepRefines == Inv /\ [Next]_vars => [Cache!Next]_(Cache!vars)
<1> SUFFICES ASSUME Inv, [Next]_vars
             PROVE  Cache!Next \/ UNCHANGED Cache!vars
  OBVIOUS
<1>a. TypeOK
  BY DEF Inv
<1>1. ASSUME NEW c \in Clients, Begin(c)
      PROVE  Cache!Next
  BY <1>a, <1>1, BeginRefines DEF Cache!Next
<1>2. ASSUME NEW c \in Clients, SetLock(c)
      PROVE  UNCHANGED Cache!vars
  BY <1>a, <1>2, SetLockRefines
<1>3. ASSUME NEW c \in Clients, ReadMissing(c) \/ ReadEntry(c)
      PROVE  Cache!Next
  BY <1>a, <1>3, ReadRefines DEF Cache!Next
<1>4. ASSUME NEW c \in Clients, RemoveExpired(c) \/ Delete(c)
      PROVE  Cache!Next
  BY <1>4, RemoveRefines DEF Cache!Next
<1>5. ASSUME NEW c \in Clients, AddEvict(c)
      PROVE  Cache!Next
  BY <1>5, EvictRefines DEF Cache!Next
<1>6. ASSUME NEW c \in Clients, AddUpdate(c) \/ AddInsert(c) \/ AddReplaceOldest(c)
      PROVE  Cache!Next
  BY <1>6, AddRefines DEF Cache!Next
<1>7. ASSUME NEW c \in Clients, CheckExpired(c)
      PROVE  Cache!Next \/ UNCHANGED Cache!vars
  BY <1>a, <1>7, CheckRefines DEF Cache!Next
<1>8. ASSUME Cleanup \/ Tick
      PROVE  Cache!Next \/ UNCHANGED Cache!vars
  BY <1>8, CleanupRefines DEF Cache!Next
<1>9. CASE UNCHANGED vars
  BY <1>9 DEF vars, mapOf, askedBy, Cache!vars
<1> QED
  BY <1>1, <1>2, <1>3, <1>4, <1>5, <1>6, <1>7, <1>8, <1>9
     DEF Next, LockStep, FreeStep

LEMMA InitRefines == Init => Cache!Init
<1> SUFFICES ASSUME Init
             PROVE  Cache!Init
  OBVIOUS
<1>1. mapOf = [k \in {} |-> 0]
  BY DEF Init, mapOf
<1>2. askedBy = [c \in Clients |-> Cache!Nothing]
  <2>1. \A c \in Clients : call[c] = Idle
    BY DEF Init
  <2> QED
    BY <2>1, AskedFacts DEF askedBy
<1> QED
  BY <1>1, <1>2 DEF Init, Cache!Init

(* A shard is a map that forgets only for a reason: whatever its clients, its
   janitor and its clock do, only a Set of a key changes the item of that key,
   to the value it was called with; none comes back by itself; an entry goes by
   a Delete of its key, when it has expired, to make room for a Set, or by a
   lookup of its key that was handed an expired item; and a lookup is handed
   the item that was stored under its key at that moment. *)
THEOREM Refinement == Spec => ImplementsCache
<1>1. Init => Cache!Init
  BY InitRefines
<1>2. Inv /\ [Next]_vars => [Cache!Next]_(Cache!vars)
  BY StepRefines
<1> QED
  BY <1>1, <1>2, Invariance, PTL DEF Spec, ImplementsCache, Cache!Spec

============================================================================
