------------------------------ MODULE LruRing ------------------------------
(* The list of the LRU evictor at the level of its pointers: container/list is
   a ring of elements around a root, and MoveToFront unlinks and relinks an
   element with six assignments.

   Shard.Get and Shard.TTL call LRU.Get, and with it MoveToFront, while they
   hold Shard.mu for reading only: the assignments of two lookups interleave.
   Set, Delete and eviction hold the lock for writing.  One assignment is one
   step; what a weaker memory model adds to that is left out.  The evictor's
   items are named by their keys.                                            *)
EXTENDS Naturals

CONSTANTS
    Readers,    \* goroutines in Shard.Get or Shard.TTL
    Keys,
    Root,       \* &l.root, which is not a key
    Nil         \* the nil pointer, neither a key nor Root

Nodes == Keys \cup {Root}

VARIABLES
    next, prev, \* the links of the ring
    present,    \* the keys of LRU.items
    get         \* per reader: how far its lookup is

vars == <<next, prev, present, get>>

-----------------------------------------------------------------------------
(* get[r] is [step |-> 0] outside a lookup, and [step |-> i, elem |-> e] when
   assignment i of move(e, root) comes next. *)
Outside == [step |-> 0]

Init ==
    /\ next = [n \in Nodes |-> IF n = Root THEN Root ELSE Nil]
    /\ prev = [n \in Nodes |-> IF n = Root THEN Root ELSE Nil]
    /\ present = {}
    /\ get = [r \in Readers |-> Outside]

(* Nobody holds Shard.mu for reading. *)
NoLookup == \A r \in Readers : get[r].step = 0

(* LRU.Add of a new key, under Lock: PushFront. *)
Insert(k) ==
    /\ NoLookup
    /\ k \notin present
    /\ next' = [next EXCEPT ![Root] = k, ![k] = next[Root]]
    /\ prev' = [prev EXCEPT ![next[Root]] = k, ![k] = Root]
    /\ present' = present \cup {k}
    /\ UNCHANGED get

(* List.Remove: both neighbours are linked to each other. *)
Unlinked(e) ==
    /\ next' = [next EXCEPT ![prev[e]] = next[e], ![e] = Nil]
    /\ prev' = [prev EXCEPT ![next[e]] = prev[e], ![e] = Nil]
    /\ present' = present \ {e}
    /\ UNCHANGED get

(* LRU.removeOldest, under Lock: the element at the back. *)
removeOldest ==
    /\ NoLookup
    /\ present # {}
    /\ Unlinked(prev[Root])

(* LRU.Remove, under Lock: any element. *)
Remove(k) ==
    /\ NoLookup
    /\ k \in present
    /\ Unlinked(k)

(* LRU.Get, under RLock: MoveToFront decides to move the element; it has nothing
   to do for the first one. *)
GetBegin(r) ==
    /\ get[r].step = 0
    /\ \E k \in present :
           /\ next[Root] # k
           /\ get' = [get EXCEPT ![r] = [step |-> 1, elem |-> k]]
    /\ UNCHANGED <<next, prev, present>>

(* The assignments of move(e, root), in their order. *)
Assign(i, e) ==
    \/ i = 1 /\ next' = [next EXCEPT ![prev[e]] = next[e]] /\ UNCHANGED prev
    \/ i = 2 /\ prev' = [prev EXCEPT ![next[e]] = prev[e]] /\ UNCHANGED next
    \/ i = 3 /\ prev' = [prev EXCEPT ![e] = Root]          /\ UNCHANGED next
    \/ i = 4 /\ next' = [next EXCEPT ![e] = next[Root]]    /\ UNCHANGED prev
    \/ i = 5 /\ next' = [next EXCEPT ![prev[e]] = e]       /\ UNCHANGED prev
    \/ i = 6 /\ prev' = [prev EXCEPT ![next[e]] = e]       /\ UNCHANGED next

Move(r) ==
    LET i == get[r].step
        e == get[r].elem
    IN  /\ i \in 1 .. 5
        /\ Assign(i, e)
        /\ get' = [get EXCEPT ![r].step = i + 1]
        /\ UNCHANGED present

(* The last assignment, and RUnlock. *)
MoveEnd(r) ==
    LET e == get[r].elem
    IN  /\ get[r].step = 6
        /\ Assign(6, e)
        /\ get' = [get EXCEPT ![r] = Outside]
        /\ UNCHANGED present

Next ==
    \/ \E k \in Keys : Insert(k) \/ Remove(k)
    \/ removeOldest
    \/ \E r \in Readers : GetBegin(r) \/ Move(r) \/ MoveEnd(r)

Spec == Init /\ [][Next]_vars

-----------------------------------------------------------------------------
(* Properties *)

(* What the evictor's interface promises, "Get retrieves an item and marks it
   as recently used": a lookup loses no item, so when no lookup is under way
   every present key is on the ring, in both directions. *)
EveryKeyListed ==
    NoLookup =>
        \A S \in SUBSET Nodes :
            /\ Root \in S
            /\ (\A x \in S : next[x] \in S) \/ (\A x \in S : prev[x] \in S)
            => present \subseteq S

=============================================================================
