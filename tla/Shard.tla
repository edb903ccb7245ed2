------------------------------- MODULE Shard -------------------------------
(* One shard of the cache: the string items of internal/engine/shard.go kept
   by the LRU evictor of internal/engine/lru.go, with the expiry of
   internal/engine/item.go.

   A client is a connection goroutine inside one shard call; the janitor is
   Cache.cleanupLoop.  Shard.mu is a sync.RWMutex: a critical section under
   Lock is split into one step per loop iteration, each of them exclusive; a
   critical section under RLock is one step.  Shard.Get and Shard.TTL move a
   list element while they hold only RLock, so two of them that overlap are a
   data race on container/list.  This module covers the executions in which
   lookups do not overlap each other (Readers has at most one member); module
   LruRing models the overlapping ones at the level of the list's pointers.
   Operations that only read (HasKey, Size, MemoryUsage, GetItems, Scan) change
   nothing here and need no action.                                          *)
EXTENDS Integers, Sequences, FiniteSets

CONSTANTS
    Clients,    \* goroutines that call Set and Delete
    Readers,    \* the clients that also call Get and TTL
    Janitor,    \* the goroutine of Cache.cleanupLoop
    Nobody,     \* "Shard.mu is not locked"
    Keys,
    Values,
    KeyLen,     \* len(key) in bytes
    ValLen,     \* len(value) in bytes
    TTLs,       \* the ttl arguments of Set; 0 or less means "no expiry"
    Capacity,   \* evictor_capacity; 0 means unlimited
    MaxMemory,  \* max_memory in bytes; 0 means unlimited
    MaxTime     \* bound on the clock

(* Lookups do not overlap: there is at most one reader. *)
ASSUME ReadersAssumption ==
    /\ Readers \subseteq Clients
    /\ \A r, s \in Readers : r = s

ASSUME LockAssumption ==
    /\ Janitor \notin Clients
    /\ Nobody \notin Clients \cup {Janitor}

ASSUME SizeAssumption ==
    /\ KeyLen \in [Keys -> Nat]
    /\ ValLen \in [Values -> Nat]

ASSUME LimitAssumption ==
    /\ TTLs \subseteq Int
    /\ Capacity \in Nat
    /\ MaxMemory \in Nat
    /\ MaxTime \in Nat

VARIABLES
    items,      \* LRU.items: the present keys with their entries
    order,      \* LRU.order: keys from most to least recently used
    currentMem, \* LRU.currentMem
    mu,         \* who holds Shard.mu for writing
    now,        \* time.Now()
    call,       \* per client: the shard call it is in, with its locals
    pending,    \* keys CleanupExpired has still to visit
    usedAfter   \* history: <<a, b>> when a was used more recently than b

vars == <<items, order, currentMem, mu, now, call, pending, usedAfter>>

-----------------------------------------------------------------------------
(* Items and calls *)

(* Item[V]: exp 0 stands for "no expiration". *)
Item == [val : Values, exp : Nat]

(* lruEntry[V], without the key it is stored under. *)
Entry == [item : Item, size : Nat]

Idle == [pc |-> "idle"]

Call ==
         {Idle}
    \cup [pc : {"set"}, key : Keys, val : Values, ttl : TTLs]
    \cup [pc : {"add"}, key : Keys, item : Item]
    \cup [pc : {"get", "delete"}, key : Keys]
    \cup [pc : {"check", "remove"}, key : Keys, item : Item]

(* Seeded fault: a negative ttl makes an expiration in the past. *)
NewItemNonZeroTtl(v, ttl) ==
    [val |-> v, exp |-> IF ttl # 0 THEN now + ttl ELSE 0]

NewItem(v, ttl) == [val |-> v, exp |-> IF ttl > 0 THEN now + ttl ELSE 0]

IsExpired(item) == item.exp # 0 /\ now > item.exp

calculateSize(k, item) == KeyLen[k] + ValLen[item.val]

-----------------------------------------------------------------------------
(* The recency list and the key map *)

IndexOf(k, s) == CHOOSE i \in 1 .. Len(s) : s[i] = k

DropAt(i, s) == [j \in 1 .. Len(s) - 1 |-> IF j < i THEN s[j] ELSE s[j + 1]]

PushFront(k, s) == [j \in 1 .. Len(s) + 1 |-> IF j = 1 THEN k ELSE s[j - 1]]

MoveToFront(k, s) == PushFront(k, DropAt(IndexOf(k, s), s))

(* Seeded fault: the entry stays in the map. *)
WithoutKept(k, f) == f

Without(k, f) == [x \in DOMAIN f \ {k} |-> f[x]]

(* Seeded fault: all entries share the new item. *)
WithItemShared(k, e, f) ==
    [x \in DOMAIN f \cup {k} |-> IF x = k THEN e ELSE [f[x] EXCEPT !.item = e.item]]

With(k, e, f) == [x \in DOMAIN f \cup {k} |-> IF x = k THEN e ELSE f[x]]

(* History: k has just been used, by Add or by Get. *)
UseOf(k) ==
    {p \in usedAfter : p[2] # k} \cup {<<k, x>> : x \in Keys \ {k}}

-----------------------------------------------------------------------------
Init ==
    /\ items = [k \in {} |-> 0]
    /\ order = <<>>
    /\ currentMem = 0
    /\ mu = Nobody
    /\ now = 1
    /\ call = [c \in Clients |-> Idle]
    /\ pending = {}
    /\ usedAfter = {}

(* Seeded fault: the memory of a removed entry stays counted. *)
RemoveStillCounted(k) ==
    IF k \in DOMAIN items
    THEN /\ order' = DropAt(IndexOf(k, order), order)
         /\ items' = Without(k, items)
         /\ UNCHANGED currentMem
    ELSE UNCHANGED <<items, order, currentMem>>

(* LRU.Remove: drop the entry of a key, if there is one. *)
Remove(k) ==
    IF k \in DOMAIN items
    THEN /\ currentMem' = currentMem - items[k].size
         /\ order' = DropAt(IndexOf(k, order), order)
         /\ items' = Without(k, items)
    ELSE UNCHANGED <<items, order, currentMem>>

Goto(c, next) == call' = [call EXCEPT ![c] = next]

Return(c) == Goto(c, Idle)

CallSet(c) ==
    /\ call[c].pc = "idle"
    /\ \E k \in Keys, v \in Values, t \in TTLs :
           Goto(c, [pc |-> "set", key |-> k, val |-> v, ttl |-> t])
    /\ UNCHANGED <<items, order, currentMem, mu, now, pending, usedAfter>>

(* The beginning of Shard.Get or of Shard.TTL: their steps are the same. *)
CallGet(c) ==
    /\ c \in Readers
    /\ call[c].pc = "idle"
    /\ \E k \in Keys : Goto(c, [pc |-> "get", key |-> k])
    /\ UNCHANGED <<items, order, currentMem, mu, now, pending, usedAfter>>

CallDelete(c) ==
    /\ call[c].pc = "idle"
    /\ \E k \in Keys : Goto(c, [pc |-> "delete", key |-> k])
    /\ UNCHANGED <<items, order, currentMem, mu, now, pending, usedAfter>>

(* Shard.Set takes the lock, and then reads the clock in NewItem. *)
SetLock(c) ==
    /\ call[c].pc = "set"
    /\ mu = Nobody
    /\ mu' = c
    /\ Goto(c, [pc |-> "add", key |-> call[c].key,
                item |-> NewItem(call[c].val, call[c].ttl)])
    /\ UNCHANGED <<items, order, currentMem, now, pending, usedAfter>>

(* Seeded fault: the loop tests the memory before the new item only. *)
MustEvictBeforeItem(k, item) ==
    /\ MaxMemory > 0
    /\ currentMem > MaxMemory
    /\ Len(order) > 0

(* The condition of the eviction loop of LRU.Add.  The size of an entry that
   the new item is about to replace counts as used memory. *)
MustEvict(k, item) ==
    /\ MaxMemory > 0
    /\ currentMem + calculateSize(k, item) > MaxMemory
    /\ Len(order) > 0

(* One iteration of that loop: removeOldest. *)
AddEvict(c) ==
    /\ call[c].pc = "add"
    /\ mu = c
    /\ MustEvict(call[c].key, call[c].item)
    /\ Remove(order[Len(order)])
    /\ UNCHANGED <<mu, now, call, pending, usedAfter>>

(* LRU.Add when the key is present: replace its item and move it forward. *)
AddUpdate(c) ==
    LET k == call[c].key
        size == calculateSize(k, call[c].item)
    IN  /\ call[c].pc = "add"
        /\ mu = c
        /\ ~ MustEvict(k, call[c].item)
        /\ k \in DOMAIN items
        /\ order' = MoveToFront(k, order)
        /\ currentMem' = (currentMem - items[k].size) + size
        /\ items' = With(k, [item |-> call[c].item, size |-> size], items)
        /\ usedAfter' = UseOf(k)
        /\ mu' = Nobody
        /\ Return(c)
        /\ UNCHANGED <<now, pending>>

(* Seeded fault: off by one. *)
FullOffByOne == Capacity > 0 /\ Len(order) > Capacity

(* LRU.Add has to make room for a new key. *)
Full == Capacity > 0 /\ Len(order) >= Capacity

(* LRU.Add when the key is absent and there is room. *)
AddInsert(c) ==
    LET k == call[c].key
        size == calculateSize(k, call[c].item)
    IN  /\ call[c].pc = "add"
        /\ mu = c
        /\ ~ MustEvict(k, call[c].item)
        /\ k \notin DOMAIN items
        /\ ~ Full
        /\ order' = PushFront(k, order)
        /\ currentMem' = currentMem + size
        /\ items' = With(k, [item |-> call[c].item, size |-> size], items)
        /\ usedAfter' = UseOf(k)
        /\ mu' = Nobody
        /\ Return(c)
        /\ UNCHANGED <<now, pending>>

(* LRU.Add when the key is absent and the evictor is full: removeOldest, then
   push the new key. *)
AddReplaceOldest(c) ==
    LET k == call[c].key
        old == order[Len(order)]
        size == calculateSize(k, call[c].item)
    IN  /\ call[c].pc = "add"
        /\ mu = c
        /\ ~ MustEvict(k, call[c].item)
        /\ k \notin DOMAIN items
        /\ Full
        /\ order' = PushFront(k, DropAt(Len(order), order))
        /\ currentMem' = (currentMem - items[old].size) + size
        /\ items' = With(k, [item |-> call[c].item, size |-> size],
                         Without(old, items))
        /\ usedAfter' = UseOf(k)
        /\ mu' = Nobody
        /\ Return(c)
        /\ UNCHANGED <<now, pending>>

(* LRU.Get under RLock: "not found" ends the call. *)
ReadMissing(c) ==
    /\ call[c].pc = "get"
    /\ mu = Nobody
    /\ call[c].key \notin DOMAIN items
    /\ Return(c)
    /\ UNCHANGED <<items, order, currentMem, mu, now, pending, usedAfter>>

(* Seeded fault: a lookup does not move the key. *)
ReadEntryNoMove(c) ==
    LET k == call[c].key
    IN  /\ call[c].pc = "get"
        /\ mu = Nobody
        /\ k \in DOMAIN items
        /\ usedAfter' = UseOf(k)
        /\ Goto(c, [pc |-> "check", key |-> k, item |-> items[k].item])
        /\ UNCHANGED <<items, order, currentMem, mu, now, pending>>

(* LRU.Get under RLock: a present key moves to the front. *)
ReadEntry(c) ==
    LET k == call[c].key
    IN  /\ call[c].pc = "get"
        /\ mu = Nobody
        /\ k \in DOMAIN items
        /\ order' = MoveToFront(k, order)
        /\ usedAfter' = UseOf(k)
        /\ Goto(c, [pc |-> "check", key |-> k, item |-> items[k].item])
        /\ UNCHANGED <<items, currentMem, mu, now, pending>>

(* Seeded fault: whatever was read is taken for expired. *)
CheckExpiredAlways(c) ==
    /\ call[c].pc = "check"
    /\ Goto(c, [call[c] EXCEPT !.pc = "remove"])
    /\ UNCHANGED <<items, order, currentMem, mu, now, pending, usedAfter>>

(* After RUnlock the item that was read is tested for expiry. *)
CheckExpired(c) ==
    /\ call[c].pc = "check"
    /\ IF IsExpired(call[c].item)
       THEN Goto(c, [call[c] EXCEPT !.pc = "remove"])
       ELSE Return(c)
    /\ UNCHANGED <<items, order, currentMem, mu, now, pending, usedAfter>>

(* Seeded fault: the explicit Unlock of the second section is missing. *)
RemoveExpiredNoUnlock(c) ==
    /\ call[c].pc = "remove"
    /\ mu = Nobody
    /\ mu' = c
    /\ Remove(call[c].key)
    /\ Return(c)
    /\ UNCHANGED <<now, pending, usedAfter>>

(* An expired item is removed by its key, in a second critical section. *)
RemoveExpired(c) ==
    /\ call[c].pc = "remove"
    /\ mu = Nobody
    /\ Remove(call[c].key)
    /\ Return(c)
    /\ UNCHANGED <<mu, now, pending, usedAfter>>

Delete(c) ==
    /\ call[c].pc = "delete"
    /\ mu = Nobody
    /\ Remove(call[c].key)
    /\ Return(c)
    /\ UNCHANGED <<mu, now, pending, usedAfter>>

(* CleanupExpired: lock, visit every key in any order, unlock. *)
CleanupLock ==
    /\ mu = Nobody
    /\ mu' = Janitor
    /\ pending' = DOMAIN items
    /\ UNCHANGED <<items, order, currentMem, now, call, usedAfter>>

CleanupKey ==
    /\ mu = Janitor
    /\ \E k \in pending :
           /\ pending' = pending \ {k}
           /\ IF IsExpired(items[k].item)
              THEN Remove(k)
              ELSE UNCHANGED <<items, order, currentMem>>
    /\ UNCHANGED <<mu, now, call, usedAfter>>

CleanupUnlock ==
    /\ mu = Janitor
    /\ pending = {}
    /\ mu' = Nobody
    /\ UNCHANGED <<items, order, currentMem, now, call, pending, usedAfter>>

Tick ==
    /\ now < MaxTime
    /\ now' = now + 1
    /\ UNCHANGED <<items, order, currentMem, mu, call, pending, usedAfter>>

-----------------------------------------------------------------------------
(* Steps that wait for Shard.mu, and steps that do not. *)
LockStep(c) ==
    SetLock(c) \/ ReadMissing(c) \/ ReadEntry(c) \/ RemoveExpired(c) \/ Delete(c)

FreeStep(c) ==
    AddEvict(c) \/ AddUpdate(c) \/ AddInsert(c) \/ AddReplaceOldest(c)
        \/ CheckExpired(c)

Begin(c) == CallSet(c) \/ CallGet(c) \/ CallDelete(c)

Cleanup == CleanupLock \/ CleanupKey \/ CleanupUnlock

Next ==
    \/ \E c \in Clients : Begin(c) \/ LockStep(c) \/ FreeStep(c)
    \/ Cleanup
    \/ Tick

Spec == Init /\ [][Next]_vars

-----------------------------------------------------------------------------
(* Properties *)

TypeOK ==
    /\ DOMAIN items \subseteq Keys
    /\ items \in [DOMAIN items -> Entry]
    /\ order \in Seq(Keys)
    /\ currentMem \in Int
    /\ mu \in Clients \cup {Janitor, Nobody}
    /\ now \in Nat
    /\ call \in [Clients -> Call]
    /\ pending \subseteq Keys
    /\ usedAfter \subseteq Keys \X Keys

(* The map and the recency list of the evictor hold the same keys, and the
   list holds each of them once: no entry can be found and never be evicted
   (map only) or be evicted twice (list only).  LRU.items and LRU.order. *)
ListMapAgree ==
    /\ \A i, j \in 1 .. Len(order) : order[i] = order[j] => i = j
    /\ DOMAIN items = {order[i] : i \in 1 .. Len(order)}

(* The sum of the sizes of the entries of f. *)
MemOf(f) ==
    LET sum[s \in SUBSET DOMAIN f] ==
            IF s = {} THEN 0
            ELSE LET k == CHOOSE x \in s : TRUE
                 IN  f[k].size + sum[s \ {k}]
    IN  sum[DOMAIN f]

(* LRU.currentMem is the sum of the sizes of the entries that are present;
   every path that adds, replaces or drops an entry keeps it. *)
MemAccounting == currentMem = MemOf(items)

(* After every call of Add the shard is within max_memory, except that an item
   which is too large by itself is stored alone. *)
MemoryBound ==
    MaxMemory > 0 => currentMem <= MaxMemory \/ Len(order) <= 1

(* The shard never holds more than evictor_capacity entries. *)
CapacityBound == Capacity > 0 => Len(order) <= Capacity

(* A key that a Set pushes out (for memory or for capacity) was used less
   recently than every other key that is present. *)
EvictsLeastRecentlyUsed ==
    [][(mu \in Clients) =>
          \A k \in DOMAIN items \ DOMAIN items' :
              \A x \in DOMAIN items \ {k} : <<x, k>> \in usedAfter]_vars

(* A lookup (Get, TTL) that deletes an entry deletes an expired one, or one
   that a Set has put there since the lookup read the key. *)
LookupRemovesExpiredOrReplaced ==
    [][\A c \in Clients :
          call[c].pc = "remove" /\ call'[c].pc = "idle" =>
              \A k \in DOMAIN items \ DOMAIN items' :
                  \/ IsExpired(items[k].item)
                  \/ items[k].item # call[c].item]_vars

(* Whoever holds Shard.mu is inside the critical section of Set, which it can
   always leave, or is the sweep: no path of Get, TTL, Set or Delete returns
   with the mutex locked, and no two clients are inside together. *)
LockIsHeldInside ==
    \A c \in Clients : mu = c <=> call[c].pc = "add"

=============================================================================
