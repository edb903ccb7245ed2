----------------------------- MODULE CacheSpec -----------------------------
(* What a shard promises its clients: a map from keys to items that may forget,
   but only for a reason.

   A client asks for one thing at a time.  The entry of a key is stored or
   replaced only by a client that has asked to set that very key, and with the
   value it asked for.  An entry disappears because a client has asked to delete
   it, because it has expired, to make room for a Set that is under way, or
   because a lookup of its key has been handed an item that has expired: what
   that lookup drops may have been stored since.  A lookup is handed what the
   map holds under its key.  Limits, recency, locks and the sweep are of no
   concern here: each operation takes effect in one step.                     *)
EXTENDS Integers

CONSTANTS Clients, Keys, Values, Items

VARIABLES
    map,    \* the entries
    asked,  \* per client: what it has asked for, and what a lookup was handed
    now     \* the time

vars == <<map, asked, now>>

Nothing == [op |-> "none"]

Requests ==
         [op : {"set"}, key : Keys, val : Values, forever : BOOLEAN]
    \cup [op : {"get", "delete"}, key : Keys]

Expired(item) == item.exp # 0 /\ now > item.exp

Init ==
    /\ map = [k \in {} |-> 0]
    /\ asked = [c \in Clients |-> Nothing]
    /\ now = 1

Becomes(c, q) == asked' = [asked EXCEPT ![c] = q]

Answer(c) == Becomes(c, Nothing) /\ UNCHANGED now

Ask(c) ==
    /\ asked[c] = Nothing
    /\ \E q \in Requests : Becomes(c, q)
    /\ UNCHANGED <<map, now>>

(* The entries other than the one of k stay as they are. *)
WithoutKey(k) == map' = [x \in DOMAIN map \ {k} |-> map[x]]

(* Store an item.  Room may be made by forgetting one other entry. *)
Put(c) ==
    LET k == asked[c].key
        lost == DOMAIN map \ DOMAIN map'
    IN  /\ asked[c].op = "set"
        /\ k \in DOMAIN map'
        /\ map'[k] \in Items
        /\ map'[k].val = asked[c].val
        /\ map'[k].exp = 0 <=> asked[c].forever
        /\ \A x \in DOMAIN map' \ {k} : x \in DOMAIN map /\ map'[x] = map[x]
        /\ \A x, y \in lost : x = y
        /\ Answer(c)

(* More room for a Set. *)
Evict(c, k) ==
    /\ asked[c].op = "set"
    /\ WithoutKey(k)
    /\ UNCHANGED <<asked, now>>

Delete(c) ==
    /\ asked[c].op = "delete"
    /\ WithoutKey(asked[c].key)
    /\ Answer(c)

Miss(c) ==
    /\ asked[c].op = "get"
    /\ asked[c].key \notin DOMAIN map
    /\ Answer(c)
    /\ UNCHANGED map

Look(c) ==
    /\ asked[c].op = "get"
    /\ asked[c].key \in DOMAIN map
    /\ Becomes(c, [op |-> "got", key |-> asked[c].key, item |-> map[asked[c].key]])
    /\ UNCHANGED <<map, now>>

(* The lookup returns the item it was handed ... *)
Hit(c) ==
    /\ asked[c].op = "got"
    /\ ~ Expired(asked[c].item)
    /\ Answer(c)
    /\ UNCHANGED map

(* ... or finds it expired, and drops the entry that is there now. *)
DropExpired(c) ==
    /\ asked[c].op = "got"
    /\ Expired(asked[c].item)
    /\ WithoutKey(asked[c].key)
    /\ Answer(c)

Expire(k) ==
    /\ Expired(map[k])
    /\ WithoutKey(k)
    /\ UNCHANGED <<asked, now>>

Tick == now' = now + 1 /\ UNCHANGED <<map, asked>>

Next ==
    \/ \E c \in Clients :
           \/ Ask(c) \/ Put(c) \/ Delete(c)
           \/ Miss(c) \/ Look(c) \/ Hit(c) \/ DropExpired(c)
           \/ \E k \in DOMAIN map : Evict(c, k)
    \/ \E k \in DOMAIN map : Expire(k)
    \/ Tick

Spec == Init /\ [][Next]_vars

=============================================================================
