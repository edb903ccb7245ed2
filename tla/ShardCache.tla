----------------------------- MODULE ShardCache -----------------------------
(* Shard implements CacheSpec: the entries without their sizes are the map, and
   the call of a client says what it has asked for. *)
EXTENDS Shard

mapOf == [k \in DOMAIN items |-> items[k].item]

(* What a client in call x has asked for.  A Set has asked for the same before
   and after it has read the clock, and a lookup that is about to remove its
   key has still what it was handed. *)
askedIn(x) ==
    CASE x.pc = "set" ->
            [op |-> "set", key |-> x.key, val |-> x.val, forever |-> x.ttl <= 0]
      [] x.pc = "add" ->
            [op |-> "set", key |-> x.key, val |-> x.item.val, forever |-> x.item.exp = 0]
      [] x.pc \in {"get", "delete"} -> [op |-> x.pc, key |-> x.key]
      [] x.pc \in {"check", "remove"} -> [op |-> "got", key |-> x.key, item |-> x.item]
      [] OTHER -> [op |-> "none"]

askedBy == [c \in Clients |-> askedIn(call[c])]

Cache == INSTANCE CacheSpec
    WITH Items <- Item, map <- mapOf, asked <- askedBy

(* A shard is a map that forgets only for a reason: however Set, Get, TTL,
   Delete, eviction and the sweep interleave, only a Set of a key changes its
   item, to the value that was asked for; no entry comes back; one disappears
   only by a Delete of its key, by expiry, to make room for a Set under way, or
   by a lookup of its key that was handed an item which has expired; and a
   lookup is handed the item of its own key and never returns an expired one
   as found. *)
ImplementsCache == Cache!Spec

=============================================================================
