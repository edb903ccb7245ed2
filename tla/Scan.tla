-------------------------------- MODULE Scan --------------------------------
(* SCAN: an iteration over the keys of all shards by Cache.Scan and Shard.Scan,
   while other connections add and remove keys.

   A client calls SCAN with cursor 0, and then with the cursor of each reply,
   until that is 0.  A cursor is shard * CursorBase + offset.  A call visits the
   shards from the cursor's on, each under its own read lock: one step per
   shard.  Shard.Scan works on the keys in the order in which Go iterates over a
   map, which is a different one each time; an offset into it says how many keys
   to leave out, and not which.                                              *)
EXTENDS Integers, Sequences, FiniteSets, FiniteSetsExt, SequencesExt

CONSTANTS
    Keys,        \* sequences of characters
    Hash,        \* the FNV hash of a key
    NumShards,   \* shard_count
    CursorBase,  \* 10000
    Patterns,    \* arguments of MATCH, sequences of characters and Star
    Counts,      \* arguments of COUNT
    Star,        \* the character *
    MaxChanges   \* bound on the keys added and removed

ASSUME KeysAssumption ==
    /\ IsFiniteSet(Keys)
    /\ \A s \in Keys \cup Patterns : s \in Seq(ToSet(s))

ASSUME SizeAssumption ==
    /\ NumShards \in Nat \ {0}
    /\ CursorBase \in Nat \ {0}
    /\ Counts \subseteq Nat
    /\ MaxChanges \in Nat

VARIABLES
    present,  \* the keys that are there and have not expired
    changes,  \* number of keys added and removed so far
    iter,     \* the iteration of the client: its arguments and its cursor
    call,     \* the call of Cache.Scan it is in, with its locals
    stable    \* history: the keys present since the iteration began

vars == <<present, changes, iter, call, stable>>

-----------------------------------------------------------------------------
(* Go's x & y, the largest number all of whose bits x and y have. *)
Powers(n) == {w \in 1 .. n : \E i \in 0 .. n : w = 2 ^ i}

HasBit(n, w) == (n \div w) % 2 = 1

And(x, y) ==
    Max({z \in 0 .. y : \A w \in Powers(y) : HasBit(z, w) => HasBit(x, w) /\ HasBit(y, w)})

(* Cache.getShard: with a number of shards that is not a power of two the mask
   leaves some shards without keys. *)
getShard(k) == And(Hash[k], NumShards - 1)

KeysIn(shard) == {k \in present : getShard(k) = shard}

(* Seeded fault: prefix and suffix are mixed up. *)
matchPatternSwapped(k, p) ==
    LET stars == {i \in DOMAIN p : p[i] = Star}
    IN  CASE p = <<Star>> -> TRUE
          [] Len(p) > 1 /\ {1, Len(p)} \subseteq stars ->
                \E i, j \in 1 .. Len(k) + 1 : SubSeq(k, i, j - 1) = SubSeq(p, 2, Len(p) - 1)
          [] Len(p) > 1 /\ 1 \in stars /\ Len(p) \notin stars -> IsPrefix(Tail(p), k)
          [] Len(p) > 1 /\ 1 \notin stars /\ Len(p) \in stars -> IsSuffix(Front(p), k)
          [] OTHER -> k = p

(* A star counts at the beginning and at the end of a pattern only. *)
matchPattern(k, p) ==
    LET stars == {i \in DOMAIN p : p[i] = Star}
    IN  CASE p = <<Star>> -> TRUE
          [] Len(p) > 1 /\ {1, Len(p)} \subseteq stars ->
                \E i, j \in 1 .. Len(k) + 1 : SubSeq(k, i, j - 1) = SubSeq(p, 2, Len(p) - 1)
          [] Len(p) > 1 /\ 1 \in stars /\ Len(p) \notin stars -> IsSuffix(Tail(p), k)
          [] Len(p) > 1 /\ 1 \notin stars /\ Len(p) \in stars -> IsPrefix(Front(p), k)
          [] OTHER -> k = p

(* Seeded fault: the loop begins one position too late. *)
ScannedAfterOffset(shard, offset, pattern, limit) ==
    LET all == KeysIn(shard)
        rest == IF offset + 1 < Cardinality(all) THEN Cardinality(all) - offset - 1 ELSE 0
    IN  UNION {LET hits == {k \in tail : matchPattern(k, pattern)}
               IN  kSubset(Min({Cardinality(hits), limit}), hits)
               : tail \in kSubset(rest, all)}

(* Shard.Scan: the sets of keys it may return.  Behind the offset there is some
   set of as many keys as are left, and of those that match it takes the first
   ones up to the limit. *)
Scanned(shard, offset, pattern, limit) ==
    LET all == KeysIn(shard)
        rest == IF offset < Cardinality(all) THEN Cardinality(all) - offset ELSE 0
    IN  UNION {LET hits == {k \in tail : matchPattern(k, pattern)}
               IN  kSubset(Min({Cardinality(hits), limit}), hits)
               : tail \in kSubset(rest, all)}

(* The offset advances by the keys returned, not by the positions visited. *)
nextOffset(offset, keys) == offset + Cardinality(keys)

-----------------------------------------------------------------------------
NoIter == [pc |-> "none"]

NoCall == [pc |-> "none"]

Init ==
    /\ present \in SUBSET Keys
    /\ changes = 0
    /\ iter = NoIter
    /\ call = NoCall
    /\ stable = present

(* The client begins to iterate; the handler takes "*" and 10 for a MATCH and
   a COUNT that are not given.  Only clients that keep to the protocol are
   modelled: cursors come from replies, and COUNT is not negative.  Cache.Scan
   does not test either: a negative cursor would index out of range. *)
Begin ==
    /\ iter.pc \in {"none", "done"}
    /\ \E p \in Patterns, n \in Counts :
           iter' = [pc |-> "next", pattern |-> p, count |-> n, cursor |-> 0,
                    calls |-> 0, total |-> 0, seen |-> {}, quiet |-> TRUE]
    /\ stable' = present
    /\ UNCHANGED <<present, changes, call>>

(* SCAN: the cursor is taken apart. *)
ScanCall ==
    /\ iter.pc = "next"
    /\ iter' = [iter EXCEPT !.pc = "wait", !.calls = IF @ = 0 THEN 1 ELSE 2]
    /\ call' = [pc |-> "shard", shard |-> iter.cursor \div CursorBase,
                offset |-> iter.cursor % CursorBase, keys |-> {}]
    /\ UNCHANGED <<present, changes, stable>>

(* The reply: what was found so far, and the next cursor. *)
Reply(keys, cursor) ==
    /\ call' = NoCall
    /\ iter' = [iter EXCEPT !.pc = IF cursor = 0 THEN "done" ELSE "next",
                            !.cursor = cursor,
                            !.total = @ + Cardinality(keys),
                            !.seen = @ \cup keys]

ShardsLeft == call.shard < NumShards

(* Seeded fault: the offset is kept for the next shard. *)
ResetKept(offset) == offset

(* Where to begin in the shard after one that was left at an offset. *)
Reset(offset) == 0

(* One shard: enough keys end the call, otherwise the next shard is visited
   from its beginning. *)
ScanShard ==
    /\ call.pc = "shard"
    /\ ShardsLeft
    /\ \E found \in Scanned(call.shard, call.offset, iter.pattern,
                            iter.count - Cardinality(call.keys)) :
           LET keys == call.keys \cup found
           IN  IF Cardinality(keys) >= iter.count
               THEN Reply(keys, call.shard * CursorBase + nextOffset(call.offset, found))
               ELSE /\ call' = [call EXCEPT !.shard = @ + 1, !.offset = Reset(@), !.keys = keys]
                    /\ UNCHANGED iter
    /\ UNCHANGED <<present, changes, stable>>

(* Seeded fault: the end of the last shard is reported like any other place. *)
ScanEndCursor ==
    /\ call.pc = "shard"
    /\ ~ ShardsLeft
    /\ Reply(call.keys, NumShards * CursorBase)
    /\ UNCHANGED <<present, changes, stable>>

ScanEnd ==
    /\ call.pc = "shard"
    /\ ~ ShardsLeft
    /\ Reply(call.keys, 0)
    /\ UNCHANGED <<present, changes, stable>>

(* Another connection adds a key, or a key is deleted, evicted or expires. *)
Change(k) ==
    /\ changes < MaxChanges
    /\ changes' = changes + 1
    /\ present' = IF k \in present THEN present \ {k} ELSE present \cup {k}
    /\ stable' = stable \ {k}
    /\ iter' = IF iter.pc # "none" THEN [iter EXCEPT !.quiet = FALSE] ELSE iter
    /\ UNCHANGED call

Iterate == ScanCall \/ ScanShard \/ ScanEnd

Next == Begin \/ Iterate \/ \E k \in Keys : Change(k)

(* A client that has begun an iteration goes on with it, and calls return. *)
Spec == Init /\ [][Next]_vars /\ WF_vars(Iterate)

-----------------------------------------------------------------------------
(* Properties *)

(* An iteration that the first call completes has returned every key that
   matches and was present all the time, whatever other connections did. *)
OneCallIsComplete ==
    iter.pc = "done" /\ iter.calls = 1 /\ iter.count > 0 =>
        {k \in stable : matchPattern(k, iter.pattern)} \subseteq iter.seen

(* An iteration over several calls returns as many keys as there are, if it
   asks for all keys, nothing changes and no shard is larger than a cursor can
   say.  Since the order changes from call to call, some of them may be missing
   and others may come twice. *)
TotalIsRight ==
    /\ iter.pc = "done"
    /\ iter.count > 0
    /\ iter.quiet
    /\ iter.pattern = <<Star>>
    /\ \A s \in 0 .. NumShards - 1 : Cardinality(KeysIn(s)) <= CursorBase
    => iter.total = Cardinality(present)

(* A key matches a pattern when it is the pattern with something in place of
   its first and of its last star: the reading of MATCH as a glob, for
   patterns with stars at their ends. *)
MatchIsGlob ==
    iter.pc = "next" /\ (\A i \in DOMAIN iter.pattern :
                             iter.pattern[i] = Star => i \in {1, Len(iter.pattern)}) =>
        LET p == iter.pattern
            free(i) == Len(p) > 0 /\ p[i] = Star
            fixed == SubSeq(p, IF free(1) THEN 2 ELSE 1,
                               IF free(Len(p)) THEN Len(p) - 1 ELSE Len(p))
        IN  \A k \in Keys :
                matchPattern(k, p) <=>
                    \E n \in 0 .. Len(k) :
                        /\ IsPrefix(fixed, SubSeq(k, n + 1, Len(k)))
                        /\ free(1) \/ n = 0
                        /\ free(Len(p)) \/ n + Len(fixed) = Len(k)

(* Every iteration ends: also with COUNT 0 (which gets nothing and is told that
   it is done), when shards are too large for the cursor, and while keys come
   and go. *)
ScanEnds == iter.pc = "next" ~> iter.pc = "done"

=============================================================================
