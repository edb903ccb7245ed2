------------------------------ MODULE Recovery ------------------------------
(* What a process finds when it starts: Manager.loadData and its choice between
   the append-only file, the RDB snapshot and the JSON snapshot, together with
   the saves that write the snapshots while clients write the cache
   (internal/persistence/manager.go, rdb.go and json.go).

   A save runs in a goroutine that a ticker has started.  It reads one shard
   after the other, each under that shard's lock, into a temporary file or into
   memory, and renames the file at the end.  The process may end at any moment.
   The configuration may change from one process to the next.

   A write reaches the append-only file by way of a goroutine of its own and
   of a buffer (AOF.LogCommand, AOF.Flush), so that the file lags behind the
   cache and the records of one key may overtake each other.  The file itself
   is represented by the contents that its replay gives.

   Only strings are saved and restored; expiry, eviction, disk errors and a
   record that the end of the process cuts in two (module Stream) are left out,
   and so is rotateSnapshots: after a save it removes the oldest of the files
   beside the JSON snapshot, which is itself the newest one by then; Load reads
   none of the others.                                                       *)
EXTENDS Naturals, Sequences, FiniteSets

CONSTANTS
    Keys,
    Hash,           \* the fnv hash of a key
    Configs,        \* the sets of persistence kinds that may be enabled
    ShardCounts,    \* the values of shard_count, powers of two
    MaxWrites       \* bound on the writes of a behaviour

ASSUME HashAssumption == Hash \in [Keys -> Nat]
ASSUME ConfigAssumption == Configs \subseteq SUBSET {"aof", "rdb", "json"}
ASSUME ShardAssumption ==
    /\ IsFiniteSet(ShardCounts)
    /\ \A n \in ShardCounts : n \in Nat \ {0} /\ \E e \in 0 .. n : n = 2^e
ASSUME BoundAssumption == MaxWrites \in Nat

Snapshots == {"rdb", "json"}

(* A value is the number of the SET that stored it. *)
Absent == 0
Values == 0 .. MaxWrites
Empty  == [k \in Keys |-> Absent]

NoFile == <<>>      \* os.IsNotExist
Idle   == [on |-> FALSE, read |-> <<>>]

(* A command on its way into the log, with the number of its write. *)
Records == [n : 1 .. MaxWrites, key : Keys, val : Values]

VARIABLES
    mode,       \* "up", "down", or "panic": down after loading has panicked
    config,     \* the kinds that are enabled
    shards,     \* Cache.shards: per shard, the values of the keys
    waiting,    \* the records of the LogCommand goroutines that have not run
    buffer,     \* AOF.writer: records that are not in the file yet
    aofFile,    \* NoFile, or <<contents after replay>>
    snapshot,   \* per snapshot kind: NoFile, or <<shard id -> values>>
    saving,     \* per snapshot kind: Idle, or the shards read so far
    writes,     \* number of writes so far
    saved,      \* history: what the last completed save of a kind has read
    since,      \* history: per kind and key, the values since its save began
    recent,     \* history: per key, the values it has had since no record of it
                \* was on its way to the file
    raced,      \* history: the keys written, in this process, while an earlier
                \* write of the same key was still waiting for its goroutine
    logged,     \* history: every process so far had the AOF enabled
    counts      \* history: the values of shard_count so far

log  == <<waiting, buffer, aofFile, recent, raced>>
vars == <<mode, config, shards, log, snapshot, saving, writes, saved, since,
          logged, counts>>

Down == mode \in {"down", "panic"}

-----------------------------------------------------------------------------
numShards == Cardinality(DOMAIN shards)

(* Cache.getShard, for a number of shards that is a power of two. *)
getShard(k, n) == Hash[k] % n

(* What Get sees. *)
Contents == [k \in Keys |-> shards[getShard(k, numShards)][k]]

(* Seeded fault: off by one. *)
NewCacheOneMore(n) == [i \in 0 .. n |-> Empty]

NewCache(n) == [i \in 0 .. n - 1 |-> Empty]

Init ==
    /\ mode = "down"
    /\ config = {}
    /\ \E n \in ShardCounts : shards = NewCache(n)
    /\ waiting = {}
    /\ buffer = <<>>
    /\ aofFile = NoFile
    /\ recent = [k \in Keys |-> {Absent}]
    /\ raced = {}
    /\ snapshot = [s \in Snapshots |-> NoFile]
    /\ saving = [s \in Snapshots |-> Idle]
    /\ writes = 0
    /\ saved = [s \in Snapshots |-> Empty]
    /\ since = [s \in Snapshots |-> [k \in Keys |-> {}]]
    /\ logged = TRUE
    /\ counts = {}

-----------------------------------------------------------------------------
(* Manager.Start *)

(* The new process, with the cache that loading has given it.  AOF.Start opens
   the log, or creates it. *)
Boot(cfg, n, cache) ==
    /\ mode' = "up"
    /\ config' = cfg
    /\ shards' = cache
    /\ aofFile' = IF "aof" \in cfg /\ aofFile = NoFile THEN <<Empty>> ELSE aofFile
    /\ recent' = [k \in Keys |-> {Contents'[k]}]
    /\ raced' = {}
    /\ logged' = (logged /\ "aof" \in cfg)
    /\ counts' = counts \cup {n}
    /\ UNCHANGED <<waiting, buffer, snapshot, saving, writes, saved, since>>

(* Seeded fault: the snapshot comes first. *)
UsesAofUnlessRdb(cfg) ==
    "aof" \in cfg /\ aofFile # NoFile /\ snapshot["rdb"] = NoFile

(* Priority 1: a log that can be opened ends the search. *)
UsesAof(cfg) == "aof" \in cfg /\ aofFile # NoFile

LoadAof ==
    /\ Down
    /\ \E cfg \in Configs, n \in ShardCounts :
           /\ UsesAof(cfg)
           /\ Boot(cfg, n, [i \in 0 .. n - 1 |->
                               [k \in Keys |-> IF getShard(k, n) = i
                                               THEN aofFile[1][k] ELSE Absent]])

(* Priority 2: the RDB.  RDB.Load succeeds as well when there is no file, so
   that priority 3 is reached only if the RDB is not enabled. *)
Uses(cfg, s) ==
    /\ ~ UsesAof(cfg)
    /\ s \in cfg
    /\ s = "json" => "rdb" \notin cfg

(* Shard.Restore for every shard of the file: GetShard indexes a slice. *)
Fits(s, n) ==
    snapshot[s] # NoFile => \A i \in DOMAIN snapshot[s][1] : i < n

Restored(s, n) ==
    [i \in 0 .. n - 1 |->
        IF snapshot[s] # NoFile /\ i \in DOMAIN snapshot[s][1]
        THEN snapshot[s][1][i] ELSE Empty]

LoadSnapshot(s) ==
    /\ Down
    /\ \E cfg \in Configs, n \in ShardCounts :
           /\ Uses(cfg, s)
           /\ Fits(s, n)
           /\ Boot(cfg, n, Restored(s, n))

(* A shard id that is out of range is a panic. *)
LoadPanics(s) ==
    /\ Down
    /\ \E cfg \in Configs, n \in ShardCounts :
           /\ Uses(cfg, s)
           /\ ~ Fits(s, n)
           /\ counts' = counts \cup {n}
    /\ mode' = "panic"
    /\ UNCHANGED <<config, shards, log, snapshot, saving, writes, saved, since,
                   logged>>

(* Nothing to load from: an empty cache. *)
LoadNothing ==
    /\ Down
    /\ \E cfg \in Configs, n \in ShardCounts :
           /\ ~ UsesAof(cfg)
           /\ \A s \in Snapshots : ~ Uses(cfg, s)
           /\ Boot(cfg, n, NewCache(n))

-----------------------------------------------------------------------------
(* Clients and the log *)

(* A record of k waits for its goroutine or is in the buffer. *)
UnderWay(k, wait, buf) ==
    \/ \E r \in wait : r.key = k
    \/ \E i \in DOMAIN buf : buf[i].key = k

(* A handler: the cache first, then a goroutine for the record, if the AOF is
   enabled. *)
Put(k, v) ==
    LET i == getShard(k, numShards)
    IN  /\ mode = "up"
        /\ writes < MaxWrites
        /\ writes' = writes + 1
        /\ shards' = [shards EXCEPT ![i][k] = v]
        /\ waiting' = IF "aof" \in config
                      THEN waiting \cup {[n |-> writes + 1, key |-> k, val |-> v]}
                      ELSE waiting
        /\ recent' = [recent EXCEPT ![k] = @ \cup {v}]
        /\ raced' = IF \E r \in waiting : r.key = k THEN raced \cup {k} ELSE raced
        /\ since' = [s \in Snapshots |->
                        IF ~ saving[s].on THEN since[s]
                        ELSE [since[s] EXCEPT ![k] = @ \cup {v}]]
        /\ UNCHANGED <<mode, config, buffer, aofFile, snapshot, saving, saved,
                       logged, counts>>

Set(k) == Put(k, writes + 1)

Delete(k) == Put(k, Absent)

(* AOF.LogCommand: whichever goroutine gets the mutex. *)
LogCommand ==
    /\ mode = "up"
    /\ \E r \in waiting :
           /\ waiting' = waiting \ {r}
           /\ buffer' = Append(buffer, r)
    /\ UNCHANGED <<mode, config, shards, aofFile, recent, raced, snapshot, saving,
                   writes, saved, since, logged, counts>>

(* AOF.Flush, or a write to a full buffer: the oldest record of the buffer goes
   to the file.  A flush of more is a series of these steps, and the process
   may end between any two of them. *)
Flush ==
    /\ mode = "up" /\ buffer # <<>>
    /\ buffer' = Tail(buffer)
    /\ LET r == Head(buffer)
       IN  /\ aofFile' = <<[aofFile[1] EXCEPT ![r.key] = r.val]>>
           /\ recent' = [k \in Keys |-> IF k = r.key /\ ~ UnderWay(k, waiting, buffer')
                                        THEN {Contents[k]} ELSE recent[k]]
    /\ UNCHANGED <<mode, config, shards, waiting, raced, snapshot, saving, writes,
                   saved, since, logged, counts>>

-----------------------------------------------------------------------------
(* Saves *)

(* Seeded fault: the file is opened in place, without a temporary one. *)
SaveBeginInPlace(s) ==
    /\ mode = "up" /\ s \in config /\ ~ saving[s].on
    /\ saving' = [saving EXCEPT ![s] = [on |-> TRUE, read |-> <<>>]]
    /\ since' = [since EXCEPT ![s] = [k \in Keys |-> {Contents[k]}]]
    /\ snapshot' = [snapshot EXCEPT ![s] = <<NewCache(numShards)>>]
    /\ UNCHANGED <<mode, config, shards, log, writes, saved, logged, counts>>

(* Seeded fault: the first shard is taken over from the last snapshot. *)
SaveBeginIncremental(s) ==
    /\ mode = "up" /\ s \in config /\ ~ saving[s].on
    /\ saving' = [saving EXCEPT ![s] =
                      [on |-> TRUE, read |-> IF snapshot[s] = NoFile THEN <<>>
                                             ELSE <<Restored(s, numShards)[0]>>]]
    /\ since' = [since EXCEPT ![s] = [k \in Keys |-> {Contents[k]}]]
    /\ UNCHANGED <<mode, config, shards, log, snapshot, writes, saved, logged, counts>>

(* The ticker fires; one save of a kind at a time has the mutex. *)
SaveBegin(s) ==
    /\ mode = "up" /\ s \in config /\ ~ saving[s].on
    /\ saving' = [saving EXCEPT ![s] = [on |-> TRUE, read |-> <<>>]]
    /\ since' = [since EXCEPT ![s] = [k \in Keys |-> {Contents[k]}]]
    /\ UNCHANGED <<mode, config, shards, log, snapshot, writes, saved, logged, counts>>

(* GetItems of the next shard. *)
SaveShard(s) ==
    /\ mode = "up" /\ saving[s].on
    /\ Len(saving[s].read) < numShards
    /\ saving' = [saving EXCEPT ![s].read = Append(@, shards[Len(@)])]
    /\ UNCHANGED <<mode, config, shards, log, snapshot, writes, saved, since, logged,
                   counts>>

(* Seeded fault: the shards of the file are numbered from one. *)
ShardsInFileFromOne(s, read) ==
    [i \in {j \in 1 .. Len(read) : s = "json" \/ read[j] # Empty} |-> read[i]]

(* Seeded fault: the shards that are written are numbered one after another. *)
ShardsInFileRenumbered(s, read) ==
    LET written == SelectSeq(read, LAMBDA m : s = "json" \/ m # Empty)
    IN  [i \in 0 .. Len(written) - 1 |-> written[i + 1]]

(* The shards in the file: the RDB skips those without items. *)
ShardsInFile(s, read) ==
    [i \in {j \in 0 .. Len(read) - 1 : s = "json" \/ read[j + 1] # Empty}
        |-> read[i + 1]]

(* Every shard has been read: flush and rename. *)
SaveRename(s) ==
    /\ mode = "up" /\ saving[s].on
    /\ Len(saving[s].read) = numShards
    /\ snapshot' = [snapshot EXCEPT ![s] = <<ShardsInFile(s, saving[s].read)>>]
    /\ saved' = [saved EXCEPT ![s] =
                    [k \in Keys |-> saving[s].read[getShard(k, numShards) + 1][k]]]
    /\ saving' = [saving EXCEPT ![s] = Idle]
    /\ since' = [since EXCEPT ![s] = [k \in Keys |-> {}]]
    /\ UNCHANGED <<mode, config, shards, log, writes, logged, counts>>

(* The process ends, by a crash or by a graceful stop: neither waits for a save
   that is under way, and Stop begins none.  What only memory held is lost:
   AOF.Stop flushes the buffer, by steps Flush before this one, but waits for
   no goroutine, and a crash does not flush.  The cache is kept for the
   properties to look at. *)
Exit ==
    /\ mode = "up"
    /\ mode' = "down"
    /\ saving' = [s \in Snapshots |-> Idle]
    /\ since' = [s \in Snapshots |-> [k \in Keys |-> {}]]
    /\ waiting' = {}
    /\ buffer' = <<>>
    /\ UNCHANGED <<config, shards, aofFile, recent, raced, snapshot, writes, saved,
                   logged, counts>>

Next ==
    \/ LoadAof \/ LoadNothing \/ Exit \/ LogCommand \/ Flush
    \/ \E s \in Snapshots :
           \/ LoadSnapshot(s) \/ LoadPanics(s)
           \/ SaveBegin(s) \/ SaveShard(s) \/ SaveRename(s)
    \/ \E k \in Keys : Set(k) \/ Delete(k)

Spec == Init /\ [][Next]_vars

-----------------------------------------------------------------------------
(* Properties *)

ShardMaps == [Keys -> Values]

TypeOK ==
    /\ mode \in {"up", "down", "panic"}
    /\ config \subseteq {"aof", "rdb", "json"}
    /\ \E n \in ShardCounts : shards \in [0 .. n - 1 -> ShardMaps]
    /\ waiting \subseteq Records
    /\ buffer \in Seq(Records)
    /\ aofFile = NoFile \/ aofFile[1] \in ShardMaps
    /\ recent \in [Keys -> SUBSET Values]
    /\ raced \subseteq Keys
    /\ \A s \in Snapshots :
           \/ snapshot[s] = NoFile
           \/ \A i \in DOMAIN snapshot[s][1] :
                  i \in Nat /\ snapshot[s][1][i] \in ShardMaps
    /\ saving \in [Snapshots -> [on : BOOLEAN, read : Seq(ShardMaps)]]
    /\ writes \in 0 .. MaxWrites
    /\ saved \in [Snapshots -> ShardMaps]
    /\ since \in [Snapshots -> [Keys -> SUBSET Values]]
    /\ logged \in BOOLEAN
    /\ counts \subseteq ShardCounts

(* A save that overlaps writes stores for every key a value that the key had
   while the save was under way (rdb.go Save, json.go collectData): never an
   older one, and never one that was deleted before the save began. *)
SnapshotIsRecent ==
    [][\A s \in Snapshots :
          saving[s].on /\ ~ saving'[s].on /\ mode' = "up" =>
              \A k \in Keys : saved'[s][k] \in since[s][k]]_vars

(* shard_count has been changed between two processes. *)
Resized == Cardinality(counts) > 1

(* A start from a snapshot gives what the last completed save has read,
   whatever saves were cut short since then by a crash or by a stop, as long as
   shard_count stays the same. *)
RestoresLastSave ==
    [][\A s \in Snapshots :
          LoadSnapshot(s) /\ ~ Resized' => Contents' = saved[s]]_vars

(* As long as shard_count stays the same, a key lies in the shard in which Get
   looks for it, after every restart: no restored item is unreachable and still
   counted. *)
KeysInTheirShard ==
    ~ Resized =>
        \A i \in DOMAIN shards, k \in Keys :
            shards[i][k] # Absent => i = getShard(k, numShards)

(* A start panics on the shards of a snapshot only if shard_count was changed. *)
PanicsOnlyWhenResized == mode = "panic" => Resized

(* As long as every process had the AOF enabled, a restart after a crash or a
   stop gives every key a value it has had since its log was last caught up, and
   so its very last value if the log was caught up when the process ended
   (string.go "go LogCommand", aof.go LogCommand, Flush, Stop and Load):
   whatever snapshots lie about, older or newer (manager.go loadData), and
   whatever the number of shards was.  Not so for a key that was written while
   an earlier write of it waited for its goroutine: the two records may be in
   the file in the wrong order, and stay so. *)
LoggedIsRecent ==
    [][(Down /\ mode' = "up" /\ logged') =>
           \A k \in Keys \ raced : Contents'[k] \in recent[k]]_vars

(* manager.go, "Priority 1: AOF (most up-to-date)": if the AOF was enabled in
   the process that ended, and its file is what the next one loads, then it is
   as recent as a log that lags behind can be. *)
AofIsMostUpToDate ==
    [][(LoadAof /\ "aof" \in config) =>
           \A k \in Keys \ raced : Contents'[k] \in recent[k]]_vars

=============================================================================
