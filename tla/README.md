# A TLA+ model of pendem

pendem is a Redis-compatible cache server in Go: a TCP server that speaks RESP,
a sharded in-memory store with LRU eviction and expiry, transactions with
optimistic locking, and three kinds of persistence (an append-only file, a
binary RDB snapshot and a JSON snapshot). This directory holds TLA+ modules for
its parts, TLC configurations that check them on small
instances, and TLAPS proofs, for every instance, of the safety properties of the
shard, transactions, the server, the AOF, recovery and the handlers. Every command
handler, the data types, SCAN and the RESP codec are modelled too.

Paths below are relative to the repository's root. `PROJECT.json` has the full
correspondence between definitions and source lines, the list of hazards, and
the seeded faults by which each property was shown to be sensitive to the code.

## 1. Inventory

| Component | State | Operations | Interacts with |
|---|---|---|---|
| Shard and LRU (`internal/engine/shard.go`, `lru.go`, `item.go`, `evictor.go`) | `items` map, recency list `order`, `currentMem`, `Shard.mu`; maps of hashes, lists, sets, sorted sets | Set, Get, TTL, Delete, HasKey, CleanupExpired, Restore, GetItems, Scan | called by the cache for every command, by the sweep every five minutes, by the snapshots |
| Cache (`cache.go`, `pattern.go`) | slice of shards | getShard, forwarding of key operations, Scan over shards, cleanupLoop | handlers, persistence |
| Data types (`hash.go`, `list.go`, `set.go`, `sortedset.go`) | one object per key with a lock of its own | HSET/HGET/..., LPUSH/..., SADD/..., ZADD/... | handlers, AOF replay |
| Handlers (`internal/handler/*.go`) | none | one per command: parse the arguments, call the cache, start a goroutine that logs | server, cache, persistence manager |
| Server and connections (`internal/server/server.go`, `connection.go`) | listener, `quit`, `activeConn`, `wg`; per connection `closed`, `authenticated`, last activity | Start (accept loop), handleConnection, MonitorIdle, Close, ShutdownWithTimeout | handlers, transactions, main |
| Transactions (`internal/server/transaction.go`, `connection.go`) | per connection `inTransaction`, `queuedCommands`, `watchedKeys`, `dirty`; `Server.watchers` under `watcherMu` | MULTI, EXEC, DISCARD, WATCH, UNWATCH, markWatchedKeysDirty, cleanupWatchers | every write command |
| RESP codec (`internal/server/resp.go`) | a buffered reader | Read, Marshal | server, AOF |
| AOF (`internal/persistence/aof.go`) | buffered writer, file | LogCommand, Flush, flushLoop, Load, replayCommand, Stop | handlers, manager |
| RDB and JSON snapshots (`rdb.go`, `json.go`) | a file, a temporary file, a mutex | Save, Load, Start (ticker), Stop | cache, manager |
| Persistence manager (`manager.go`) | which kinds are enabled | Start with loadData, Stop, Save, LogCommand | main, handlers |
| Configuration (`internal/config`) | a record | parse, defaults | main |
| main (`cmd/main.go`) | | set-up, signal, shutdown with timeout, deferred Stop | all |

What is hard here, and what correctness means:

* **Shard.** Get and TTL read under `RLock`, decide, and delete under a later
  `Lock`; eviction is a loop under the lock; `currentMem`, the map and the list
  are changed by separate statements on five paths; `MoveToFront` writes the
  list under a read lock. Correct: map and list hold the same keys, the counter
  is the sum of the sizes, the memory and capacity limits hold, what is evicted
  was least recently used, lookups delete only what they may, no call returns
  with the mutex; and all together a map in which only a Set changes an entry and
  an entry disappears only for a reason that can be named.
* **Transactions.** Goroutines of different connections mark each other dirty
  between any two steps of WATCH, MULTI and EXEC. Correct: no announced write is
  lost before EXEC reads the flag; nobody waits for `watcherMu` for ever.
* **Server.** The accept loop, the handlers, the idle monitors, the goroutines
  that wait for `quit`, and the shutdown, all closing the same sockets. Correct:
  the connection limit, no lost slot, nothing is served after the shutdown has
  returned, silent clients do not hold the shutdown up.
* **AOF.** Each record is carried by a goroutine of its own; a buffer, a ticker,
  crashes and a graceful stop decide what reaches the file. Correct: replay
  rebuilds the cache, no record twice, every record eventually in the file.
* **Handlers and data types.** A command is several calls of the cache, each
  atomic by itself; commands of two connections interleave between them, some
  fail half-way, and the log sees only the command. Correct: a cache rebuilt from
  the log answers like the running one, the numbers of added and removed members
  that commands on sets, sorted sets and hashes report add up, MSETNX overwrites nothing, ranges are the elements between two positions.
* **SCAN.** An iteration over many calls, shard by shard, in an order that Go
  changes every time. Correct: one call misses nothing that stays, an undisturbed
  iteration returns as many keys as there are, every iteration ends.
* **RESP.** The same parser reads clients and the AOF, whose last record may be
  torn and followed by others. Correct: what is complete is read back as it was
  written, up to the tear; the values of which this is not true can be named.
* **Recovery.** Three files of different ages, saves that overlap writes,
  processes that end in a save, settings that change between two starts.
  Correct: the last completed save is restored, saved values are not older than
  the save, keys come back where Get looks for them, and a log that was always
  enabled gives a value that is no older than the records still under way.

## 2. Modules

| Module | Models | Remarks |
|---|---|---|
| `Shard` | one shard, its evictor and the expiry sweep | one step per critical section, one per iteration of the eviction loop and of the sweep |
| `CacheSpec` | what a shard promises: a map that forgets for a reason | abstract: requests of clients, entries and the time; no limits, recency, locks or sweep |
| `ShardCache` | `Shard` as an implementation of `CacheSpec` | the refinement mapping |
| `LruRing` | the evictor's list at the level of `container/list` pointers | one step per assignment of `move`; two overlapping lookups |
| `Transaction` | MULTI/EXEC/DISCARD/WATCH/UNWATCH, marking, cleanup | one step per critical section of `Connection.mu` or `watcherMu` |
| `AOF` | handlers of SET, DEL and APPEND, logging goroutines, buffer, file, process, replay | a value is the sequence of the pieces it was built from |
| `Server` | accept loop, handlers, AUTH, idle timeout, shutdown, main | what a command does is one step |
| `Recovery` | `Manager.loadData`, RDB and JSON saves and loads, a sequence of processes with different settings | the AOF is represented by the contents its replay gives, and by the records that wait for their goroutine or are in the buffer |
| `DataTypes` | the operations of hashes, lists, sets and sorted sets | operators on functions, sequences and sets |
| `Handlers` | every command handler on strings and objects, the log, `replayCommand` | extends `DataTypes`; one step per call of the cache or of an object; read commands are operators on a cache |
| `Scan` | `Cache.Scan`, `Shard.Scan`, `getShard`, `matchPattern`, a client that iterates | one step per shard visited |
| `Resp` | encoder and parser of `resp.go` over bytes | recursive operators, for TLC only |
| `Stream` | log records and answers as bytes, buffered, passed on in pieces, cut, continued | extends `Resp` |
| `ShardProofs`, `TransactionProofs`, `ServerProofs`, `AOFProofs`, `RecoveryProofs`, `HandlersProofs`, `ScanProofs` | TLAPS proofs about the module of that name | `ShardProofs` extends `ShardCache` and has the proof of the refinement |
| `FoldLemmas` | the lemmas on recursion and sums that the proofs share | no state |
| `MC*` | values of the constants for TLC | |

The correspondence is close: variables carry the names of the Go fields, and an
action carries the name of the function or of the part of it that it stands for.
The points that are not obvious:

**Shard.** A client is a goroutine inside one shard call; `call[c]` holds its
program counter and locals. `Shard.mu` is `mu`: a section under `Lock` that is
more than one step holds it, a section under `RLock` is one step. `CallGet`
stands for Get and TTL, whose control flow is the same. `NewItem` reads the clock
after the lock has been taken, as the code does. `usedAfter` is a history
variable that records which of two keys was used later, independently of the
list. At most one client looks keys up (`ReadersAssumption`): two lookups that
overlap are a data race on the list, and its outcomes are the subject of
`LruRing`. HasKey, Size, GetItems and Scan change nothing.

**Transaction.** `task[c]` is where the goroutine of a connection is. A single
key write is `SET`, a read is `GET`; DEL and MSET keep their several keys. `BAD` is
a write command with arguments that its handler rejects: the server has marked
the watchers of its keys before the handler sees them, and nothing is written.
Marking is under `watcherMu` and takes the `Connection.mu` of one watcher after the
other: a step `MarkConn` each, then `MarkKey`, which drops the key from `watchers`.
`announced` and `written` are history: whether a writer has announced, or really
written, a key of a connection since it was watched. EXEC is `ExecCheck`
(reads `dirty`), then `ExecAbort` or `ExecTake`, then the commands one by one.

**AOF.** `pending` are the goroutines started with `go LogCommand` that have not
run; any of them may be next. `Signal` and then `Stop` is the graceful way down,
`ShutdownTimeout` is `os.Exit`, `Crash` is anything else. The cache is kept
after `Exit` only for properties to refer to. `raced` is history.

**Server.** `pc[c]` takes a connection from `new` over the listener's backlog and
the handler's loop to `done`. `wg.Add` is in the new goroutine (`HandlerBegin`),
as in the code. `RejectClose` is the goroutine that closes a connection after a
wrong password. A command that is already in the parser's buffer can be read after
the socket was closed, and `ReadDone` allows it. The goroutine that waits for `quit`
closes the socket (`WatchQuit`) and then the handler's `shutdown` channel
(`WatchQuitDone`).

**Recovery.** A process is started by one of the `Load*` actions with any
configuration from `Configs` and any `shard_count`, and ended by `Exit` at any
moment, which is a crash or a graceful stop: neither waits for a save. `saving`
holds the shards that a save has read so far. Shards without items are left out
of an RDB file and kept in a JSON file. A write of the cache starts a goroutine for
its record (`waiting`); `LogCommand` lets any of them append to `buffer`, `Flush` takes
the oldest record of the buffer to the file, and `Exit` loses what is in either.
`rotateSnapshots` is left out: it removes the oldest files beside the JSON
snapshot, which a save has just made the newest, and Load reads none of the others.
`saved`, `since`, `recent`, `raced`, `logged` and `counts` are history; `recent[k]` are the
values that `k` has had since no record of it was under way.

**CacheSpec and ShardCache.** A client asks for one thing (`Ask`) and is answered.
`Put` stores the value that was asked for under the key that was asked for, and
may forget one other entry, which is eviction at capacity; `Evict` is eviction
for memory and needs a Set under way; `Delete` takes away the key that was asked
for; `Expire` is the sweep. A lookup misses (`Miss`) or is handed what the map
holds under its key (`Look`), and then returns it (`Hit`) or, if it has expired,
drops the entry that is there by then (`DropExpired`). That a Set between the two
loses its value is thus part of the promise, and the only loss of this kind. The
mapping drops the sizes, the list and the lock, and reads the request of a client
off its program counter (`askedIn`).

**Handlers.** `db` has one map per type, as a shard has. A command is a record of
its operation, key and arguments; arguments in pairs are pairs, so that "wrong
number of arguments" is the empty sequence. `Create` and `Find` are
`GetOrCreateX` and `GetX`; the loops of HSET, HDEL, ZADD, ZREM, MSET, MSETNX, DEL
and MGET make a step per iteration, and HSET two, because `Hash.Has` and
`Hash.Set` lock separately. LPUSH, SADD and their like are one step: the object's
lock is held throughout. An expiration is "EX", "PX", none or "past". `Elapse`
lets a part of it go by (`aged`), and `Expire` the rest, which makes it "past". All
read commands are operators; `Replies` collects the answers of all of them but
TTL, which tells the whole expiration from a part of it and is compared by itself. `raced`
(keys whose commands overlapped), `lossy` (keys with a change that no record
describes) and `tally` (for hashes, sets and sorted sets: members that handlers have counted as added
minus those counted as removed, to be reported when they return) are history.
Lists have no tally: a push reports the new length. A ZADD that fails half-way
reports an error and not its count, and `CountsAddUp` leaves its key out.

**Scan.** A key is a sequence of characters. `And` is Go's `&`, defined by the
bits that both numbers have. Since Go's map order is random,
`Scanned` gives every set of keys that some order could yield. `Change` adds or
removes any key between any two steps. The client follows the protocol: it begins
with 0 and goes on with the cursor it was given. Cursors made up by a client and
negative numbers are not covered.

**Resp and Stream.** A byte is a one-character string, CR or LF. `PassOn(n)` moves
any number of bytes out of the buffer, so that a tear can be at any byte. `intact`
are the values before the first tear. `Clean` says which values the parser reads
back: not an empty bulk string, not an array nested too deeply, and not a simple
string or an error that holds a line end, since these end at the first one. Input on which the Go code would panic (a
length line of one byte, a negative length other than -1) has no value in the
parser, and TLC would report it: no stream that was written by the program, torn
or not, contains it in the instance that is checked.

## 3. Runs

Run from this directory: `tlc -workers 2 -config <cfg> <module>`.

| Run | Configuration | Shows |
|---|---|---|
| `shard` | `MCShard.cfg` | `TypeOK`, `ListMapAgree`, `MemAccounting`, `MemoryBound`, `CapacityBound`, `LockIsHeldInside`, `EvictsLeastRecentlyUsed`, `LookupRemovesExpiredOrReplaced`, `ImplementsCache` |
| `lru_ring_race` | `MCLruRingRace.cfg` | `EveryKeyListed` is violated |
| `transaction` | `MCTransaction.cfg` | `TypeOK`, `AnnouncedMeansDirty`, `CommitSeesAnnouncements`, `CommandsComplete` |
| `transaction_late_write` | `MCTransactionLateWrite.cfg` | `CommitMeansUnchanged` is violated |
| `aof` | `MCAOF.cfg` | `TypeOK`, `LogCatchesUp`, `RecordedOnce`, `StopSavesLogged`, `EventuallyDurable` |
| `aof_order` | `MCAOFOrder.cfg` | `LogIsUpToDate` is violated |
| `server` | `MCServer.cfg` | `TypeOK`, `ConnectionLimit`, `SlotsReturn`, `NoServiceAfterShutdown`, `ShutdownEndsConnections` |
| `recovery` | `MCRecovery.cfg` | `TypeOK`, `KeysInTheirShard`, `PanicsOnlyWhenResized`, `SnapshotIsRecent`, `RestoresLastSave`, `LoggedIsRecent` |
| `recovery_aof` | `MCRecoveryAof.cfg` | `AofIsMostUpToDate` is violated |
| `handlers` | `MCHandlers.cfg` | `TypeOK`, `ReplayAnswersAlike`, `CountsAddUp`, `RangesAreSlices`, `MsetnxKeepsValues` |
| `scan` | `MCScan.cfg` | `OneCallIsComplete`, `TotalIsRight`, `MatchIsGlob`, `ScanEnds` |
| `stream` | `MCStream.cfg` | `IntactFirst`, `ReadsWhatIsComplete` |

### Bounds, and why they are enough

* `shard`: two clients (one of them looks keys up) and the sweep; three keys for
  a capacity of two, so that a full evictor and an absent key meet; sizes such
  that three small items would fit (so that the capacity is what limits them), a
  large one fills the shard together with a small one and can replace or be
  replaced by one in place, and a huge one is larger than the shard; ttl negative
  and positive; a clock of three ticks, the least in which an item can expire and
  be replaced. Keys are symmetric, and no liveness is checked.
* `transaction`: two connections, two keys watched by one WATCH (its loop has
  two iterations with a lock in each), MSET of both keys in the opposite order,
  GET, a rejected write of one key, one queued command. A connection that is gone does not come back, which is
  why deadlock is not checked. Longer queues are covered by the proofs.
* `aof`: two connections, one key (keys do not influence each other in the log
  but for the order, which `aof_order` is about), two pieces, three commands, any
  number of crashes and restarts. Three commands are the least in which two
  overlapping writes and an undisturbed one occur.
* `server`: three clients for one place: one is served, one is refused, and one
  comes when the place is free again; a password is required. The process ends,
  which is why deadlock is not checked.
* `recovery`: two keys in different shards, one or two shards, two writes, all
  eight combinations of persistence kinds, and any number of processes. Two writes
  are enough for a record that lags behind a later one, for two records of a key
  in either order, and for a snapshot that is newer than the file.
* `handlers`: two connections, four commands. A behaviour uses commands on one
  type only, since objects of different types share nothing; two keys for
  strings, one for objects. The commands of a type include one that creates, one
  that overwrites or repeats a member, one that removes, one with several
  arguments and one that fails; four are enough for two that create, overlapping,
  one that removes, and one on the result. Connections are symmetric.
* `scan`: three shards, of which the mask reaches two, four keys, three of them in
  one shard whose cursors have room for two offsets (the code has 10000), two
  changes, counts 0, 1, 2 and 5 (more than there are keys), seven patterns.
* `stream`: up to three values in a row, of every type, with line ends in the strings, with
  empty strings, nested to the limit (2, in the code 32) and beyond, a simple string and an error
  with a line end among them; every way of cutting them. For a file, further records follow behind the tear.

### Fairness, and what justifies it

* A goroutine that can run runs (`WF` of the steps that wait for nothing): the
  Go scheduler is preemptive and has a fair run queue.
* A goroutine that waits for `watcherMu` gets it (`SF` of the steps
  that take a lock): `sync.Mutex` has a starvation mode that hands the lock to
  the longest waiter after a millisecond.
* The ticker of `flushLoop` fires (`WF(Flush)`), and each logging goroutine gets
  its turn (`WF(LogRecord(n))`).
* A command handler ends, and the goroutine that waits for `quit` runs, both of its
  steps.
* A client that has begun to iterate with SCAN goes on, and its calls return
  (`WF(Iterate)`): `ScanEnds` is about such a client.
* Nothing else is assumed of clients, nor of signals, timeouts, the clock, the expiry sweep
  starting, or crashes.

### Disagreements between code and comments

* `lru_ring_race`: `MoveToFront` under `RLock` (`shard.go:74`, `lru.go:89`); two
  lookups leave a present key off the ring, where eviction does not find it.
* `transaction_late_write`: a writer marks the watchers before it writes
  (`server.go:240`); a WATCH after the marking and an EXEC after the write commit.
* `aof_order`: two writes of a key are logged by two goroutines in either order
  (`string.go:84`); replay restores the older value.
* `recovery_aof`: with the AOF enabled on a deployment that has used the RDB, the
  first start restores the RDB and creates an empty log; the second start replays
  the empty log.

Further observations that the models contain and no run is devoted to:

* Get and TTL read an expired item, release the lock, and remove the key under a
  new lock (`shard.go:85`); a Set in between loses its value. What does hold is
  `LookupRemovesExpiredOrReplaced`.
* A bulk string of length 0 leaves its CR LF unread (`resp.go:142`): an empty
  argument in a record ends the replay of the AOF there.
* A torn record swallows part of the next one, or stops the replay; everything
  behind it is lost at the next start, though not what is before it.
* An iteration with several calls of SCAN can miss keys and repeat others, since
  an offset means nothing in an order that changes; the number of keys is right
  when nothing changes. The offset advances by the keys that matched
  (`shard.go:293`), so that with MATCH positions are visited again. COUNT 0 ends
  at once. The example in the comment of `Cache.Scan` ("cursor 1005 → shard 1,
  offset 5", `cache.go:196`) is not what the code does with 1005.
* DEL and EXISTS know strings only; hashes, lists, sets and sorted sets cannot be
  deleted.
* A ZADD with a bad score after a good one stores the first pair and logs nothing
  (`sortedset.go:32`).
* Two HSETs of a new field may both count it (`hash.go:34`).
* SET with PX is replayed without an expiration, and EX starts anew (`aof.go:159`).
* EXEC reads `dirty` and takes the queue under two separate locks
  (`transaction.go:80`): a write that is announced in between does not stop the
  commit. `CommitSeesAnnouncements` is about the step that reads the flag.
* A write command that its handler rejects has marked the watchers all the same
  (`server.go:237-241`): their EXEC aborts although nothing changed.
* Bytes of the client come back in error and simple strings (`server.go:232`,
  `common.go:56` and `92`); a line end in them makes the client read several answers.
* UNWATCH leaves `dirty` and the registrations in `Server.watchers`; a later EXEC
  aborts although nothing is watched (`transaction.go:162`).
* `extractKeys` announces only the first key of DEL (`transaction.go:187`).
* `cleanupWatchers` misses registrations whose key has been dropped from
  `watchedKeys` before (`transaction.go:284`).
* Overwriting a key counts the old entry as used memory and may evict other keys,
  or the key itself, without need (`lru.go:47`).
* `replayCommand` has no case for APPEND (`aof.go:378`).
* A graceful stop does not wait for logging goroutines (`aof.go:111`): the wait
  group is never added to. `StopSavesLogged` is about stops without any.
* `wg.Add` is called inside the goroutine it counts (`server.go:291`): Shutdown
  can return before a handler has started. `NoServiceAfterShutdown` shows that
  such a handler serves nothing.
* `RDB.Load` succeeds without a file, so that a JSON snapshot is not tried while
  the RDB is enabled (`rdb.go:177`).
* A smaller `shard_count` makes a start from a snapshot panic, a larger one
  leaves keys where Get does not look (`cache.go:120`).

## 4. Proofs

`tlapm <module>.tla` checks the proofs of a module; HandlersProofs takes the
longest. They hold for every set of connections, keys, values and commands and
for every limit, under these named assumptions, which TLC evaluates in the runs:

* `Shard`: lookups do not overlap, sizes and limits are natural numbers,
  `Nobody` is not a client. `Transaction`: a command has at least one key.
* `Server`: `NoConn` is no connection, and at least one connection is allowed.
* `AOF`: the commands are among SET, DEL and APPEND.
* `Recovery`: a hash is a natural number, and `shard_count` is one of finitely
  many powers of two, which is what `Config.Validate` asks for (`config.go:191`). main
  only warns about others; for those the mask is not the remainder, and `Scan`,
  which has the mask itself, is checked with such a number.
* `Handlers`: commands are well-formed records (`CommandAssumption`): the argument
  lists have the types that the handlers parse them to.
* `Scan`: there are finitely many keys, keys and patterns are sequences
  (`KeysAssumption`), and the numbers are natural numbers (`SizeAssumption`). Any
  number of shards is covered, powers of two or not, and nothing is assumed about
  the hash.

Every safety theorem has the same shape: an inductive invariant `Inv`, a lemma per
action (or kind of action) that keeps it, `NextKeepsInv` or a lemma like it that
collects them, `Invariance`, and one short theorem per property.

**ShardProofs.** `Inv` is the conjunction of `TypeOK`, `ListMapAgree`,
`MemoryBound`, `CapacityBound` and two strengthenings:

* `Recency`: the list is sorted by `usedAfter`. Without it nothing connects the
  end of the list with "least recently used".
* `RemoveKnowsExpired`: a lookup that is about to remove has found the item it
  read expired. Time only moves forward, so if the entry is still that item it is
  still expired.

The effects of the list operations are lemmas of their own (`DropAtElems`,
`PushFrontElems`, `MoveToFrontEffect`); each way in which Add and Remove change
the store keeps the part of the invariant called `Store` (`RemoveKeepsStore`,
`UpdateKeepsStore`, `InsertKeepsStore`, `ReplaceKeepsStore`), and `NextKeepsInv`
has one step per action. `MemoryBound` is inductive because eviction goes on
until the new item fits or the list is empty. `LockIsHeldInside` is inductive with
`TypeOK` alone. `MemAccounting` needs the sum of the sizes to be independent of the order in
which the entries are added up; that comes from `FoldLemmas`, and then every path
through Add and Remove changes the counter by what it changes the sum. Theorems:
`Invariance`, `LockCorrect`, `TypeCorrect`, `ListMapCorrect`, `MemoryBounded`,
`CapacityBounded`, `MemoryCounted`, `EvictionCorrect`, `LookupRemovalCorrect`, the
last two about steps.

The module ends with the theorem `Refinement`: `Spec` implies `ImplementsCache`.
`InitRefines` maps initial states. `StepRefines` maps every step, under `Inv`, to a
step of `CacheSpec` or to a stutter, with a lemma for each kind of action
(`BeginRefines` to `CleanupRefines`). They rest on `AskedFacts` (what a call at each
program counter has asked for), `GotoAsks` (only the client that moves changes its
request), `RemoveForgets` (Remove takes away the key and nothing else) and
`StoreIsPut` (each way of adding is a `Put` that forgets at most the oldest entry).
`RemoveKnowsExpired` is needed here as well: the lookup that removes a key must be
one that `DropExpired` allows.

**TransactionProofs.** `Inv` is `TypeOK`, `AnnouncedMeansDirty` and

* `WatchTracked`: a key that is watched is registered with the server, or the
  connection is already dirty. This is what makes a mark reach its reader, and it
  has to survive marking, which uses the registration up.
* `CleanupMeansGone`: only connections that are gone remove registrations.

Theorems: `Invariance`, `TypeCorrect`, `AnnouncementsKept`, `CommitCorrect`. The last one
is about the step in which EXEC reads the flag, not about the later one in which it
takes the queue: what is announced in between goes unseen.

**ServerProofs.** `Inv` is `TypeOK`, `NoServiceAfterShutdown` and

* `CountersCount`: `activeConn` and `wg` are the numbers of connections that are
  in a part of their life in which they are counted. `ConnectionLimit` and
  `SlotsReturn` follow from it.
* `HandIsSafe`: when the accept loop has a connection in hand for which it found a
  free place, the place is still free: only the accept loop takes places, so that
  reading the counter in one step and incrementing it in another does no harm.
* `QuitFirst`: the shutdown has closed `quit` before it does anything else. A handler
  that has not called `wg.Add` when Shutdown returns finds `quit` closed.

Theorems: `TypeCorrect`, `LimitHolds`, `NoSlotIsLost`, `ShutdownIsFinal`.

**AOFProofs.** `Inv` says, beside types, that a process that is down has
nothing in memory (`MemoryLost`), that a key whose writes have not overlapped has at most one
record under way (`OneWaits`), that no record has a number that
is still to come and none is in two places (`Numbered`, `RecordedOnce`), and the heart of it,
`LogTells`: the last record about a replayable key, in the file, then the buffer,
then under way, tells the value that the cache has. That replay ends in what the
last record tells (`LoadTells`) follows from `LoadSteps`, which unfolds the fold
into a chain of steps. Theorems: `TypeCorrect`, `NoRecordTwice`, `LogIsComplete`,
`StopIsDurable`.

**RecoveryProofs.** `Inv` is `Typed`, `Running` (a process that is up has counted
its shards and opened its log, one that is not has no save under way), `OneSize` and `LaidOut` (while `shard_count` has not changed, the
shards and the files have keys where `getShard` looks), `Panicked`, `Recent` (what
a save has read so far was in the cache since it began) and `LogHolds`. The latter
says, while the AOF has always been enabled, that no snapshot is older than the file
and that, for a key that has not raced, the value in the file is in `recent`. To be
inductive it needs `InLog`: a record that waits, or the last one in the buffer if none
waits, tells the value in the cache; earlier ones in the buffer tell values in
`recent`; and when nothing is under way the file itself has the value of the cache. Theorems:
`TypeCorrect`, `ShardsStayRight`, `PanicMeansResized`, `SavesAreRecent`,
`LastSaveIsRestored`, `LoggedSurvives`.

**HandlersProofs.** `Inv` is

* `Typed`: the types, and that a handler which has looked its object up finds it
  there until it ends, since objects are never deleted;
* `NoRivals`: two write commands under way that share a key have raced;
* `Tested`: what MSETNX knows about its keys between its tests and its stores;
* `Counts`: for sets, sorted sets and hashes, the excess of `tally` over the size of
  an object is zero; for a hash that has not raced it is one between the two steps
  of HSET. This is what was counted; it is also what was reported, but for a ZADD
  that failed half-way, whose key the property leaves out.

The argument: every handler step changes `db` and `tally` as a `Step`, for nearly
all of them a balanced one (the object grows by what is reported), and the few
others are dealt with one by one (`ListStep`: lists are not counted). `LRangeIsSlice` and `ZRangeIsSlices` are about
the operators alone and hold for all integer positions, negative ones and ones beyond the
end included. Theorems: `TypeCorrect`, `CountsAreRight`, `MsetnxIsCareful`,
`RangesCutSlices`.

That replay is faithful has an inductive invariant of its own, `ReplayInv`: `Inv` and

* `Mirror`, the heart of it: for a clean key (neither raced nor lossy), the cache
  shows what the log and the one command on the way make of the key. If that
  command is in its handler, "what it makes" is the replay of the arguments it has
  carried out so far; if its record waits to be written, the replay of the whole
  command; and if there is none, the log alone. The property speaks of quiet
  states only and says nothing about those in between.
* `Rivals`: commands that share a key on their way to the log have their keys
  raced. This extends `NoRivals` to the records that wait to be written, and it is
  why there is at most one such command for a clean key, so that the order in
  which the goroutines write does not matter.
* `NxAbsent`: while an MSETNX stores its pairs, replay would not find its keys,
  and so it carries the MSETNX out as the handler does.
* `Lives`, `Lost`, `Written`: items of clean keys have not expired, commands that
  replay does not understand have made their keys lossy, and only write commands
  are on their way to the log.

What two caches show at a key is compared by `Alike`, which the replies are a
function of. `LoadSteps` says that a log with one more record is replayed by one
more step, as in `AOFProofs`; then there is one lemma per command that its record
does to a replayed object what the handler's steps do to the cached one, and one
that a command leaves other keys alone. TTL is compared as well, but for the
expirations in seconds, which begin anew. Theorems: `ReplayInvariance`,
`ReplayIsFaithful`.

**ScanProofs.** `Inv` is `Typed` and

* `Collecting`: a call has keys of shards it has left only, so that what the next
  shard yields is new, and fewer than it was asked for;
* `FirstCall`: the first call begins every shard at offset zero and has all the
  stable matching keys of the shards behind it. A shard that yields fewer keys than
  there was room for has yielded all of its matching keys;
* `Counting`: in an undisturbed iteration over all keys the number of keys returned
  is that of the keys before the place of the cursor (`AtPlace`), whichever keys
  these were. A full shard of `CursorBase` keys, where the cursor runs over into the
  next shard, is still right.

`ScannedFacts` says what any set that `Shard.Scan` may return has in common, for
every order of the map. `And` stays within its mask (so that every key is in some
shard), and that is all the proofs need of it. `MatchesAreGlobs` rests on lemmas about
sequences (`PrefixFits`, `SuffixFits`, `PartFits`, `RestFits`) that say of each of
the four comparisons at which place the fixed part of the pattern lies. Theorems:
`Invariance`, `OneCallCompletes`, `TotalsAreRight`, `MatchesAreGlobs`.

**FoldLemmas.** Induction theorems with an operator as parameter cannot be
instantiated by the installed provers, so what the folds compute is proved here
from the existence of a least counterexample (`WFMin`-style, with sets and
functions as parameters). The other modules cite the results.

**Only model-checked:**

* the liveness properties `CommandsComplete`, `EventuallyDurable`,
  `ShutdownEndsConnections` and `ScanEnds`: fairness is beyond these provers;
* `ReadsWhatIsComplete` and `IntactFirst` of `Stream`: values and their parser are
  recursive, the SMT backend is not available to modules with `RECURSIVE`
  operators, and that parsing undoes encoding is an induction over values, which
  the installed provers cannot do.

All other properties of the passing runs are stated by a theorem.

## 5. Not modelled, and why

* Eviction in connection with the AOF: the log does not mention it, and replay
  brings evicted keys back. In `Handlers` nothing is evicted.
* Isolation of EXEC: its commands run one by one, and the code promises no more;
  `Transaction` has the steps and no values.
* `rotateSnapshots`, for the reason given at `Recovery` in section 2, and clients of
  SCAN that make up cursors or send negative numbers.
* PING, ECHO, POLICY, MEMORY, `Size` and the like: answers without state.
* The byte format of the RDB, JSON encoding, disk errors, configuration parsing,
  logging, `INFO`-like queries: input and output, without state of their own.
* Memory model effects below the order of assignments in `LruRing`.

## 6. Plan

Done: all modules above, and the proofs of section 4. What is left, if the code
changes or the provers can do more:

1. `Stream`: the parser as the inverse of the encoder, by induction over values.
2. The liveness properties, whose fairness is in section 3.
3. Eviction and the AOF together, once the code logs evictions.
