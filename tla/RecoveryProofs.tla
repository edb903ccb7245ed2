--------------------------- MODULE RecoveryProofs ---------------------------
(* Proofs about Recovery for every set of keys with every hash, every set of
   configurations, every choice of shard counts and every bound on the writes. *)
EXTENDS Recovery, FiniteSetTheorems, SequenceTheorems, TLAPS

USE DEF Snapshots, log

(* What a snapshot file can hold: some of the shards. *)
Files == UNION {[D -> ShardMaps] : D \in SUBSET Nat}

-----------------------------------------------------------------------------
(* Shards *)

(* The number of shards is the length of the slice. *)
LEMMA CountOfShards ==
    ASSUME NEW n \in ShardCounts
    PROVE  /\ n \in Nat /\ n >= 1
           /\ Cardinality(0 .. n - 1) = n
<1>1. n \in Nat /\ n >= 1
  BY ShardAssumption
<1>2. Cardinality(0 .. n - 1) = IF 0 > n - 1 THEN 0 ELSE (n - 1) - 0 + 1
  BY <1>1, FS_Interval
<1> QED
  BY <1>1, <1>2

(* Cache.getShard finds a shard that exists. *)
LEMMA ShardExists ==
    ASSUME NEW n \in ShardCounts, NEW k \in Keys
    PROVE  getShard(k, n) \in 0 .. n - 1
<1>1. n \in Nat /\ n >= 1 /\ Hash[k] \in Nat
  BY CountOfShards, HashAssumption
<1> QED
  BY <1>1 DEF getShard

(* One count of shards at most: shard_count was not changed. *)
LEMMA NotResized ==
    ASSUME NEW C, C \subseteq ShardCounts, ~ (Cardinality(C) > 1)
    PROVE  C = {} \/ \E n \in ShardCounts : C = {n}
<1>1. IsFiniteSet(C)
  BY ShardAssumption, FS_Subset
<1>2. Cardinality(C) \in Nat
  BY <1>1, FS_CardinalityType
<1>3. Cardinality(C) = 0 \/ Cardinality(C) = 1
  BY <1>2
<1>4. CASE Cardinality(C) = 0
  BY <1>1, <1>4, FS_EmptySet
<1>5. CASE Cardinality(C) = 1
  BY <1>1, <1>5, FS_Singleton
<1> QED
  BY <1>3, <1>4, <1>5

-----------------------------------------------------------------------------
(* The inductive invariant *)

Typed ==
    /\ mode \in {"up", "down", "panic"}
    /\ config \subseteq {"aof", "rdb", "json"}
    /\ numShards \in ShardCounts
    /\ shards \in [0 .. numShards - 1 -> ShardMaps]
    /\ waiting \subseteq Records
    /\ buffer \in Seq(Records)
    /\ aofFile \in {NoFile} \cup {<<m>> : m \in ShardMaps}
    /\ recent \in [Keys -> SUBSET Values]
    /\ raced \subseteq Keys
    /\ snapshot \in [Snapshots -> {NoFile} \cup {<<f>> : f \in Files}]
    /\ saving \in [Snapshots -> [on : BOOLEAN, read : Seq(ShardMaps)]]
    /\ writes \in 0 .. MaxWrites
    /\ saved \in [Snapshots -> ShardMaps]
    /\ since \in [Snapshots -> [Keys -> SUBSET Values]]
    /\ logged \in BOOLEAN
    /\ counts \subseteq ShardCounts

(* A process that runs has counted its shards and opened the log, which it
   writes to only if the AOF is enabled; the others have no record and no save
   under way. *)
Running ==
    /\ mode = "up" => numShards \in counts /\ ("aof" \in config => aofFile # NoFile)
    /\ waiting # {} \/ buffer # <<>> => mode = "up" /\ "aof" \in config
    /\ \A s \in Snapshots : Len(saving[s].read) <= numShards
                            /\ (mode # "up" => saving[s] = Idle)

(* The items of m belong into shard i of n. *)
Placed(m, i, n) == \A k \in Keys : m[k] # Absent => i = getShard(k, n)

(* What a start from a snapshot of kind s will find for key k. *)
InSnapshot(s, k, n) ==
    LET i == getShard(k, n)
    IN  IF snapshot[s] # NoFile /\ i \in DOMAIN snapshot[s][1]
        THEN snapshot[s][1][i][k] ELSE Absent

(* All is laid out for n shards, in memory, in the files and on the way. *)
LaidOut(n) ==
    /\ counts # {} => numShards = n
    /\ \A i \in DOMAIN shards : Placed(shards[i], i, n)
    /\ \A s \in Snapshots :
           /\ snapshot[s] # NoFile =>
                  \A i \in DOMAIN snapshot[s][1] : i < n /\ Placed(snapshot[s][1][i], i, n)
           /\ \A j \in DOMAIN saving[s].read : Placed(saving[s].read[j], j - 1, n)
           /\ \A k \in Keys : saved[s][k] = InSnapshot(s, k, n)

OneSize == \A n \in ShardCounts : counts \subseteq {n} => LaidOut(n)

Panicked == mode = "panic" => \A n \in ShardCounts : ~ (counts \subseteq {n})

(* What a save has read, and what it has still to read, is recent. *)
Recent ==
    \A s \in Snapshots : saving[s].on =>
        \A k \in Keys :
            /\ Contents[k] \in since[s][k]
            /\ getShard(k, numShards) + 1 \in DOMAIN saving[s].read =>
                   saving[s].read[getShard(k, numShards) + 1][k] \in since[s][k]

(* The log of key k.  Its newest record, in a goroutine or else the last one in
   the buffer, tells the value in the cache; without a record under way the
   file tells it. *)
InLog(k) ==
    /\ Contents[k] \in recent[k]
    /\ \A r \in waiting : r.key = k => r.val = Contents[k]
    /\ \A i \in DOMAIN buffer :
           buffer[i].key = k =>
               /\ buffer[i].val \in recent[k]
               /\ \/ buffer[i].val = Contents[k]
                  \/ \E r \in waiting : r.key = k
                  \/ \E j \in DOMAIN buffer : j > i /\ buffer[j].key = k
    /\ ~ UnderWay(k, waiting, buffer) => aofFile[1][k] = Contents[k]

(* With the AOF always enabled its file is recent, but for the keys whose
   records raced, and there is no snapshot older than the file. *)
LogHolds ==
    logged =>
        /\ mode = "up" => "aof" \in config
        /\ aofFile = NoFile => /\ \A s \in Snapshots : snapshot[s] = NoFile
                               /\ \A k \in Keys : Absent \in recent[k]
        /\ aofFile # NoFile =>
               \A k \in Keys \ raced : /\ aofFile[1][k] \in recent[k]
                                       /\ mode = "up" => InLog(k)

Inv == Typed /\ Running /\ OneSize /\ Panicked /\ Recent /\ LogHolds

(* A cache of n shards, in any state of the process. *)
LEMMA CacheShape ==
    ASSUME NEW n \in ShardCounts, NEW M, NEW cache \in [0 .. n - 1 -> M]
    PROVE  Cardinality(DOMAIN cache) = n
  BY CountOfShards

(* Get answers for every key. *)
LEMMA ContentsType ==
    ASSUME Typed
    PROVE  /\ Contents \in ShardMaps
           /\ \A k \in Keys : /\ getShard(k, numShards) \in 0 .. numShards - 1
                              /\ Contents[k] = shards[getShard(k, numShards)][k]
<1>1. \A k \in Keys : getShard(k, numShards) \in 0 .. numShards - 1
  BY ShardExists DEF Typed
<1>2. \A k \in Keys : shards[getShard(k, numShards)] \in ShardMaps
  BY <1>1 DEF Typed
<1>3. \A k \in Keys : shards[getShard(k, numShards)][k] \in Values
  BY <1>2 DEF ShardMaps
<1> QED
  BY <1>1, <1>3 DEF Contents, ShardMaps

(* Nothing is stored under a key at first. *)
LEMMA EmptyType == Empty \in ShardMaps /\ \A k \in Keys : Empty[k] = Absent
  BY BoundAssumption DEF Empty, ShardMaps, Values, Absent

(* A new cache has as many empty shards as it is asked for. *)
LEMMA NewCacheShape ==
    ASSUME NEW n \in ShardCounts
    PROVE  NewCache(n) \in [0 .. n - 1 -> ShardMaps]
           /\ \A i \in 0 .. n - 1 : NewCache(n)[i] = Empty
  BY EmptyType DEF NewCache

(* The first process has not started: everything is empty. *)
LEMMA InitInv == Init => Inv
<1> SUFFICES ASSUME Init
             PROVE  Inv
  OBVIOUS
<1>1. PICK n \in ShardCounts : shards = NewCache(n)
  BY DEF Init
<1>2. numShards = n /\ shards \in [0 .. n - 1 -> ShardMaps]
      /\ \A i \in DOMAIN shards : shards[i] = Empty
  BY <1>1, NewCacheShape, CacheShape DEF numShards
<1>3. Typed
  <2>1. <<>> \in Seq(ShardMaps) /\ Idle \in [on : BOOLEAN, read : Seq(ShardMaps)]
    BY DEF Idle
  <2>2. writes \in 0 .. MaxWrites
    BY BoundAssumption DEF Init
  <2>3. waiting \subseteq Records /\ buffer \in Seq(Records)
        /\ recent \in [Keys -> SUBSET Values] /\ raced \subseteq Keys
    BY EmptyType DEF Init, ShardMaps
  <2> QED
    BY <1>2, <2>1, <2>2, <2>3, EmptyType DEF Init, Typed
<1>4. Running
  <2>1. Len(<<>>) = 0 /\ n \in Nat
    BY CountOfShards
  <2> QED
    BY <1>2, <2>1 DEF Init, Running, Idle
<1>5. OneSize
  <2> SUFFICES ASSUME NEW m \in ShardCounts
               PROVE  LaidOut(m)
    BY DEF OneSize
  <2>1. \A i \in DOMAIN shards : Placed(shards[i], i, m)
    BY <1>2, EmptyType DEF Placed
  <2>2. \A s \in Snapshots, k \in Keys : saved[s][k] = InSnapshot(s, k, m)
    BY EmptyType DEF InSnapshot, Init
  <2> QED
    BY <2>1, <2>2 DEF LaidOut, Init, Idle
<1>6. Panicked /\ Recent
  BY DEF Init, Panicked, Recent, Idle
<1>7. LogHolds
  BY DEF Init, LogHolds
<1> QED
  BY <1>3, <1>4, <1>5, <1>6, <1>7 DEF Inv

-----------------------------------------------------------------------------
(* Starts *)

(* A start with a cache that is laid out for n shards, if it has always been n,
   and that has the contents of the log, if it has always been enabled. *)
LEMMA BootKeeps ==
    ASSUME Inv, Down, NEW cfg \in Configs, NEW n \in ShardCounts,
           NEW cache \in [0 .. n - 1 -> ShardMaps], Boot(cfg, n, cache),
           counts \subseteq {n} => \A i \in 0 .. n - 1 : Placed(cache[i], i, n),
           logged /\ "aof" \in cfg =>
               \A k \in Keys : cache[getShard(k, n)][k] =
                                   IF aofFile = NoFile THEN Absent ELSE aofFile[1][k]
    PROVE  Inv'
<1>1. Typed /\ Running /\ mode # "up"
  BY DEF Inv, Down
<1>2. /\ mode' = "up" /\ config' = cfg /\ shards' = cache
      /\ aofFile' = IF "aof" \in cfg /\ aofFile = NoFile THEN <<Empty>> ELSE aofFile
      /\ recent' = [k \in Keys |-> {Contents'[k]}] /\ raced' = {}
      /\ logged' = (logged /\ "aof" \in cfg) /\ counts' = counts \cup {n}
      /\ UNCHANGED <<waiting, buffer, snapshot, saving, writes, saved, since>>
  BY DEF Boot
<1>3. numShards' = n /\ n \in Nat /\ DOMAIN shards' = 0 .. n - 1
  BY <1>2, CacheShape, CountOfShards DEF numShards
<1>4. Typed'
  <2>1. aofFile' \in {NoFile} \cup {<<m>> : m \in ShardMaps}
    BY <1>1, <1>2, EmptyType DEF Typed
  <2>2. config' \subseteq {"aof", "rdb", "json"}
    BY <1>2, ConfigAssumption
  <2>3. counts' \subseteq ShardCounts /\ logged' \in BOOLEAN
    BY <1>1, <1>2 DEF Typed
  <2>4. recent' \in [Keys -> SUBSET Values]
    <3>1. \A k \in Keys : getShard(k, n) \in 0 .. n - 1
      BY ShardExists
    <3>2. Contents' = [k \in Keys |-> cache[getShard(k, n)][k]]
      BY <1>2, <1>3 DEF Contents
    <3>3. \A k \in Keys : Contents'[k] \in Values
      BY <3>1, <3>2 DEF ShardMaps
    <3> QED
      BY <1>2, <3>3
  <2> QED
    BY <1>1, <1>2, <1>3, <2>1, <2>2, <2>3, <2>4 DEF Typed
<1>5. (\A s \in Snapshots : saving[s] = Idle) /\ waiting = {} /\ buffer = <<>>
  BY <1>1 DEF Running
<1>6. Running'
  <2>1. Len(<<>>) <= n
    BY <1>3
  <2>2. <<Empty>> # NoFile
    BY DEF NoFile
  <2> QED
    BY <1>2, <1>3, <1>5, <2>1, <2>2 DEF Running, Idle
<1>7. OneSize'
  <2> SUFFICES ASSUME NEW m \in ShardCounts, counts' \subseteq {m}
               PROVE  LaidOut(m)'
    BY DEF OneSize
  <2>1. m = n /\ counts \subseteq {n}
    BY <1>2
  <2>2. LaidOut(n)
    BY <2>1 DEF Inv, OneSize
  <2>3. \A i \in DOMAIN shards' : Placed(shards'[i], i, n)
    BY <1>2, <1>3, <2>1
  <2>4. \A s \in Snapshots, k \in Keys : saved'[s][k] = InSnapshot(s, k, n)'
    BY <1>2, <2>2 DEF LaidOut, InSnapshot
  <2> QED
    BY <1>2, <1>3, <2>1, <2>2, <2>3, <2>4 DEF LaidOut
<1>8. Panicked'
  BY <1>2 DEF Panicked
<1>9. Recent'
  BY <1>2, <1>5 DEF Recent, Idle
<1>10. LogHolds'
  <2> SUFFICES ASSUME logged, "aof" \in cfg
               PROVE  aofFile' # NoFile
                      /\ \A k \in Keys : aofFile'[1][k] \in recent'[k] /\ InLog(k)'
    BY <1>2 DEF LogHolds
  <2>1. aofFile' # NoFile
    BY <1>2 DEF NoFile
  <2>2. Contents' = [k \in Keys |-> cache[getShard(k, n)][k]]
    BY <1>2, <1>3 DEF Contents
  <2>3. ASSUME NEW k \in Keys
        PROVE  aofFile'[1][k] = Contents'[k]
    <3>1. CASE aofFile = NoFile
      <4>1. aofFile'[1] = Empty
        BY <1>2, <3>1
      <4> QED
        BY <2>2, <3>1, <4>1, EmptyType
    <3>2. CASE aofFile # NoFile
      <4>1. aofFile'[1] = aofFile[1]
        BY <1>2, <3>2
      <4> QED
        BY <2>2, <3>2, <4>1
    <3> QED
      BY <3>1, <3>2
  <2>4. \A k \in Keys : Contents'[k] \in recent'[k]
    BY <1>2
  <2>5. \A k \in Keys : InLog(k)'
    BY <1>2, <1>5, <2>3, <2>4 DEF InLog
  <2> QED
    BY <2>1, <2>3, <2>4, <2>5
<1> QED
  BY <1>4, <1>6, <1>7, <1>8, <1>9, <1>10 DEF Inv

(* The replay of the log puts every key into its shard. *)
LEMMA LoadAofKeeps ==
    ASSUME Inv, LoadAof
    PROVE  Inv'
<1>1. PICK cfg \in Configs, n \in ShardCounts :
          /\ UsesAof(cfg)
          /\ Boot(cfg, n, [i \in 0 .. n - 1 |->
                              [k \in Keys |-> IF getShard(k, n) = i
                                              THEN aofFile[1][k] ELSE Absent]])
  BY DEF LoadAof
<1>2. PICK cache : cache = [i \in 0 .. n - 1 |->
                               [k \in Keys |-> IF getShard(k, n) = i
                                               THEN aofFile[1][k] ELSE Absent]]
  OBVIOUS
<1>3. Down /\ aofFile # NoFile /\ aofFile[1] \in ShardMaps
  BY <1>1 DEF LoadAof, UsesAof, Inv, Typed
<1>4. Absent \in Values
  BY BoundAssumption DEF Absent, Values
<1>5. cache \in [0 .. n - 1 -> ShardMaps]
  BY <1>2, <1>3, <1>4 DEF ShardMaps
<1>6. \A i \in 0 .. n - 1 : Placed(cache[i], i, n)
  BY <1>2 DEF Placed
<1>7. \A k \in Keys : cache[getShard(k, n)][k] = aofFile[1][k]
  BY <1>2, ShardExists
<1>8. Boot(cfg, n, cache)
  BY <1>1, <1>2
<1> QED
  BY <1>3, <1>5, <1>6, <1>7, <1>8, BootKeeps

(* What Shard.Restore leaves in the shards. *)
LEMMA RestoredShape ==
    ASSUME Typed, NEW s \in Snapshots, NEW n \in ShardCounts
    PROVE  /\ Restored(s, n) \in [0 .. n - 1 -> ShardMaps]
           /\ \A k \in Keys : Restored(s, n)[getShard(k, n)][k] = InSnapshot(s, k, n)
<1>1. ASSUME snapshot[s] # NoFile, NEW i \in DOMAIN snapshot[s][1]
      PROVE  snapshot[s][1][i] \in ShardMaps
  <2>1. PICK f \in Files : snapshot[s] = <<f>>
    BY <1>1 DEF Typed
  <2>2. PICK D \in SUBSET Nat : f \in [D -> ShardMaps]
    BY DEF Files
  <2>3. snapshot[s][1] = f /\ i \in D
    BY <1>1, <2>1, <2>2
  <2> QED
    BY <2>2, <2>3
<1>2. Restored(s, n) \in [0 .. n - 1 -> ShardMaps]
  BY <1>1, EmptyType DEF Restored
<1>3. ASSUME NEW k \in Keys
      PROVE  Restored(s, n)[getShard(k, n)][k] = InSnapshot(s, k, n)
  BY ShardExists, EmptyType DEF Restored, InSnapshot
<1> QED
  BY <1>2, <1>3

(* A start from a snapshot. *)
LEMMA LoadSnapshotKeeps ==
    ASSUME Inv, NEW s \in Snapshots, LoadSnapshot(s)
    PROVE  Inv'
<1>1. PICK cfg \in Configs, n \in ShardCounts :
          Uses(cfg, s) /\ Fits(s, n) /\ Boot(cfg, n, Restored(s, n))
  BY DEF LoadSnapshot
<1>2. PICK cache : cache = Restored(s, n)
  OBVIOUS
<1>3. Down /\ Typed
  BY DEF LoadSnapshot, Inv
<1>4. cache \in [0 .. n - 1 -> ShardMaps]
      /\ \A k \in Keys : cache[getShard(k, n)][k] = InSnapshot(s, k, n)
  BY <1>2, <1>3, RestoredShape
<1>5. ASSUME counts \subseteq {n}, NEW i \in 0 .. n - 1
      PROVE  Placed(cache[i], i, n)
  <2>1. LaidOut(n)
    BY <1>5 DEF Inv, OneSize
  <2>2. CASE snapshot[s] # NoFile /\ i \in DOMAIN snapshot[s][1]
    BY <1>2, <2>1, <2>2 DEF LaidOut, Restored
  <2>3. CASE ~ (snapshot[s] # NoFile /\ i \in DOMAIN snapshot[s][1])
    BY <1>2, <2>3, EmptyType DEF Restored, Placed
  <2> QED
    BY <2>2, <2>3
<1>6. ASSUME logged, "aof" \in cfg
      PROVE  /\ aofFile = NoFile
             /\ \A k \in Keys : cache[getShard(k, n)][k] = Absent
  <2>1. aofFile = NoFile
    BY <1>1, <1>6 DEF Uses, UsesAof
  <2>2. snapshot[s] = NoFile
    BY <1>6, <2>1 DEF Inv, LogHolds
  <2> QED
    BY <1>4, <2>1, <2>2 DEF InSnapshot
<1>7. Boot(cfg, n, cache)
  BY <1>1, <1>2
<1> QED
  BY <1>3, <1>4, <1>5, <1>6, <1>7, BootKeeps

(* A start without data. *)
LEMMA LoadNothingKeeps ==
    ASSUME Inv, LoadNothing
    PROVE  Inv'
<1>1. PICK cfg \in Configs, n \in ShardCounts :
          ~ UsesAof(cfg) /\ Boot(cfg, n, NewCache(n))
  BY DEF LoadNothing
<1>2. NewCache(n) \in [0 .. n - 1 -> ShardMaps]
      /\ \A i \in 0 .. n - 1 : NewCache(n)[i] = Empty
  BY NewCacheShape
<1>3. \A i \in 0 .. n - 1 : Placed(NewCache(n)[i], i, n)
  BY <1>2, EmptyType DEF Placed
<1>4. \A k \in Keys : NewCache(n)[getShard(k, n)][k] = Absent
  BY <1>2, ShardExists, EmptyType
<1>5. Down /\ ("aof" \in cfg => aofFile = NoFile)
  BY <1>1 DEF LoadNothing, UsesAof
<1> QED
  BY <1>1, <1>2, <1>3, <1>4, <1>5, BootKeeps

(* A step that leaves the cache alone leaves what Get sees alone. *)
LEMMA SameCache ==
    ASSUME shards' = shards
    PROVE  numShards' = numShards /\ Contents' = Contents
  BY DEF numShards, Contents

(* A step that leaves the log and the cache alone leaves their agreement
   alone. *)
LEMMA SameLog ==
    ASSUME LogHolds, Contents' = Contents, UNCHANGED <<log, config, logged>>,
           mode' = "up" => mode = "up", logged /\ aofFile = NoFile => snapshot' = snapshot
    PROVE  LogHolds'
<1>1. \A k \in Keys : InLog(k) => InLog(k)'
  BY DEF InLog
<1> QED
  BY <1>1 DEF LogHolds

(* A panic: the snapshot is for more shards than there are, so that there were
   more once. *)
LEMMA LoadPanicsKeeps ==
    ASSUME Inv, NEW s \in Snapshots, LoadPanics(s)
    PROVE  Inv'
<1>1. Down /\ mode' = "panic"
      /\ UNCHANGED <<config, shards, log, snapshot, saving, writes, saved, since, logged>>
  BY DEF LoadPanics
<1>2. PICK m \in ShardCounts : ~ Fits(s, m) /\ counts' = counts \cup {m}
  BY DEF LoadPanics
<1>3. Typed /\ mode # "up"
  BY <1>1 DEF Inv, Down
<1>4. numShards' = numShards /\ Contents' = Contents
  BY <1>1, SameCache
<1>5. Typed'
  BY <1>1, <1>2, <1>3, <1>4 DEF Typed
<1>6. Running' /\ Recent' /\ LogHolds'
  BY <1>1, <1>3, <1>4, SameLog DEF Inv, Running, Recent
<1>7. ASSUME NEW n2 \in ShardCounts, counts' \subseteq {n2}
      PROVE  FALSE
  <2>1. n2 = m /\ counts \subseteq {m}
    BY <1>2, <1>7
  <2>2. LaidOut(m)
    BY <2>1 DEF Inv, OneSize
  <2> QED
    BY <1>2, <2>2 DEF LaidOut, Fits
<1>8. OneSize' /\ Panicked'
  BY <1>7 DEF OneSize, Panicked
<1> QED
  BY <1>5, <1>6, <1>8 DEF Inv

-----------------------------------------------------------------------------
(* Clients *)

(* A write changes its key, in its shard, in the log and among the values that
   a save may find. *)
LEMMA PutKeeps ==
    ASSUME Inv, NEW k \in Keys, NEW v \in Values, Put(k, v)
    PROVE  Inv'
<1> DEFINE n == numShards
           i == getShard(k, n)
<1>1. Typed /\ Running
  BY DEF Inv
<1>2. /\ mode = "up" /\ writes < MaxWrites /\ writes' = writes + 1
      /\ shards' = [shards EXCEPT ![i][k] = v]
      /\ waiting' = IF "aof" \in config
                    THEN waiting \cup {[n |-> writes + 1, key |-> k, val |-> v]}
                    ELSE waiting
      /\ recent' = [recent EXCEPT ![k] = @ \cup {v}]
      /\ raced' = IF \E r \in waiting : r.key = k THEN raced \cup {k} ELSE raced
      /\ since' = [s \in Snapshots |->
                      IF ~ saving[s].on THEN since[s]
                      ELSE [since[s] EXCEPT ![k] = @ \cup {v}]]
      /\ UNCHANGED <<mode, config, buffer, aofFile, snapshot, saving, saved, logged, counts>>
  BY DEF Put
<1>3. n \in ShardCounts /\ n \in counts /\ shards \in [0 .. n - 1 -> ShardMaps]
      /\ (\A x \in Keys : getShard(x, n) \in 0 .. n - 1) /\ i \in 0 .. n - 1
  BY <1>1, <1>2, ContentsType DEF Typed, Running
<1> HIDE DEF i, n
<1>4. shards' \in [0 .. n - 1 -> ShardMaps]
      /\ shards'[i] = [shards[i] EXCEPT ![k] = v]
      /\ \A j \in 0 .. n - 1 : j # i => shards'[j] = shards[j]
  BY <1>2, <1>3 DEF ShardMaps
<1>5. numShards' = n /\ DOMAIN shards' = 0 .. n - 1 /\ DOMAIN shards = 0 .. n - 1
  BY <1>3, <1>4, CacheShape DEF numShards
<1>6. Contents \in ShardMaps /\ Contents' = [Contents EXCEPT ![k] = v]
  <2>1. Contents \in ShardMaps
    BY <1>1, ContentsType
  <2>2. ASSUME NEW x \in Keys
        PROVE  shards'[getShard(x, n)][x] = IF x = k THEN v ELSE shards[getShard(x, n)][x]
    <3>1. shards[getShard(x, n)] \in ShardMaps /\ shards[i] \in ShardMaps
      BY <1>3
    <3>2. CASE x = k
      <4>1. getShard(x, n) = i
        BY <3>2 DEF i
      <4> QED
        BY <1>4, <3>1, <3>2, <4>1 DEF ShardMaps
    <3>3. CASE x # k
      BY <1>3, <1>4, <3>1, <3>3 DEF ShardMaps
    <3> QED
      BY <3>2, <3>3
  <2>3. Contents' = [x \in Keys |-> shards'[getShard(x, n)][x]]
        /\ Contents = [x \in Keys |-> shards[getShard(x, n)][x]]
    BY <1>5 DEF Contents, n
  <2> QED
    BY <2>1, <2>2, <2>3
<1>7. [n |-> writes + 1, key |-> k, val |-> v] \in Records
  <2>1. writes + 1 \in 1 .. MaxWrites
    BY <1>1, <1>2, BoundAssumption DEF Typed
  <2> QED
    BY <2>1 DEF Records
<1>8. Typed'
  <2>1. waiting' \subseteq Records /\ raced' \subseteq Keys
        /\ recent' \in [Keys -> SUBSET Values]
    BY <1>1, <1>2, <1>7 DEF Typed
  <2>2. since' \in [Snapshots -> [Keys -> SUBSET Values]]
    BY <1>1, <1>2 DEF Typed
  <2>3. writes' \in 0 .. MaxWrites
    BY <1>1, <1>2, BoundAssumption DEF Typed
  <2> QED
    BY <1>1, <1>2, <1>3, <1>4, <1>5, <2>1, <2>2, <2>3 DEF Typed
<1>9. Running'
  BY <1>1, <1>2, <1>3, <1>5 DEF Running, n
<1>10. OneSize'
  <2> SUFFICES ASSUME NEW m \in ShardCounts, counts' \subseteq {m}
               PROVE  LaidOut(m)'
    BY DEF OneSize
  <2>1. m = n /\ LaidOut(m)
    BY <1>2, <1>3 DEF Inv, OneSize
  <2>2. ASSUME NEW j \in 0 .. n - 1
        PROVE  Placed(shards'[j], j, m)
    <3>1. Placed(shards[j], j, m) /\ shards[j] \in ShardMaps
      BY <1>3, <1>5, <2>1 DEF LaidOut
    <3>2. CASE j = i
      BY <1>4, <2>1, <3>1, <3>2 DEF Placed, ShardMaps, i
    <3>3. CASE j # i
      BY <1>4, <3>1, <3>3
    <3> QED
      BY <3>2, <3>3
  <2>3. \A s \in Snapshots, x \in Keys : saved'[s][x] = InSnapshot(s, x, m)'
    BY <1>2, <2>1 DEF LaidOut, InSnapshot
  <2> QED
    BY <1>2, <1>5, <2>1, <2>2, <2>3 DEF LaidOut
<1>11. Panicked'
  BY <1>2 DEF Panicked
<1>12. Recent'
  <2> SUFFICES ASSUME NEW s \in Snapshots, saving[s].on, NEW x \in Keys
               PROVE  /\ Contents'[x] \in since'[s][x]
                      /\ getShard(x, n) + 1 \in DOMAIN saving[s].read =>
                             saving[s].read[getShard(x, n) + 1][x] \in since'[s][x]
    BY <1>2, <1>5 DEF Recent
  <2>1. since[s] \in [Keys -> SUBSET Values] /\ since'[s] = [since[s] EXCEPT ![k] = @ \cup {v}]
    BY <1>1, <1>2 DEF Typed
  <2>2. since[s][x] \subseteq since'[s][x] /\ v \in since'[s][k]
    BY <2>1
  <2>3. /\ Contents[x] \in since[s][x]
        /\ getShard(x, n) + 1 \in DOMAIN saving[s].read =>
               saving[s].read[getShard(x, n) + 1][x] \in since[s][x]
    BY DEF Inv, Recent, n
  <2>4. (Contents'[x] = v /\ x = k) \/ Contents'[x] = Contents[x]
    BY <1>6 DEF ShardMaps
  <2> QED
    BY <2>2, <2>3, <2>4
<1>13. LogHolds'
  <2> SUFFICES ASSUME logged
               PROVE  "aof" \in config /\ aofFile' # NoFile
                      /\ \A x \in Keys \ raced' : aofFile'[1][x] \in recent'[x] /\ InLog(x)'
    BY <1>2 DEF LogHolds
  <2>1. "aof" \in config /\ aofFile # NoFile /\ aofFile' = aofFile
    BY <1>1, <1>2 DEF Inv, LogHolds, Running
  <2>2. PICK r : r = [n |-> writes + 1, key |-> k, val |-> v]
    OBVIOUS
  <2>3. waiting' = waiting \cup {r} /\ r.key = k /\ r.val = v
    BY <1>2, <2>1, <2>2
  <2> SUFFICES ASSUME NEW x \in Keys \ raced'
               PROVE  aofFile[1][x] \in recent'[x] /\ InLog(x)'
    BY <2>1
  <2>4. x \notin raced /\ aofFile[1][x] \in recent[x] /\ InLog(x)
    BY <1>2, <2>1 DEF Inv, LogHolds
  <2>5. recent[x] \subseteq recent'[x] /\ v \in recent'[k]
    BY <1>1, <1>2 DEF Typed
  <2>6. CASE x = k
    <3>1. Contents'[x] = v /\ \A q \in waiting : q.key # x
      BY <1>2, <1>6, <2>6 DEF ShardMaps
    <3>2. UnderWay(x, waiting', buffer')
      BY <2>3, <2>6 DEF UnderWay
    <3> QED
      BY <1>2, <2>3, <2>4, <2>5, <2>6, <3>1, <3>2 DEF InLog
  <2>7. CASE x # k
    <3>1. Contents'[x] = Contents[x]
      BY <1>6, <2>7 DEF ShardMaps
    <3>2. \A q : q \in waiting' /\ q.key = x <=> q \in waiting /\ q.key = x
      BY <2>3, <2>7
    <3>3. UnderWay(x, waiting', buffer') <=> UnderWay(x, waiting, buffer)
      BY <1>2, <3>2 DEF UnderWay
    <3> QED
      BY <1>2, <2>1, <2>4, <2>5, <3>1, <3>2, <3>3 DEF InLog
  <2> QED
    BY <2>6, <2>7
<1> QED
  BY <1>8, <1>9, <1>10, <1>11, <1>12, <1>13 DEF Inv

(* The log moves: the cache, the snapshots and the saves stay as they are. *)
LEMMA LogMoves ==
    ASSUME Inv, UNCHANGED <<mode, config, shards, raced, snapshot, saving, writes, saved,
                            since, logged, counts>>
    PROVE  numShards' = numShards /\ Contents' = Contents /\ OneSize' /\ Panicked' /\ Recent'
<1>1. numShards' = numShards /\ Contents' = Contents
  BY SameCache
<1>2. \A t \in Snapshots, k \in Keys, n \in ShardCounts :
          InSnapshot(t, k, n)' = InSnapshot(t, k, n)
  BY DEF InSnapshot
<1>3. \A n \in ShardCounts : LaidOut(n) => LaidOut(n)'
  BY <1>1, <1>2 DEF LaidOut
<1> QED
  BY <1>1, <1>3 DEF Inv, OneSize, Panicked, Recent

(* A goroutine gets the mutex: its record is the newest of its key, and becomes
   the last in the buffer. *)
LEMMA LogCommandKeeps ==
    ASSUME Inv, LogCommand
    PROVE  Inv'
<1>1. PICK r \in waiting : waiting' = waiting \ {r} /\ buffer' = Append(buffer, r)
  BY DEF LogCommand
<1>2. /\ mode = "up"
      /\ UNCHANGED <<mode, config, shards, aofFile, recent, raced, snapshot, saving, writes,
                     saved, since, logged, counts>>
  BY DEF LogCommand
<1>3. numShards' = numShards /\ Contents' = Contents /\ OneSize' /\ Panicked' /\ Recent'
  BY <1>2, LogMoves
<1>4. Typed /\ Running /\ r \in Records /\ buffer \in Seq(Records)
  BY DEF Inv, Typed
<1> DEFINE l == Len(buffer)
<1>5. /\ l \in Nat /\ DOMAIN buffer = 1 .. l /\ buffer' \in Seq(Records)
      /\ DOMAIN buffer' = 1 .. (l + 1) /\ buffer'[l + 1] = r
      /\ \A i \in 1 .. l : buffer'[i] = buffer[i]
  <2>1. l \in Nat /\ DOMAIN buffer = 1 .. l
    BY <1>4, LenProperties
  <2>2. buffer' \in Seq(Records) /\ Len(buffer') = l + 1 /\ buffer'[l + 1] = r
        /\ \A i \in 1 .. l : buffer'[i] = buffer[i]
    BY <1>1, <1>4, <2>1, AppendProperties
  <2> QED
    BY <2>1, <2>2, LenProperties
<1> HIDE DEF l
<1>6. Typed'
  BY <1>1, <1>2, <1>3, <1>4, <1>5 DEF Typed
<1>7. Running'
  BY <1>2, <1>3, <1>4 DEF Running
<1>8. LogHolds'
  <2> SUFFICES ASSUME logged, aofFile # NoFile, NEW k \in Keys \ raced
               PROVE  InLog(k)'
    BY <1>2, <1>4 DEF Inv, LogHolds, Running
  <2>1. InLog(k)
    BY <1>2 DEF Inv, LogHolds
  <2>2. ASSUME NEW i \in DOMAIN buffer', buffer'[i].key = k
        PROVE  /\ buffer'[i].val \in recent[k]
               /\ \/ buffer'[i].val = Contents[k]
                  \/ \E q \in waiting' : q.key = k
                  \/ \E j \in DOMAIN buffer' : j > i /\ buffer'[j].key = k
    <3>1. CASE i = l + 1
      BY <1>5, <2>1, <2>2, <3>1 DEF InLog
    <3>2. CASE i # l + 1
      <4>1. i \in 1 .. l /\ buffer'[i] = buffer[i]
        BY <1>5, <3>2
      <4>2. /\ buffer[i].val \in recent[k]
            /\ \/ buffer[i].val = Contents[k]
               \/ \E q \in waiting : q.key = k
               \/ \E j \in DOMAIN buffer : j > i /\ buffer[j].key = k
        BY <1>5, <2>1, <2>2, <4>1 DEF InLog
      <4>3. CASE r.key = k
        <5>1. l + 1 \in DOMAIN buffer' /\ l + 1 > i
          BY <1>5, <4>1
        <5> QED
          BY <1>5, <4>1, <4>2, <4>3, <5>1
      <4>4. CASE r.key # k
        <5>1. \A j \in DOMAIN buffer : j \in DOMAIN buffer' /\ buffer'[j] = buffer[j]
          BY <1>5
        <5> QED
          BY <1>1, <4>1, <4>2, <4>4, <5>1
      <4> QED
        BY <4>3, <4>4
    <3> QED
      BY <3>1, <3>2
  <2>3. UnderWay(k, waiting, buffer) => UnderWay(k, waiting', buffer')
    <3>1. \A j \in DOMAIN buffer : j \in DOMAIN buffer' /\ buffer'[j] = buffer[j]
      BY <1>5
    <3>2. l + 1 \in DOMAIN buffer' /\ buffer'[l + 1] = r
      BY <1>5
    <3> QED
      BY <1>1, <3>1, <3>2 DEF UnderWay
  <2> QED
    BY <1>1, <1>2, <1>3, <2>1, <2>2, <2>3 DEF InLog
<1> QED
  BY <1>3, <1>6, <1>7, <1>8 DEF Inv

(* The oldest record of the buffer goes to the file: if it is the newest of its
   key as well, then the log of the key has caught up. *)
LEMMA FlushKeeps ==
    ASSUME Inv, Flush
    PROVE  Inv'
<1>1. PICK r : r = Head(buffer)
  OBVIOUS
<1>2. /\ mode = "up" /\ buffer # <<>> /\ buffer' = Tail(buffer)
      /\ aofFile' = <<[aofFile[1] EXCEPT ![r.key] = r.val]>>
      /\ recent' = [k \in Keys |-> IF k = r.key /\ ~ UnderWay(k, waiting, buffer')
                                   THEN {Contents[k]} ELSE recent[k]]
      /\ UNCHANGED <<mode, config, shards, waiting, raced, snapshot, saving, writes, saved,
                     since, logged, counts>>
  BY <1>1 DEF Flush
<1>3. numShards' = numShards /\ Contents' = Contents /\ OneSize' /\ Panicked' /\ Recent'
  BY <1>2, LogMoves
<1>4. Typed /\ Running /\ buffer \in Seq(Records)
  BY DEF Inv, Typed
<1> DEFINE l == Len(buffer)
<1>5. /\ l \in Nat /\ l >= 1 /\ DOMAIN buffer = 1 .. l /\ buffer' \in Seq(Records)
      /\ buffer[1] = r /\ DOMAIN buffer' = 1 .. (l - 1)
      /\ \A i \in 1 .. (l - 1) : buffer'[i] = buffer[i + 1]
  <2>1. l \in Nat /\ DOMAIN buffer = 1 .. l
    BY <1>4, LenProperties
  <2>2. r = buffer[1] /\ buffer' \in Seq(Records) /\ Len(buffer') = l - 1
        /\ \A i \in 1 .. Len(buffer') : buffer'[i] = buffer[i + 1]
    BY <1>1, <1>2, <1>4, HeadTailProperties
  <2>3. l >= 1
    BY <1>2, <1>4, <2>1, EmptySeq
  <2> QED
    BY <2>1, <2>2, <2>3, LenProperties
<1> HIDE DEF l
<1>6. r \in Records /\ aofFile # NoFile /\ aofFile[1] \in ShardMaps /\ Contents \in ShardMaps
  <2>1. r \in Records
    BY <1>4, <1>5, ElementOfSeq DEF l
  <2> QED
    BY <1>2, <1>4, <2>1, ContentsType DEF Running, Typed
<1>7. r.key \in Keys /\ r.val \in Values
  BY <1>6 DEF Records
<1>8. aofFile' # NoFile /\ aofFile'[1] = [aofFile[1] EXCEPT ![r.key] = r.val]
      /\ aofFile'[1] \in ShardMaps
  <2>1. [aofFile[1] EXCEPT ![r.key] = r.val] \in ShardMaps
    BY <1>6, <1>7 DEF ShardMaps
  <2> QED
    BY <1>2, <2>1 DEF NoFile
<1>9. Typed'
  <2>1. recent' \in [Keys -> SUBSET Values]
    BY <1>2, <1>4, <1>6 DEF Typed, ShardMaps
  <2>2. aofFile' \in {NoFile} \cup {<<m>> : m \in ShardMaps}
    BY <1>2, <1>8
  <2> QED
    BY <1>2, <1>3, <1>4, <1>5, <2>1, <2>2 DEF Typed
<1>10. Running'
  BY <1>2, <1>3, <1>4, <1>8 DEF Running
<1>11. LogHolds'
  <2> SUFFICES ASSUME logged, NEW k \in Keys \ raced
               PROVE  aofFile'[1][k] \in recent'[k] /\ InLog(k)'
    BY <1>2, <1>4, <1>8 DEF Inv, LogHolds, Running
  <2>1. aofFile[1][k] \in recent[k] /\ InLog(k)
    BY <1>2, <1>6 DEF Inv, LogHolds
  <2>2. ASSUME NEW i \in DOMAIN buffer'
        PROVE  /\ i + 1 \in DOMAIN buffer /\ buffer'[i] = buffer[i + 1]
               /\ \A j \in DOMAIN buffer : j > i + 1 =>
                      /\ j - 1 \in DOMAIN buffer' /\ j - 1 > i
                      /\ buffer'[j - 1] = buffer[j]
    <3>1. i \in 1 .. (l - 1) /\ i + 1 \in 1 .. l
      BY <1>5
    <3>2. ASSUME NEW j \in 1 .. l, j > i + 1
          PROVE  j - 1 \in 1 .. (l - 1) /\ j - 1 > i /\ (j - 1) + 1 = j
      BY <1>5, <3>1, <3>2
    <3> QED
      BY <1>5, <3>1, <3>2
  <2>3. ASSUME NEW i \in DOMAIN buffer', buffer'[i].key = k
        PROVE  /\ buffer'[i].val \in recent[k]
               /\ \/ buffer'[i].val = Contents[k]
                  \/ \E q \in waiting : q.key = k
                  \/ \E j \in DOMAIN buffer' : j > i /\ buffer'[j].key = k
    <3>1. /\ buffer[i + 1].val \in recent[k]
          /\ \/ buffer[i + 1].val = Contents[k]
             \/ \E q \in waiting : q.key = k
             \/ \E j \in DOMAIN buffer : j > i + 1 /\ buffer[j].key = k
      BY <2>1, <2>2, <2>3 DEF InLog
    <3> QED
      BY <2>2, <3>1
  <2>4. \A q \in waiting : q.key = k => q.val = Contents[k]
    BY <2>1 DEF InLog
  <2>5. CASE k # r.key
    <3>1. aofFile'[1][k] = aofFile[1][k] /\ recent'[k] = recent[k]
      BY <1>2, <1>6, <1>7, <1>8, <2>5 DEF ShardMaps
    <3>2. UnderWay(k, waiting, buffer) => UnderWay(k, waiting, buffer')
      <4>1. ASSUME NEW j \in DOMAIN buffer, buffer[j].key = k
            PROVE  \E i \in DOMAIN buffer' : buffer'[i].key = k
        <5>1. j # 1
          BY <1>5, <2>5, <4>1
        <5>2. j - 1 \in 1 .. (l - 1) /\ (j - 1) + 1 = j
          BY <1>5, <5>1
        <5> QED
          BY <1>5, <4>1, <5>2
      <4> QED
        BY <4>1 DEF UnderWay
    <3> QED
      BY <1>2, <1>3, <2>1, <2>3, <3>1, <3>2 DEF InLog
  <2>6. CASE k = r.key /\ UnderWay(k, waiting, buffer')
    <3>1. aofFile'[1][k] = r.val /\ recent'[k] = recent[k]
      BY <1>2, <1>6, <1>7, <1>8, <2>6 DEF ShardMaps
    <3>2. 1 \in DOMAIN buffer /\ buffer[1].key = k /\ buffer[1].val = r.val
      BY <1>5, <2>6
    <3>3. r.val \in recent[k]
      BY <2>1, <3>2 DEF InLog
    <3>4. Contents[k] \in recent[k]
      BY <2>1 DEF InLog
    <3> QED
      BY <1>2, <1>3, <2>3, <2>4, <2>6, <3>1, <3>3, <3>4 DEF InLog
  <2>7. CASE k = r.key /\ ~ UnderWay(k, waiting, buffer')
    <3>1. aofFile'[1][k] = r.val /\ recent'[k] = {Contents[k]}
      BY <1>2, <1>6, <1>7, <1>8, <2>7 DEF ShardMaps
    <3>2. 1 \in DOMAIN buffer /\ buffer[1].key = k /\ buffer[1].val = r.val
      BY <1>5, <2>7
    <3>3. (\A q \in waiting : q.key # k) /\ \A i \in DOMAIN buffer' : buffer'[i].key # k
      BY <2>7 DEF UnderWay
    <3>4. \A j \in DOMAIN buffer : j > 1 => buffer[j].key # k
      <4> SUFFICES ASSUME NEW j \in DOMAIN buffer, j > 1
                   PROVE  buffer[j].key # k
        OBVIOUS
      <4>1. j - 1 \in 1 .. (l - 1) /\ (j - 1) + 1 = j
        BY <1>5
      <4> QED
        BY <1>5, <3>3, <4>1
    <3>5. r.val = Contents[k]
      BY <2>1, <3>2, <3>3, <3>4 DEF InLog
    <3> QED
      BY <1>2, <1>3, <2>4, <3>1, <3>3, <3>5 DEF InLog
  <2> QED
    BY <2>5, <2>6, <2>7
<1> QED
  BY <1>3, <1>9, <1>10, <1>11 DEF Inv

-----------------------------------------------------------------------------
(* Saves *)

(* The ticker fires: nothing has been read. *)
LEMMA SaveBeginKeeps ==
    ASSUME Inv, NEW s \in Snapshots, SaveBegin(s)
    PROVE  Inv'
<1>1. Typed /\ Running /\ mode = "up"
  BY DEF Inv, SaveBegin
<1>2. /\ saving' = [saving EXCEPT ![s] = [on |-> TRUE, read |-> <<>>]]
      /\ since' = [since EXCEPT ![s] = [k \in Keys |-> {Contents[k]}]]
      /\ UNCHANGED <<mode, config, shards, log, snapshot, writes, saved, logged, counts>>
  BY DEF SaveBegin
<1>3. numShards' = numShards /\ Contents' = Contents /\ Contents \in ShardMaps
  BY <1>1, <1>2, SameCache, ContentsType
<1>4. Typed'
  <2>1. <<>> \in Seq(ShardMaps)
    OBVIOUS
  <2>2. saving' \in [Snapshots -> [on : BOOLEAN, read : Seq(ShardMaps)]]
    BY <1>1, <1>2, <2>1 DEF Typed
  <2>3. since' \in [Snapshots -> [Keys -> SUBSET Values]]
    BY <1>1, <1>2, <1>3 DEF Typed, ShardMaps
  <2> QED
    BY <1>1, <1>2, <1>3, <2>2, <2>3 DEF Typed
<1>5. /\ saving'[s] = [on |-> TRUE, read |-> <<>>]
      /\ since'[s] = [k \in Keys |-> {Contents[k]}]
      /\ \A t \in Snapshots : t # s => saving'[t] = saving[t] /\ since'[t] = since[t]
  BY <1>1, <1>2 DEF Typed
<1>6. Running'
  <2>1. Len(<<>>) <= numShards
    BY <1>1, CountOfShards DEF Typed
  <2> QED
    BY <1>1, <1>2, <1>3, <1>5, <2>1 DEF Running
<1>7. OneSize'
  <2> SUFFICES ASSUME NEW n \in ShardCounts, counts' \subseteq {n}
               PROVE  LaidOut(n)'
    BY DEF OneSize
  <2>1. LaidOut(n)
    BY <1>2 DEF Inv, OneSize
  <2>2. \A t \in Snapshots, k \in Keys : saved'[t][k] = InSnapshot(t, k, n)'
    BY <1>2, <2>1 DEF LaidOut, InSnapshot
  <2>3. \A t \in Snapshots : \A j \in DOMAIN saving'[t].read : Placed(saving'[t].read[j], j - 1, n)
    BY <1>5, <2>1 DEF LaidOut
  <2> QED
    BY <1>2, <1>3, <2>1, <2>2, <2>3 DEF LaidOut
<1>8. Panicked'
  BY <1>1, <1>2 DEF Panicked
<1>9. Recent'
  BY <1>3, <1>5 DEF Inv, Recent
<1>10. LogHolds'
  BY <1>2, <1>3, SameLog DEF Inv
<1> QED
  BY <1>4, <1>6, <1>7, <1>8, <1>9, <1>10 DEF Inv

(* The next shard is read: its keys have their values of this moment. *)
LEMMA SaveShardKeeps ==
    ASSUME Inv, NEW s \in Snapshots, SaveShard(s)
    PROVE  Inv'
<1> DEFINE read == saving[s].read
           l == Len(read)
<1>1. Typed /\ Running /\ mode = "up" /\ saving[s].on /\ l < numShards
  BY DEF Inv, SaveShard
<1>2. /\ saving' = [saving EXCEPT ![s].read = Append(@, shards[Len(@)])]
      /\ UNCHANGED <<mode, config, shards, log, snapshot, writes, saved, since, logged,
                     counts>>
  BY DEF SaveShard
<1>3. numShards' = numShards /\ Contents' = Contents /\ numShards \in ShardCounts
      /\ numShards \in Nat
  BY <1>1, <1>2, SameCache, CountOfShards DEF Typed
<1>4. saving[s] \in [on : BOOLEAN, read : Seq(ShardMaps)] /\ read \in Seq(ShardMaps)
  BY <1>1 DEF Typed
<1>5. l \in Nat /\ l \in 0 .. numShards - 1 /\ DOMAIN read = 1 .. l /\ shards[l] \in ShardMaps
  BY <1>1, <1>3, <1>4, LenProperties DEF Typed
<1>6. /\ saving'[s].on /\ saving'[s].read = Append(read, shards[l])
      /\ \A t \in Snapshots : t # s => saving'[t] = saving[t]
      /\ saving'[s] = [on |-> TRUE, read |-> Append(read, shards[l])]
  BY <1>1, <1>2, <1>4 DEF Typed
<1> DEFINE next == Append(read, shards[l])
<1>7. /\ next \in Seq(ShardMaps) /\ DOMAIN next = 1 .. (l + 1) /\ Len(next) = l + 1
      /\ next[l + 1] = shards[l] /\ \A j \in 1 .. l : next[j] = read[j]
  <2>1. next \in Seq(ShardMaps) /\ Len(next) = l + 1
        /\ next[l + 1] = shards[l] /\ \A j \in 1 .. l : next[j] = read[j]
    BY <1>4, <1>5, AppendProperties
  <2>2. DOMAIN next = 1 .. Len(next)
    BY <2>1, LenProperties
  <2> QED
    BY <2>1, <2>2
<1> HIDE DEF read, l, next
<1>8. Typed'
  <2>1. [on |-> TRUE, read |-> next] \in [on : BOOLEAN, read : Seq(ShardMaps)]
    BY <1>7
  <2>2. saving' = [saving EXCEPT ![s] = [on |-> TRUE, read |-> next]]
    BY <1>1, <1>2, <1>4, <1>6 DEF Typed, next
  <2>3. saving' \in [Snapshots -> [on : BOOLEAN, read : Seq(ShardMaps)]]
    BY <1>1, <2>1, <2>2 DEF Typed
  <2> QED
    BY <1>1, <1>2, <1>3, <2>3 DEF Typed
<1>9. Running'
  <2>1. \A t \in Snapshots : Len(saving'[t].read) <= numShards
    BY <1>1, <1>3, <1>5, <1>6, <1>7 DEF Running, next
  <2> QED
    BY <1>1, <1>2, <1>3, <2>1 DEF Running
<1>10. OneSize'
  <2> SUFFICES ASSUME NEW n \in ShardCounts, counts' \subseteq {n}
               PROVE  LaidOut(n)'
    BY DEF OneSize
  <2>1. LaidOut(n) /\ numShards = n
    BY <1>1, <1>2 DEF Inv, OneSize, Running
  <2>2. \A t \in Snapshots, k \in Keys : saved'[t][k] = InSnapshot(t, k, n)'
    BY <1>2, <2>1 DEF LaidOut, InSnapshot
  <2>3. \A j \in DOMAIN next : Placed(next[j], j - 1, n)
    <3>1. l \in DOMAIN shards /\ (l + 1) - 1 = l
      BY <1>1, <1>5 DEF Typed
    <3>2. Placed(shards[l], l, n) /\ \A j \in 1 .. l : Placed(read[j], j - 1, n)
      BY <1>5, <2>1, <3>1 DEF LaidOut, read
    <3>3. Placed(next[l + 1], (l + 1) - 1, n)
      BY <1>7, <3>1, <3>2
    <3>4. \A j \in 1 .. (l + 1) : j \in 1 .. l \/ j = l + 1
      BY <1>5
    <3> QED
      BY <1>7, <3>2, <3>3, <3>4
  <2>4. \A t \in Snapshots : \A j \in DOMAIN saving'[t].read : Placed(saving'[t].read[j], j - 1, n)
    BY <1>6, <2>1, <2>3 DEF LaidOut, next
  <2> QED
    BY <1>2, <1>3, <2>1, <2>2, <2>4 DEF LaidOut
<1>11. Panicked'
  BY <1>1, <1>2 DEF Panicked
<1>12. Recent'
  <2> SUFFICES ASSUME NEW t \in Snapshots, saving'[t].on, NEW k \in Keys
               PROVE  /\ Contents[k] \in since[t][k]
                      /\ getShard(k, numShards) + 1 \in DOMAIN saving'[t].read =>
                             saving'[t].read[getShard(k, numShards) + 1][k] \in since[t][k]
    BY <1>2, <1>3 DEF Recent
  <2>1. CASE t # s
    BY <1>6, <2>1 DEF Inv, Recent
  <2>2. CASE t = s
    <3> DEFINE g == getShard(k, numShards)
    <3>1. Contents[k] \in since[s][k] /\ (g + 1 \in 1 .. l => read[g + 1][k] \in since[s][k])
      BY <1>1, <1>5 DEF Inv, Recent, read
    <3>2. g \in 0 .. numShards - 1 /\ Contents[k] = shards[g][k]
      BY <1>1, ContentsType
    <3> HIDE DEF g
    <3>3. ASSUME g + 1 \in 1 .. (l + 1)
          PROVE  next[g + 1][k] \in since[s][k]
      <4>1. CASE g = l
        BY <1>7, <3>1, <3>2, <4>1
      <4>2. CASE g # l
        <5>1. g + 1 \in 1 .. l
          BY <1>3, <1>5, <3>2, <3>3, <4>2
        <5> QED
          BY <1>7, <3>1, <5>1
      <4> QED
        BY <4>1, <4>2
    <3> QED
      BY <1>6, <1>7, <2>2, <3>1, <3>3 DEF next, g
  <2> QED
    BY <2>1, <2>2
<1>13. LogHolds'
  BY <1>2, <1>3, SameLog DEF Inv
<1> QED
  BY <1>8, <1>9, <1>10, <1>11, <1>12, <1>13 DEF Inv

(* The shards that were read are in the file, except for empty ones. *)
Holds(f, read, n) ==
    /\ f \in Files
    /\ DOMAIN f \subseteq 0 .. n - 1
    /\ \A i \in DOMAIN f : f[i] = read[i + 1] /\ i + 1 \in DOMAIN read
    /\ \A i \in 0 .. n - 1 : i \notin DOMAIN f => read[i + 1] = Empty

(* The file that a save leaves behind: a shard that the RDB skips is empty. *)
LEMMA FileOfSave ==
    ASSUME NEW s, NEW n \in ShardCounts, NEW read \in Seq(ShardMaps), Len(read) = n,
           NEW f, f = ShardsInFile(s, read)
    PROVE  Holds(f, read, n)
<1> DEFINE D == {j \in 0 .. n - 1 : s = "json" \/ read[j + 1] # Empty}
<1>1. n \in Nat /\ n >= 1
  BY CountOfShards
<1>2. DOMAIN read = 1 .. n /\ \A i \in 1 .. n : read[i] \in ShardMaps
  BY LenProperties
<1>3. ASSUME NEW i \in D
      PROVE  i \in Nat /\ i \in 0 .. n - 1 /\ i + 1 \in 1 .. n
  BY <1>1
<1>4. f = [i \in D |-> read[i + 1]]
  BY DEF ShardsInFile
<1>5. f \in [D -> ShardMaps] /\ D \in SUBSET Nat
  BY <1>2, <1>3, <1>4
<1>6. f \in Files
  BY <1>5 DEF Files
<1> QED
  BY <1>2, <1>3, <1>4, <1>6 DEF Holds

(* The rename: the file has what the save has read. *)
LEMMA SaveRenameKeeps ==
    ASSUME Inv, NEW s \in Snapshots, SaveRename(s)
    PROVE  Inv'
<1>1. Typed /\ Running /\ mode = "up" /\ saving[s].on
  BY DEF Inv, SaveRename
<1>2. PICK read : read = saving[s].read
  OBVIOUS
<1>3. PICK n \in ShardCounts : n = numShards
  BY <1>1 DEF Typed
<1>4. PICK f : f = ShardsInFile(s, read)
  OBVIOUS
<1>5. /\ Len(read) = n
      /\ snapshot' = [snapshot EXCEPT ![s] = <<f>>]
      /\ saved' = [saved EXCEPT ![s] = [k \in Keys |-> read[getShard(k, n) + 1][k]]]
      /\ saving' = [saving EXCEPT ![s] = Idle]
      /\ since' = [since EXCEPT ![s] = [k \in Keys |-> {}]]
      /\ UNCHANGED <<mode, config, shards, log, writes, logged, counts>>
  BY <1>2, <1>3, <1>4 DEF SaveRename
<1>6. numShards' = numShards /\ Contents' = Contents
  BY <1>5, SameCache
<1>7. read \in Seq(ShardMaps)
  BY <1>1, <1>2 DEF Typed
<1>8. /\ f \in Files /\ DOMAIN f \subseteq 0 .. n - 1
      /\ \A i \in DOMAIN f : f[i] = read[i + 1] /\ i + 1 \in DOMAIN read
      /\ \A i \in 0 .. n - 1 : i \notin DOMAIN f => read[i + 1] = Empty
  <2>1. Holds(f, read, n)
    BY <1>4, <1>5, <1>7, FileOfSave
  <2> QED
    BY <2>1 DEF Holds
<1>9. n \in Nat /\ DOMAIN read = 1 .. n
      /\ \A k \in Keys : getShard(k, n) \in 0 .. n - 1 /\ getShard(k, n) + 1 \in 1 .. n
  <2>1. n \in Nat /\ DOMAIN read = 1 .. n
    BY <1>5, <1>7, LenProperties, CountOfShards
  <2>2. ASSUME NEW k \in Keys
        PROVE  getShard(k, n) \in 0 .. n - 1 /\ getShard(k, n) + 1 \in 1 .. n
    <3>1. getShard(k, n) \in 0 .. n - 1
      BY ShardExists
    <3> QED
      BY <2>1, <3>1
  <2> QED
    BY <2>1, <2>2
<1>10. [k \in Keys |-> read[getShard(k, n) + 1][k]] \in ShardMaps
  <2>1. \A k \in Keys : read[getShard(k, n) + 1] \in ShardMaps
    BY <1>5, <1>7, <1>9, ElementOfSeq
  <2> QED
    BY <2>1 DEF ShardMaps
<1>11. /\ snapshot'[s] = <<f>>
       /\ saved'[s] = [k \in Keys |-> read[getShard(k, n) + 1][k]]
       /\ saving'[s] = Idle
       /\ \A t \in Snapshots : t # s => snapshot'[t] = snapshot[t] /\ saved'[t] = saved[t]
                                        /\ saving'[t] = saving[t] /\ since'[t] = since[t]
  BY <1>1, <1>5 DEF Typed
<1>12. Typed'
  <2>1. <<>> \in Seq(ShardMaps) /\ Idle \in [on : BOOLEAN, read : Seq(ShardMaps)]
    BY DEF Idle
  <2>2. saving' \in [Snapshots -> [on : BOOLEAN, read : Seq(ShardMaps)]]
    BY <1>1, <1>5, <2>1 DEF Typed
  <2>3. snapshot' \in [Snapshots -> {NoFile} \cup {<<g>> : g \in Files}]
    BY <1>1, <1>5, <1>8 DEF Typed
  <2>4. saved' \in [Snapshots -> ShardMaps]
    BY <1>1, <1>5, <1>10 DEF Typed
  <2>5. since' \in [Snapshots -> [Keys -> SUBSET Values]]
    BY <1>1, <1>5 DEF Typed
  <2> QED
    BY <1>1, <1>5, <1>6, <2>2, <2>3, <2>4, <2>5 DEF Typed
<1>13. Running'
  <2>1. Len(<<>>) <= n
    BY <1>9
  <2> QED
    BY <1>1, <1>3, <1>5, <1>6, <1>11, <2>1 DEF Running, Idle
<1>14. OneSize'
  <2> SUFFICES ASSUME NEW m \in ShardCounts, counts' \subseteq {m}
               PROVE  LaidOut(m)'
    BY DEF OneSize
  <2>1. LaidOut(m) /\ m = n
    BY <1>1, <1>3, <1>5 DEF Inv, OneSize, Running
  <2>2. \A i \in DOMAIN f : i < n /\ Placed(f[i], i, n)
    <3> SUFFICES ASSUME NEW i \in DOMAIN f
                 PROVE  i < n /\ Placed(f[i], i, n)
      OBVIOUS
    <3>1. i \in 0 .. n - 1 /\ i < n /\ (i + 1) - 1 = i
      BY <1>8, <1>9
    <3>2. Placed(read[i + 1], (i + 1) - 1, n)
      BY <1>2, <1>8, <2>1 DEF LaidOut
    <3> QED
      BY <1>8, <3>1, <3>2
  <2>3. \A k \in Keys : saved'[s][k] = InSnapshot(s, k, m)'
    <3> SUFFICES ASSUME NEW k \in Keys
                 PROVE  read[getShard(k, n) + 1][k] =
                            IF getShard(k, n) \in DOMAIN f THEN f[getShard(k, n)][k] ELSE Absent
      <4>1. snapshot'[s] # NoFile /\ snapshot'[s][1] = f
        BY <1>11 DEF NoFile
      <4> QED
        BY <1>11, <2>1, <4>1 DEF InSnapshot
    <3> QED
      BY <1>8, <1>9, EmptyType
  <2>4. \A t \in Snapshots : \A k \in Keys : saved'[t][k] = InSnapshot(t, k, m)'
    <3> SUFFICES ASSUME NEW t \in Snapshots, NEW k \in Keys, t # s
                 PROVE  saved'[t][k] = InSnapshot(t, k, m)'
      BY <2>3
    <3> QED
      BY <1>11, <2>1 DEF LaidOut, InSnapshot
  <2>5. ASSUME NEW t \in Snapshots
        PROVE  /\ snapshot'[t] # NoFile =>
                      \A i \in DOMAIN snapshot'[t][1] :
                          i < m /\ Placed(snapshot'[t][1][i], i, m)
               /\ \A j \in DOMAIN saving'[t].read : Placed(saving'[t].read[j], j - 1, m)
    <3>1. CASE t = s
      BY <1>11, <2>1, <2>2, <3>1 DEF Idle
    <3>2. CASE t # s
      BY <1>11, <2>1, <3>2 DEF LaidOut
    <3> QED
      BY <3>1, <3>2
  <2> QED
    BY <1>5, <1>6, <2>1, <2>4, <2>5 DEF LaidOut
<1>15. Panicked'
  BY <1>1, <1>5 DEF Panicked
<1>16. Recent'
  BY <1>6, <1>11 DEF Inv, Recent, Idle
<1>17. LogHolds'
  <2>1. logged => aofFile # NoFile
    BY <1>1 DEF Inv, LogHolds, Running
  <2> QED
    BY <1>5, <1>6, <2>1, SameLog DEF Inv
<1> QED
  BY <1>12, <1>13, <1>14, <1>15, <1>16, <1>17 DEF Inv

(* The process ends: a save that is under way leaves nothing behind. *)
LEMMA ExitKeeps ==
    ASSUME Inv, Exit
    PROVE  Inv'
<1>1. Typed
  BY DEF Inv
<1>2. /\ mode' = "down"
      /\ saving' = [s \in Snapshots |-> Idle]
      /\ since' = [s \in Snapshots |-> [k \in Keys |-> {}]]
      /\ waiting' = {} /\ buffer' = <<>>
      /\ UNCHANGED <<config, shards, aofFile, recent, raced, snapshot, writes, saved, logged,
                     counts>>
  BY DEF Exit
<1>3. numShards' = numShards /\ Contents' = Contents
  BY <1>2, SameCache
<1>4. Typed'
  <2>1. <<>> \in Seq(ShardMaps) /\ Idle \in [on : BOOLEAN, read : Seq(ShardMaps)]
    BY DEF Idle
  <2>2. waiting' \subseteq Records /\ buffer' \in Seq(Records)
    BY <1>2
  <2> QED
    BY <1>1, <1>2, <1>3, <2>1, <2>2 DEF Typed
<1>5. Running'
  <2>1. Len(<<>>) <= numShards
    BY <1>1, CountOfShards DEF Typed
  <2> QED
    BY <1>2, <1>3, <2>1 DEF Running, Idle
<1>6. OneSize'
  <2> SUFFICES ASSUME NEW n \in ShardCounts, counts' \subseteq {n}
               PROVE  LaidOut(n)'
    BY DEF OneSize
  <2>1. LaidOut(n)
    BY <1>2 DEF Inv, OneSize
  <2>2. \A t \in Snapshots, k \in Keys : saved'[t][k] = InSnapshot(t, k, n)'
    BY <1>2, <2>1 DEF LaidOut, InSnapshot
  <2> QED
    BY <1>2, <1>3, <2>1, <2>2 DEF LaidOut, Idle
<1>7. Panicked' /\ Recent' /\ LogHolds'
  BY <1>2, <1>3 DEF Inv, Panicked, Recent, LogHolds, Idle
<1> QED
  BY <1>4, <1>5, <1>6, <1>7 DEF Inv

(* Every step keeps the invariant. *)
LEMMA NextInv ==
    ASSUME Inv, [Next]_vars
    PROVE  Inv'
<1>1. ASSUME NEW k \in Keys, Set(k) \/ Delete(k)
      PROVE  Inv'
  <2>1. CASE Set(k)
    <3>1. Put(k, writes + 1) /\ writes + 1 \in Values
      BY <2>1, BoundAssumption DEF Set, Put, Inv, Typed, Values
    <3>2. PICK v \in Values : v = writes + 1
      BY <3>1
    <3> QED
      BY <3>1, <3>2, PutKeeps
  <2>2. CASE Delete(k)
    <3>1. Put(k, Absent) /\ Absent \in Values
      BY <2>2, BoundAssumption DEF Delete, Values, Absent
    <3> QED
      BY <3>1, PutKeeps
  <2> QED
    BY <1>1, <2>1, <2>2
<1>2. CASE UNCHANGED vars
  <2>1. numShards' = numShards /\ Contents' = Contents
    BY <1>2, SameCache DEF vars
  <2>2. \A t \in Snapshots, k \in Keys, n \in ShardCounts :
            InSnapshot(t, k, n)' = InSnapshot(t, k, n)
    BY <1>2 DEF InSnapshot, vars
  <2>3. \A n \in ShardCounts : LaidOut(n) => LaidOut(n)'
    BY <1>2, <2>1, <2>2 DEF LaidOut, vars
  <2>4. Typed' /\ Running' /\ Panicked' /\ Recent' /\ LogHolds'
    BY <1>2, <2>1, SameLog DEF Inv, Typed, Running, Panicked, Recent, vars
  <2>5. OneSize'
    BY <1>2, <2>3 DEF Inv, OneSize, vars
  <2> QED
    BY <2>4, <2>5 DEF Inv
<1> QED
  BY <1>1, <1>2, LoadAofKeeps, LoadNothingKeeps, ExitKeeps, LogCommandKeeps, FlushKeeps,
     LoadSnapshotKeeps, LoadPanicsKeeps, SaveBeginKeeps, SaveShardKeeps, SaveRenameKeeps DEF Next

(* The invariant holds throughout. *)
THEOREM Invariance == Spec => []Inv
<1>1. Inv /\ [Next]_vars => Inv'
  BY NextInv
<1> QED
  BY InitInv, <1>1, PTL DEF Spec

-----------------------------------------------------------------------------
(* What follows *)

(* The cache, the files and the saves under way are always well formed
   (manager.go, rdb.go, json.go). *)
THEOREM TypeCorrect == Spec => []TypeOK
<1>1. Inv => TypeOK
  <2> SUFFICES ASSUME Typed
               PROVE  TypeOK
    BY DEF Inv
  <2>1. \E n \in ShardCounts : shards \in [0 .. n - 1 -> ShardMaps]
    BY DEF Typed
  <2>2. aofFile = NoFile \/ aofFile[1] \in ShardMaps
    BY DEF Typed
  <2>3. ASSUME NEW s \in Snapshots, snapshot[s] # NoFile, NEW i \in DOMAIN snapshot[s][1]
        PROVE  i \in Nat /\ snapshot[s][1][i] \in ShardMaps
    <3>1. PICK f \in Files : snapshot[s] = <<f>>
      BY <2>3 DEF Typed
    <3>2. PICK D \in SUBSET Nat : f \in [D -> ShardMaps]
      BY DEF Files
    <3>3. snapshot[s][1] = f /\ i \in D
      BY <2>3, <3>1, <3>2
    <3> QED
      BY <3>2, <3>3
  <2> QED
    BY <2>1, <2>2, <2>3 DEF Typed, TypeOK
<1> QED
  BY <1>1, Invariance, PTL

(* With one shard_count no restored item is out of the reach of Get
   (cache.go getShard, shard.go Restore). *)
THEOREM ShardsStayRight == Spec => []KeysInTheirShard
<1>1. Inv => KeysInTheirShard
  <2> SUFFICES ASSUME Inv, ~ Resized, NEW i \in DOMAIN shards, NEW k \in Keys,
                      shards[i][k] # Absent
               PROVE  i = getShard(k, numShards)
    BY DEF KeysInTheirShard
  <2>1. counts \subseteq {numShards} /\ numShards \in ShardCounts
    <3>1. numShards \in ShardCounts /\ counts \subseteq ShardCounts
      BY DEF Inv, Typed
    <3>2. CASE counts = {}
      BY <3>1, <3>2
    <3>3. ASSUME NEW n \in ShardCounts, counts = {n}
          PROVE  counts \subseteq {numShards}
      BY <3>3 DEF Inv, OneSize, LaidOut
    <3> QED
      BY <3>1, <3>2, <3>3, NotResized DEF Resized
  <2>2. LaidOut(numShards)
    BY <2>1 DEF Inv, OneSize
  <2> QED
    BY <2>2 DEF LaidOut, Placed
<1> QED
  BY <1>1, Invariance, PTL

(* A start panics only after a change of shard_count (cache.go GetShard). *)
THEOREM PanicMeansResized == Spec => []PanicsOnlyWhenResized
<1>1. Inv => PanicsOnlyWhenResized
  <2> SUFFICES ASSUME Inv, mode = "panic", ~ Resized
               PROVE  FALSE
    BY DEF PanicsOnlyWhenResized
  <2>1. counts \subseteq ShardCounts /\ numShards \in ShardCounts
    BY DEF Inv, Typed
  <2>2. \E n \in ShardCounts : counts \subseteq {n}
    BY <2>1, NotResized DEF Resized
  <2> QED
    BY <2>2 DEF Inv, Panicked
<1> QED
  BY <1>1, Invariance, PTL

(* Every value in a completed snapshot was in the cache while the save was
   under way (rdb.go Save, json.go collectData). *)
THEOREM SavesAreRecent == Spec => SnapshotIsRecent
<1> DEFINE A == \A s \in Snapshots :
                    saving[s].on /\ ~ saving'[s].on /\ mode' = "up" =>
                        \A k \in Keys : saved'[s][k] \in since[s][k]
<1>1. Inv /\ [Next]_vars => [A]_vars
  <2> SUFFICES ASSUME Inv, Next, NEW s \in Snapshots, saving[s].on, ~ saving'[s].on,
                      mode' = "up", NEW k \in Keys
               PROVE  saved'[s][k] \in since[s][k]
    OBVIOUS
  <2>1. Typed /\ Running /\ mode = "up"
    BY DEF Inv, Running, Idle
  <2>2. SaveRename(s)
    <3>1. ~ Down /\ ~ Exit /\ ~ LogCommand /\ ~ Flush
      BY <2>1 DEF Down, Exit, LogCommand, Flush
    <3>2. \A x \in Keys : ~ Set(x) /\ ~ Delete(x)
      BY DEF Set, Delete, Put
    <3>3. ASSUME NEW t \in Snapshots, SaveBegin(t) \/ SaveShard(t) \/ SaveRename(t)
          PROVE  t = s /\ SaveRename(s)
      <4>1. ~ SaveBegin(t)
        BY <2>1 DEF SaveBegin, Typed
      <4>2. ~ SaveShard(t)
        BY <2>1 DEF SaveShard, Typed
      <4>3. SaveRename(t) => t = s
        BY <2>1 DEF SaveRename, Typed
      <4> QED
        BY <3>3, <4>1, <4>2, <4>3
    <3> QED
      BY <3>1, <3>2, <3>3 DEF Next, LoadAof, LoadNothing, LoadSnapshot, LoadPanics
  <2>3. numShards \in ShardCounts /\ saving[s].read \in Seq(ShardMaps)
        /\ Len(saving[s].read) = numShards
    BY <2>1, <2>2 DEF Typed, SaveRename
  <2>4. getShard(k, numShards) + 1 \in DOMAIN saving[s].read
    <3>1. getShard(k, numShards) \in 0 .. numShards - 1 /\ numShards \in Nat
      BY <2>3, ShardExists, CountOfShards
    <3>2. DOMAIN saving[s].read = 1 .. numShards
      BY <2>3, LenProperties
    <3> QED
      BY <3>1, <3>2
  <2>5. saved'[s][k] = saving[s].read[getShard(k, numShards) + 1][k]
    BY <2>1, <2>2 DEF SaveRename, Typed
  <2> QED
    BY <2>4, <2>5 DEF Inv, Recent
<1> QED
  BY <1>1, Invariance, PTL DEF Spec, SnapshotIsRecent

(* A start from a snapshot gives what the last completed save has read, with
   one shard_count (rdb.go Load, json.go Load). *)
THEOREM LastSaveIsRestored == Spec => RestoresLastSave
<1> DEFINE A == \A s \in Snapshots : LoadSnapshot(s) /\ ~ Resized' => Contents' = saved[s]
<1>1. Inv /\ [Next]_vars => [A]_vars
  <2> SUFFICES ASSUME Inv, [Next]_vars, NEW s \in Snapshots, LoadSnapshot(s), ~ Resized'
               PROVE  Contents' = saved[s]
    OBVIOUS
  <2>1. PICK n \in ShardCounts : shards' = Restored(s, n) /\ counts' = counts \cup {n}
    BY DEF LoadSnapshot, Boot
  <2>2. Typed /\ Typed'
    BY NextInv DEF Inv
  <2>3. Restored(s, n) \in [0 .. n - 1 -> ShardMaps]
        /\ \A k \in Keys : Restored(s, n)[getShard(k, n)][k] = InSnapshot(s, k, n)
    BY <2>2, RestoredShape
  <2>4. numShards' = n
    BY <2>1, <2>3, CacheShape DEF numShards
  <2>5. counts \subseteq {n}
    <3>1. counts' \subseteq ShardCounts
      BY <2>2 DEF Typed
    <3>2. counts' = {} \/ \E m \in ShardCounts : counts' = {m}
      BY <3>1, NotResized DEF Resized
    <3> QED
      BY <2>1, <3>2
  <2>6. \A k \in Keys : saved[s][k] = InSnapshot(s, k, n)
    BY <2>5 DEF Inv, OneSize, LaidOut
  <2>7. Contents' = [k \in Keys |-> Restored(s, n)[getShard(k, n)][k]]
    BY <2>1, <2>4 DEF Contents
  <2>8. saved[s] \in ShardMaps
    BY <2>2 DEF Typed
  <2> QED
    BY <2>3, <2>6, <2>7, <2>8 DEF ShardMaps
<1> QED
  BY <1>1, Invariance, PTL DEF Spec, RestoresLastSave

(* With the AOF enabled throughout, a restart finds no value that is older than
   what the lag of the log explains, and the last one for every key whose log
   was caught up, whatever snapshots there are and however many shards
   (manager.go loadData, aof.go LogCommand, Flush and Stop). *)
THEOREM LoggedSurvives == Spec => LoggedIsRecent
<1> DEFINE A == (Down /\ mode' = "up" /\ logged') =>
                    \A k \in Keys \ raced : Contents'[k] \in recent[k]
<1>1. Inv /\ [Next]_vars => [A]_vars
  <2> SUFFICES ASSUME Inv, Next, Inv', Down, mode' = "up", logged', NEW k \in Keys \ raced
               PROVE  Contents'[k] \in recent[k]
    BY NextInv
  <2>1. mode # "up"
    BY DEF Down
  <2>2. PICK cfg \in Configs, n \in ShardCounts : \E cache : Boot(cfg, n, cache)
    BY <2>1 DEF Next, LoadAof, LoadNothing, LoadSnapshot, LoadPanics, Exit, Set, Delete,
                Put, LogCommand, Flush, SaveBegin, SaveShard, SaveRename
  <2>3. /\ logged /\ aofFile' = IF aofFile = NoFile THEN <<Empty>> ELSE aofFile
        /\ waiting' = waiting /\ buffer' = buffer /\ raced' = {}
    BY <2>2 DEF Boot
  <2>4. waiting = {} /\ buffer = <<>>
    BY <2>1 DEF Inv, Running
  <2>5. aofFile' # NoFile
    BY <2>3 DEF NoFile
  <2>6. ~ UnderWay(k, waiting', buffer')
    BY <2>3, <2>4 DEF UnderWay
  <2>7. aofFile'[1][k] = Contents'[k]
    BY <2>3, <2>5, <2>6 DEF Inv, LogHolds, InLog
  <2>8. CASE aofFile = NoFile
    <3>1. aofFile'[1][k] = Absent
      BY <2>3, <2>8, EmptyType
    <3> QED
      BY <2>3, <2>7, <2>8, <3>1 DEF Inv, LogHolds
  <2>9. CASE aofFile # NoFile
    BY <2>3, <2>7, <2>9 DEF Inv, LogHolds
  <2> QED
    BY <2>8, <2>9
<1> QED
  BY <1>1, Invariance, PTL DEF Spec, LoggedIsRecent

=============================================================================
