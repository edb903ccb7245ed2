------------------------------ MODULE Handlers ------------------------------
(* The command handlers of internal/handler on strings, hashes, lists, sets and
   sorted sets, the records they log, and AOF.replayCommand.

   A handler is a sequence of calls of the cache, each of them atomic under the
   lock of a shard or of an object: a command with several fields, pairs,
   members or keys makes a step for each.  Handlers of different connections
   interleave at these steps.  A handler that has changed something starts a
   goroutine that logs its command, and answers without waiting for it.

   An object that a handler has looked up stays the object of its key: nothing
   removes an object from the maps of a shard (DEL knows strings only), which
   is why the model names objects by their keys.  Of the time of an item with
   an expiration the model tells apart all of it, a part of it and none left;
   eviction is the subject of module Shard.                                   *)
EXTENDS DataTypes

CONSTANTS
    Clients,     \* connections
    Keys,
    Values,      \* values of strings (in pieces), fields and list elements
    Members,     \* hash fields, and members of sets and sorted sets
    BadScore,    \* a score that is not a number
    Workloads,   \* sets of commands; a behaviour uses the commands of one
    MaxCommands  \* bound on the number of commands

VARIABLES
    db,       \* the cache: for each type, the present keys with their objects
    aged,     \* the keys whose string was stored some time ago: a part of the
              \* time up to its expiration has gone by
    call,     \* per client: the handler it is in, with its locals
    pending,  \* goroutines that have still to log their command
    log,      \* the records of the AOF, in order
    workload, \* the commands of this behaviour
    issued,   \* number of commands so far
    tally,    \* history, per type and key: what the handlers have counted as
              \* added minus removed, to be reported when they return
    raced,    \* history: keys whose commands overlapped
    lossy     \* history: keys with a change that the log does not describe

vars == <<db, aged, call, pending, log, workload, issued, tally, raced, lossy>>

(* A command: its operation, its key, and its arguments, which are
   <<key, value>> for SET, MSET and MSETNX, <<field, value>> for HSET and
   <<score, member>> for ZADD.  The option of SET is "none", "EX" or "PX"; a
   score is a number, or BadScore when ParseFloat refuses it.  Of a command that
   looks up or deletes strings the arguments are the keys. *)
Creating == {"HSET", "LPUSH", "RPUSH", "SADD", "ZADD"}

Removing == {"HDEL", "LPOP", "RPOP", "SREM", "ZREM"}

Storing == {"SET", "MSET", "MSETNX"}

Looking == {"GET", "MGET", "STRLEN", "TTL"}

Writing == Creating \cup Removing \cup Storing \cup {"DEL", "APPEND"}

TypeOf(op) ==
    CASE op \in {"HSET", "HDEL"} -> "hash"
      [] op \in {"LPUSH", "RPUSH", "LPOP", "RPOP"} -> "list"
      [] op \in {"SADD", "SREM"} -> "set"
      [] op \in {"ZADD", "ZREM"} -> "zset"
      [] OTHER -> "str"

(* The arguments that the parser and the handlers expect. *)
ArgsOf(op) ==
    CASE op \in Storing -> Seq(Keys \X Seq(Values))
      [] op = "HSET" -> Seq(Members \X Values)
      [] op = "ZADD" -> Seq((Int \cup {BadScore}) \X Members)
      [] op \in {"HDEL", "SADD", "SREM", "ZREM"} -> Seq(Members)
      [] op \in {"LPUSH", "RPUSH"} -> Seq(Values)
      [] op = "APPEND" -> Seq(Seq(Values))
      [] op \in {"LPOP", "RPOP"} -> {<<>>}
      [] OTHER -> Seq(Keys)

ASSUME CommandAssumption ==
    \A cmd \in UNION Workloads :
        /\ cmd.op \in Writing \cup Looking
        /\ cmd.key \in Keys
        /\ cmd.args \in ArgsOf(cmd.op)
        /\ cmd.opt \in {"none", "EX", "PX"}

ASSUME BoundAssumption == MaxCommands \in Nat

KeysOf(cmd) ==
    CASE cmd.op \in Storing -> {cmd.args[i][1] : i \in DOMAIN cmd.args}
      [] cmd.op \in {"DEL", "MGET"} -> ToSet(cmd.args)
      [] OTHER -> {cmd.key}

(* The tests of the number of arguments with which every handler begins. *)
WellFormed(cmd) == cmd.op \in {"LPOP", "RPOP"} \/ Len(cmd.args) > 0

-----------------------------------------------------------------------------
(* Objects *)

NewObject == [hash |-> <<>>, list |-> <<>>, set |-> {}, zset |-> <<>>]

EmptyDB == [str |-> <<>>, hash |-> <<>>, list |-> <<>>, set |-> <<>>, zset |-> <<>>]

(* The cache d with object o of type t at key k. *)
Store(d, t, k, o) == [d EXCEPT ![t] = Put(@, k, o)]

(* Seeded fault: an object that is there is replaced by a new one. *)
GetOrCreateAnew(d, t, k) == Store(d, t, k, NewObject[t])

GetOrCreate(d, t, k) ==
    IF k \in DOMAIN d[t] THEN d ELSE Store(d, t, k, NewObject[t])

NewItem(cmd, i) ==
    [val |-> cmd.args[i][2], ttl |-> IF cmd.op = "SET" THEN cmd.opt ELSE "none"]

SetItem(d, k, item) == Store(d, "str", k, item)

Delete(d, k) == [d EXCEPT !.str = Drop(@, k)]

IsExpired(item) == item.ttl = "past"

(* Cache.HasKey does not look at the expiration. *)
HasKey(d, k) == k \in DOMAIN d.str

(* Shard.Get finds an item, or it removes the one that has expired. *)
Found(d, k) == HasKey(d, k) /\ ~ IsExpired(d.str[k])

AfterGet(d, k) == IF HasKey(d, k) /\ ~ Found(d, k) THEN Delete(d, k) ELSE d

-----------------------------------------------------------------------------
(* Replay *)

(* Seeded fault: values are pushed as a block, first value first. *)
ReplayPushBlock(d, cmd) ==
    LET l == GetOrCreate(d, "list", cmd.key).list[cmd.key]
    IN  Store(d, "list", cmd.key,
              IF cmd.op = "LPUSH" THEN cmd.args \o l ELSE RPush(l, cmd.args))

ReplayPush(d, cmd) ==
    LET l == GetOrCreate(d, "list", cmd.key).list[cmd.key]
    IN  Store(d, "list", cmd.key,
              IF cmd.op = "LPUSH" THEN LPush(l, cmd.args) ELSE RPush(l, cmd.args))

ReplayPop(d, cmd) ==
    LET l == d.list[cmd.key]
    IN  IF cmd.key \notin DOMAIN d.list \/ l = <<>> THEN d
        ELSE Store(d, "list", cmd.key,
                   IF cmd.op = "LPOP" THEN LPop(l).rest ELSE RPop(l).rest)

ReplaySet(d, cmd) ==
    LET s == GetOrCreate(d, "set", cmd.key).set[cmd.key]
    IN  CASE cmd.op = "SADD" ->
                Store(d, "set", cmd.key, SetAdd(s, cmd.args).set)
          [] cmd.op = "SREM" /\ cmd.key \in DOMAIN d.set ->
                Store(d, "set", cmd.key, SetRemove(s, cmd.args).set)
          [] OTHER -> d

(* The commands that work through their arguments in a loop, one argument. *)

ReplayHash(d, cmd, arg) ==
    LET h == GetOrCreate(d, "hash", cmd.key).hash[cmd.key]
    IN  CASE cmd.op = "HSET" ->
                Store(d, "hash", cmd.key, Put(h, arg[1], arg[2]))
          [] cmd.op = "HDEL" /\ cmd.key \in DOMAIN d.hash ->
                Store(d, "hash", cmd.key, Drop(h, arg))
          [] OTHER -> d

(* A score that does not parse would end the replay of its record; such a
   command is never logged. *)
ReplaySortedSet(d, cmd, arg) ==
    LET z == GetOrCreate(d, "zset", cmd.key).zset[cmd.key]
    IN  CASE cmd.op = "ZADD" ->
                Store(d, "zset", cmd.key, Put(z, arg[2], arg[1]))
          [] cmd.op = "ZREM" /\ cmd.key \in DOMAIN d.zset ->
                Store(d, "zset", cmd.key, Drop(z, arg))
          [] OTHER -> d

(* Of SET's options only EX is replayed. *)
ReplayString(d, cmd, i) ==
    CASE cmd.op \in Storing ->
            SetItem(d, cmd.args[i][1],
                    [NewItem(cmd, i) EXCEPT !.ttl = IF @ = "EX" THEN "EX" ELSE "none"])
      [] cmd.op = "DEL" -> Delete(d, cmd.args[i])
      [] OTHER -> d

ReplayArg(d, cmd, i) ==
    CASE cmd.op \in {"HSET", "HDEL"} -> ReplayHash(d, cmd, cmd.args[i])
      [] cmd.op \in {"ZADD", "ZREM"} -> ReplaySortedSet(d, cmd, cmd.args[i])
      [] OTHER -> ReplayString(d, cmd, i)

(* The loop over the first n arguments. *)
ReplayArgs(d, cmd, n) ==
    LET step(e, i) == ReplayArg(e, cmd, i)
    IN  FoldLeft(step, d, [i \in 1 .. n |-> i])

(* MSETNX tests its keys again. *)
SkipsNx(d, cmd) == cmd.op = "MSETNX" /\ \E k \in KeysOf(cmd) : HasKey(d, k)

(* AOF.replayCommand; a command without a case, APPEND, is skipped. *)
replayCommand(d, cmd) ==
    CASE cmd.op \in {"LPUSH", "RPUSH"} -> ReplayPush(d, cmd)
      [] cmd.op \in {"LPOP", "RPOP"} -> ReplayPop(d, cmd)
      [] cmd.op \in {"SADD", "SREM"} -> ReplaySet(d, cmd)
      [] SkipsNx(d, cmd) -> d
      [] OTHER -> ReplayArgs(d, cmd, Len(cmd.args))

Load == FoldLeft(replayCommand, EmptyDB, log)

-----------------------------------------------------------------------------
(* Read commands: the replies that a cache d gives for key k.  A reply that may
   be null is a sequence of at most one value. *)

HGet(d, k, f) ==
    IF k \in DOMAIN d.hash /\ f \in DOMAIN d.hash[k] THEN <<d.hash[k][f]>> ELSE <<>>

HGetAll(d, k) == IF k \in DOMAIN d.hash THEN d.hash[k] ELSE <<>>

HLen(d, k) == IF k \in DOMAIN d.hash THEN Cardinality(DOMAIN d.hash[k]) ELSE 0

HExists(d, k, f) == k \in DOMAIN d.hash /\ f \in DOMAIN d.hash[k]

HKeys(d, k) == IF k \in DOMAIN d.hash THEN DOMAIN d.hash[k] ELSE {}

HVals(d, k) ==
    IF k \in DOMAIN d.hash
    THEN [v \in Range(d.hash[k]) |->
             Cardinality({f \in DOMAIN d.hash[k] : d.hash[k][f] = v})]
    ELSE <<>>

LRangeOf(d, k, start, stop) ==
    IF k \in DOMAIN d.list THEN LRange(d.list[k], start, stop) ELSE <<>>

LLen(d, k) == IF k \in DOMAIN d.list THEN Len(d.list[k]) ELSE 0

SMembers(d, k) == IF k \in DOMAIN d.set THEN d.set[k] ELSE {}

SIsMember(d, k, x) == k \in DOMAIN d.set /\ x \in d.set[k]

SCard(d, k) == IF k \in DOMAIN d.set THEN Cardinality(d.set[k]) ELSE 0

ZRangeOf(d, k, start, stop) ==
    IF k \in DOMAIN d.zset THEN ZRange(d.zset[k], start, stop) ELSE {<<>>}

ZCard(d, k) == IF k \in DOMAIN d.zset THEN Cardinality(DOMAIN d.zset[k]) ELSE 0

ZScore(d, k, x) ==
    IF k \in DOMAIN d.zset /\ x \in DOMAIN d.zset[k] THEN <<d.zset[k][x]>> ELSE <<>>

Get(d, k) == IF Found(d, k) THEN <<d.str[k].val>> ELSE <<>>

Exists(d, k) == HasKey(d, k)

Strlen(d, k) == IF Found(d, k) THEN Len(d.str[k].val) ELSE 0

(* All or a part of the time is left for the keys that are not, or are, among
   the aged ones; the codes for "no expiration" and "no key" are "none" and
   "missing". *)
TTL(d, old, k) ==
    CASE ~ Found(d, k) -> "missing"
      [] Found(d, k) /\ d.str[k].ttl = "none" -> "none"
      [] OTHER -> IF k \in old THEN "part" ELSE "all"

(* The replies about key k, of all commands but TTL. *)
Replies(d, k) ==
    [hash |-> [f \in Members |-> <<HGet(d, k, f), HExists(d, k, f)>>],
     fields |-> <<HGetAll(d, k), HLen(d, k), HKeys(d, k), HVals(d, k)>>,
     list |-> <<LRangeOf(d, k, 0, -1), LLen(d, k)>>,
     set |-> <<SMembers(d, k), SCard(d, k), [x \in Members |-> SIsMember(d, k, x)]>>,
     zset |-> <<ZRangeOf(d, k, 0, -1), ZCard(d, k), [x \in Members |-> ZScore(d, k, x)]>>,
     str |-> <<Get(d, k), Exists(d, k), Strlen(d, k)>>]

-----------------------------------------------------------------------------
Idle == [pc |-> "idle"]

(* The types whose handlers count members. *)
Sized == {"hash", "set", "zset"}

Init ==
    /\ db = EmptyDB
    /\ aged = {}
    /\ call = [c \in Clients |-> Idle]
    /\ pending = {}
    /\ log = <<>>
    /\ workload \in Workloads
    /\ issued = 0
    /\ tally = [t \in Sized |-> [k \in Keys |-> 0]]
    /\ raced = {}
    /\ lossy = {}

(* History: the write commands on the way from their first step to the log. *)
Underway ==
    {call[c].cmd : c \in {x \in Clients : call[x].pc # "idle"}}
        \cup {r.cmd : r \in pending}

RacedBy(cmd) ==
    LET rivals == {w \in Underway :
                      w.op \in Writing /\ KeysOf(w) \cap KeysOf(cmd) # {}}
    IN  IF cmd.op \notin Writing \/ rivals = {} THEN {}
        ELSE KeysOf(cmd) \cup UNION {KeysOf(w) : w \in rivals}

(* History: APPEND is not replayed, and PX is replayed as no expiration. *)
LossyBy(cmd) ==
    IF cmd.op = "APPEND" \/ (cmd.op = "SET" /\ cmd.opt = "PX") THEN KeysOf(cmd) ELSE {}

FirstPc(op) ==
    CASE op \in Creating -> "create"
      [] op \in Removing -> "find"
      [] op = "MSETNX" -> "check"
      [] OTHER -> "run"

(* A handler is called; one with too few arguments answers with an error. *)
Begin(c) ==
    /\ call[c].pc = "idle"
    /\ issued < MaxCommands
    /\ issued' = issued + 1
    /\ \E cmd \in workload :
           IF WellFormed(cmd)
           THEN /\ call' = [call EXCEPT ![c] =
                               [pc |-> FirstPc(cmd.op), cmd |-> cmd, i |-> 1,
                                id |-> issued, old |-> <<>>]]
                /\ raced' = raced \cup RacedBy(cmd)
                /\ lossy' = lossy \cup LossyBy(cmd)
           ELSE UNCHANGED <<call, raced, lossy>>
    /\ UNCHANGED <<db, aged, pending, log, workload, tally>>

At(c, pc, ops) == call[c].pc = pc /\ call[c].cmd.op \in ops

Key(c) == call[c].cmd.key

Arg(c) == call[c].cmd.args[call[c].i]

Return(c) == call' = [call EXCEPT ![c] = Idle] /\ UNCHANGED pending

(* The end of a handler: a goroutine takes the command to the log. *)
LogAndReturn(c) ==
    /\ pending' = pending \cup {[id |-> call[c].id, cmd |-> call[c].cmd]}
    /\ call' = [call EXCEPT ![c] = Idle]

Goto(c, pc, i) == call' = [call EXCEPT ![c].pc = pc, ![c].i = i] /\ UNCHANGED pending

(* The end of an iteration over the arguments. *)
NextArg(c, pc) ==
    IF call[c].i < Len(call[c].cmd.args)
    THEN Goto(c, pc, call[c].i + 1)
    ELSE LogAndReturn(c)

Counted(c, n) == tally' = [tally EXCEPT ![TypeOf(call[c].cmd.op)][Key(c)] = @ + n]

(* GetOrCreateHash and its like. *)
Create(c) ==
    /\ At(c, "create", Creating)
    /\ db' = GetOrCreate(db, TypeOf(call[c].cmd.op), Key(c))
    /\ Goto(c, "run", 1)
    /\ UNCHANGED <<aged, log, workload, issued, tally, raced, lossy>>

(* GetHash and its like: without an object the handler ends, unlogged. *)
Find(c) ==
    /\ At(c, "find", Removing)
    /\ IF Key(c) \in DOMAIN db[TypeOf(call[c].cmd.op)]
       THEN Goto(c, "run", 1)
       ELSE Return(c)
    /\ UNCHANGED <<db, aged, log, workload, issued, tally, raced, lossy>>

(* HSET, one field: Hash.Has decides whether it counts as new, and Hash.Set
   stores it under a lock taken anew. *)
HSetHas(c) ==
    /\ At(c, "run", {"HSET"})
    /\ Counted(c, IF Arg(c)[1] \in DOMAIN db.hash[Key(c)] THEN 0 ELSE 1)
    /\ Goto(c, "put", call[c].i)
    /\ UNCHANGED <<db, aged, log, workload, issued, raced, lossy>>

HSetPut(c) ==
    /\ At(c, "put", {"HSET"})
    /\ db' = Store(db, "hash", Key(c), Put(db.hash[Key(c)], Arg(c)[1], Arg(c)[2]))
    /\ NextArg(c, "run")
    /\ UNCHANGED <<aged, log, workload, issued, tally, raced, lossy>>

HDelField(c) ==
    LET h == db.hash[Key(c)]
    IN  /\ At(c, "run", {"HDEL"})
        /\ db' = Store(db, "hash", Key(c), Drop(h, Arg(c)))
        /\ Counted(c, IF Arg(c) \in DOMAIN h THEN -1 ELSE 0)
        /\ NextArg(c, "run")
        /\ UNCHANGED <<aged, log, workload, issued, raced, lossy>>

Push(c) ==
    LET cmd == call[c].cmd
        l == db.list[Key(c)]
    IN  /\ At(c, "run", {"LPUSH", "RPUSH"})
        /\ db' = Store(db, "list", Key(c),
                       IF cmd.op = "LPUSH" THEN LPush(l, cmd.args) ELSE RPush(l, cmd.args))
        /\ LogAndReturn(c)
        /\ UNCHANGED <<aged, log, workload, issued, tally, raced, lossy>>

PopEmpty(c) ==
    /\ At(c, "run", {"LPOP", "RPOP"})
    /\ db.list[Key(c)] = <<>>
    /\ Return(c)
    /\ UNCHANGED <<db, aged, log, workload, issued, tally, raced, lossy>>

Pop(c) ==
    LET l == db.list[Key(c)]
    IN  /\ At(c, "run", {"LPOP", "RPOP"})
        /\ l # <<>>
        /\ db' = Store(db, "list", Key(c),
                       IF call[c].cmd.op = "LPOP" THEN LPop(l).rest ELSE RPop(l).rest)
        /\ LogAndReturn(c)
        /\ UNCHANGED <<aged, log, workload, issued, tally, raced, lossy>>

SAdd(c) ==
    LET new == SetAdd(db.set[Key(c)], call[c].cmd.args)
    IN  /\ At(c, "run", {"SADD"})
        /\ db' = Store(db, "set", Key(c), new.set)
        /\ Counted(c, new.count)
        /\ LogAndReturn(c)
        /\ UNCHANGED <<aged, log, workload, issued, raced, lossy>>

SRem(c) ==
    LET new == SetRemove(db.set[Key(c)], call[c].cmd.args)
    IN  /\ At(c, "run", {"SREM"})
        /\ db' = Store(db, "set", Key(c), new.set)
        /\ Counted(c, - new.count)
        /\ LogAndReturn(c)
        /\ UNCHANGED <<aged, log, workload, issued, raced, lossy>>

(* Seeded fault: score and member are handed over in the wrong order. *)
ZAddPairSwapped(c) ==
    LET z == db.zset[Key(c)]
    IN  /\ At(c, "run", {"ZADD"})
        /\ Arg(c)[1] # BadScore
        /\ db' = Store(db, "zset", Key(c), Put(z, Arg(c)[1], Arg(c)[2]))
        /\ Counted(c, IF Arg(c)[1] \in DOMAIN z THEN 0 ELSE 1)
        /\ NextArg(c, "run")
        /\ UNCHANGED <<aged, log, workload, issued, raced, lossy>>

ZAddPair(c) ==
    LET z == db.zset[Key(c)]
    IN  /\ At(c, "run", {"ZADD"})
        /\ Arg(c)[1] # BadScore
        /\ db' = Store(db, "zset", Key(c), Put(z, Arg(c)[2], Arg(c)[1]))
        /\ Counted(c, IF Arg(c)[2] \in DOMAIN z THEN 0 ELSE 1)
        /\ NextArg(c, "run")
        /\ UNCHANGED <<aged, log, workload, issued, raced, lossy>>

(* A score that does not parse ends ZADD with an error: the pairs before it
   are stored, their count is not reported, and nothing is logged. *)
ZAddInvalid(c) ==
    /\ At(c, "run", {"ZADD"})
    /\ Arg(c)[1] = BadScore
    /\ lossy' = IF call[c].i > 1 THEN lossy \cup {Key(c)} ELSE lossy
    /\ Return(c)
    /\ UNCHANGED <<db, aged, log, workload, issued, tally, raced>>

ZRemMember(c) ==
    LET z == db.zset[Key(c)]
    IN  /\ At(c, "run", {"ZREM"})
        /\ db' = Store(db, "zset", Key(c), Drop(z, Arg(c)))
        /\ Counted(c, IF Arg(c) \in DOMAIN z THEN -1 ELSE 0)
        /\ NextArg(c, "run")
        /\ UNCHANGED <<aged, log, workload, issued, raced, lossy>>

(* Seeded fault: only the first key is tested. *)
NxCheckFirst(c) ==
    /\ At(c, "check", {"MSETNX"})
    /\ IF HasKey(db, Arg(c)[1]) THEN Return(c) ELSE Goto(c, "run", 1)
    /\ UNCHANGED <<db, aged, log, workload, issued, tally, raced, lossy>>

(* MSETNX tests its keys one by one; a key that is present ends it. *)
NxCheck(c) ==
    /\ At(c, "check", {"MSETNX"})
    /\ CASE HasKey(db, Arg(c)[1]) -> Return(c)
         [] ~ HasKey(db, Arg(c)[1]) /\ call[c].i < Len(call[c].cmd.args) ->
                Goto(c, "check", call[c].i + 1)
         [] OTHER -> Goto(c, "run", 1)
    /\ UNCHANGED <<db, aged, log, workload, issued, tally, raced, lossy>>

(* SET, MSET and the second part of MSETNX: one key after the other.  History:
   whether MSETNX succeeds depends on all its keys, at replay too. *)
PutKey(c) ==
    LET cmd == call[c].cmd
        keys == KeysOf(cmd)
    IN  /\ At(c, "run", Storing)
        /\ db' = SetItem(db, Arg(c)[1], NewItem(cmd, call[c].i))
        /\ lossy' = IF cmd.op = "MSETNX" /\ keys \cap lossy # {}
                    THEN lossy \cup keys ELSE lossy
        /\ raced' = IF cmd.op = "MSETNX" /\ keys \cap raced # {}
                    THEN raced \cup keys ELSE raced
        /\ aged' = aged \ {Arg(c)[1]}
        /\ NextArg(c, "run")
        /\ UNCHANGED <<log, workload, issued, tally>>

DelKey(c) ==
    /\ At(c, "run", {"DEL"})
    /\ db' = Delete(db, Arg(c))
    /\ NextArg(c, "run")
    /\ UNCHANGED <<aged, log, workload, issued, tally, raced, lossy>>

(* APPEND reads the value in one call and stores the longer one, without an
   expiration, in another. *)
AppendGet(c) ==
    /\ At(c, "run", {"APPEND"})
    /\ db' = AfterGet(db, Key(c))
    /\ call' = [call EXCEPT ![c].pc = "put",
                            ![c].old = IF Found(db, Key(c)) THEN db.str[Key(c)].val ELSE <<>>]
    /\ UNCHANGED <<aged, pending, log, workload, issued, tally, raced, lossy>>

AppendSet(c) ==
    /\ At(c, "put", {"APPEND"})
    /\ db' = SetItem(db, Key(c), [val |-> call[c].old \o Arg(c), ttl |-> "none"])
    /\ aged' = aged \ {Key(c)}
    /\ LogAndReturn(c)
    /\ UNCHANGED <<log, workload, issued, tally, raced, lossy>>

(* GET, STRLEN and TTL of a key, MGET of several: an expired item goes. *)
Look(c) ==
    /\ At(c, "run", Looking)
    /\ db' = AfterGet(db, Arg(c))
    /\ IF call[c].i < Len(call[c].cmd.args)
       THEN Goto(c, "run", call[c].i + 1)
       ELSE Return(c)
    /\ UNCHANGED <<aged, log, workload, issued, tally, raced, lossy>>

LogCommand ==
    \E r \in pending :
        /\ pending' = pending \ {r}
        /\ log' = Append(log, r.cmd)
        /\ UNCHANGED <<db, aged, call, workload, issued, tally, raced, lossy>>

(* A part of the time of an item goes by. *)
Elapse(k) ==
    /\ HasKey(db, k) /\ k \notin aged
    /\ db.str[k].ttl \in {"EX", "PX"}
    /\ aged' = aged \cup {k}
    /\ UNCHANGED <<db, call, pending, log, workload, issued, tally, raced, lossy>>

(* The time of an item runs out.  Its record is older than that time. *)
Expire(k) ==
    /\ HasKey(db, k) /\ k \in aged
    /\ db.str[k].ttl \in {"EX", "PX"}
    /\ db' = [db EXCEPT !.str[k].ttl = "past"]
    /\ lossy' = lossy \cup {k}
    /\ UNCHANGED <<aged, call, pending, log, workload, issued, tally, raced>>

Handle(c) ==
    \/ Create(c) \/ Find(c)
    \/ HSetHas(c) \/ HSetPut(c) \/ HDelField(c)
    \/ Push(c) \/ PopEmpty(c) \/ Pop(c)
    \/ SAdd(c) \/ SRem(c)
    \/ ZAddPair(c) \/ ZAddInvalid(c) \/ ZRemMember(c)
    \/ NxCheck(c) \/ PutKey(c) \/ DelKey(c)
    \/ AppendGet(c) \/ AppendSet(c) \/ Look(c)

Next ==
    \/ \E c \in Clients : Begin(c) \/ Handle(c)
    \/ LogCommand
    \/ \E k \in Keys : Elapse(k) \/ Expire(k)

Spec == Init /\ [][Next]_vars

-----------------------------------------------------------------------------
(* Properties *)

TypeOK ==
    /\ \A t \in DOMAIN db : DOMAIN db[t] \subseteq Keys
    /\ \A k \in DOMAIN db.str :
           /\ db.str[k].val \in Seq(Values)
           /\ db.str[k].ttl \in {"none", "EX", "PX", "past"}
    /\ \A k \in DOMAIN db.hash :
           DOMAIN db.hash[k] \subseteq Members /\ Range(db.hash[k]) \subseteq Values
    /\ \A k \in DOMAIN db.list : db.list[k] \in Seq(Values)
    /\ \A k \in DOMAIN db.set : db.set[k] \subseteq Members
    /\ \A k \in DOMAIN db.zset :
           DOMAIN db.zset[k] \subseteq Members /\ Range(db.zset[k]) \subseteq Int
    /\ \A c \in Clients :
           call[c].pc # "idle" => call[c].cmd \in workload /\ call[c].id < issued
    /\ \A r \in pending : r.cmd \in workload
    /\ ToSet(log) \subseteq workload
    /\ aged \subseteq Keys
    /\ tally \in [Sized -> [Keys -> Int]]
    /\ raced \subseteq Keys
    /\ lossy \subseteq Keys

Quiet == pending = {} /\ \A c \in Clients : call[c].pc = "idle"

(* When no command is under way, a cache rebuilt from the log by
   replayCommand answers every read command about a key as the running cache
   does, for all types, but for TTL: an expiration in seconds begins again at
   its full length, however much of it had gone by (aof.go:159-163).  Not so
   for keys whose commands overlapped at some time, and for keys that APPEND,
   PX, a ZADD that failed half-way or the expiration of an item have changed
   without a record that replay would understand. *)
ReplayAnswersAlike ==
    Quiet => LET d == Load
             IN  \A k \in Keys \ (raced \cup lossy) :
                     /\ Replies(d, k) = Replies(db, k)
                     /\ TTL(d, {}, k) = IF TTL(db, aged, k) = "part" THEN "all"
                                        ELSE TTL(db, aged, k)

(* When every handler has returned, what SADD, ZADD and HSET have reported as
   new, less what SREM, ZREM and HDEL have reported as removed, is what SCARD,
   ZCARD and HLEN answer, however the handlers interleaved.  Except for ZADD on
   a key where one failed half-way, which reports an error and not the pairs it
   has stored (sortedset.go:33-38), and for hashes whose commands overlapped at
   some time, since HSET tests and stores a field in two steps. *)
CountsAddUp ==
    Quiet => \A k \in Keys :
        /\ k \in DOMAIN db.set => tally.set[k] = SCard(db, k)
        /\ k \in DOMAIN db.zset \ lossy => tally.zset[k] = ZCard(db, k)
        /\ k \in DOMAIN db.hash \ raced => tally.hash[k] = HLen(db, k)

(* MSETNX never overwrites a value but its own, for a key it is given twice:
   its tests of all keys, before the first store, still hold when it stores
   them.  Nothing is said of a key in raced, for which write commands have
   overlapped, with this one or at any time before it. *)
MsetnxKeepsValues ==
    [][\A c \in Clients :
          At(c, "run", {"MSETNX"}) /\ db' # db /\ HasKey(db, Arg(c)[1])
              => \/ Arg(c)[1] \in raced
                 \/ \E j \in 1 .. call[c].i - 1 :
                        call[c].cmd.args[j][1] = Arg(c)[1]]_vars

(* LRANGE and ZRANGE give the elements between two positions, for positions
   counted from either end, inside or beyond them. *)
RangesAreSlices ==
    Quiet => \A start, stop \in -4 .. 4 :
        /\ \A k \in DOMAIN db.list :
               LRange(db.list[k], start, stop) = Slice(db.list[k], start, stop)
        /\ \A k \in DOMAIN db.zset :
               ZRange(db.zset[k], start, stop) =
                   {Slice(s, start, stop) : s \in Rankings(db.zset[k])}

=============================================================================
