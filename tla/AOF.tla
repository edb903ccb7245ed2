-------------------------------- MODULE AOF --------------------------------
(* The append-only file, from the command handlers that write to it to the
   replay that rebuilds the cache from it.

   A handler changes the cache first and then hands the record to the log with
   `go LogCommand(...)': from there on the record is carried by a goroutine of
   its own, and the goroutines take the log's mutex in any order.  LogCommand
   appends to a buffered writer; a ticker, a full buffer and Stop move the
   buffer to the file.  A crash loses goroutines and buffer.

   A value is the sequence of the pieces it was put together from: SET stores
   one piece, APPEND adds one; a key that is absent has the empty sequence.
   Expiry and eviction, which write no record, and a record cut in two by a
   crash are left out.                                                       *)
EXTENDS Naturals, Sequences, SequencesExt

CONSTANTS
    Conns,      \* connections, each running one command at a time
    Keys,
    Pieces,     \* the strings that SET and APPEND are given
    Ops,        \* the commands in use, among SET, DEL, APPEND
    MaxWrites   \* bound on the commands of a behaviour

ASSUME OpsAssumption == Ops \subseteq {"SET", "DEL", "APPEND"}
ASSUME MaxWritesAssumption == MaxWrites \in Nat

VARIABLES
    store,      \* the cache
    conn,       \* per connection: the APPEND it is in the middle of
    pending,    \* LogCommand goroutines that have not run, oldest first
    buffer,     \* AOF.writer
    file,       \* pendem.aof
    mode,       \* the process: "up", "stopping" (signal received), "down"
    writes,     \* commands applied so far, which also numbers them
    raced       \* history: the keys written to while an earlier write of the
                \* same key was still pending, since the last start

vars == <<store, conn, pending, buffer, file, mode, writes, raced>>

Absent  == <<>>
Idle    == <<>>
NoPiece == "none"   \* DEL has a key and nothing else

Record(n, op, k, p) == [id |-> n, op |-> op, key |-> k, piece |-> p]

-----------------------------------------------------------------------------
(* Replay *)

(* Seeded fault: DEL is among the unknown commands. *)
replayCommandNoDel(s, r) ==
    IF r.op = "SET" THEN [s EXCEPT ![r.key] = <<r.piece>>] ELSE s

(* Seeded fault: the key is taken from the place of the value. *)
replayCommandShifted(s, r) ==
    IF r.op = "SET" THEN [k \in DOMAIN s \cup {r.piece} |->
                              IF k = r.piece THEN <<r.piece>> ELSE s[k]]
    ELSE s

(* AOF.replayCommand: there is no case for APPEND, which falls to the default,
   reports an unknown command and changes nothing. *)
replayCommand(s, r) ==
    CASE r.op = "SET" -> [s EXCEPT ![r.key] = <<r.piece>>]
      [] r.op = "DEL" -> [s EXCEPT ![r.key] = Absent]
      [] OTHER        -> s

(* AOF.Load into a new cache: an error of one command does not stop it. *)
Load(log) == FoldLeft(replayCommand, [k \in Keys |-> Absent], log)

-----------------------------------------------------------------------------
Init ==
    /\ store = [k \in Keys |-> Absent]
    /\ conn = [c \in Conns |-> Idle]
    /\ pending = <<>>
    /\ buffer = <<>>
    /\ file = <<>>
    /\ mode = "up"
    /\ writes = 0
    /\ raced = {}

Serving == mode \in {"up", "stopping"}

(* The end of a handler: the cache holds v under k, and a goroutine carries
   the record. *)
Apply(op, k, p, v) ==
    /\ writes < MaxWrites
    /\ writes' = writes + 1
    /\ store' = [store EXCEPT ![k] = v]
    /\ pending' = Append(pending, Record(writes + 1, op, k, p))
    /\ raced' = IF \E i \in DOMAIN pending : pending[i].key = k
                THEN raced \cup {k}
                ELSE raced
    /\ UNCHANGED <<buffer, file, mode>>

(* Handler.Set *)
Set(c) ==
    /\ Serving /\ conn[c] = Idle /\ "SET" \in Ops
    /\ \E k \in Keys, p \in Pieces : Apply("SET", k, p, <<p>>)
    /\ UNCHANGED conn

(* Handler.Delete of one key: logged whether or not the key was there. *)
Delete(c) ==
    /\ Serving /\ conn[c] = Idle /\ "DEL" \in Ops
    /\ \E k \in Keys : Apply("DEL", k, NoPiece, Absent)
    /\ UNCHANGED conn

(* Handler.Append, up to its read of the old value, a lookup of its own. *)
AppendGet(c) ==
    /\ Serving /\ conn[c] = Idle /\ "APPEND" \in Ops
    /\ \E k \in Keys, p \in Pieces :
           conn' = [conn EXCEPT ![c] = <<k, p, store[k]>>]
    /\ UNCHANGED <<store, pending, buffer, file, mode, writes, raced>>

(* Handler.Append, the rest: stores the concatenation. *)
AppendSet(c) ==
    /\ Serving /\ conn[c] # Idle
    /\ Apply("APPEND", conn[c][1], conn[c][2], Append(conn[c][3], conn[c][2]))
    /\ conn' = [conn EXCEPT ![c] = Idle]

-----------------------------------------------------------------------------
(* The log *)

(* AOF.LogCommand: whichever goroutine gets the mutex. *)
LogCommand ==
    /\ Serving
    /\ \E i \in DOMAIN pending :
           /\ buffer' = Append(buffer, pending[i])
           /\ pending' = RemoveAt(pending, i)
    /\ UNCHANGED <<store, conn, file, mode, writes, raced>>

(* Seeded fault: the buffer is not emptied by the write. *)
FlushKeepsBuffer ==
    /\ Serving /\ buffer # <<>>
    /\ file' = file \o buffer
    /\ UNCHANGED <<store, conn, pending, buffer, mode, writes, raced>>

(* Seeded fault: the ticker's channel is never read. *)
FlushNever ==
    /\ FALSE
    /\ UNCHANGED vars

(* AOF.Flush, from flushLoop's ticker, or a write to a full buffer. *)
Flush ==
    /\ Serving /\ buffer # <<>>
    /\ file' = file \o buffer
    /\ buffer' = <<>>
    /\ UNCHANGED <<store, conn, pending, mode, writes, raced>>

-----------------------------------------------------------------------------
(* The process *)

(* main receives SIGINT or SIGTERM and calls Server.Shutdown. *)
Signal ==
    /\ mode = "up"
    /\ mode' = "stopping"
    /\ UNCHANGED <<store, conn, pending, buffer, file, writes, raced>>

(* The process ends: what only memory held is gone.  The cache is kept for
   the properties to look at; the program does not see it again. *)
Exit ==
    /\ mode' = "down"
    /\ conn' = [c \in Conns |-> Idle]
    /\ pending' = <<>>
    /\ buffer' = <<>>
    /\ UNCHANGED <<store, writes, raced>>

(* Seeded fault: Stop closes the file without the last Flush. *)
StopNoFlush ==
    /\ mode = "stopping"
    /\ \A c \in Conns : conn[c] = Idle
    /\ UNCHANGED file
    /\ Exit

(* Every connection has finished, Shutdown returns nil, main returns, and the
   deferred Manager.Stop runs AOF.Stop, whose wait group is empty: the buffer
   is flushed, the goroutines are not waited for. *)
Stop ==
    /\ mode = "stopping"
    /\ \A c \in Conns : conn[c] = Idle
    /\ file' = file \o buffer
    /\ Exit

(* A command is still running after 30 seconds: os.Exit(1), which skips the
   deferred Manager.Stop. *)
ShutdownTimeout ==
    /\ mode = "stopping"
    /\ \E c \in Conns : conn[c] # Idle
    /\ UNCHANGED file
    /\ Exit

Crash ==
    /\ Serving
    /\ UNCHANGED file
    /\ Exit

(* Manager.Start with the AOF enabled: Load, then open the file to append. *)
Start ==
    /\ mode = "down"
    /\ mode' = "up"
    /\ store' = Load(file)
    /\ raced' = {}
    /\ UNCHANGED <<conn, pending, buffer, file, writes>>

Next ==
    \/ \E c \in Conns : Set(c) \/ Delete(c) \/ AppendGet(c) \/ AppendSet(c)
    \/ LogCommand \/ Flush
    \/ Signal \/ Stop \/ ShutdownTimeout \/ Crash \/ Start

Spec == Init /\ [][Next]_vars

(* Goroutines that are ready are scheduled, sync.Mutex starves nobody, and the
   ticker fires.  Nothing is assumed of the clients, signals and crashes. *)
Waits(n) == \E i \in DOMAIN pending : pending[i].id = n

LogRecord(n) == LogCommand /\ Waits(n) /\ ~ Waits(n)'

FairSpec ==
    /\ Spec
    /\ WF_vars(Flush)
    /\ \A n \in 1 .. MaxWrites : WF_vars(LogRecord(n))

-----------------------------------------------------------------------------
(* Properties *)

Records == [id : 1 .. MaxWrites, op : Ops, key : Keys, piece : Pieces \cup {NoPiece}]

(* The whole log: what the file will hold if nothing fails. *)
Log == file \o buffer \o pending

TypeOK ==
    /\ store \in [Keys -> Seq(Pieces)]
    /\ conn \in [Conns -> {Idle} \cup (Keys \X Pieces \X Seq(Pieces))]
    /\ pending \in Seq(Records)
    /\ buffer \in Seq(Records)
    /\ file \in Seq(Records)
    /\ mode \in {"up", "stopping", "down"}
    /\ writes \in 0 .. MaxWrites
    /\ raced \subseteq Keys

(* A key that replay can be right about: no APPEND to it is logged, and no
   write of it overtook the logging of an earlier one. *)
Replayable(k) ==
    /\ k \notin raced
    /\ \A i \in DOMAIN Log : Log[i].key = k => Log[i].op # "APPEND"

(* The log never falls behind the cache for good: for a key whose writes did
   not overlap, replaying the file, the buffer and the records under way gives
   the value the cache holds, across crashes and restarts (string.go Set and
   Delete, aof.go LogCommand, Flush and replayCommand together). *)
LogCatchesUp ==
    Serving => \A k \in Keys : Replayable(k) => Load(Log)[k] = store[k]

(* No record is written twice or made up: every record has its own place in
   the log, whatever the order of the goroutines, flushes, stops and restarts,
   so replaying the pops and pushes of a log never does one of them twice. *)
RecordedOnce ==
    \A i, j \in DOMAIN Log : Log[i].id = Log[j].id => i = j

(* A graceful stop that finds no goroutine under way leaves a file from which
   every replayable key gets the value it last had (manager.go Stop). *)
StopSavesLogged ==
    [][(Stop /\ pending = <<>>) =>
           \A k \in Keys : Replayable(k) => Load(file')[k] = store[k]]_vars

(* Every record reaches the file unless the process ends first. *)
EventuallyDurable ==
    \A n \in 1 .. MaxWrites :
        Waits(n) ~> (mode # "up" \/ \E i \in DOMAIN file : file[i].id = n)

(* manager.go calls the AOF the most up-to-date copy of the data: when every
   record is logged, replaying the log gives the cache.  Two overlapping
   writes of a key break it, and so does APPEND. *)
LogIsUpToDate ==
    (Serving /\ pending = <<>>) => Load(Log) = store

=============================================================================
