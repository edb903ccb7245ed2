---------------------------- MODULE Transaction ----------------------------
(* MULTI, EXEC, DISCARD, WATCH and UNWATCH of internal/server/transaction.go,
   with the transaction state of internal/server/connection.go and the command
   path of internal/server/server.go (processCommandWithTx, processCommand).

   Every connection is served by one goroutine, which executes one client
   command after the other; between commands it may lose its client.  The
   connections share Server.watchers under Server.watcherMu.  A transaction
   command that is rejected (EXEC without MULTI, wrong arguments) or ignored
   (MULTI or WATCH inside a transaction), an unknown command and a data command
   without arguments change nothing and have no action.

   The data behind the commands is abstracted to the keys a command writes.  A
   single-key write command (SET, APPEND, HSET, LPUSH, ...) is "SET"; a command
   that only reads is "GET"; a single-key write command whose handler rejects
   its arguments is "BAD": it writes nothing, but processCommand has announced
   its key by then.                                                          *)
EXTENDS Naturals, Sequences, FiniteSets

CONSTANTS
    Conns,      \* the *Connection objects
    Nobody,     \* "Server.watcherMu is not locked"
    Keys,
    Commands,   \* data commands the clients send
    WatchArgs,  \* argument lists of WATCH
    MaxQueue    \* bound on the number of queued commands

ASSUME NobodyAssumption == Nobody \notin Conns

ASSUME CommandsAssumption ==
    Commands \subseteq [op : {"SET", "DEL", "MSET", "GET", "BAD"}, keys : Seq(Keys)]

ASSUME NonEmptyAssumption ==
    \A cmd \in Commands : Len(cmd.keys) > 0

ASSUME WatchAssumption == WatchArgs \subseteq Seq(Keys) /\ <<>> \notin WatchArgs

ASSUME QueueAssumption == MaxQueue \in Nat

VARIABLES
    phase,          \* per connection: "open", or "gone" once its goroutine ended
    inTransaction,  \* Connection.inTransaction
    queuedCommands, \* Connection.queuedCommands
    watchedKeys,    \* Connection.watchedKeys
    dirty,          \* Connection.dirty
    watchers,       \* Server.watchers: per key, the registered connections
    watcherMu,      \* who holds Server.watcherMu
    task,           \* per connection: where its goroutine is
    announced,      \* history: a write to a watched key was announced since WATCH
    written         \* history: a watched key was written since WATCH

connVars == <<phase, inTransaction, queuedCommands, watchedKeys, dirty>>
vars == <<connVars, watchers, watcherMu, task, announced, written>>

-----------------------------------------------------------------------------
Idle == [pc |-> "idle"]

NonEmpty(S) == Seq(S) \ {<<>>}

Task ==
         {Idle}
    \cup [pc : {"watch", "register"}, args : NonEmpty(Keys)]
    \cup [pc : {"abort", "take"}]
    \cup [pc : {"run"}, cmds : NonEmpty(Commands)]
    \cup [pc : {"mark"}, cmds : NonEmpty(Commands), todo : Seq(Keys)]
    \cup [pc : {"apply"}, cmds : NonEmpty(Commands), todo : NonEmpty(Keys)]
    \cup [pc : {"cleanup"}, keys : SUBSET Keys]

(* By the name of the command, whatever its arguments. *)
isWriteCommand(cmd) == cmd.op \in {"SET", "DEL", "MSET", "BAD"}

(* Seeded fault: the loop over the arguments of MSET takes the values for keys
   as well. *)
extractKeysAndValues(cmd) ==
    IF cmd.op = "MSET" THEN Append(cmd.keys, "value") ELSE <<cmd.keys[1]>>

(* The keys that processCommand announces to the watchers: the first one, and
   all of them for MSET. *)
extractKeys(cmd) ==
    IF cmd.op = "MSET" THEN cmd.keys ELSE <<cmd.keys[1]>>

(* The keys that the handler of a command writes. *)
writtenKeys(cmd) ==
    IF cmd.op \in {"SET", "DEL", "MSET"} THEN cmd.keys ELSE <<>>

Goto(c, next) == task' = [task EXCEPT ![c] = next]

(* An open connection has completed a WATCH of k: it has passed addWatcher. *)
Watches(c, k) ==
    /\ phase[c] = "open"
    /\ k \in watchedKeys[c]
    /\ ~ (task[c].pc = "register" /\ k = Head(task[c].args))

(* History: noted for every connection that watches k. *)
Noted(history, k) == [d \in Conns |-> history[d] \/ Watches(d, k)]

-----------------------------------------------------------------------------
Init ==
    /\ phase = [c \in Conns |-> "open"]
    /\ inTransaction = [c \in Conns |-> FALSE]
    /\ queuedCommands = [c \in Conns |-> <<>>]
    /\ watchedKeys = [c \in Conns |-> {}]
    /\ dirty = [c \in Conns |-> FALSE]
    /\ watchers = [k \in Keys |-> {}]
    /\ watcherMu = Nobody
    /\ task = [c \in Conns |-> Idle]
    /\ announced = [c \in Conns |-> FALSE]
    /\ written = [c \in Conns |-> FALSE]

(* The goroutine of c waits for a command. *)
Ready(c) == phase[c] = "open" /\ task[c].pc = "idle"

(* Seeded fault: MULTI starts with a clean flag. *)
MultiClearsDirty(c) ==
    /\ Ready(c)
    /\ ~ inTransaction[c]
    /\ inTransaction' = [inTransaction EXCEPT ![c] = TRUE]
    /\ queuedCommands' = [queuedCommands EXCEPT ![c] = <<>>]
    /\ dirty' = [dirty EXCEPT ![c] = FALSE]
    /\ UNCHANGED <<phase, watchedKeys, watchers, watcherMu, task, announced, written>>

Multi(c) ==
    /\ Ready(c)
    /\ ~ inTransaction[c]
    /\ inTransaction' = [inTransaction EXCEPT ![c] = TRUE]
    /\ queuedCommands' = [queuedCommands EXCEPT ![c] = <<>>]
    /\ UNCHANGED <<phase, watchedKeys, dirty, watchers, watcherMu, task,
                   announced, written>>

(* A data command inside a transaction is queued. *)
Queue(c) ==
    /\ Ready(c)
    /\ inTransaction[c]
    /\ Len(queuedCommands[c]) < MaxQueue
    /\ \E cmd \in Commands :
           queuedCommands' =
               [queuedCommands EXCEPT ![c] = Append(queuedCommands[c], cmd)]
    /\ UNCHANGED <<phase, inTransaction, watchedKeys, dirty, watchers, watcherMu,
                   task, announced, written>>

(* A data command outside a transaction is executed at once. *)
Receive(c) ==
    /\ Ready(c)
    /\ ~ inTransaction[c]
    /\ \E cmd \in Commands : Goto(c, [pc |-> "run", cmds |-> <<cmd>>])
    /\ UNCHANGED <<connVars, watchers, watcherMu, announced, written>>

(* Connection.ResetTransaction.  Server.watchers keeps the connection. *)
ResetTransaction(c) ==
    /\ inTransaction' = [inTransaction EXCEPT ![c] = FALSE]
    /\ queuedCommands' = [queuedCommands EXCEPT ![c] = <<>>]
    /\ watchedKeys' = [watchedKeys EXCEPT ![c] = {}]
    /\ dirty' = [dirty EXCEPT ![c] = FALSE]

(* History: the watches of c are over. *)
ForgetHistory(c) ==
    /\ announced' = [announced EXCEPT ![c] = FALSE]
    /\ written' = [written EXCEPT ![c] = FALSE]

Discard(c) ==
    /\ Ready(c)
    /\ inTransaction[c]
    /\ ResetTransaction(c)
    /\ ForgetHistory(c)
    /\ UNCHANGED <<phase, watchers, watcherMu, task>>

(* Seeded fault: the dirty flag is not consulted. *)
ExecCheckSkipped(c) ==
    /\ Ready(c)
    /\ inTransaction[c]
    /\ Goto(c, [pc |-> "take"])
    /\ UNCHANGED <<connVars, watchers, watcherMu, announced, written>>

(* EXEC reads the dirty flag under Connection.mu ... *)
ExecCheck(c) ==
    /\ Ready(c)
    /\ inTransaction[c]
    /\ Goto(c, [pc |-> IF dirty[c] THEN "abort" ELSE "take"])
    /\ UNCHANGED <<connVars, watchers, watcherMu, announced, written>>

(* ... and in a later critical section resets a dirty transaction ... *)
ExecAbort(c) ==
    /\ task[c].pc = "abort"
    /\ ResetTransaction(c)
    /\ ForgetHistory(c)
    /\ Goto(c, Idle)
    /\ UNCHANGED <<phase, watchers, watcherMu>>

(* ... or takes the queue of a clean one and leaves the transaction.  The
   watched keys, the dirty flag and the registrations stay as they are. *)
ExecTake(c) ==
    /\ task[c].pc = "take"
    /\ inTransaction' = [inTransaction EXCEPT ![c] = FALSE]
    /\ queuedCommands' = [queuedCommands EXCEPT ![c] = <<>>]
    /\ Goto(c, IF queuedCommands[c] = <<>> THEN Idle
               ELSE [pc |-> "run", cmds |-> queuedCommands[c]])
    /\ ForgetHistory(c)
    /\ UNCHANGED <<phase, watchedKeys, dirty, watchers, watcherMu>>

(* WATCH: for every key, WatchKey and then addWatcher. *)
Watch(c) ==
    /\ Ready(c)
    /\ ~ inTransaction[c]
    /\ \E args \in WatchArgs : Goto(c, [pc |-> "watch", args |-> args])
    /\ UNCHANGED <<connVars, watchers, watcherMu, announced, written>>

WatchKey(c) ==
    LET k == Head(task[c].args)
    IN  /\ task[c].pc = "watch"
        /\ watchedKeys' = [watchedKeys EXCEPT ![c] = @ \cup {k}]
        /\ Goto(c, [pc |-> "register", args |-> task[c].args])
        /\ UNCHANGED <<phase, inTransaction, queuedCommands, dirty, watchers,
                       watcherMu, announced, written>>

(* Seeded fault: addWatcher calls the locking removeWatcher while it holds
   watcherMu, and waits for itself. *)
addWatcherRelock(c) ==
    /\ task[c].pc = "register"
    /\ watcherMu = Nobody
    /\ watcherMu' = c
    /\ UNCHANGED <<connVars, watchers, task, announced, written>>

(* The goroutine of c has dealt with the first WATCH argument. *)
NextWatchArg(c) ==
    Goto(c, IF Len(task[c].args) = 1 THEN Idle
            ELSE [pc |-> "watch", args |-> Tail(task[c].args)])

addWatcher(c) ==
    LET k == Head(task[c].args)
    IN  /\ task[c].pc = "register"
        /\ watcherMu = Nobody
        /\ watchers' = [watchers EXCEPT ![k] = @ \cup {c}]
        /\ NextWatchArg(c)
        /\ UNCHANGED <<connVars, watcherMu, announced, written>>

(* UNWATCH, inside or outside a transaction: the set of watched keys, and only
   that, is cleared. *)
Unwatch(c) ==
    /\ Ready(c)
    /\ watchedKeys' = [watchedKeys EXCEPT ![c] = {}]
    /\ ForgetHistory(c)
    /\ UNCHANGED <<phase, inTransaction, queuedCommands, dirty, watchers, watcherMu,
                   task>>

-----------------------------------------------------------------------------
(* processCommand for the first of the commands that c executes *)

Current(c) == Head(task[c].cmds)

(* The command after the current one, if there is one. *)
NextCommand(c) ==
    IF Len(task[c].cmds) = 1 THEN Idle
    ELSE [pc |-> "run", cmds |-> Tail(task[c].cmds)]

RunRead(c) ==
    /\ task[c].pc = "run"
    /\ ~ isWriteCommand(Current(c))
    /\ Goto(c, NextCommand(c))
    /\ UNCHANGED <<connVars, watchers, watcherMu, announced, written>>

(* markWatchedKeysDirty takes watcherMu ... *)
MarkLock(c) ==
    /\ task[c].pc = "run"
    /\ isWriteCommand(Current(c))
    /\ watcherMu = Nobody
    /\ watcherMu' = c
    /\ Goto(c, [pc |-> "mark", cmds |-> task[c].cmds,
                todo |-> extractKeys(Current(c))])
    /\ UNCHANGED <<connVars, watchers, announced, written>>

(* ... calls MarkDirty, which takes Connection.mu, for one watcher of a key after
   the other, in any order; their goroutines go on meanwhile.  Nobody else reads
   Server.watchers before watcherMu is released, so a watcher can be taken off
   as soon as it is marked, and need not be left for the delete at the end ... *)
MarkConn(c) ==
    LET k == Head(task[c].todo)
    IN  /\ task[c].pc = "mark"
        /\ task[c].todo # <<>>
        /\ \E d \in watchers[k] :
               /\ dirty' = [dirty EXCEPT ![d] = TRUE]
               /\ watchers' = [watchers EXCEPT ![k] = @ \ {d}]
        /\ UNCHANGED <<phase, inTransaction, queuedCommands, watchedKeys, watcherMu,
                       task, announced, written>>

(* ... which makes the announcement of the key complete ... *)
MarkKey(c) ==
    LET k == Head(task[c].todo)
    IN  /\ task[c].pc = "mark"
        /\ task[c].todo # <<>>
        /\ watchers[k] = {}
        /\ Goto(c, [pc |-> "mark", cmds |-> task[c].cmds,
                    todo |-> Tail(task[c].todo)])
        /\ announced' = Noted(announced, k)
        /\ UNCHANGED <<connVars, watchers, watcherMu, written>>

(* ... and releases it; the handler runs afterwards, if it accepts its
   arguments. *)
MarkUnlock(c) ==
    LET keys == writtenKeys(Current(c))
    IN  /\ task[c].pc = "mark"
        /\ task[c].todo = <<>>
        /\ watcherMu' = Nobody
        /\ Goto(c, IF keys = <<>> THEN NextCommand(c)
                   ELSE [pc |-> "apply", cmds |-> task[c].cmds, todo |-> keys])
        /\ UNCHANGED <<connVars, watchers, announced, written>>

(* The handler writes its keys one by one. *)
Apply(c) ==
    LET k == Head(task[c].todo)
    IN  /\ task[c].pc = "apply"
        /\ written' = Noted(written, k)
        /\ Goto(c, IF Len(task[c].todo) = 1 THEN NextCommand(c)
                   ELSE [pc |-> "apply", cmds |-> task[c].cmds,
                         todo |-> Tail(task[c].todo)])
        /\ UNCHANGED <<connVars, watchers, watcherMu, announced>>

-----------------------------------------------------------------------------
(* The client is gone (disconnect, timeout, shutdown): cleanupWatchers, for
   the keys that are watched at this moment. *)
Disconnect(c) ==
    /\ Ready(c)
    /\ phase' = [phase EXCEPT ![c] = "gone"]
    /\ Goto(c, [pc |-> "cleanup", keys |-> watchedKeys[c]])
    /\ ForgetHistory(c)
    /\ UNCHANGED <<inTransaction, queuedCommands, watchedKeys, dirty, watchers,
                   watcherMu>>

removeWatcher(c) ==
    /\ task[c].pc = "cleanup"
    /\ watcherMu = Nobody
    /\ \E k \in task[c].keys :
           /\ watchers' = [watchers EXCEPT ![k] = @ \ {c}]
           /\ Goto(c, [pc |-> "cleanup", keys |-> task[c].keys \ {k}])
    /\ UNCHANGED <<connVars, watcherMu, announced, written>>

CleanupDone(c) ==
    /\ task[c].pc = "cleanup"
    /\ task[c].keys = {}
    /\ Goto(c, Idle)
    /\ UNCHANGED <<connVars, watchers, watcherMu, announced, written>>

-----------------------------------------------------------------------------
(* What the client may ask for, what waits for watcherMu, what just goes on. *)
Ask(c) ==
    Multi(c) \/ Queue(c) \/ Receive(c) \/ Discard(c) \/ ExecCheck(c) \/ Watch(c)
        \/ Unwatch(c) \/ Disconnect(c)

LockStep(c) == addWatcher(c) \/ MarkLock(c) \/ removeWatcher(c)

FreeStep(c) ==
    ExecAbort(c) \/ ExecTake(c) \/ WatchKey(c) \/ RunRead(c) \/ MarkConn(c)
        \/ MarkKey(c) \/ MarkUnlock(c) \/ Apply(c) \/ CleanupDone(c)

Next == \E c \in Conns : Ask(c) \/ LockStep(c) \/ FreeStep(c)

Spec == Init /\ [][Next]_vars

(* A goroutine that has something to do does it; sync.Mutex gives the lock to
   every waiter eventually (starvation mode).  A client need not ask for
   anything. *)
Fairness ==
    \A c \in Conns : WF_vars(FreeStep(c)) /\ SF_vars(LockStep(c))

FairSpec == Spec /\ Fairness

-----------------------------------------------------------------------------
(* Properties *)

TypeOK ==
    /\ phase \in [Conns -> {"open", "gone"}]
    /\ inTransaction \in [Conns -> BOOLEAN]
    /\ queuedCommands \in [Conns -> Seq(Commands)]
    /\ watchedKeys \in [Conns -> SUBSET Keys]
    /\ dirty \in [Conns -> BOOLEAN]
    /\ watchers \in [Keys -> SUBSET Conns]
    /\ watcherMu \in Conns \cup {Nobody}
    /\ task \in [Conns -> Task]
    /\ announced \in [Conns -> BOOLEAN]
    /\ written \in [Conns -> BOOLEAN]

(* No announced write is lost: as long as a connection has not ended its
   watches, a write that processCommand announced for one of its watched keys
   has left it dirty, whatever WATCH, UNWATCH, EXEC and DISCARD did to the
   registrations in between. *)
AnnouncedMeansDirty ==
    \A c \in Conns : announced[c] => dirty[c]

(* When EXEC reads the dirty flag and decides to commit (transaction.go
   handleExec), no write to a watched key has been announced since WATCH.  A
   write that is announced after this step and before the queue is taken is not
   seen any more. *)
CommitSeesAnnouncements ==
    [][\A c \in Conns :
          task[c].pc # "take" /\ task'[c].pc = "take" => ~ announced[c]]_vars

(* Every command of every client is answered, and a connection that is gone
   finishes its cleanup: nobody waits for watcherMu for ever. *)
CommandsComplete ==
    \A c \in Conns : task[c].pc # "idle" ~> task[c].pc = "idle"

(* What the comment in handleExec says the flag means, "dirty (watched keys
   changed)": a transaction commits only if no watched key was written since
   it was watched. *)
CommitMeansUnchanged ==
    [][\A c \in Conns :
          task[c].pc # "take" /\ task'[c].pc = "take" => ~ written[c]]_vars

=============================================================================
