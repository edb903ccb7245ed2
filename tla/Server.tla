------------------------------- MODULE Server -------------------------------
(* The life of the TCP server and of its connections: the accept loop, the
   connection limit, the handler goroutine of every connection with its idle
   monitor and its shutdown watcher, AUTH, and the shutdown that main waits for
   (internal/server/server.go, internal/server/connection.go, cmd/main.go).

   What a command does is left to the other modules: here it takes a while and
   ends.  Connection numbers are not reused.                                 *)
EXTENDS Naturals, FiniteSets

CONSTANTS
    Conns,          \* connections that clients may open
    NoConn,         \* "the accept loop has no connection in hand"
    MaxConnections, \* config: max_connections
    RequirePass     \* whether config: require_pass is set

ASSUME NoConnAssumption == NoConn \notin Conns
ASSUME LimitAssumption  == MaxConnections \in Nat \ {0}
ASSUME PassAssumption   == RequirePass \in BOOLEAN

VARIABLES
    quit,           \* Server.quit is closed
    listener,       \* "none" before Start, "open", "closed" (with Server.closed)
    acceptor,       \* where Server.Start is
    inHand,         \* the connection that Accept has returned
    activeConn,     \* Server.activeConn
    wg,             \* the counter of Server.wg
    shutdown,       \* where main is in its shutdown
    pc,             \* per connection: where it is
    closed,         \* Connection.closed
    authenticated,  \* Connection.authenticated
    interrupted,    \* per connection: its shutdown channel, "open", "closing", "closed"
    rejected        \* per connection: a wrong password is about to close it

serverVars == <<quit, listener, shutdown>>
acceptVars == <<acceptor, inHand>>
counters   == <<activeConn, wg>>
connVars   == <<pc, closed, authenticated, interrupted, rejected>>
vars       == <<serverVars, acceptVars, counters, connVars>>

(* The process is there until main returns or calls os.Exit. *)
Alive == shutdown # "exited"

(* Where a connection is once handleConnection has been called for it. *)
Serving == {"loop", "read", "have", "run"}
Open    == {"spawned", "start", "leave"} \cup Serving
Handled == Open \cup {"last"}

Step(c, to) == pc' = [pc EXCEPT ![c] = to]

-----------------------------------------------------------------------------
Init ==
    /\ quit = FALSE
    /\ listener = "none"
    /\ acceptor = "listen"
    /\ inHand = NoConn
    /\ activeConn = 0
    /\ wg = 0
    /\ shutdown = "no"
    /\ pc = [c \in Conns |-> "new"]
    /\ closed = [c \in Conns |-> FALSE]
    /\ authenticated = [c \in Conns |-> FALSE]
    /\ interrupted = [c \in Conns |-> "open"]
    /\ rejected = [c \in Conns |-> FALSE]

-----------------------------------------------------------------------------
(* Server.Start *)

(* The listener is opened; after an early Shutdown it is of no use, because the
   loop ends at its first test. *)
Listen ==
    /\ Alive /\ acceptor = "listen"
    /\ listener' = IF listener = "none" THEN "open" ELSE listener
    /\ acceptor' = "top"
    /\ UNCHANGED <<quit, shutdown, inHand, counters, connVars>>

(* A client connects: the connection waits to be accepted. *)
Dial(c) ==
    /\ Alive /\ pc[c] = "new" /\ listener = "open"
    /\ Step(c, "backlog")
    /\ UNCHANGED <<serverVars, acceptVars, counters, closed, authenticated,
                   interrupted, rejected>>

(* The top of the loop: has the shutdown begun? *)
AcceptTop ==
    /\ Alive /\ acceptor = "top"
    /\ acceptor' = IF quit THEN "ended" ELSE "accept"
    /\ UNCHANGED <<serverVars, inHand, counters, connVars>>

Accept ==
    /\ Alive /\ acceptor = "accept" /\ listener = "open"
    /\ \E c \in Conns : pc[c] = "backlog" /\ inHand' = c
    /\ acceptor' = "check"
    /\ UNCHANGED <<serverVars, counters, connVars>>

(* Accept fails because the listener has been closed. *)
AcceptClosed ==
    /\ Alive /\ acceptor = "accept" /\ listener = "closed"
    /\ acceptor' = "ended"
    /\ UNCHANGED <<serverVars, inHand, counters, connVars>>

Refuse ==
    /\ Step(inHand, "refused")
    /\ inHand' = NoConn
    /\ acceptor' = "top"

(* A connection that came with the shutdown is refused. *)
AcceptQuit ==
    /\ Alive /\ acceptor = "check"
    /\ IF quit THEN Refuse
       ELSE acceptor' = "limit" /\ UNCHANGED <<pc, inHand>>
    /\ UNCHANGED <<serverVars, counters, closed, authenticated, interrupted, rejected>>

(* Seeded fault: off by one. *)
AcceptLimitOffByOne ==
    /\ Alive /\ acceptor = "limit"
    /\ IF activeConn > MaxConnections THEN Refuse
       ELSE acceptor' = "spawn" /\ UNCHANGED <<pc, inHand>>
    /\ UNCHANGED <<serverVars, counters, closed, authenticated, interrupted, rejected>>

(* The counter is read ... *)
AcceptLimit ==
    /\ Alive /\ acceptor = "limit"
    /\ IF activeConn >= MaxConnections THEN Refuse
       ELSE acceptor' = "spawn" /\ UNCHANGED <<pc, inHand>>
    /\ UNCHANGED <<serverVars, counters, closed, authenticated, interrupted, rejected>>

(* ... and incremented later, before `go s.handleConnection(conn)'. *)
Spawn ==
    /\ Alive /\ acceptor = "spawn"
    /\ activeConn' = activeConn + 1
    /\ Step(inHand, "spawned")
    /\ inHand' = NoConn
    /\ acceptor' = "top"
    /\ UNCHANGED <<serverVars, wg, closed, authenticated, interrupted, rejected>>

-----------------------------------------------------------------------------
(* Server.handleConnection *)

(* The goroutine runs: it counts itself in Server.wg only now. *)
HandlerBegin(c) ==
    /\ Alive /\ pc[c] = "spawned"
    /\ wg' = wg + 1
    /\ Step(c, "start")
    /\ UNCHANGED <<serverVars, acceptVars, activeConn, closed, authenticated,
                   interrupted, rejected>>

(* The test before the loop; past it the idle monitor and the goroutine that
   waits for the shutdown are there. *)
HandlerCheck(c) ==
    /\ Alive /\ pc[c] = "start"
    /\ Step(c, IF quit THEN "leave" ELSE "loop")
    /\ UNCHANGED <<serverVars, acceptVars, counters, closed, authenticated,
                   interrupted, rejected>>

(* The top of the loop over the client's commands. *)
LoopTop(c) ==
    /\ Alive /\ pc[c] = "loop"
    /\ Step(c, IF closed[c] \/ quit THEN "leave" ELSE "read")
    /\ UNCHANGED <<serverVars, acceptVars, counters, closed, authenticated,
                   interrupted, rejected>>

(* The reading goroutine has a command; one that the parser has in its buffer
   is returned although the socket has been closed meanwhile. *)
ReadDone(c) ==
    /\ Alive /\ pc[c] = "read"
    /\ Step(c, "have")
    /\ UNCHANGED <<serverVars, acceptVars, counters, closed, authenticated,
                   interrupted, rejected>>

(* The read fails: the socket was closed by us ... *)
ReadClosed(c) ==
    /\ Alive /\ pc[c] = "read" /\ closed[c]
    /\ Step(c, "leave")
    /\ UNCHANGED <<serverVars, acceptVars, counters, closed, authenticated,
                   interrupted, rejected>>

(* ... or the client is gone, or the read timeout is over. *)
ReadLost(c) ==
    /\ Alive /\ pc[c] = "read" /\ ~ closed[c]
    /\ Step(c, "leave")
    /\ UNCHANGED <<serverVars, acceptVars, counters, closed, authenticated,
                   interrupted, rejected>>

(* The select finds the shutdown channel closed.  When a command has been read
   as well, either case may be chosen. *)
Interrupt(c) ==
    /\ Alive /\ pc[c] \in {"read", "have"} /\ interrupted[c] = "closed"
    /\ Step(c, "leave")
    /\ UNCHANGED <<serverVars, acceptVars, counters, closed, authenticated,
                   interrupted, rejected>>

(* processCommandWithTx: AUTH with the right password ... *)
AuthRight(c) ==
    /\ Alive /\ pc[c] = "have" /\ RequirePass
    /\ authenticated' = [authenticated EXCEPT ![c] = TRUE]
    /\ Step(c, "loop")
    /\ UNCHANGED <<serverVars, acceptVars, counters, closed, interrupted, rejected>>

(* ... with a wrong one: a goroutine closes the connection 50 ms later ... *)
AuthWrong(c) ==
    /\ Alive /\ pc[c] = "have" /\ RequirePass
    /\ rejected' = [rejected EXCEPT ![c] = TRUE]
    /\ Step(c, "loop")
    /\ UNCHANGED <<serverVars, acceptVars, counters, closed, authenticated, interrupted>>

(* ... and a command that is refused: NOAUTH, or not a valid command. *)
NoService(c) ==
    /\ Alive /\ pc[c] = "have"
    /\ Step(c, "loop")
    /\ UNCHANGED <<serverVars, acceptVars, counters, closed, authenticated,
                   interrupted, rejected>>

(* A command is executed, and its answer is written. *)
RunCommand(c) ==
    /\ Alive /\ pc[c] = "have"
    /\ RequirePass => authenticated[c]
    /\ Step(c, "run")
    /\ UNCHANGED <<serverVars, acceptVars, counters, closed, authenticated,
                   interrupted, rejected>>

CommandDone(c) ==
    /\ Alive /\ pc[c] = "run"
    /\ Step(c, "loop")
    /\ UNCHANGED <<serverVars, acceptVars, counters, closed, authenticated,
                   interrupted, rejected>>

(* Connection.Close, which is idempotent. *)
Close(c) == closed' = [closed EXCEPT ![c] = TRUE]

(* MonitorIdle finds the connection idle for too long; it also runs while a
   command is executed. *)
IdleTimeout(c) ==
    /\ Alive /\ pc[c] \in Serving /\ ~ closed[c]
    /\ Close(c)
    /\ UNCHANGED <<serverVars, acceptVars, counters, pc, authenticated,
                   interrupted, rejected>>

(* The goroutine that AUTH with a wrong password has started. *)
RejectClose(c) ==
    /\ Alive /\ rejected[c] /\ ~ closed[c]
    /\ Close(c)
    /\ UNCHANGED <<serverVars, acceptVars, counters, pc, authenticated,
                   interrupted, rejected>>

(* Seeded fault: nobody tells the connection of the shutdown. *)
WatchQuitDeaf(c) ==
    /\ FALSE
    /\ UNCHANGED vars

(* The goroutine that waits for Server.quit closes the socket ...  When the
   handler is over it still waits, and then closes nothing that is open. *)
WatchQuit(c) ==
    /\ Alive /\ pc[c] \in Serving /\ quit /\ interrupted[c] = "open"
    /\ Close(c)
    /\ interrupted' = [interrupted EXCEPT ![c] = "closing"]
    /\ UNCHANGED <<serverVars, acceptVars, counters, pc, authenticated, rejected>>

(* ... and then the shutdown channel of the connection, which the handler may
   have left by then. *)
WatchQuitDone(c) ==
    /\ Alive /\ interrupted[c] = "closing"
    /\ interrupted' = [interrupted EXCEPT ![c] = "closed"]
    /\ UNCHANGED <<serverVars, acceptVars, counters, pc, closed, authenticated, rejected>>

(* Seeded fault: a connection that leaves is not taken off the counter. *)
LeaveUncounted(c) ==
    /\ Alive /\ pc[c] = "leave"
    /\ Close(c)
    /\ Step(c, "last")
    /\ UNCHANGED <<serverVars, acceptVars, counters, authenticated, interrupted, rejected>>

(* The deferred function: Close, cleanupWatchers, and off the counter. *)
Leave(c) ==
    /\ Alive /\ pc[c] = "leave"
    /\ Close(c)
    /\ activeConn' = activeConn - 1
    /\ Step(c, "last")
    /\ UNCHANGED <<serverVars, acceptVars, wg, authenticated, interrupted, rejected>>

(* Seeded fault: the goroutine leaves Server.wg twice. *)
WgDoneTwice(c) ==
    /\ Alive /\ pc[c] = "last"
    /\ wg' = wg - 2
    /\ Step(c, "done")
    /\ UNCHANGED <<serverVars, acceptVars, activeConn, closed, authenticated,
                   interrupted, rejected>>

(* The other deferred call, which was deferred first and runs last. *)
WgDone(c) ==
    /\ Alive /\ pc[c] = "last"
    /\ wg' = wg - 1
    /\ Step(c, "done")
    /\ UNCHANGED <<serverVars, acceptVars, activeConn, closed, authenticated,
                   interrupted, rejected>>

-----------------------------------------------------------------------------
(* Shutdown: main and Server.ShutdownWithTimeout *)

(* A signal arrives: close(s.quit). *)
CloseQuit ==
    /\ Alive /\ shutdown = "no"
    /\ quit' = TRUE
    /\ shutdown' = "closing"
    /\ UNCHANGED <<listener, acceptVars, counters, connVars>>

(* Server.closed is set, and the listener, if there is one, closed: the
   connections it has not handed out are reset. *)
CloseListener ==
    /\ Alive /\ shutdown = "closing"
    /\ listener' = "closed"
    /\ shutdown' = "waiting"
    /\ pc' = [c \in Conns |-> IF pc[c] = "backlog" /\ c # inHand
                              THEN "refused" ELSE pc[c]]
    /\ UNCHANGED <<quit, acceptVars, counters, closed, authenticated,
                   interrupted, rejected>>

(* Seeded fault: the shutdown does not wait. *)
ShutdownReturnsAtOnce ==
    /\ Alive /\ shutdown = "waiting"
    /\ shutdown' = "returned"
    /\ UNCHANGED <<quit, listener, acceptVars, counters, connVars>>

(* s.wg.Wait() returns, and Shutdown with it. *)
ShutdownReturns ==
    /\ Alive /\ shutdown = "waiting"
    /\ wg = 0
    /\ shutdown' = "returned"
    /\ UNCHANGED <<quit, listener, acceptVars, counters, connVars>>

(* The timeout wins: os.Exit(1). *)
ShutdownTimeout ==
    /\ Alive /\ shutdown = "waiting"
    /\ shutdown' = "exited"
    /\ UNCHANGED <<quit, listener, acceptVars, counters, connVars>>

(* The deferred persistence.Stop, and main returns. *)
StopPersistence ==
    /\ Alive /\ shutdown = "returned"
    /\ shutdown' = "exited"
    /\ UNCHANGED <<quit, listener, acceptVars, counters, connVars>>

-----------------------------------------------------------------------------
AcceptLoop ==
    Listen \/ AcceptTop \/ Accept \/ AcceptClosed \/ AcceptQuit \/ AcceptLimit \/ Spawn

(* What the goroutines of a connection do of their own accord ... *)
Proceed(c) ==
    HandlerBegin(c) \/ HandlerCheck(c) \/ LoopTop(c) \/ ReadClosed(c)
        \/ Interrupt(c) \/ AuthRight(c) \/ AuthWrong(c) \/ NoService(c)
        \/ RunCommand(c) \/ CommandDone(c) \/ Leave(c) \/ WgDone(c)

(* ... and what depends on the client or on the clock. *)
Outside(c) == Dial(c) \/ ReadDone(c) \/ ReadLost(c) \/ IdleTimeout(c)

Shutdown ==
    CloseQuit \/ CloseListener \/ ShutdownReturns \/ ShutdownTimeout \/ StopPersistence

Next ==
    \/ AcceptLoop
    \/ \E c \in Conns : Proceed(c) \/ WatchQuit(c) \/ WatchQuitDone(c)
                          \/ RejectClose(c) \/ Outside(c)
    \/ Shutdown

Spec == Init /\ [][Next]_vars

(* Goroutines that can run are run, and a handler ends.  Clients may be silent
   for ever, no timeout is needed, and the shutdown need not be asked for. *)
FairSpec ==
    /\ Spec
    /\ WF_vars(AcceptLoop)
    /\ \A c \in Conns : /\ WF_vars(Proceed(c))
                        /\ WF_vars(WatchQuit(c)) /\ WF_vars(WatchQuitDone(c))

-----------------------------------------------------------------------------
(* Properties *)

TypeOK ==
    /\ quit \in BOOLEAN
    /\ listener \in {"none", "open", "closed"}
    /\ acceptor \in {"listen", "top", "accept", "check", "limit", "spawn", "ended"}
    /\ inHand \in Conns \cup {NoConn}
    /\ activeConn \in Nat
    /\ wg \in Nat
    /\ shutdown \in {"no", "closing", "waiting", "returned", "exited"}
    /\ pc \in [Conns -> {"new", "backlog", "refused", "done"} \cup Handled]
    /\ closed \in [Conns -> BOOLEAN]
    /\ authenticated \in [Conns -> BOOLEAN]
    /\ interrupted \in [Conns -> {"open", "closing", "closed"}]
    /\ rejected \in [Conns -> BOOLEAN]

(* The limit holds for what really uses the server: at no time have more than
   max_connections accepted connections not been closed by their handler,
   although the counter is read in one step and incremented in a later one
   (server.go Start). *)
ConnectionLimit ==
    Cardinality({c \in Conns : pc[c] \in Open}) <= MaxConnections

(* A slot is never lost: when every connection that was accepted is over, the
   counter is back at zero, so that a server that was once full takes new
   connections again (server.go handleConnection, the deferred function). *)
SlotsReturn ==
    (\A c \in Conns : pc[c] \notin Open) => activeConn = 0

(* Once Shutdown has returned nil, and main goes on to stop the persistence,
   no connection executes a command, reads one, or ever will: a handler that
   was not counted when the wait ended finds Server.quit closed. *)
NoServiceAfterShutdown ==
    shutdown = "returned" => \A c \in Conns : pc[c] \notin Serving

(* The shutdown gets every connection to leave, even one whose client is
   silent for ever, unless the process ends before. *)
ShutdownEndsConnections ==
    \A c \in Conns :
        (quit /\ pc[c] \in Handled) ~> (pc[c] = "done" \/ shutdown = "exited")

=============================================================================
