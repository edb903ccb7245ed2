---------------------------- MODULE ServerProofs ----------------------------
(* Proofs about Server for every set of connections, finite or not, and for
   every connection limit.  *)
EXTENDS Server, FiniteSetTheorems, TLAPS

-----------------------------------------------------------------------------
(* The inductive invariant *)

(* The connections whose place is in S. *)
In(S) == {c \in Conns : pc[c] \in S}

(* Where a handler goroutine is counted in Server.wg: it enters after it has
   been spawned, and leaves after it has left Server.activeConn. *)
Counted == {"start", "leave", "last"} \cup Serving

(* Both counters count: the connections between Spawn and the deferred
   function, and the goroutines between their first and their last step. *)
CountersCount ==
    /\ IsFiniteSet(In(Open))
    /\ activeConn = Cardinality(In(Open))
    /\ IsFiniteSet(In(Counted))
    /\ wg = Cardinality(In(Counted))

(* What the accept loop knows of the connection it has in hand, and that a
   place it has found free stays free until it takes it. *)
HandIsSafe ==
    /\ acceptor \in {"check", "limit", "spawn"} =>
           inHand \in Conns /\ pc[inHand] = "backlog"
    /\ acceptor = "spawn" => activeConn < MaxConnections
    /\ activeConn <= MaxConnections

(* main closes Server.quit before anything else. *)
QuitFirst == shutdown # "no" => quit

Inv ==
    /\ TypeOK
    /\ CountersCount
    /\ HandIsSafe
    /\ QuitFirst
    /\ NoServiceAfterShutdown

-----------------------------------------------------------------------------
(* Counting connections *)

(* A connection that moves joins the places it comes to and quits the others. *)
LEMMA MoveIn ==
    ASSUME TypeOK, NEW c \in Conns, NEW to, Step(c, to), NEW S
    PROVE  In(S)' = IF to \in S THEN In(S) \cup {c} ELSE In(S) \ {c}
BY DEF TypeOK, Step, In

(* A move inside the places, or outside of them, changes no count. *)
LEMMA QuietMove ==
    ASSUME TypeOK, NEW c \in Conns, NEW to, Step(c, to), NEW S, pc[c] \in S <=> to \in S
    PROVE  In(S)' = In(S)
BY MoveIn DEF In

(* A move into the places adds one. *)
LEMMA MoveAdds ==
    ASSUME TypeOK, NEW c \in Conns, NEW to, Step(c, to), NEW S,
           IsFiniteSet(In(S)), pc[c] \notin S, to \in S
    PROVE  IsFiniteSet(In(S)') /\ Cardinality(In(S)') = Cardinality(In(S)) + 1
<1>1. In(S)' = In(S) \cup {c} /\ c \notin In(S)
  BY MoveIn DEF In
<1> QED
  BY <1>1, FS_AddElement

(* A move out of the places takes one away, and there was one. *)
LEMMA MoveRemoves ==
    ASSUME TypeOK, NEW c \in Conns, NEW to, Step(c, to), NEW S,
           IsFiniteSet(In(S)), pc[c] \in S, to \notin S
    PROVE  /\ IsFiniteSet(In(S)')
           /\ Cardinality(In(S)') = Cardinality(In(S)) - 1
           /\ Cardinality(In(S)') \in Nat
<1>1. In(S)' = In(S) \ {c} /\ c \in In(S)
  BY MoveIn DEF In
<1>2. IsFiniteSet(In(S)') /\ Cardinality(In(S)') = Cardinality(In(S)) - 1
  BY <1>1, FS_RemoveElement
<1> QED
  BY <1>2, FS_CardinalityType

-----------------------------------------------------------------------------
(* Steps of a handler goroutine that neither begin nor end it: the counters
   stand still, and so does everything the accept loop and the shutdown know. *)

(* Steps between "start" and "leave". *)
Inner(c) ==
    HandlerCheck(c) \/ LoopTop(c) \/ ReadDone(c) \/ ReadClosed(c) \/ ReadLost(c)
        \/ Interrupt(c) \/ AuthRight(c) \/ AuthWrong(c) \/ NoService(c)
        \/ RunCommand(c) \/ CommandDone(c)

(* The places of an inner step: inside on both sides, and in service after it
   only if it was before, or if Server.quit was open. *)
LEMMA InnerPlaces ==
    ASSUME TypeOK, NEW c \in Conns, Inner(c)
    PROVE  \E to \in Serving \cup {"leave"} :
               /\ Step(c, to)
               /\ pc[c] \in Serving \cup {"start"}
               /\ to \in Serving => pc[c] \in Serving \/ ~ quit
<1> USE DEF Serving
<1>1. CASE HandlerCheck(c)
  BY <1>1 DEF HandlerCheck
<1>2. CASE LoopTop(c)
  BY <1>2 DEF LoopTop
<1>3. CASE ReadDone(c) \/ ReadClosed(c) \/ ReadLost(c) \/ Interrupt(c)
  BY <1>3 DEF ReadDone, ReadClosed, ReadLost, Interrupt
<1>4. CASE AuthRight(c) \/ AuthWrong(c) \/ NoService(c)
  BY <1>4 DEF AuthRight, AuthWrong, NoService
<1>5. CASE RunCommand(c) \/ CommandDone(c)
  BY <1>5 DEF RunCommand, CommandDone
<1> QED
  BY <1>1, <1>2, <1>3, <1>4, <1>5 DEF Inner

(* What an inner step leaves alone. *)
LEMMA InnerFrame ==
    ASSUME TypeOK, NEW c \in Conns, Inner(c)
    PROVE  /\ UNCHANGED <<serverVars, acceptVars, counters, closed, interrupted>>
           /\ authenticated' \in [Conns -> BOOLEAN]
           /\ rejected' \in [Conns -> BOOLEAN]
<1>1. CASE AuthRight(c)
  BY <1>1 DEF AuthRight, TypeOK
<1>2. CASE AuthWrong(c)
  BY <1>2 DEF AuthWrong, TypeOK
<1>3. CASE ~ AuthRight(c) /\ ~ AuthWrong(c)
  <2>1. UNCHANGED <<serverVars, acceptVars, counters, closed, authenticated,
                    interrupted, rejected>>
    BY <1>3 DEF Inner, HandlerCheck, LoopTop, ReadDone, ReadClosed, ReadLost,
                Interrupt, NoService, RunCommand, CommandDone
  <2> QED
    BY <2>1 DEF TypeOK
<1> QED
  BY <1>1, <1>2, <1>3

LEMMA InnerKeepsInv ==
    ASSUME Inv, NEW c \in Conns, Inner(c)
    PROVE  Inv'
<1>1. TypeOK
  BY DEF Inv
<1>2. PICK to \in Serving \cup {"leave"} :
          /\ Step(c, to)
          /\ pc[c] \in Serving \cup {"start"}
          /\ to \in Serving => pc[c] \in Serving \/ ~ quit
  BY <1>1, InnerPlaces
<1>3. /\ UNCHANGED <<quit, listener, shutdown, acceptor, inHand, activeConn, wg,
                     closed, interrupted>>
      /\ authenticated' \in [Conns -> BOOLEAN]
      /\ rejected' \in [Conns -> BOOLEAN]
  BY <1>1, InnerFrame DEF serverVars, acceptVars, counters
<1>4. pc' \in [Conns -> {"new", "backlog", "refused", "done"} \cup Handled]
  BY <1>1, <1>2 DEF TypeOK, Step, Handled, Open, Serving
<1>5. TypeOK'
  BY <1>1, <1>3, <1>4 DEF TypeOK
<1>6. In(Open)' = In(Open)
  <2>1. pc[c] \in Open /\ to \in Open
    BY <1>2 DEF Open
  <2> QED
    BY <1>1, <1>2, <2>1, QuietMove
<1>7. In(Counted)' = In(Counted)
  <2>1. pc[c] \in Counted /\ to \in Counted
    BY <1>2 DEF Counted
  <2> QED
    BY <1>1, <1>2, <2>1, QuietMove
<1>8. CountersCount'
  BY <1>3, <1>6, <1>7 DEF Inv, CountersCount
<1>9. HandIsSafe'
  <2>1. pc[c] # "backlog"
    BY <1>2 DEF Serving
  <2>2. \A x \in Conns : x # c => pc'[x] = pc[x]
    BY <1>1, <1>2 DEF TypeOK, Step
  <2> QED
    BY <1>3, <2>1, <2>2 DEF Inv, HandIsSafe
<1>10. QuitFirst'
  BY <1>3 DEF Inv, QuitFirst
<1>11. NoServiceAfterShutdown'
  <2> SUFFICES ASSUME shutdown = "returned", NEW x \in Conns
               PROVE  pc'[x] \notin Serving
    BY <1>3 DEF NoServiceAfterShutdown
  <2>1. quit /\ pc[c] \notin Serving /\ pc[x] \notin Serving
    BY DEF Inv, QuitFirst, NoServiceAfterShutdown
  <2>2. to \notin Serving
    BY <1>2, <2>1
  <2> QED
    BY <1>1, <1>2, <2>1, <2>2 DEF TypeOK, Step
<1> QED
  BY <1>5, <1>8, <1>9, <1>10, <1>11 DEF Inv

-----------------------------------------------------------------------------
(* The steps that count *)

(* A step that moves no connection and counts nothing, and that moves neither
   the accept loop nor the shutdown. *)
LEMMA CloseKeepsInv ==
    ASSUME Inv, NEW c \in Conns,
           IdleTimeout(c) \/ RejectClose(c) \/ WatchQuit(c) \/ WatchQuitDone(c)
    PROVE  Inv'
<1>1. /\ UNCHANGED <<serverVars, acceptVars, counters, pc, authenticated, rejected>>
      /\ closed' \in [Conns -> BOOLEAN]
      /\ interrupted' \in [Conns -> {"open", "closing", "closed"}]
  BY DEF IdleTimeout, RejectClose, WatchQuit, WatchQuitDone, Close, Inv, TypeOK
<1> QED
  BY <1>1 DEF Inv, TypeOK, CountersCount, HandIsSafe, QuitFirst,
              NoServiceAfterShutdown, In, serverVars, acceptVars, counters

(* The goroutine counts itself in Server.wg. *)
LEMMA BeginKeepsInv ==
    ASSUME Inv, NEW c \in Conns, HandlerBegin(c)
    PROVE  Inv'
<1>1. /\ TypeOK
      /\ pc[c] = "spawned"
      /\ Step(c, "start")
      /\ wg' = wg + 1
      /\ UNCHANGED <<quit, listener, shutdown, acceptor, inHand, activeConn,
                     closed, authenticated, interrupted, rejected>>
  BY DEF Inv, HandlerBegin, serverVars, acceptVars
<1>2. pc' \in [Conns -> {"new", "backlog", "refused", "done"} \cup Handled]
  BY <1>1 DEF TypeOK, Step, Handled, Open
<1>3. TypeOK'
  BY <1>1, <1>2 DEF TypeOK
<1>4. In(Open)' = In(Open)
  <2>1. "spawned" \in Open /\ "start" \in Open
    BY DEF Open
  <2> QED
    BY <1>1, <2>1, QuietMove
<1>5. IsFiniteSet(In(Counted)') /\ Cardinality(In(Counted)') = wg'
  <2>1. "spawned" \notin Counted /\ "start" \in Counted
    BY DEF Counted, Serving
  <2> QED
    BY <1>1, <2>1, MoveAdds DEF Inv, CountersCount
<1>6. CountersCount'
  BY <1>1, <1>4, <1>5 DEF Inv, CountersCount
<1>7. \A x \in Conns : x # c => pc'[x] = pc[x]
  BY <1>1 DEF TypeOK, Step
<1>8. HandIsSafe'
  BY <1>1, <1>7 DEF Inv, HandIsSafe
<1>9. QuitFirst'
  BY <1>1 DEF Inv, QuitFirst
<1>10. NoServiceAfterShutdown'
  BY <1>1 DEF Inv, NoServiceAfterShutdown, TypeOK, Step, Serving
<1> QED
  BY <1>3, <1>6, <1>8, <1>9, <1>10 DEF Inv

(* The deferred function takes the connection off Server.activeConn. *)
LEMMA LeaveKeepsInv ==
    ASSUME Inv, NEW c \in Conns, Leave(c)
    PROVE  Inv'
<1>1. /\ TypeOK
      /\ pc[c] = "leave"
      /\ Step(c, "last")
      /\ activeConn' = activeConn - 1
      /\ closed' \in [Conns -> BOOLEAN]
      /\ UNCHANGED <<quit, listener, shutdown, acceptor, inHand, wg,
                     authenticated, interrupted, rejected>>
  BY DEF Inv, TypeOK, Leave, Close, serverVars, acceptVars
<1>2. pc' \in [Conns -> {"new", "backlog", "refused", "done"} \cup Handled]
  BY <1>1 DEF TypeOK, Step, Handled
<1>3. /\ IsFiniteSet(In(Open)')
      /\ Cardinality(In(Open)') = activeConn'
      /\ activeConn' \in Nat
  <2>1. "leave" \in Open /\ "last" \notin Open
    BY DEF Open, Serving
  <2> QED
    BY <1>1, <2>1, MoveRemoves DEF Inv, CountersCount
<1>4. TypeOK'
  BY <1>1, <1>2, <1>3 DEF TypeOK
<1>5. In(Counted)' = In(Counted)
  <2>1. "leave" \in Counted /\ "last" \in Counted
    BY DEF Counted
  <2> QED
    BY <1>1, <2>1, QuietMove
<1>6. CountersCount'
  BY <1>1, <1>3, <1>5 DEF Inv, CountersCount
<1>7. \A x \in Conns : x # c => pc'[x] = pc[x]
  BY <1>1 DEF TypeOK, Step
<1>8. HandIsSafe'
  <2>1. activeConn \in Nat /\ MaxConnections \in Nat
    BY <1>1, LimitAssumption DEF TypeOK
  <2> QED
    BY <1>1, <1>7, <2>1 DEF Inv, HandIsSafe
<1>9. QuitFirst'
  BY <1>1 DEF Inv, QuitFirst
<1>10. NoServiceAfterShutdown'
  BY <1>1 DEF Inv, NoServiceAfterShutdown, TypeOK, Step, Serving
<1> QED
  BY <1>4, <1>6, <1>8, <1>9, <1>10 DEF Inv

(* The goroutine leaves Server.wg. *)
LEMMA DoneKeepsInv ==
    ASSUME Inv, NEW c \in Conns, WgDone(c)
    PROVE  Inv'
<1>1. /\ TypeOK
      /\ pc[c] = "last"
      /\ Step(c, "done")
      /\ wg' = wg - 1
      /\ UNCHANGED <<quit, listener, shutdown, acceptor, inHand, activeConn,
                     closed, authenticated, interrupted, rejected>>
  BY DEF Inv, WgDone, serverVars, acceptVars
<1>2. pc' \in [Conns -> {"new", "backlog", "refused", "done"} \cup Handled]
  BY <1>1 DEF TypeOK, Step
<1>3. /\ IsFiniteSet(In(Counted)')
      /\ Cardinality(In(Counted)') = wg'
      /\ wg' \in Nat
  <2>1. "last" \in Counted /\ "done" \notin Counted
    BY DEF Counted, Serving
  <2> QED
    BY <1>1, <2>1, MoveRemoves DEF Inv, CountersCount
<1>4. TypeOK'
  BY <1>1, <1>2, <1>3 DEF TypeOK
<1>5. In(Open)' = In(Open)
  <2>1. "last" \notin Open /\ "done" \notin Open
    BY DEF Open, Serving
  <2> QED
    BY <1>1, <2>1, QuietMove
<1>6. CountersCount'
  BY <1>1, <1>3, <1>5 DEF Inv, CountersCount
<1>7. \A x \in Conns : x # c => pc'[x] = pc[x]
  BY <1>1 DEF TypeOK, Step
<1>8. HandIsSafe'
  BY <1>1, <1>7 DEF Inv, HandIsSafe
<1>9. QuitFirst'
  BY <1>1 DEF Inv, QuitFirst
<1>10. NoServiceAfterShutdown'
  BY <1>1 DEF Inv, NoServiceAfterShutdown, TypeOK, Step, Serving
<1> QED
  BY <1>4, <1>6, <1>8, <1>9, <1>10 DEF Inv

-----------------------------------------------------------------------------
(* The accept loop, the clients and the shutdown *)

(* A client dials, or the accept loop refuses a connection: a connection that
   no counter counts goes to another such place. *)
LEMMA UncountedMove ==
    ASSUME Inv, NEW c \in Conns, NEW to \in {"backlog", "refused"}, Step(c, to),
           pc[c] \in {"new", "backlog"},
           UNCHANGED <<serverVars, counters, closed, authenticated, interrupted,
                       rejected>>
    PROVE  /\ CountersCount'
           /\ QuitFirst'
           /\ NoServiceAfterShutdown'
           /\ pc' \in [Conns -> {"new", "backlog", "refused", "done"} \cup Handled]
           /\ \A x \in Conns : x # c => pc'[x] = pc[x]
           /\ pc'[c] = to
<1>1. TypeOK
  BY DEF Inv
<1>2. /\ pc' \in [Conns -> {"new", "backlog", "refused", "done"} \cup Handled]
      /\ \A x \in Conns : x # c => pc'[x] = pc[x]
      /\ pc'[c] = to
  BY <1>1 DEF TypeOK, Step
<1>3. In(Open)' = In(Open)
  <2>1. pc[c] \notin Open /\ to \notin Open
    BY DEF Open, Serving
  <2> QED
    BY <1>1, <2>1, QuietMove
<1>4. In(Counted)' = In(Counted)
  <2>1. pc[c] \notin Counted /\ to \notin Counted
    BY DEF Counted, Serving
  <2> QED
    BY <1>1, <2>1, QuietMove
<1>5. CountersCount'
  BY <1>3, <1>4 DEF Inv, CountersCount, counters
<1>6. QuitFirst'
  BY DEF Inv, QuitFirst, serverVars
<1>7. NoServiceAfterShutdown'
  BY <1>2 DEF Inv, NoServiceAfterShutdown, serverVars, Serving
<1> QED
  BY <1>2, <1>5, <1>6, <1>7

LEMMA DialKeepsInv ==
    ASSUME Inv, NEW c \in Conns, Dial(c)
    PROVE  Inv'
<1>1. /\ Step(c, "backlog")
      /\ pc[c] = "new"
      /\ UNCHANGED <<serverVars, counters, closed, authenticated, interrupted, rejected>>
      /\ UNCHANGED <<acceptor, inHand>>
  BY DEF Dial, acceptVars
<1>2. /\ CountersCount'
      /\ QuitFirst'
      /\ NoServiceAfterShutdown'
      /\ pc' \in [Conns -> {"new", "backlog", "refused", "done"} \cup Handled]
      /\ \A x \in Conns : x # c => pc'[x] = pc[x]
      /\ pc'[c] = "backlog"
  BY <1>1, UncountedMove
<1>3. TypeOK' /\ HandIsSafe'
  BY <1>1, <1>2 DEF Inv, TypeOK, HandIsSafe, serverVars, counters
<1> QED
  BY <1>2, <1>3 DEF Inv

(* The steps of the accept loop that move no connection. *)
LEMMA AcceptMoveKeepsInv ==
    ASSUME Inv, UNCHANGED <<quit, shutdown, counters, connVars>>,
           listener' \in {"none", "open", "closed"},
           acceptor' \in {"top", "accept", "check", "limit", "spawn", "ended"},
           inHand' \in Conns \cup {NoConn},
           acceptor' \in {"check", "limit", "spawn"} =>
               inHand' \in Conns /\ pc[inHand'] = "backlog",
           acceptor' = "spawn" => activeConn < MaxConnections
    PROVE  Inv'
<1>1. TypeOK'
  BY DEF Inv, TypeOK, counters, connVars
<1>2. CountersCount' /\ QuitFirst' /\ NoServiceAfterShutdown'
  BY DEF Inv, CountersCount, QuitFirst, NoServiceAfterShutdown, In, counters, connVars
<1>3. HandIsSafe'
  BY DEF Inv, HandIsSafe, counters, connVars
<1> QED
  BY <1>1, <1>2, <1>3 DEF Inv

LEMMA RefuseKeepsInv ==
    ASSUME Inv, Refuse, acceptor \in {"check", "limit"},
           UNCHANGED <<serverVars, counters, closed, authenticated, interrupted,
                       rejected>>
    PROVE  Inv'
<1>1. /\ inHand \in Conns
      /\ pc[inHand] = "backlog"
      /\ Step(inHand, "refused")
      /\ inHand' = NoConn
      /\ acceptor' = "top"
  BY DEF Inv, HandIsSafe, Refuse
<1>2. /\ CountersCount'
      /\ QuitFirst'
      /\ NoServiceAfterShutdown'
      /\ pc' \in [Conns -> {"new", "backlog", "refused", "done"} \cup Handled]
  BY <1>1, UncountedMove
<1>3. TypeOK' /\ HandIsSafe'
  BY <1>1, <1>2 DEF Inv, TypeOK, HandIsSafe, serverVars, counters
<1> QED
  BY <1>2, <1>3 DEF Inv

(* The place that was found free is taken. *)
LEMMA SpawnKeepsInv ==
    ASSUME Inv, Spawn
    PROVE  Inv'
<1>1. /\ TypeOK
      /\ inHand \in Conns
      /\ pc[inHand] = "backlog"
      /\ activeConn < MaxConnections
      /\ Step(inHand, "spawned")
      /\ activeConn' = activeConn + 1
      /\ inHand' = NoConn
      /\ acceptor' = "top"
      /\ UNCHANGED <<quit, listener, shutdown, wg, closed, authenticated,
                     interrupted, rejected>>
  BY DEF Inv, HandIsSafe, Spawn, serverVars
<1>2. pc' \in [Conns -> {"new", "backlog", "refused", "done"} \cup Handled]
  BY <1>1 DEF TypeOK, Step, Handled, Open
<1>3. TypeOK'
  BY <1>1, <1>2 DEF TypeOK
<1>4. IsFiniteSet(In(Open)') /\ Cardinality(In(Open)') = activeConn'
  <2>1. "backlog" \notin Open /\ "spawned" \in Open
    BY DEF Open, Serving
  <2> QED
    BY <1>1, <2>1, MoveAdds DEF Inv, CountersCount
<1>5. In(Counted)' = In(Counted)
  <2>1. "backlog" \notin Counted /\ "spawned" \notin Counted
    BY DEF Counted, Serving
  <2> QED
    BY <1>1, <2>1, QuietMove
<1>6. CountersCount'
  BY <1>1, <1>4, <1>5 DEF Inv, CountersCount
<1>7. HandIsSafe'
  <2>1. activeConn \in Nat /\ MaxConnections \in Nat
    BY <1>1, LimitAssumption DEF TypeOK
  <2> QED
    BY <1>1, <2>1 DEF HandIsSafe
<1>8. QuitFirst'
  BY <1>1 DEF Inv, QuitFirst
<1>9. NoServiceAfterShutdown'
  BY <1>1 DEF Inv, NoServiceAfterShutdown, TypeOK, Step, Serving
<1> QED
  BY <1>3, <1>6, <1>7, <1>8, <1>9 DEF Inv

LEMMA AcceptLoopKeepsInv ==
    ASSUME Inv, AcceptLoop
    PROVE  Inv'
<1>0. TypeOK
  BY DEF Inv
<1>1. CASE Listen \/ AcceptTop \/ Accept \/ AcceptClosed
  BY <1>0, <1>1, AcceptMoveKeepsInv
     DEF Listen, AcceptTop, Accept, AcceptClosed, TypeOK, serverVars
<1>2. CASE AcceptQuit
  <2>1. CASE quit
    BY <1>2, <2>1, RefuseKeepsInv DEF AcceptQuit
  <2>2. CASE ~ quit
    <3>1. /\ acceptor' = "limit"
          /\ UNCHANGED <<quit, shutdown, listener, inHand, counters, connVars>>
          /\ inHand \in Conns /\ pc[inHand] = "backlog"
      BY <1>2, <2>2 DEF AcceptQuit, serverVars, connVars, Inv, HandIsSafe
    <3> QED
      BY <1>0, <3>1, AcceptMoveKeepsInv DEF TypeOK
  <2> QED
    BY <2>1, <2>2
<1>3. CASE AcceptLimit
  <2>1. activeConn \in Nat /\ MaxConnections \in Nat
    BY <1>0, LimitAssumption DEF TypeOK
  <2>2. CASE activeConn >= MaxConnections
    BY <1>3, <2>2, RefuseKeepsInv DEF AcceptLimit
  <2>3. CASE activeConn < MaxConnections
    <3>1. /\ acceptor' = "spawn"
          /\ UNCHANGED <<quit, shutdown, listener, inHand, counters, connVars>>
          /\ inHand \in Conns /\ pc[inHand] = "backlog"
      BY <1>3, <2>1, <2>3 DEF AcceptLimit, serverVars, connVars, Inv, HandIsSafe
    <3> QED
      BY <1>0, <2>3, <3>1, AcceptMoveKeepsInv DEF TypeOK
  <2> QED
    BY <2>1, <2>2, <2>3
<1> QED
  BY <1>1, <1>2, <1>3, SpawnKeepsInv DEF AcceptLoop

(* Closing the listener resets connections that are not counted, and not the
   one in hand. *)
LEMMA CloseListenerKeepsInv ==
    ASSUME Inv, CloseListener
    PROVE  Inv'
<1>1. /\ TypeOK
      /\ shutdown = "closing"
      /\ listener' = "closed"
      /\ shutdown' = "waiting"
      /\ pc' = [c \in Conns |-> IF pc[c] = "backlog" /\ c # inHand
                                THEN "refused" ELSE pc[c]]
      /\ UNCHANGED <<quit, acceptor, inHand, activeConn, wg, closed, authenticated,
                     interrupted, rejected>>
  BY DEF Inv, CloseListener, acceptVars, counters
<1>2. TypeOK'
  BY <1>1 DEF TypeOK
<1>3. In(Open)' = In(Open)
  BY <1>1 DEF In, Open, Serving
<1>4. In(Counted)' = In(Counted)
  BY <1>1 DEF In, Counted, Serving
<1>5. CountersCount' /\ QuitFirst' /\ NoServiceAfterShutdown'
  BY <1>1, <1>3, <1>4 DEF Inv, CountersCount, QuitFirst, NoServiceAfterShutdown
<1>6. HandIsSafe'
  BY <1>1 DEF Inv, HandIsSafe
<1> QED
  BY <1>2, <1>5, <1>6 DEF Inv

(* The wait of the shutdown ends when no goroutine is counted: none is in
   service then, and Server.quit keeps those not counted yet out of it. *)
LEMMA ShutdownKeepsInv ==
    ASSUME Inv, Shutdown
    PROVE  Inv'
<1>1. CASE CloseQuit
  BY <1>1 DEF CloseQuit, Inv, TypeOK, CountersCount, HandIsSafe, QuitFirst,
              NoServiceAfterShutdown, In, acceptVars, counters, connVars
<1>2. CASE ShutdownReturns
  <2>1. /\ shutdown = "waiting" /\ shutdown' = "returned" /\ wg = 0
        /\ UNCHANGED <<quit, listener, acceptVars, counters, connVars>>
    BY <1>2 DEF ShutdownReturns
  <2>2. In(Counted) = {}
    BY <2>1, FS_EmptySet DEF Inv, CountersCount
  <2>3. NoServiceAfterShutdown'
    BY <2>1, <2>2 DEF NoServiceAfterShutdown, In, Counted, connVars
  <2> QED
    BY <2>1, <2>3 DEF Inv, TypeOK, CountersCount, HandIsSafe, QuitFirst,
                      In, acceptVars, counters, connVars
<1>3. CASE ShutdownTimeout \/ StopPersistence
  BY <1>3 DEF ShutdownTimeout, StopPersistence, Inv, TypeOK, CountersCount, HandIsSafe,
              QuitFirst, NoServiceAfterShutdown, In, acceptVars, counters, connVars
<1> QED
  BY <1>1, <1>2, <1>3, CloseListenerKeepsInv DEF Shutdown

-----------------------------------------------------------------------------
(* The invariant, and what it says of the server *)

LEMMA InitInv == Init => Inv
<1> SUFFICES ASSUME Init
             PROVE  Inv
  OBVIOUS
<1>1. TypeOK /\ QuitFirst /\ NoServiceAfterShutdown
  BY DEF Init, TypeOK, QuitFirst, NoServiceAfterShutdown
<1>2. In(Open) = {} /\ In(Counted) = {}
  BY DEF Init, In, Open, Counted, Serving
<1>3. CountersCount
  BY <1>2, FS_EmptySet DEF Init, CountersCount
<1>4. HandIsSafe
  BY LimitAssumption DEF Init, HandIsSafe
<1> QED
  BY <1>1, <1>3, <1>4 DEF Inv

LEMMA NextKeepsInv == Inv /\ [Next]_vars => Inv'
<1> SUFFICES ASSUME Inv, [Next]_vars
             PROVE  Inv'
  OBVIOUS
<1>1. CASE AcceptLoop
  BY <1>1, AcceptLoopKeepsInv
<1>2. ASSUME NEW c \in Conns, Proceed(c) \/ WatchQuit(c) \/ WatchQuitDone(c)
                              \/ RejectClose(c) \/ Outside(c)
      PROVE  Inv'
  <2>1. CASE Inner(c)
    BY <2>1, InnerKeepsInv
  <2>2. CASE IdleTimeout(c) \/ RejectClose(c) \/ WatchQuit(c) \/ WatchQuitDone(c)
    BY <2>2, CloseKeepsInv
  <2> QED
    BY <1>2, <2>1, <2>2, BeginKeepsInv, LeaveKeepsInv, DoneKeepsInv, DialKeepsInv
       DEF Proceed, Outside, Inner
<1>3. CASE Shutdown
  BY <1>3, ShutdownKeepsInv
<1>4. CASE UNCHANGED vars
  BY <1>4 DEF vars, Inv, TypeOK, CountersCount, HandIsSafe, QuitFirst,
              NoServiceAfterShutdown, In, serverVars, acceptVars, counters, connVars
<1> QED
  BY <1>1, <1>2, <1>3, <1>4 DEF Next

(* The counters count, the accept loop's knowledge stays true and the shutdown
   is honoured, in every behaviour. *)
THEOREM Invariance == Spec => []Inv
BY InitInv, NextKeepsInv, PTL DEF Spec

(* Type correctness: in particular neither counter goes below zero, which for
   sync.WaitGroup is a panic. *)
THEOREM TypeCorrect == Spec => []TypeOK
<1>1. Inv => TypeOK
  BY DEF Inv
<1> QED
  BY <1>1, Invariance, PTL

(* However many clients dial, never more than max_connections accepted
   connections are open, although the limit is tested before it is taken. *)
THEOREM LimitHolds == Spec => []ConnectionLimit
<1>1. Inv => ConnectionLimit
  BY DEF Inv, CountersCount, HandIsSafe, ConnectionLimit, In
<1> QED
  BY <1>1, Invariance, PTL

(* When no accepted connection is open, the counter is zero: no slot is lost. *)
THEOREM NoSlotIsLost == Spec => []SlotsReturn
<1> SUFFICES Inv => SlotsReturn
  BY Invariance, PTL
<1> SUFFICES ASSUME Inv, \A c \in Conns : pc[c] \notin Open
             PROVE  activeConn = 0
  BY DEF SlotsReturn
<1>1. In(Open) = {}
  BY DEF In
<1> QED
  BY <1>1, FS_EmptySet DEF Inv, CountersCount

(* After Shutdown has returned nil no connection reads or runs a command, and
   none that was spawned late ever will. *)
THEOREM ShutdownIsFinal == Spec => []NoServiceAfterShutdown
<1>1. Inv => NoServiceAfterShutdown
  BY DEF Inv
<1> QED
  BY <1>1, Invariance, PTL

=============================================================================
