------------------------- MODULE TransactionProofs -------------------------
(* Proofs about Transaction for every set of connections, keys and commands. *)
EXTENDS Transaction, TLAPS

(* Strengthening: a completed WATCH is registered with the server, or a write
   has already used the registration up and left the connection dirty. *)
WatchTracked ==
    \A c \in Conns, k \in Keys :
        Watches(c, k) => c \in watchers[k] \/ dirty[c]

(* Only the goroutine of a connection that is gone removes registrations. *)
CleanupMeansGone ==
    \A c \in Conns : task[c].pc = "cleanup" => phase[c] = "gone"

Inv ==
    /\ TypeOK
    /\ AnnouncedMeansDirty
    /\ WatchTracked
    /\ CleanupMeansGone

-----------------------------------------------------------------------------
(* Sequences that are not empty *)

LEMMA NonEmptyHead ==
    ASSUME NEW S, NEW s \in NonEmpty(S)
    PROVE  Head(s) \in S /\ Len(s) \in Nat /\ Len(s) > 0
BY DEF NonEmpty

LEMMA NonEmptyTail ==
    ASSUME NEW S, NEW s \in NonEmpty(S), Len(s) # 1
    PROVE  Tail(s) \in NonEmpty(S)
<1>1. s \in Seq(S) /\ s # <<>>
  BY DEF NonEmpty
<1>2. Len(s) \in Nat /\ Len(s) # 0
  BY <1>1
<1>3. Tail(s) \in Seq(S) /\ Len(Tail(s)) = Len(s) - 1
  BY <1>1
<1>4. Len(Tail(s)) # 0
  BY <1>2, <1>3
<1>5. Tail(s) # <<>>
  <2>1. Len(<<>>) = 0
    OBVIOUS
  <2> QED
    BY <1>4, <2>1
<1> QED
  BY <1>3, <1>5 DEF NonEmpty

(* The fields of a task, by the place its goroutine has reached. *)
LEMMA TaskFields ==
    ASSUME TypeOK, NEW c \in Conns
    PROVE  /\ task[c].pc \in {"watch", "register"} => task[c].args \in NonEmpty(Keys)
           /\ task[c].pc \in {"run", "mark", "apply"} =>
                  task[c].cmds \in NonEmpty(Commands)
           /\ task[c].pc = "mark" => task[c].todo \in Seq(Keys)
           /\ task[c].pc = "apply" => task[c].todo \in NonEmpty(Keys)
           /\ task[c].pc = "cleanup" => task[c].keys \in SUBSET Keys
<1>1. task[c] \in Task
  BY DEF TypeOK
<1> QED
  BY <1>1 DEF Task, Idle

LEMMA IdleIsTask == Idle \in Task /\ Idle.pc = "idle"
BY DEF Task, Idle

(* The keys of a command form a list that is not empty. *)
LEMMA CommandKeys ==
    ASSUME NEW cmd \in Commands
    PROVE  /\ cmd.keys \in NonEmpty(Keys)
           /\ extractKeys(cmd) \in Seq(Keys)
           /\ writtenKeys(cmd) # <<>> => writtenKeys(cmd) \in NonEmpty(Keys)
<1>1. cmd.keys \in Seq(Keys) /\ Len(cmd.keys) > 0
  BY CommandsAssumption, NonEmptyAssumption
<1>2. cmd.keys # <<>> /\ cmd.keys[1] \in Keys
  BY <1>1
<1> QED
  BY <1>1, <1>2 DEF NonEmpty, extractKeys, writtenKeys

(* The command after the current one is a well-formed task. *)
LEMMA NextCommandTask ==
    ASSUME NEW c \in Conns, task[c].cmds \in NonEmpty(Commands)
    PROVE  NextCommand(c) \in Task /\ NextCommand(c).pc \in {"idle", "run"}
<1>1. CASE Len(task[c].cmds) = 1
  BY <1>1, IdleIsTask DEF NextCommand
<1>2. CASE Len(task[c].cmds) # 1
  <2>1. Tail(task[c].cmds) \in NonEmpty(Commands)
    BY <1>2, NonEmptyTail
  <2> QED
    BY <1>2, <2>1 DEF NextCommand, Task
<1> QED
  BY <1>1, <1>2

-----------------------------------------------------------------------------
(* Type correctness *)

(* A step of a goroutine to a well-formed place keeps the typing of tasks. *)
LEMMA GotoType ==
    ASSUME TypeOK, NEW c \in Conns, NEW next \in Task, Goto(c, next)
    PROVE  task' \in [Conns -> Task]
BY DEF TypeOK, Goto

LEMMA NotedType ==
    ASSUME TypeOK, NEW h \in [Conns -> BOOLEAN], NEW k
    PROVE  Noted(h, k) \in [Conns -> BOOLEAN]
BY DEF TypeOK, Noted, Watches

LEMMA ResetType ==
    ASSUME TypeOK, NEW c \in Conns, ResetTransaction(c)
    PROVE  /\ inTransaction' \in [Conns -> BOOLEAN]
           /\ queuedCommands' \in [Conns -> Seq(Commands)]
           /\ watchedKeys' \in [Conns -> SUBSET Keys]
           /\ dirty' \in [Conns -> BOOLEAN]
BY DEF TypeOK, ResetTransaction

LEMMA HistoryType ==
    ASSUME TypeOK, NEW c \in Conns, ForgetHistory(c)
    PROVE  announced' \in [Conns -> BOOLEAN] /\ written' \in [Conns -> BOOLEAN]
BY DEF TypeOK, ForgetHistory

(* Every step keeps the types. *)
LEMMA NextKeepsType ==
    ASSUME TypeOK, NEW c \in Conns,
           Ask(c) \/ LockStep(c) \/ FreeStep(c)
    PROVE  TypeOK'
<1> USE IdleIsTask
<1>1. CASE Multi(c)
  BY <1>1 DEF Multi, TypeOK
<1>2. CASE Queue(c)
  <2>1. PICK cmd \in Commands :
            queuedCommands' =
                [queuedCommands EXCEPT ![c] = Append(queuedCommands[c], cmd)]
    BY <1>2 DEF Queue
  <2>2. Append(queuedCommands[c], cmd) \in Seq(Commands)
    BY DEF TypeOK
  <2> QED
    BY <1>2, <2>1, <2>2 DEF Queue, TypeOK
<1>3. CASE Receive(c)
  <2>1. PICK cmd \in Commands : Goto(c, [pc |-> "run", cmds |-> <<cmd>>])
    BY <1>3 DEF Receive
  <2>2. <<cmd>> \in NonEmpty(Commands)
    BY DEF NonEmpty
  <2>3. [pc |-> "run", cmds |-> <<cmd>>] \in Task
    BY <2>2 DEF Task
  <2>4. task' \in [Conns -> Task]
    BY <2>1, <2>3, GotoType
  <2> QED
    BY <1>3, <2>4 DEF Receive, TypeOK, connVars
<1>4. CASE Discard(c)
  BY <1>4, ResetType, HistoryType DEF Discard, TypeOK
<1>5. CASE ExecCheck(c)
  <2>1. [pc |-> IF dirty[c] THEN "abort" ELSE "take"] \in Task
    BY DEF Task
  <2>2. task' \in [Conns -> Task]
    BY <1>5, <2>1, GotoType DEF ExecCheck
  <2> QED
    BY <1>5, <2>2 DEF ExecCheck, TypeOK, connVars
<1>6. CASE ExecAbort(c)
  <2>1. task' \in [Conns -> Task]
    BY <1>6, GotoType DEF ExecAbort
  <2> QED
    BY <1>6, <2>1, ResetType, HistoryType DEF ExecAbort, TypeOK
<1>7. CASE ExecTake(c)
  <2> DEFINE next == IF queuedCommands[c] = <<>> THEN Idle
                     ELSE [pc |-> "run", cmds |-> queuedCommands[c]]
  <2>a. queuedCommands[c] # <<>> => queuedCommands[c] \in NonEmpty(Commands)
    BY DEF TypeOK, NonEmpty
  <2>1. next \in Task
    BY <2>a DEF Task
  <2>2. Goto(c, next)
    BY <1>7 DEF ExecTake
  <2>3. task' \in [Conns -> Task]
    BY <2>1, <2>2, GotoType
  <2>b. inTransaction \in [Conns -> BOOLEAN] /\ queuedCommands \in [Conns -> Seq(Commands)]
    BY DEF TypeOK
  <2>c. <<>> \in Seq(Commands)
    OBVIOUS
  <2>4. /\ inTransaction' \in [Conns -> BOOLEAN]
        /\ queuedCommands' \in [Conns -> Seq(Commands)]
    BY <1>7, <2>b, <2>c DEF ExecTake
  <2> QED
    BY <1>7, <2>3, <2>4, HistoryType DEF ExecTake, TypeOK
<1>8. CASE Watch(c)
  <2>1. PICK args \in WatchArgs : Goto(c, [pc |-> "watch", args |-> args])
    BY <1>8 DEF Watch
  <2>a. args \in NonEmpty(Keys)
    BY WatchAssumption DEF NonEmpty
  <2>2. [pc |-> "watch", args |-> args] \in Task
    BY <2>a DEF Task
  <2>3. task' \in [Conns -> Task]
    BY <2>1, <2>2, GotoType
  <2> QED
    BY <1>8, <2>3 DEF Watch, TypeOK, connVars
<1>9. CASE WatchKey(c)
  <2>1. task[c].args \in NonEmpty(Keys)
    BY <1>9, TaskFields DEF WatchKey
  <2>2. Head(task[c].args) \in Keys
    BY <2>1, NonEmptyHead
  <2>3. [pc |-> "register", args |-> task[c].args] \in Task
    BY <2>1 DEF Task
  <2>4. task' \in [Conns -> Task]
    BY <1>9, <2>3, GotoType DEF WatchKey
  <2> QED
    BY <1>9, <2>2, <2>4 DEF WatchKey, TypeOK
<1>10. CASE addWatcher(c)
  <2> DEFINE next == IF Len(task[c].args) = 1 THEN Idle
                     ELSE [pc |-> "watch", args |-> Tail(task[c].args)]
  <2>1. task[c].args \in NonEmpty(Keys)
    BY <1>10, TaskFields DEF addWatcher
  <2>2. Head(task[c].args) \in Keys
    BY <2>1, NonEmptyHead
  <2>3. Len(task[c].args) # 1 => Tail(task[c].args) \in NonEmpty(Keys)
    BY <2>1, NonEmptyTail
  <2>4. next \in Task
    BY <2>3 DEF Task
  <2>5. task' \in [Conns -> Task]
    BY <1>10, <2>4, GotoType DEF addWatcher, NextWatchArg
  <2> QED
    BY <1>10, <2>2, <2>5 DEF addWatcher, TypeOK, connVars
<1>11. CASE Unwatch(c)
  BY <1>11 DEF Unwatch, ForgetHistory, TypeOK
<1>12. CASE RunRead(c)
  <2>1. NextCommand(c) \in Task
    BY <1>12, TaskFields, NextCommandTask DEF RunRead
  <2>2. task' \in [Conns -> Task]
    BY <1>12, <2>1, GotoType DEF RunRead
  <2> QED
    BY <1>12, <2>2 DEF RunRead, TypeOK, connVars
<1>13. CASE MarkLock(c)
  <2>1. task[c].cmds \in NonEmpty(Commands)
    BY <1>13, TaskFields DEF MarkLock
  <2>2. extractKeys(Current(c)) \in Seq(Keys)
    BY <2>1, NonEmptyHead, CommandKeys DEF Current
  <2>3. [pc |-> "mark", cmds |-> task[c].cmds, todo |-> extractKeys(Current(c))] \in Task
    BY <2>1, <2>2 DEF Task
  <2>4. task' \in [Conns -> Task]
    BY <1>13, <2>3, GotoType DEF MarkLock
  <2> QED
    BY <1>13, <2>4 DEF MarkLock, TypeOK, connVars
<1>14. CASE MarkKey(c)
  <2> DEFINE k == Head(task[c].todo)
  <2>1. task[c].cmds \in NonEmpty(Commands) /\ task[c].todo \in Seq(Keys)
    BY <1>14, TaskFields DEF MarkKey
  <2>2. Tail(task[c].todo) \in Seq(Keys) /\ k \in Keys
    BY <1>14, <2>1 DEF MarkKey
  <2>3. [pc |-> "mark", cmds |-> task[c].cmds, todo |-> Tail(task[c].todo)] \in Task
    BY <2>1, <2>2 DEF Task
  <2>4. task' \in [Conns -> Task]
    BY <1>14, <2>3, GotoType DEF MarkKey
  <2>5. announced' \in [Conns -> BOOLEAN]
    BY <1>14, NotedType DEF MarkKey, TypeOK
  <2> QED
    BY <1>14, <2>4, <2>5 DEF MarkKey, TypeOK, connVars
<1>14a. CASE MarkConn(c)
  <2> DEFINE k == Head(task[c].todo)
  <2>1. k \in Keys
    BY <1>14a, TaskFields DEF MarkConn
  <2>2. PICK d \in watchers[k] : /\ dirty' = [dirty EXCEPT ![d] = TRUE]
                                /\ watchers' = [watchers EXCEPT ![k] = @ \ {d}]
    BY <1>14a DEF MarkConn
  <2> HIDE DEF k
  <2>3. watchers' \in [Keys -> SUBSET Conns] /\ dirty' \in [Conns -> BOOLEAN]
    BY <2>1, <2>2 DEF TypeOK
  <2> QED
    BY <1>14a, <2>3 DEF MarkConn, TypeOK
<1>15. CASE MarkUnlock(c)
  <2> DEFINE keys == writtenKeys(Current(c))
             next == IF keys = <<>> THEN NextCommand(c)
                     ELSE [pc |-> "apply", cmds |-> task[c].cmds, todo |-> keys]
  <2>1. task[c].cmds \in NonEmpty(Commands)
    BY <1>15, TaskFields DEF MarkUnlock
  <2>2. keys # <<>> => keys \in NonEmpty(Keys)
    BY <2>1, NonEmptyHead, CommandKeys DEF Current
  <2>3. Goto(c, next)
    BY <1>15 DEF MarkUnlock
  <2> HIDE DEF keys
  <2>4. next \in Task
    BY <2>1, <2>2, NextCommandTask DEF Task
  <2>5. task' \in [Conns -> Task]
    BY <2>3, <2>4, GotoType
  <2> QED
    BY <1>15, <2>5 DEF MarkUnlock, TypeOK, connVars
<1>16. CASE Apply(c)
  <2> DEFINE next == IF Len(task[c].todo) = 1 THEN NextCommand(c)
                     ELSE [pc |-> "apply", cmds |-> task[c].cmds,
                           todo |-> Tail(task[c].todo)]
  <2>1. task[c].cmds \in NonEmpty(Commands) /\ task[c].todo \in NonEmpty(Keys)
    BY <1>16, TaskFields DEF Apply
  <2>2. Len(task[c].todo) # 1 => Tail(task[c].todo) \in NonEmpty(Keys)
    BY <2>1, NonEmptyTail
  <2>3. next \in Task
    BY <2>1, <2>2, NextCommandTask DEF Task
  <2>4. task' \in [Conns -> Task]
    BY <1>16, <2>3, GotoType DEF Apply
  <2>5. written' \in [Conns -> BOOLEAN]
    BY <1>16, NotedType DEF Apply, TypeOK
  <2> QED
    BY <1>16, <2>4, <2>5 DEF Apply, TypeOK, connVars
<1>17. CASE Disconnect(c)
  <2>1. [pc |-> "cleanup", keys |-> watchedKeys[c]] \in Task
    BY DEF TypeOK, Task
  <2>2. task' \in [Conns -> Task]
    BY <1>17, <2>1, GotoType DEF Disconnect
  <2> QED
    BY <1>17, <2>2 DEF Disconnect, ForgetHistory, TypeOK
<1>18. CASE removeWatcher(c)
  <2>1. task[c].keys \in SUBSET Keys
    BY <1>18, TaskFields DEF removeWatcher
  <2>2. PICK k \in task[c].keys :
            /\ watchers' = [watchers EXCEPT ![k] = @ \ {c}]
            /\ Goto(c, [pc |-> "cleanup", keys |-> task[c].keys \ {k}])
    BY <1>18 DEF removeWatcher
  <2>3. [pc |-> "cleanup", keys |-> task[c].keys \ {k}] \in Task
    BY <2>1 DEF Task
  <2>4. task' \in [Conns -> Task]
    BY <2>2, <2>3, GotoType
  <2>5. watchers' \in [Keys -> SUBSET Conns]
    BY <2>1, <2>2 DEF TypeOK
  <2> QED
    BY <1>18, <2>4, <2>5 DEF removeWatcher, TypeOK, connVars
<1>19. CASE CleanupDone(c)
  <2>1. task' \in [Conns -> Task]
    BY <1>19, GotoType DEF CleanupDone
  <2> QED
    BY <1>19, <2>1 DEF CleanupDone, TypeOK, connVars
<1> QED
  BY <1>1, <1>2, <1>3, <1>4, <1>5, <1>6, <1>7, <1>8, <1>9, <1>10, <1>11, <1>12,
     <1>13, <1>14, <1>15, <1>16, <1>17, <1>18, <1>19, <1>14a
     DEF Ask, LockStep, FreeStep

-----------------------------------------------------------------------------
(* Announcements are not lost *)

(* Every step keeps announced writes, registrations and what they rest on.
   Most actions only move the goroutine on (<1>1) or end the watches (<1>9). *)
LEMMA NextKeepsTracking ==
    ASSUME Inv, NEW c \in Conns, Ask(c) \/ LockStep(c) \/ FreeStep(c)
    PROVE  /\ AnnouncedMeansDirty'
           /\ WatchTracked'
           /\ CleanupMeansGone'
<1> USE IdleIsTask
<1>a. TypeOK
  BY DEF Inv
<1>1. ASSUME NEW next, task' = [task EXCEPT ![c] = next],
             next.pc \notin {"register", "cleanup", "mark"},
             task[c].pc # "register",
             UNCHANGED <<phase, watchedKeys, dirty, watchers, announced>>
      PROVE  /\ AnnouncedMeansDirty'
             /\ WatchTracked'
             /\ CleanupMeansGone'
  <2>1. \A d \in Conns, k \in Keys : Watches(d, k)' => Watches(d, k)
    BY <1>1, <1>a DEF Watches, TypeOK
  <2>2. AnnouncedMeansDirty' /\ WatchTracked'
    BY <1>1, <2>1 DEF Inv, AnnouncedMeansDirty, WatchTracked
  <2>3. CleanupMeansGone'
    BY <1>1, <1>a DEF Inv, CleanupMeansGone, TypeOK
  <2> QED
    BY <2>2, <2>3
<1>2. CASE Multi(c) \/ Queue(c)
  <2>1. UNCHANGED <<phase, watchedKeys, dirty, watchers, announced, task>>
    BY <1>2 DEF Multi, Queue
  <2> QED
    BY <2>1 DEF Inv, AnnouncedMeansDirty, WatchTracked, CleanupMeansGone,
                Watches
<1>3. CASE Receive(c) \/ Watch(c)
  <2>1. PICK next : /\ task' = [task EXCEPT ![c] = next]
                    /\ next.pc \in {"run", "watch"}
    <3>1. CASE Receive(c)
      <4>1. PICK cmd \in Commands :
                task' = [task EXCEPT ![c] = [pc |-> "run", cmds |-> <<cmd>>]]
        BY <3>1 DEF Receive, Goto
      <4>2. [pc |-> "run", cmds |-> <<cmd>>].pc = "run"
        OBVIOUS
      <4> QED
        BY <4>1, <4>2
    <3>2. CASE Watch(c)
      <4>1. PICK args \in WatchArgs :
                task' = [task EXCEPT ![c] = [pc |-> "watch", args |-> args]]
        BY <3>2 DEF Watch, Goto
      <4>2. [pc |-> "watch", args |-> args].pc = "watch"
        OBVIOUS
      <4> QED
        BY <4>1, <4>2
    <3> QED
      BY <1>3, <3>1, <3>2
  <2> QED
    BY <1>3, <1>1, <2>1 DEF Receive, Watch, Ready, connVars
<1>4. CASE ExecCheck(c)
  <2> DEFINE next == [pc |-> IF dirty[c] THEN "abort" ELSE "take"]
  <2>1. task' = [task EXCEPT ![c] = next] /\ next.pc \in {"abort", "take"}
    BY <1>4 DEF ExecCheck, Goto
  <2> HIDE DEF next
  <2> QED
    BY <1>4, <1>1, <2>1 DEF ExecCheck, Ready, connVars
<1>5. CASE RunRead(c)
  <2>1. NextCommand(c).pc \in {"idle", "run"}
    BY <1>5, <1>a, TaskFields, NextCommandTask DEF RunRead
  <2> QED
    BY <1>5, <1>1, <2>1 DEF RunRead, Goto, connVars
<1>6. CASE MarkUnlock(c)
  <2> DEFINE keys == writtenKeys(Current(c))
             next == IF keys = <<>> THEN NextCommand(c)
                     ELSE [pc |-> "apply", cmds |-> task[c].cmds, todo |-> keys]
  <2>1. NextCommand(c).pc \in {"idle", "run"}
    BY <1>6, <1>a, TaskFields, NextCommandTask DEF MarkUnlock
  <2>2. task' = [task EXCEPT ![c] = next] /\ next.pc \in {"idle", "run", "apply"}
    BY <1>6, <2>1 DEF MarkUnlock, Goto
  <2> HIDE DEF next
  <2> QED
    BY <1>6, <1>1, <2>2 DEF MarkUnlock, connVars
<1>7. CASE Apply(c)
  <2> DEFINE next == IF Len(task[c].todo) = 1 THEN NextCommand(c)
                     ELSE [pc |-> "apply", cmds |-> task[c].cmds,
                           todo |-> Tail(task[c].todo)]
  <2>1. NextCommand(c).pc \in {"idle", "run"}
    BY <1>7, <1>a, TaskFields, NextCommandTask DEF Apply
  <2>2. task' = [task EXCEPT ![c] = next] /\ next.pc \in {"idle", "run", "apply"}
    BY <1>7, <2>1 DEF Apply, Goto
  <2> HIDE DEF next
  <2> QED
    BY <1>7, <1>1, <2>2 DEF Apply, connVars
<1>8. CASE CleanupDone(c)
  BY <1>8, <1>1 DEF CleanupDone, Goto, connVars
<1>9. ASSUME UNCHANGED <<phase, watchers>>,
             watchedKeys' = [watchedKeys EXCEPT ![c] = {}],
             announced' = [announced EXCEPT ![c] = FALSE],
             \A d \in Conns : d # c => dirty'[d] = dirty[d],
             \A d \in Conns : d # c => task'[d] = task[d],
             task'[c].pc \notin {"register", "cleanup", "mark"}
      PROVE  /\ AnnouncedMeansDirty'
             /\ WatchTracked'
             /\ CleanupMeansGone'
  <2>1. \A k \in Keys : ~ Watches(c, k)'
    BY <1>9, <1>a DEF Watches, TypeOK
  <2>2. \A d \in Conns, k \in Keys : d # c => (Watches(d, k)' => Watches(d, k))
    BY <1>9, <1>a DEF Watches, TypeOK
  <2>3. WatchTracked'
    BY <1>9, <2>1, <2>2 DEF Inv, WatchTracked
  <2>4. AnnouncedMeansDirty'
    BY <1>9, <1>a DEF Inv, AnnouncedMeansDirty, TypeOK
  <2>5. CleanupMeansGone'
    BY <1>9 DEF Inv, CleanupMeansGone
  <2> QED
    BY <2>3, <2>4, <2>5
<1>10. CASE Discard(c) \/ Unwatch(c)
  <2>1. task' = task /\ task[c].pc = "idle"
    BY <1>10 DEF Discard, Unwatch, Ready
  <2>2. \A d \in Conns : d # c => dirty'[d] = dirty[d]
    BY <1>10, <1>a DEF Discard, Unwatch, ResetTransaction, TypeOK
  <2> QED
    BY <1>10, <1>9, <2>1, <2>2 DEF Discard, Unwatch, ResetTransaction, ForgetHistory
<1>11. CASE ExecAbort(c)
  <2>1. /\ \A d \in Conns : d # c => task'[d] = task[d]
        /\ task'[c] = Idle
    BY <1>11, <1>a DEF ExecAbort, Goto, TypeOK
  <2>2. \A d \in Conns : d # c => dirty'[d] = dirty[d]
    BY <1>11, <1>a DEF ExecAbort, ResetTransaction, TypeOK
  <2> QED
    BY <1>11, <1>9, <2>1, <2>2 DEF ExecAbort, ResetTransaction, ForgetHistory
<1>12. CASE ExecTake(c)
  <2> DEFINE next == IF queuedCommands[c] = <<>> THEN Idle
                     ELSE [pc |-> "run", cmds |-> queuedCommands[c]]
  <2>1. next.pc \in {"idle", "run"} /\ task' = [task EXCEPT ![c] = next]
    BY <1>12 DEF ExecTake, Goto
  <2> HIDE DEF next
  <2>2. UNCHANGED <<phase, watchedKeys, dirty, watchers>> /\ task[c].pc = "take"
    BY <1>12 DEF ExecTake
  <2>3. \A d \in Conns : announced'[d] => announced[d]
    BY <1>12, <1>a DEF ExecTake, ForgetHistory, TypeOK
  <2>4. \A d \in Conns, k \in Keys : Watches(d, k)' => Watches(d, k)
    BY <2>1, <2>2, <1>a DEF Watches, TypeOK
  <2>5. AnnouncedMeansDirty' /\ WatchTracked'
    BY <2>2, <2>3, <2>4 DEF Inv, AnnouncedMeansDirty, WatchTracked
  <2>6. CleanupMeansGone'
    BY <2>1, <2>2, <1>a DEF Inv, CleanupMeansGone, TypeOK
  <2> QED
    BY <2>5, <2>6
<1>13. CASE WatchKey(c)
  <2> DEFINE key == Head(task[c].args)
             next == [pc |-> "register", args |-> task[c].args]
  <2>1. task' = [task EXCEPT ![c] = next] /\ next.pc = "register" /\ next.args = task[c].args
    BY <1>13 DEF WatchKey, Goto
  <2> HIDE DEF next
  <2>2. /\ UNCHANGED <<phase, dirty, watchers, announced>>
        /\ watchedKeys' = [watchedKeys EXCEPT ![c] = @ \cup {key}]
        /\ task[c].pc = "watch"
    BY <1>13 DEF WatchKey
  <2>3. \A d \in Conns, k \in Keys : Watches(d, k)' => Watches(d, k)
    BY <2>1, <2>2, <1>a DEF Watches, TypeOK
  <2>4. AnnouncedMeansDirty' /\ WatchTracked'
    BY <2>2, <2>3 DEF Inv, AnnouncedMeansDirty, WatchTracked
  <2>5. CleanupMeansGone'
    BY <2>1, <2>2, <1>a DEF Inv, CleanupMeansGone, TypeOK
  <2> QED
    BY <2>4, <2>5
<1>14. CASE addWatcher(c)
  <2> DEFINE key == Head(task[c].args)
             next == IF Len(task[c].args) = 1 THEN Idle
                     ELSE [pc |-> "watch", args |-> Tail(task[c].args)]
  <2>1. task' = [task EXCEPT ![c] = next] /\ next.pc \in {"idle", "watch"}
    BY <1>14 DEF addWatcher, NextWatchArg, Goto
  <2> HIDE DEF next
  <2>2. /\ UNCHANGED <<phase, watchedKeys, dirty, announced>>
        /\ watchers' = [watchers EXCEPT ![key] = @ \cup {c}]
        /\ task[c].pc = "register"
    BY <1>14 DEF addWatcher, connVars
  <2>3. \A d \in Conns, k \in Keys :
            Watches(d, k)' => Watches(d, k) \/ (d = c /\ k = key)
    BY <2>1, <2>2, <1>a DEF Watches, TypeOK
  <2>4. \A k \in Keys : watchers[k] \subseteq watchers'[k]
    BY <2>2, <1>a DEF TypeOK
  <2>5. key \in Keys => c \in watchers'[key]
    BY <2>2, <1>a DEF TypeOK
  <2>6. AnnouncedMeansDirty' /\ WatchTracked'
    BY <2>2, <2>3, <2>4, <2>5 DEF Inv, AnnouncedMeansDirty, WatchTracked
  <2>7. CleanupMeansGone'
    BY <2>1, <2>2, <1>a DEF Inv, CleanupMeansGone, TypeOK
  <2> QED
    BY <2>6, <2>7
<1>15. CASE MarkLock(c)
  <2> DEFINE next == [pc |-> "mark", cmds |-> task[c].cmds,
                      todo |-> extractKeys(Current(c))]
  <2>1. /\ task' = [task EXCEPT ![c] = next]
        /\ next.pc = "mark" /\ next.cmds = task[c].cmds
    BY <1>15 DEF MarkLock, Goto
  <2> HIDE DEF next
  <2>2. /\ UNCHANGED <<phase, watchedKeys, dirty, watchers, announced>>
        /\ task[c].pc = "run"
    BY <1>15 DEF MarkLock, connVars
  <2>3. \A d \in Conns, k \in Keys : Watches(d, k)' => Watches(d, k)
    BY <2>1, <2>2, <1>a DEF Watches, TypeOK
  <2>4. AnnouncedMeansDirty' /\ WatchTracked'
    BY <2>2, <2>3 DEF Inv, AnnouncedMeansDirty, WatchTracked
  <2>5. CleanupMeansGone'
    BY <2>1, <2>2, <1>a DEF Inv, CleanupMeansGone, TypeOK
  <2> QED
    BY <2>4, <2>5
<1>16. CASE MarkKey(c)
  <2> DEFINE key == Head(task[c].todo)
             next == [pc |-> "mark", cmds |-> task[c].cmds,
                      todo |-> Tail(task[c].todo)]
  <2>1. task' = [task EXCEPT ![c] = next] /\ next.pc = "mark"
    BY <1>16 DEF MarkKey, Goto
  <2> HIDE DEF next
  <2>2. /\ UNCHANGED <<phase, watchedKeys, dirty, watchers>>
        /\ watchers[key] = {}
        /\ announced' = Noted(announced, key)
        /\ task[c].pc = "mark"
    BY <1>16 DEF MarkKey, connVars
  <2>3. key \in Keys
    BY <1>16, <1>a, TaskFields DEF MarkKey
  <2>4. \A d \in Conns, k \in Keys : Watches(d, k)' => Watches(d, k)
    BY <2>1, <2>2, <1>a DEF Watches, TypeOK
  <2> HIDE DEF key
  <2>5. \A d \in Conns : Watches(d, key) => dirty[d]
    BY <2>2, <2>3 DEF Inv, WatchTracked
  <2>6. AnnouncedMeansDirty'
    <3> SUFFICES ASSUME NEW d \in Conns, announced'[d]
                 PROVE  dirty'[d]
      BY DEF AnnouncedMeansDirty
    <3>1. announced[d] \/ Watches(d, key)
      BY <2>2 DEF Noted
    <3> QED
      BY <3>1, <2>2, <2>5 DEF Inv, AnnouncedMeansDirty
  <2>7. WatchTracked'
    BY <2>2, <2>4 DEF Inv, WatchTracked
  <2>8. CleanupMeansGone'
    BY <2>1, <2>2, <1>a DEF Inv, CleanupMeansGone, TypeOK
  <2> QED
    BY <2>6, <2>7, <2>8
<1>16a. CASE MarkConn(c)
  <2> DEFINE key == Head(task[c].todo)
  <2>1. UNCHANGED <<phase, watchedKeys, task, announced>>
    BY <1>16a DEF MarkConn
  <2>2. key \in Keys
    BY <1>16a, <1>a, TaskFields DEF MarkConn
  <2>3. PICK e \in watchers[key] : /\ dirty' = [dirty EXCEPT ![e] = TRUE]
                                  /\ watchers' = [watchers EXCEPT ![key] = @ \ {e}]
    BY <1>16a DEF MarkConn
  <2> HIDE DEF key
  <2>4. \A d \in Conns : dirty[d] => dirty'[d]
    BY <2>3, <1>a DEF TypeOK
  <2>5. \A d \in Conns, k \in Keys : d \in watchers[k] => d \in watchers'[k] \/ dirty'[d]
    BY <2>2, <2>3, <1>a DEF TypeOK
  <2>6. \A d \in Conns, k \in Keys : Watches(d, k)' => Watches(d, k)
    BY <2>1 DEF Watches
  <2>7. WatchTracked'
    BY <2>4, <2>5, <2>6 DEF Inv, WatchTracked
  <2>8. AnnouncedMeansDirty'
    BY <2>1, <2>4 DEF Inv, AnnouncedMeansDirty
  <2>9. CleanupMeansGone'
    BY <2>1 DEF Inv, CleanupMeansGone
  <2> QED
    BY <2>7, <2>8, <2>9
<1>17. CASE Disconnect(c)
  <2> DEFINE next == [pc |-> "cleanup", keys |-> watchedKeys[c]]
  <2>1. task' = [task EXCEPT ![c] = next] /\ next.pc = "cleanup"
    BY <1>17 DEF Disconnect, Goto
  <2> HIDE DEF next
  <2>2. /\ UNCHANGED <<watchedKeys, dirty, watchers>>
        /\ phase' = [phase EXCEPT ![c] = "gone"]
        /\ announced' = [announced EXCEPT ![c] = FALSE]
        /\ task[c].pc = "idle"
    BY <1>17 DEF Disconnect, ForgetHistory, Ready
  <2>3. \A d \in Conns, k \in Keys : Watches(d, k)' => Watches(d, k)
    BY <2>1, <2>2, <1>a DEF Watches, TypeOK
  <2>4. \A d \in Conns : announced'[d] => announced[d]
    BY <2>2, <1>a DEF TypeOK
  <2>5. AnnouncedMeansDirty' /\ WatchTracked'
    BY <2>2, <2>3, <2>4 DEF Inv, AnnouncedMeansDirty, WatchTracked
  <2>6. CleanupMeansGone'
    BY <2>1, <2>2, <1>a DEF Inv, CleanupMeansGone, TypeOK
  <2> QED
    BY <2>5, <2>6
<1>18. CASE removeWatcher(c)
  <2>1. PICK key \in task[c].keys :
            /\ watchers' = [watchers EXCEPT ![key] = @ \ {c}]
            /\ Goto(c, [pc |-> "cleanup", keys |-> task[c].keys \ {key}])
    BY <1>18 DEF removeWatcher
  <2> DEFINE next == [pc |-> "cleanup", keys |-> task[c].keys \ {key}]
  <2>2. task' = [task EXCEPT ![c] = next] /\ next.pc = "cleanup"
    BY <2>1 DEF Goto
  <2> HIDE DEF next
  <2>3. /\ UNCHANGED <<phase, watchedKeys, dirty, announced>>
        /\ task[c].pc = "cleanup"
        /\ phase[c] = "gone"
    BY <1>18 DEF removeWatcher, connVars, Inv, CleanupMeansGone
  <2>4. \A d \in Conns, k \in Keys : Watches(d, k)' => Watches(d, k) /\ d # c
    BY <2>2, <2>3, <1>a DEF Watches, TypeOK
  <2>5. \A d \in Conns, k \in Keys : d # c /\ d \in watchers[k] => d \in watchers'[k]
    BY <2>1, <1>a DEF TypeOK
  <2>6. AnnouncedMeansDirty' /\ WatchTracked'
    BY <2>3, <2>4, <2>5 DEF Inv, AnnouncedMeansDirty, WatchTracked
  <2>7. CleanupMeansGone'
    BY <2>2, <2>3, <1>a DEF Inv, CleanupMeansGone, TypeOK
  <2> QED
    BY <2>6, <2>7
<1> QED
  BY <1>2, <1>3, <1>4, <1>5, <1>6, <1>7, <1>8, <1>10, <1>11, <1>12, <1>13, <1>14,
     <1>15, <1>16, <1>17, <1>18, <1>16a
     DEF Ask, LockStep, FreeStep

LEMMA InitInv == Init => Inv
BY IdleIsTask
   DEF Init, Inv, TypeOK, AnnouncedMeansDirty, WatchTracked, Watches, CleanupMeansGone

LEMMA NextKeepsInv == Inv /\ [Next]_vars => Inv'
<1> SUFFICES ASSUME Inv, [Next]_vars
             PROVE  Inv'
  OBVIOUS
<1>1. CASE UNCHANGED vars
  BY <1>1 DEF vars, connVars, Inv, TypeOK, AnnouncedMeansDirty, WatchTracked, Watches,
              CleanupMeansGone
<1>2. ASSUME NEW c \in Conns, Ask(c) \/ LockStep(c) \/ FreeStep(c)
      PROVE  Inv'
  BY <1>2, NextKeepsType, NextKeepsTracking DEF Inv
<1> QED
  BY <1>1, <1>2 DEF Next

(* The invariant holds in every reachable state, whatever the connections,
   keys and commands. *)
THEOREM Invariance == Spec => []Inv
BY InitInv, NextKeepsInv, PTL DEF Spec

-----------------------------------------------------------------------------
(* The properties of Transaction *)

(* Every variable keeps its type. *)
THEOREM TypeCorrect == Spec => []TypeOK
BY Invariance, PTL DEF Inv

(* A write that was announced for a watched key leaves the watcher dirty until
   its watches end. *)
THEOREM AnnouncementsKept == Spec => []AnnouncedMeansDirty
BY Invariance, PTL DEF Inv

(* Only the check of EXEC leads to a commit, and it reads a clean flag. *)
LEMMA TakeIsClean ==
    ASSUME Inv, [Next]_vars, NEW c \in Conns,
           task[c].pc # "take", task'[c].pc = "take"
    PROVE  ~ announced[c]
<1>a. TypeOK
  BY DEF Inv
<1>1. PICK d \in Conns : Ask(d) \/ LockStep(d) \/ FreeStep(d)
  BY DEF Next, vars
<1>2. ASSUME NEW next, task' = [task EXCEPT ![d] = next], next.pc # "take"
      PROVE  FALSE
  BY <1>2, <1>a DEF TypeOK
<1>3. task' # task
  OBVIOUS
<1>4. ~ Multi(d) /\ ~ Queue(d) /\ ~ Discard(d) /\ ~ Unwatch(d) /\ ~ MarkConn(d)
  BY <1>3 DEF Multi, Queue, Discard, Unwatch, MarkConn
<1>5. ~ Receive(d) /\ ~ Watch(d) /\ ~ Disconnect(d)
  <2>1. Receive(d) \/ Watch(d) \/ Disconnect(d) =>
            \E next : task' = [task EXCEPT ![d] = next] /\ next.pc # "take"
    BY DEF Receive, Watch, Disconnect, Goto
  <2> QED
    BY <2>1, <1>2
<1>6. ~ ExecAbort(d) /\ ~ ExecTake(d) /\ ~ CleanupDone(d) /\ ~ RunRead(d)
  <2>1. ExecAbort(d) \/ ExecTake(d) \/ CleanupDone(d) \/ RunRead(d) =>
            \E next : task' = [task EXCEPT ![d] = next] /\ next.pc # "take"
    BY DEF ExecAbort, ExecTake, CleanupDone, RunRead, NextCommand, Goto, Idle
  <2> QED
    BY <2>1, <1>2
<1>7. ~ WatchKey(d) /\ ~ addWatcher(d) /\ ~ removeWatcher(d)
  <2>1. WatchKey(d) \/ addWatcher(d) \/ removeWatcher(d) =>
            \E next : task' = [task EXCEPT ![d] = next] /\ next.pc # "take"
    BY DEF WatchKey, addWatcher, NextWatchArg, removeWatcher, Goto, Idle
  <2> QED
    BY <2>1, <1>2
<1>8. ~ MarkLock(d) /\ ~ MarkKey(d) /\ ~ MarkUnlock(d) /\ ~ Apply(d)
  <2>1. MarkLock(d) \/ MarkKey(d) \/ MarkUnlock(d) \/ Apply(d) =>
            \E next : task' = [task EXCEPT ![d] = next] /\ next.pc # "take"
    BY DEF MarkLock, MarkKey, MarkUnlock, Apply, NextCommand, Goto, Idle
  <2> QED
    BY <2>1, <1>2
<1>9. ExecCheck(d)
  BY <1>1, <1>4, <1>5, <1>6, <1>7, <1>8 DEF Ask, LockStep, FreeStep
<1>10. d = c /\ ~ dirty[c]
  BY <1>9, <1>a DEF ExecCheck, Goto, TypeOK
<1> QED
  BY <1>10 DEF Inv, AnnouncedMeansDirty

(* When EXEC reads the dirty flag and decides to commit, no write to a watched
   key has been announced.  It is a theorem about this step only: one that is
   announced between it and the step that takes the queue does not stop EXEC. *)
THEOREM CommitCorrect == Spec => CommitSeesAnnouncements
<1>1. Inv /\ [Next]_vars =>
          [\A c \in Conns :
              task[c].pc # "take" /\ task'[c].pc = "take" => ~ announced[c]]_vars
  BY TakeIsClean
<1> QED
  BY <1>1, Invariance, PTL DEF Spec, CommitSeesAnnouncements

=============================================================================
