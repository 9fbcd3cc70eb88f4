-------------------------- MODULE LifecycleProofs ---------------------------
(***************************************************************************)
(* Proofs about Lifecycle, for any number of workers, connections and      *)
(* signals.                                                                *)
(***************************************************************************)
EXTENDS Lifecycle, TLAPS

(* What is proved about the pool, for the pool of the server. *)
PoolFacts == INSTANCE ThreadPoolProofs WITH
                 Task <- Conn, NoTask <- NoConn, pc <- worker

Loop == {"test", "poll", "accept", "submit", "notify"}

BeforeStop ==
    {"signals", "socket", "bind", "listen", "set_running", "save", "stop_monitor"} \cup Loop

AllUnsent == \A s \in Signal : sig[s] = "unsent"

(* While no signal has come, the accept loop has its socket. *)
SocketInv ==
    /\ sig \in [Signal -> {"unsent", "flagged", "handled"}]
    /\ main = "set_running" /\ AllUnsent => fd = "listening"
    /\ main \in Loop /\ running /\ missed = {} => AllUnsent /\ fd = "listening"

(* While the monitor's thread runs, main is before or in the join. *)
MonitorInv ==
    monitor \in {"test", "ping"} =>
        /\ {"cluster", "monitor"} \subseteq alive
        /\ main \in BeforeStop \cup {"join_monitor", "killed"}
        /\ main \in BeforeStop => pinging

(* What the accept loop submits is a connection. *)
QueueInv ==
    /\ conn \in [Conn -> ConnState]
    /\ backlog \subseteq Conn
    /\ main = "submit" => accepted \in Conn

(* A connection leaves the pool only when its client has gone, and the     *)
(* process ends only when the pool has.                                    *)
ServedInv ==
    /\ main = "exited" => owner = "joined"
    /\ \A c \in Conn : ran[c] # 0 => conn[c] = "closed"

-----------------------------------------------------------------------------
LEMMA SocketInit ==
    Init => SocketInv /\ MonitorInv
BY DEF Init, SocketInv, MonitorInv, Loop, BeforeStop

LEMMA SocketStep ==
    ASSUME SocketInv, [Next]_vars
    PROVE  SocketInv'
<1> USE DEF SocketInv, AllUnsent, Loop, serverVars, historyVars, mainVars
<1>1. CASE UNCHANGED vars
  BY <1>1 DEF vars
<1>2. CASE MissingId \/ Configure \/ InstallHandlers
  BY <1>2 DEF MissingId, Configure, InstallHandlers
<1>3. CASE Socket \/ Bind \/ Listen
  BY <1>3 DEF Socket, Bind, Listen
<1>4. CASE SetRunning
  BY <1>4 DEF SetRunning
<1>5. CASE TestRunning \/ Poll \/ Accept
  BY <1>5 DEF TestRunning, Poll, Accept
<1>6. CASE Submit \/ Notify
  BY <1>6 DEF Submit, Notify
<1>7. CASE Save \/ StopMonitor \/ JoinMonitor \/ Destroy
  BY <1>7 DEF Save, StopMonitor, JoinMonitor, Destroy
<1>8. CASE StopServer \/ ClearHandler \/ EndPool
  BY <1>8 DEF StopServer, ClearHandler, EndPool, CloseListener
<1>9. ASSUME NEW s \in Signal, Kill(s) \/ HandleSignal(s) \/ CloseOnSignal(s)
      PROVE  SocketInv'
  BY <1>9 DEF Kill, HandleSignal, CloseOnSignal, CloseListener
<1>10. ASSUME NEW w \in Worker, PoolStep(w) \/ Serve(w) \/ Answer(w) \/ EndConnection(w)
       PROVE  SocketInv'
  BY <1>10 DEF PoolStep, Serve, Answer, EndConnection, Touch
<1>11. CASE MonitorTest \/ MonitorPing
  BY <1>11 DEF MonitorTest, MonitorPing, Touch
<1>12. ASSUME NEW c \in Conn, Connect(c) \/ Ask(c) \/ Close(c)
       PROVE  SocketInv'
  BY <1>12 DEF Connect, Ask, Close
<1> QED
  BY <1>1, <1>2, <1>3, <1>4, <1>5, <1>6, <1>7, <1>8, <1>9, <1>10, <1>11, <1>12 DEF Next, MainStep

(* A server that runs its accept loop without a listening socket has       *)
(* missed a signal that came before start set running_                     *)
(* (tcp_server.cpp:69, server_main.cpp:135-156).                           *)
THEOREM DeafOnlyAfterMissedSignal ==
    Spec => []DeafMissedSignal
<1>1. SocketInv => DeafMissedSignal
  BY DEF SocketInv, DeafMissedSignal, Loop
<1> QED
  BY <1>1, SocketInit, SocketStep, PTL DEF Spec

-----------------------------------------------------------------------------
LEMMA MonitorStep ==
    ASSUME MonitorInv, [Next]_vars
    PROVE  MonitorInv'
<1> USE DEF MonitorInv, BeforeStop, Loop, monitorVars, mainVars
<1>1. CASE UNCHANGED vars
  BY <1>1 DEF vars
<1>2. CASE MissingId \/ Configure \/ InstallHandlers
  BY <1>2 DEF MissingId, Configure, InstallHandlers
<1>3. CASE Socket \/ Bind \/ Listen
  BY <1>3 DEF Socket, Bind, Listen
<1>4. CASE SetRunning
  BY <1>4 DEF SetRunning
<1>5. CASE TestRunning \/ Poll \/ Accept
  BY <1>5 DEF TestRunning, Poll, Accept
<1>6. CASE Submit \/ Notify
  BY <1>6 DEF Submit, Notify
<1>7. CASE Save \/ StopMonitor \/ JoinMonitor \/ Destroy
  BY <1>7 DEF Save, StopMonitor, JoinMonitor, Destroy
<1>8. CASE StopServer \/ ClearHandler \/ EndPool
  BY <1>8 DEF StopServer, ClearHandler, EndPool
<1>9. ASSUME NEW s \in Signal, Kill(s) \/ HandleSignal(s) \/ CloseOnSignal(s)
      PROVE  MonitorInv'
  BY <1>9 DEF Kill, HandleSignal, CloseOnSignal
<1>10. ASSUME NEW w \in Worker, PoolStep(w) \/ Serve(w) \/ Answer(w) \/ EndConnection(w)
       PROVE  MonitorInv'
  BY <1>10 DEF PoolStep, Serve, Answer, EndConnection, Touch
<1>11. CASE MonitorTest \/ MonitorPing
  BY <1>11 DEF MonitorTest, MonitorPing, Touch
<1>12. ASSUME NEW c \in Conn, Connect(c) \/ Ask(c) \/ Close(c)
       PROVE  MonitorInv'
  BY <1>12 DEF Connect, Ask, Close
<1> QED
  BY <1>1, <1>2, <1>3, <1>4, <1>5, <1>6, <1>7, <1>8, <1>9, <1>10, <1>11, <1>12 DEF Next, MainStep

(* The monitor's thread has ended before the objects that it uses are      *)
(* destroyed (server_main.cpp:164, health_monitor.cpp:22-29).              *)
THEOREM MonitorIsOutlived ==
    Spec => []MonitorOutlived
<1>1. MonitorInv => MonitorOutlived
  BY DEF MonitorInv, MonitorOutlived
<1> QED
  BY <1>1, SocketInit, MonitorStep, PTL DEF Spec

-----------------------------------------------------------------------------
LEMMA QueueStep ==
    ASSUME QueueInv, [Next]_vars
    PROVE  QueueInv'
<1> USE DEF QueueInv, ConnState, serverVars, mainVars, clientVars
<1>1. CASE UNCHANGED vars
  BY <1>1 DEF vars
<1>2. CASE MissingId \/ Configure \/ InstallHandlers
  BY <1>2 DEF MissingId, Configure, InstallHandlers
<1>3. CASE Socket \/ Bind \/ Listen \/ SetRunning
  BY <1>3 DEF Socket, Bind, Listen, SetRunning
<1>4. CASE TestRunning \/ Poll \/ Accept
  BY <1>4 DEF TestRunning, Poll, Accept
<1>5. CASE Submit \/ Notify
  BY <1>5 DEF Submit, Notify
<1>6. CASE Save \/ StopMonitor \/ JoinMonitor \/ Destroy
  BY <1>6 DEF Save, StopMonitor, JoinMonitor, Destroy
<1>7. CASE StopServer \/ ClearHandler
  BY <1>7 DEF StopServer, ClearHandler, CloseListener
<1>8. CASE EndPool
  BY <1>8 DEF EndPool
<1>9. ASSUME NEW s \in Signal, Kill(s) \/ HandleSignal(s) \/ CloseOnSignal(s)
      PROVE  QueueInv'
  BY <1>9 DEF Kill, HandleSignal, CloseOnSignal, CloseListener
<1>10. ASSUME NEW w \in Worker, PoolStep(w)
       PROVE  QueueInv'
  BY <1>10 DEF PoolStep
<1>11. ASSUME NEW w \in Worker, Serve(w) \/ Answer(w)
       PROVE  QueueInv'
  BY <1>11 DEF Serve, Answer, Touch
<1>12. ASSUME NEW w \in Worker, EndConnection(w)
       PROVE  QueueInv'
  BY <1>12 DEF EndConnection
<1>13. CASE MonitorTest \/ MonitorPing
  BY <1>13 DEF MonitorTest, MonitorPing, Touch
<1>14. ASSUME NEW c \in Conn, Connect(c) \/ Ask(c) \/ Close(c)
       PROVE  QueueInv'
  BY <1>14 DEF Connect, Ask, Close
<1> QED
  BY <1>1, <1>2, <1>3, <1>4, <1>5, <1>6, <1>7, <1>8, <1>9, <1>10, <1>11, <1>12, <1>13, <1>14
     DEF Next, MainStep

(* Every step of the process is a step of the pool or leaves it alone. *)
LEMMA PoolIsUsed ==
    ASSUME QueueInv, [Next]_vars
    PROVE  [Pool!Next]_(Pool!vars)
<1> USE DEF Pool!vars, poolVars
<1>1. CASE UNCHANGED vars
  BY <1>1 DEF vars
<1>2. CASE Submit
  BY <1>2 DEF Submit, QueueInv, Pool!Next
<1>3. CASE Notify \/ EndPool
  BY <1>3 DEF Notify, EndPool, Pool!Next, Pool!OwnerStep
<1>4. CASE MissingId \/ Configure \/ InstallHandlers \/ Socket \/ Bind \/ Listen \/ SetRunning
  BY <1>4 DEF MissingId, Configure, InstallHandlers, Socket, Bind, Listen, SetRunning
<1>5. CASE TestRunning \/ Poll \/ Accept \/ Save \/ StopMonitor \/ JoinMonitor
  BY <1>5 DEF TestRunning, Poll, Accept, Save, StopMonitor, JoinMonitor
<1>6. CASE Destroy \/ StopServer \/ ClearHandler
  BY <1>6 DEF Destroy, StopServer, ClearHandler
<1>7. ASSUME NEW s \in Signal, Kill(s) \/ HandleSignal(s) \/ CloseOnSignal(s)
      PROVE  UNCHANGED Pool!vars
  BY <1>7 DEF Kill, HandleSignal, CloseOnSignal
<1>8. ASSUME NEW w \in Worker, PoolStep(w)
      PROVE  Pool!Next
  BY <1>8 DEF PoolStep, Pool!Next, Pool!WorkerStep
<1>9. ASSUME NEW w \in Worker, Serve(w) \/ Answer(w) \/ EndConnection(w)
      PROVE  [Pool!Next]_(Pool!vars)
  BY <1>9 DEF Serve, Answer, EndConnection, Pool!Next, Pool!WorkerStep
<1>10. CASE MonitorTest \/ MonitorPing
  BY <1>10 DEF MonitorTest, MonitorPing
<1>11. ASSUME NEW c \in Conn, Connect(c) \/ Ask(c) \/ Close(c)
       PROVE  UNCHANGED Pool!vars
  BY <1>11 DEF Connect, Ask, Close
<1> QED
  BY <1>1, <1>2, <1>3, <1>4, <1>5, <1>6, <1>7, <1>8, <1>9, <1>10, <1>11 DEF Next, MainStep

(* The server uses its pool as ThreadPool assumes of the owner: the accept *)
(* loop submits each connection once and notifies, and only the destructor *)
(* of the server shuts the pool down (tcp_server.cpp:73-91, 16-18).        *)
THEOREM PoolIsImplemented ==
    Spec => Pool!Spec
<1>1. Init => QueueInv /\ Pool!Init
  BY DEF Init, QueueInv, ConnState
<1> QED
  BY <1>1, QueueStep, PoolIsUsed, PTL DEF Spec, Pool!Spec

-----------------------------------------------------------------------------
(* The pool of Lifecycle is the pool of the proofs. *)
LEMMA SamePool ==
    /\ Pool!Init <=> PoolFacts!Init
    /\ [Pool!Next]_(Pool!vars) <=> [PoolFacts!Next]_(PoolFacts!vars)
    /\ Pool!TypeOK <=> PoolFacts!TypeOK
    /\ Pool!ShutdownDrains <=> PoolFacts!ShutdownDrains
<1>1. Pool!vars = PoolFacts!vars /\ (UNCHANGED Pool!vars <=> UNCHANGED PoolFacts!vars)
  BY DEF Pool!vars, PoolFacts!vars
<1>2. Pool!Init <=> PoolFacts!Init
  BY DEF Pool!Init, PoolFacts!Init
<1>3. Pool!Next <=> PoolFacts!Next
  BY DEF Pool!Next, Pool!Submit, Pool!ShutdownSet, Pool!OwnerStep, Pool!NotifyOne, Pool!NotifyAll,
         Pool!Join, Pool!WorkerStep, Pool!TestFalse, Pool!Sleep, Pool!Take, Pool!Finish, Pool!Return,
         Pool!SpuriousWakeup, Pool!Done, Pool!MutexFree, Pool!vars,
         PoolFacts!Next, PoolFacts!Submit, PoolFacts!ShutdownSet, PoolFacts!OwnerStep,
         PoolFacts!NotifyOne, PoolFacts!NotifyAll, PoolFacts!Join, PoolFacts!WorkerStep,
         PoolFacts!TestFalse, PoolFacts!Sleep, PoolFacts!Take, PoolFacts!Finish, PoolFacts!Return,
         PoolFacts!SpuriousWakeup, PoolFacts!Done, PoolFacts!MutexFree, PoolFacts!vars
<1>4. Pool!TypeOK <=> PoolFacts!TypeOK
  BY DEF Pool!TypeOK, Pool!FieldTypes, Pool!CurrentIsRunning, Pool!WorkerPC, Pool!OwnerPC,
         PoolFacts!TypeOK, PoolFacts!FieldTypes, PoolFacts!CurrentIsRunning, PoolFacts!WorkerPC,
         PoolFacts!OwnerPC
<1>5. Pool!ShutdownDrains <=> PoolFacts!ShutdownDrains
  BY DEF Pool!ShutdownDrains, PoolFacts!ShutdownDrains
<1> QED
  BY <1>1, <1>2, <1>3, <1>4, <1>5

LEMMA PoolHolds ==
    Spec => [](Pool!TypeOK /\ Pool!ShutdownDrains)
<1>1. Pool!Spec => PoolFacts!Spec
  BY SamePool, PTL DEF Pool!Spec, PoolFacts!Spec
<1>2. PoolFacts!Spec => []PoolFacts!TypeOK
  BY PoolFacts!TypeCorrect, LifecycleAssumption, PTL DEF PoolFacts!ThreadPoolAssumption
<1>3. PoolFacts!Spec => []PoolFacts!ShutdownDrains
  BY PoolFacts!ShutdownLeavesNothing, LifecycleAssumption, PTL DEF PoolFacts!ThreadPoolAssumption
<1> QED
  BY <1>1, <1>2, <1>3, SamePool, PoolIsImplemented, PTL

LEMMA ServedStep ==
    ASSUME QueueInv, Pool!TypeOK, ServedInv, [Next]_vars
    PROVE  ServedInv'
<1> USE DEF QueueInv, ServedInv, Over, serverVars, mainVars, clientVars, poolVars, Pool!TypeOK, Pool!FieldTypes
<1>1. CASE UNCHANGED vars
  BY <1>1 DEF vars
<1>2. CASE MissingId \/ Configure \/ InstallHandlers
  BY <1>2 DEF MissingId, Configure, InstallHandlers
<1>3. CASE Socket \/ Bind \/ Listen \/ SetRunning
  BY <1>3 DEF Socket, Bind, Listen, SetRunning
<1>4. CASE TestRunning \/ Poll \/ Accept
  BY <1>4 DEF TestRunning, Poll, Accept
<1>5. CASE Submit \/ Notify
  BY <1>5 DEF Submit, Notify, Pool!Submit, Pool!NotifyOne
<1>6. CASE Save \/ StopMonitor \/ JoinMonitor \/ Destroy
  BY <1>6 DEF Save, StopMonitor, JoinMonitor, Destroy
<1>7. CASE StopServer \/ ClearHandler
  BY <1>7 DEF StopServer, ClearHandler, CloseListener
<1>8. CASE EndPool
  BY <1>8 DEF EndPool, Pool!ShutdownSet, Pool!NotifyAll, Pool!Join
<1>9. ASSUME NEW s \in Signal, Kill(s) \/ HandleSignal(s) \/ CloseOnSignal(s)
      PROVE  ServedInv'
  BY <1>9 DEF Kill, HandleSignal, CloseOnSignal, CloseListener
<1>10. ASSUME NEW w \in Worker, PoolStep(w)
       PROVE  ServedInv'
  BY <1>10 DEF PoolStep, Pool!TestFalse, Pool!Sleep, Pool!SpuriousWakeup, Pool!Take, Pool!Return
<1>11. ASSUME NEW w \in Worker, Serve(w) \/ Answer(w)
       PROVE  ServedInv'
  BY <1>11 DEF Serve, Answer, Touch
<1>12. ASSUME NEW w \in Worker, EndConnection(w)
       PROVE  ServedInv'
  BY <1>12 DEF EndConnection, Pool!Finish
<1>13. CASE MonitorTest \/ MonitorPing
  BY <1>13 DEF MonitorTest, MonitorPing, Touch
<1>14. ASSUME NEW c \in Conn, Connect(c) \/ Ask(c) \/ Close(c)
       PROVE  ServedInv'
  BY <1>14 DEF Connect, Ask, Close
<1> QED
  BY <1>1, <1>2, <1>3, <1>4, <1>5, <1>6, <1>7, <1>8, <1>9, <1>10, <1>11, <1>12, <1>13, <1>14
     DEF Next, MainStep

(* A process that has ended in order has served every connection that it   *)
(* accepted, to its end (thread_pool.cpp:24-54, tcp_server.cpp:16-18).     *)
THEOREM ExitHasServedAll ==
    Spec => []ExitServesAll
<1>1. Init => QueueInv /\ ServedInv
  BY DEF Init, QueueInv, ConnState, ServedInv, Pool!Init
<1>2. ServedInv /\ Pool!TypeOK /\ Pool!ShutdownDrains => ExitServesAll
  BY DEF ServedInv, Pool!TypeOK, Pool!FieldTypes, Pool!ShutdownDrains, ExitServesAll
<1> QED
  BY <1>1, <1>2, QueueStep, ServedStep, PoolHolds, PTL DEF Spec

-----------------------------------------------------------------------------
(* TypeOK without the pool and the three parts of QueueInv. *)
ProcessTypes ==
    /\ mode \in {"standalone", "cluster", "no_id"} /\ main \in MainPC
    /\ alive \subseteq Objects /\ handler \subseteq Objects
    /\ fd \in {"none", "socket", "bound", "listening"}
    /\ running \in BOOLEAN /\ pinging \in BOOLEAN
    /\ accepted \in Conn \cup {NoConn}
    /\ sig \in [Signal -> {"unsent", "flagged", "handled"}]
    /\ monitor \in {"none", "test", "ping", "exited"}
    /\ missed \subseteq Signal
    /\ touched \subseteq Objects \cup {"handler"}

LEMMA ObjectsAre ==
    Objects = {"store", "wal", "cluster", "replication", "monitor"}
<1>1. Len(Locals) = 5 /\ Locals[1] = "store" /\ Locals[2] = "wal" /\ Locals[3] = "cluster"
      /\ Locals[4] = "replication" /\ Locals[5] = "monitor"
  BY DEF Locals
<1>2. 1 .. 5 = {1, 2, 3, 4, 5}
  OBVIOUS
<1> QED
  BY <1>1, <1>2 DEF Objects

LEMMA ProcessStep ==
    ASSUME QueueInv, ProcessTypes, [Next]_vars
    PROVE  ProcessTypes'
<1> USE ObjectsAre
    DEF ProcessTypes, MainPC, serverVars, mainVars, monitorVars, historyVars, Base, Captured
<1>1. CASE UNCHANGED vars
  BY <1>1 DEF vars
<1>2. CASE MissingId \/ Configure \/ InstallHandlers
  BY <1>2 DEF MissingId, Configure, InstallHandlers
<1>3. CASE Socket \/ Bind \/ Listen \/ SetRunning
  BY <1>3 DEF Socket, Bind, Listen, SetRunning
<1>4. CASE TestRunning \/ Poll \/ Accept
  BY <1>4 DEF TestRunning, Poll, Accept, QueueInv
<1>5. CASE Submit \/ Notify
  BY <1>5 DEF Submit, Notify
<1>6. CASE Save \/ StopMonitor \/ JoinMonitor \/ Destroy
  BY <1>6 DEF Save, StopMonitor, JoinMonitor, Destroy
<1>7. CASE StopServer \/ ClearHandler
  BY <1>7 DEF StopServer, ClearHandler, CloseListener
<1>8. CASE EndPool
  BY <1>8 DEF EndPool
<1>9. ASSUME NEW s \in Signal, Kill(s)
      PROVE  ProcessTypes'
  BY <1>9 DEF Kill
<1>10. ASSUME NEW s \in Signal, HandleSignal(s)
       PROVE  ProcessTypes'
  BY <1>10 DEF HandleSignal
<1>11. ASSUME NEW s \in Signal, CloseOnSignal(s)
       PROVE  ProcessTypes'
  BY <1>11 DEF CloseOnSignal, CloseListener
<1>12. ASSUME NEW w \in Worker, PoolStep(w)
       PROVE  ProcessTypes'
  BY <1>12 DEF PoolStep
<1>13. ASSUME NEW w \in Worker, EndConnection(w)
       PROVE  ProcessTypes'
  BY <1>13 DEF EndConnection
<1>14. ASSUME NEW w \in Worker, Serve(w) \/ Answer(w)
       PROVE  ProcessTypes'
  <2>1. /\ Touch(Missing)
        /\ UNCHANGED <<mode, alive, handler, fd, running, accepted, monitor, pinging,
                       missed, sig>>
    BY <1>14 DEF Serve, Answer
  <2>2. Missing \subseteq Objects \cup {"handler"}
    BY DEF Missing
  <2> QED
    BY <2>1, <2>2 DEF Touch
<1>15. CASE MonitorTest
  BY <1>15 DEF MonitorTest
<1>16. CASE MonitorPing
  BY <1>16 DEF MonitorPing, Touch
<1>17. ASSUME NEW c \in Conn, Connect(c)
       PROVE  ProcessTypes'
  BY <1>17 DEF Connect
<1>18. ASSUME NEW c \in Conn, Ask(c)
       PROVE  ProcessTypes'
  BY <1>18 DEF Ask
<1>19. ASSUME NEW c \in Conn, Close(c)
       PROVE  ProcessTypes'
  BY <1>19 DEF Close
<1> QED
  BY <1>1, <1>2, <1>3, <1>4, <1>5, <1>6, <1>7, <1>8, <1>9, <1>10, <1>11, <1>12, <1>13, <1>14,
     <1>15, <1>16, <1>17, <1>18, <1>19 DEF Next, MainStep

(* Every variable of the process always holds a value of its type, those   *)
(* of its pool included.                                                   *)
THEOREM ProcessTypeCorrect ==
    Spec => []TypeOK
<1>1. Init => QueueInv /\ ProcessTypes
  BY ObjectsAre DEF Init, QueueInv, ConnState, ProcessTypes, MainPC, Base
<1>2. QueueInv /\ ProcessTypes /\ Pool!TypeOK => TypeOK
  BY DEF QueueInv, ProcessTypes, TypeOK
<1> QED
  BY <1>1, <1>2, QueueStep, ProcessStep, PoolHolds, PTL DEF Spec
=============================================================================
