----------------------------- MODULE Lifecycle ------------------------------
(***************************************************************************)
(* The life of a server process: main from the creation of the TCP server  *)
(* to the end of the process, the signal handler, the accept loop, the     *)
(* workers of the pool (module ThreadPool, whose owner main is), the       *)
(* health monitor's thread, and the clients.                               *)
(*                                                                         *)
(* What recovery and the snapshot do is in Standalone; here they are what  *)
(* happens before the initial state and in the step Save.                  *)
(***************************************************************************)
EXTENDS Naturals, Sequences, FiniteSets

CONSTANTS
    Worker,  \* the threads of the pool
    Conn,    \* connections, each made at most once
    NoConn,  \* no connection
    Signal   \* the SIGINTs and SIGTERMs that are sent, each at most once

VARIABLES
    mode,      \* the command line: "standalone", "cluster", or "no_id" for
               \* a cluster configuration without --node-id
    main,      \* where main is
    alive,     \* the objects that main has constructed and not destroyed
    handler,   \* what handler_ captures; {} when it is empty or destroyed
    fd,        \* server_fd_: "none" for -1, or how far the socket has come
    running,   \* running_ of the server
    accepted,  \* client_fd, between accept and submit
    sig,       \* "unsent", "flagged" after running_ = false, "handled"
    monitor,   \* where the monitor's thread is
    pinging,   \* running_ of the monitor
    conn,      \* each client: "none", "idle", "asking", "handled" while its
               \* request is with the handler, "closed", or, when it has
               \* closed before the answer, "left" while the request can
               \* still be read and "orphaned" while it is being handled
    backlog,   \* connections that the kernel has and accept has not returned
    missed,    \* history: signals whose running_ = false start has undone
    touched,   \* history: objects used after their destruction
    tasks, shutdown, worker, current, owner, submitted, ran  \* the pool

serverVars == <<fd, running, accepted, backlog>>
mainVars == <<mode, main, alive, handler>>
monitorVars == <<monitor, pinging>>
clientVars == <<conn>>
historyVars == <<missed, touched>>
poolVars == <<tasks, shutdown, worker, current, owner, submitted, ran>>

vars == <<serverVars, mainVars, monitorVars, clientVars, historyVars, sig, poolVars>>

ASSUME LifecycleAssumption ==
    /\ Worker # {}
    /\ NoConn \notin Conn

Pool == INSTANCE ThreadPool WITH
            Task <- Conn, NoTask <- NoConn, pc <- worker

-----------------------------------------------------------------------------
(* main's objects in the order of their construction.  snapshot_mgr is     *)
(* used by main alone and left out.                                        *)
Locals == <<"store", "wal", "cluster", "replication", "monitor">>

Base == {"store", "wal"}

(* What the handler of each mode uses, directly and through references.    *)
Captured == IF mode = "cluster" THEN {"replication", "cluster", "store"} ELSE Base

(* The last of the objects to have been constructed. *)
Youngest ==
    Locals[CHOOSE i \in 1 .. Len(Locals) :
              /\ Locals[i] \in alive
              /\ \A j \in i + 1 .. Len(Locals) : Locals[j] \notin alive]

(* server_fd_ is closed: the kernel resets what has not been accepted. *)
CloseListener ==
    /\ fd' = "none"
    /\ backlog' = {}
    /\ conn' = [c \in Conn |-> IF c \in backlog THEN "closed" ELSE conn[c]]

(* server_main.cpp:56-77: recovery is over and the server is created. *)
Init ==
    /\ mode \in {"standalone", "cluster", "no_id"}
    /\ main = "configure"
    /\ alive = Base
    /\ handler = {}
    /\ fd = "none" /\ running = FALSE /\ accepted = NoConn /\ backlog = {}
    /\ sig = [s \in Signal |-> "unsent"]
    /\ monitor = "none" /\ pinging = FALSE
    /\ conn = [c \in Conn |-> "none"]
    /\ missed = {} /\ touched = {}
    /\ Pool!Init

(* A cluster configuration without --node-id: main returns 1. *)
MissingId ==
    /\ main = "configure" /\ mode = "no_id"
    /\ main' = "destroy"
    /\ UNCHANGED <<mode, alive, handler, serverVars, monitorVars, clientVars, historyVars, sig, poolVars>>

(* The cluster's objects are created, the monitor is started and the       *)
(* handler set.                                                            *)
Configure ==
    /\ main = "configure" /\ mode # "no_id"
    /\ IF mode = "cluster"
       THEN /\ alive' = alive \cup {"cluster", "replication", "monitor"}
            /\ monitor' = "test" /\ pinging' = TRUE
       ELSE UNCHANGED <<alive, monitorVars>>
    /\ handler' = Captured
    /\ main' = "signals"
    /\ UNCHANGED <<mode, serverVars, clientVars, historyVars, sig, poolVars>>

InstallHandlers ==
    /\ main = "signals"
    /\ main' = "socket"
    /\ UNCHANGED <<mode, alive, handler, serverVars, monitorVars, clientVars, historyVars, sig, poolVars>>

-----------------------------------------------------------------------------
(* start: each call may fail, and does so when a signal has closed the     *)
(* descriptor; start then returns.                                         *)
Socket ==
    /\ main = "socket"
    /\ \/ fd' = "socket" /\ main' = "bind"
       \/ fd' = "none" /\ main' = "save"
    /\ UNCHANGED <<mode, alive, handler, running, accepted, backlog, monitorVars, clientVars, historyVars, sig, poolVars>>

Bind ==
    /\ main = "bind"
    /\ \/ fd = "socket" /\ fd' = "bound" /\ main' = "listen"
       \/ fd' = "none" /\ main' = "save"
    /\ UNCHANGED <<mode, alive, handler, running, accepted, backlog, monitorVars, clientVars, historyVars, sig, poolVars>>

Listen ==
    /\ main = "listen"
    /\ \/ fd = "bound" /\ fd' = "listening" /\ main' = "set_running"
       \/ fd' = "none" /\ main' = "save"
    /\ UNCHANGED <<mode, alive, handler, running, accepted, backlog, monitorVars, clientVars, historyVars, sig, poolVars>>

(* running_ = true, whatever a signal has done before. *)
SetRunning ==
    /\ main = "set_running"
    /\ running' = TRUE
    /\ missed' = {s \in Signal : sig[s] # "unsent"}
    /\ main' = "test"
    /\ UNCHANGED <<mode, alive, handler, fd, accepted, backlog, monitorVars, clientVars, touched, sig, poolVars>>

(* while (running_). *)
TestRunning ==
    /\ main = "test"
    /\ main' = IF running THEN "poll" ELSE "save"
    /\ UNCHANGED <<mode, alive, handler, serverVars, monitorVars, clientVars, historyVars, sig, poolVars>>

(* poll reports a connection, or nothing for 100 ms. *)
Poll ==
    /\ main = "poll"
    /\ main' = IF fd = "listening" /\ backlog # {} THEN "accept" ELSE "test"
    /\ UNCHANGED <<mode, alive, handler, serverVars, monitorVars, clientVars, historyVars, sig, poolVars>>

(* accept on server_fd_, which a signal may have closed since. *)
Accept ==
    /\ main = "accept"
    /\ \/ \E c \in backlog :
             /\ backlog' = backlog \ {c}
             /\ accepted' = c
             /\ main' = "submit"
       \/ fd = "none" /\ main' = "test" /\ UNCHANGED <<backlog, accepted>>
    /\ UNCHANGED <<mode, alive, handler, fd, running, monitorVars, clientVars, historyVars, sig, poolVars>>

Submit ==
    /\ main = "submit"
    /\ Pool!Submit(accepted)
    /\ accepted' = NoConn
    /\ main' = "notify"
    /\ UNCHANGED <<mode, alive, handler, fd, running, backlog, monitorVars, clientVars, historyVars, sig>>

Notify ==
    /\ main = "notify"
    /\ Pool!NotifyOne
    /\ main' = "test"
    /\ UNCHANGED <<mode, alive, handler, serverVars, monitorVars, clientVars, historyVars, sig>>

-----------------------------------------------------------------------------
(* start has returned: the snapshot is saved and the log truncated. *)
Save ==
    /\ main = "save"
    /\ main' = "stop_monitor"
    /\ UNCHANGED <<mode, alive, handler, serverVars, monitorVars, clientVars, historyVars, sig, poolVars>>

(* Mutant: the monitor is told to stop and not waited for. *)
StopMonitorDetached ==
    /\ main = "stop_monitor"
    /\ pinging' = FALSE
    /\ main' = "destroy"
    /\ UNCHANGED <<mode, alive, handler, serverVars, monitor, clientVars, historyVars, sig, poolVars>>

(* Mutant: the monitor is waited for and not told to stop. *)
StopMonitorUntold ==
    /\ main = "stop_monitor"
    /\ main' = IF pinging THEN "join_monitor" ELSE "destroy"
    /\ UNCHANGED <<mode, alive, handler, serverVars, monitorVars, clientVars, historyVars, sig, poolVars>>

(* HealthMonitor::stop, up to the join. *)
StopMonitor ==
    /\ main = "stop_monitor"
    /\ pinging' = FALSE
    /\ main' = IF pinging THEN "join_monitor" ELSE "destroy"
    /\ UNCHANGED <<mode, alive, handler, serverVars, monitor, clientVars, historyVars, sig, poolVars>>

JoinMonitor ==
    /\ main = "join_monitor" /\ monitor = "exited"
    /\ main' = "destroy"
    /\ UNCHANGED <<mode, alive, handler, serverVars, monitorVars, clientVars, historyVars, sig, poolVars>>

(* main has returned: its objects are destroyed, the youngest first. *)
Destroy ==
    /\ main = "destroy"
    /\ alive' = alive \ {Youngest}
    /\ main' = IF alive' = {} THEN "stop_server" ELSE "destroy"
    /\ UNCHANGED <<mode, handler, serverVars, monitorVars, clientVars, historyVars, sig, poolVars>>

(* global_server is destroyed: ~TcpServer calls stop, *)
StopServer ==
    /\ main = "stop_server"
    /\ running' = FALSE
    /\ CloseListener
    /\ main' = "clear_handler"
    /\ UNCHANGED <<mode, alive, handler, accepted, monitorVars, historyVars, sig, poolVars>>

(* then its members are destroyed, the last one first: handler_, *)
ClearHandler ==
    /\ main = "clear_handler"
    /\ handler' = {}
    /\ main' = "end_pool"
    /\ UNCHANGED <<mode, alive, serverVars, monitorVars, clientVars, historyVars, sig, poolVars>>

(* and thread_pool_, whose destructor waits for the workers. *)
EndPool ==
    /\ main = "end_pool"
    /\ \/ (Pool!ShutdownSet \/ Pool!NotifyAll) /\ UNCHANGED main
       \/ Pool!Join /\ main' = "exited"
    /\ UNCHANGED <<mode, alive, handler, serverVars, monitorVars, clientVars, historyVars, sig>>

-----------------------------------------------------------------------------
Installed == main \notin {"configure", "signals"} /\ mode # "no_id"

Over == main \in {"exited", "killed"}

(* A signal before std::signal ends the process. *)
Kill(s) ==
    /\ sig[s] = "unsent" /\ ~Installed /\ ~Over
    /\ sig' = [sig EXCEPT ![s] = "handled"]
    /\ main' = "killed"
    /\ UNCHANGED <<mode, alive, handler, serverVars, monitorVars, clientVars, historyVars, poolVars>>

(* Mutant: stop closes the socket and leaves running_ alone. *)
HandleSignalUnflagged(s) ==
    /\ sig[s] = "unsent" /\ Installed /\ ~Over
    /\ sig' = [sig EXCEPT ![s] = "flagged"]
    /\ UNCHANGED <<mainVars, serverVars, monitorVars, clientVars, historyVars, poolVars>>

(* signalHandler, on whichever thread the kernel runs it: stop clears      *)
(* running_, *)
HandleSignal(s) ==
    /\ sig[s] = "unsent" /\ Installed /\ ~Over
    /\ running' = FALSE
    /\ sig' = [sig EXCEPT ![s] = "flagged"]
    /\ UNCHANGED <<mainVars, fd, accepted, backlog, monitorVars, clientVars, historyVars, poolVars>>

(* and closes the listening socket if there is one. *)
CloseOnSignal(s) ==
    /\ sig[s] = "flagged" /\ ~Over
    /\ CloseListener
    /\ sig' = [sig EXCEPT ![s] = "handled"]
    /\ UNCHANGED <<mainVars, running, accepted, monitorVars, historyVars, poolVars>>

-----------------------------------------------------------------------------
(* The use of destroyed objects is undefined: it goes unnoticed or ends    *)
(* the process.                                                            *)
Touch(objects) ==
    /\ touched' = touched \cup objects
    /\ \/ UNCHANGED main
       \/ objects # {} /\ main' = "killed"

(* The steps of a worker of the pool outside its task. *)
PoolStep(w) ==
    /\ ~Over
    /\ \/ Pool!TestFalse(w) \/ Pool!Sleep(w) \/ Pool!SpuriousWakeup(w)
       \/ Pool!Take(w) \/ Pool!Return(w)
    /\ UNCHANGED <<mainVars, serverVars, monitorVars, clientVars, historyVars, sig>>

(* What a call of handler_ needs now and does not find. *)
Missing == (Captured \ alive) \cup (IF handler = {} THEN {"handler"} ELSE {})

(* handleConnection reads a request that needs all that handler_ captures, *)
(* a mutation, and calls handler_.                                         *)
Serve(w) ==
    /\ ~Over
    /\ worker[w] = "running" /\ conn[current[w]] \in {"asking", "left"}
    /\ conn' = [conn EXCEPT ![current[w]] =
                    IF @ = "left" THEN "orphaned" ELSE "handled"]
    /\ Touch(Missing)
    /\ UNCHANGED <<mode, alive, handler, serverVars, monitorVars, missed, sig, poolVars>>

(* The handler, which in cluster mode may have waited for other nodes,     *)
(* uses the objects once more and returns; handleConnection answers.       *)
Answer(w) ==
    /\ ~Over
    /\ worker[w] = "running" /\ conn[current[w]] \in {"handled", "orphaned"}
    /\ conn' = [conn EXCEPT ![current[w]] =
                    IF @ = "orphaned" THEN "closed" ELSE "idle"]
    /\ Touch(Missing)
    /\ UNCHANGED <<mode, alive, handler, serverVars, monitorVars, missed, sig, poolVars>>

(* handleConnection returns because the client has closed the connection. *)
EndConnection(w) ==
    /\ ~Over
    /\ worker[w] = "running" /\ conn[current[w]] = "closed"
    /\ Pool!Finish(w)
    /\ UNCHANGED <<mainVars, serverVars, monitorVars, clientVars, historyVars, sig>>

(* monitorLoop: while (running_). *)
MonitorTest ==
    /\ ~Over
    /\ monitor = "test"
    /\ monitor' = IF pinging THEN "ping" ELSE "exited"
    /\ UNCHANGED <<mainVars, serverVars, pinging, clientVars, historyVars, sig, poolVars>>

(* The nodes are pinged and their statuses set. *)
MonitorPing ==
    /\ ~Over
    /\ monitor = "ping"
    /\ monitor' = "test"
    /\ Touch({"cluster", "monitor"} \ alive)
    /\ UNCHANGED <<mode, alive, handler, serverVars, pinging, clientVars, missed, sig, poolVars>>

Connect(c) ==
    /\ ~Over
    /\ conn[c] = "none" /\ fd = "listening"
    /\ conn' = [conn EXCEPT ![c] = "idle"]
    /\ backlog' = backlog \cup {c}
    /\ UNCHANGED <<mainVars, fd, running, accepted, monitorVars, historyVars, sig, poolVars>>

Ask(c) ==
    /\ ~Over
    /\ conn[c] = "idle"
    /\ conn' = [conn EXCEPT ![c] = "asking"]
    /\ UNCHANGED <<mainVars, serverVars, monitorVars, historyVars, sig, poolVars>>

Close(c) ==
    /\ ~Over
    /\ \/ conn[c] \in {"idle", "asking"} /\ conn' = [conn EXCEPT ![c] = "closed"]
       \/ conn[c] = "asking" /\ conn' = [conn EXCEPT ![c] = "left"]
       \/ conn[c] = "handled" /\ conn' = [conn EXCEPT ![c] = "orphaned"]
    /\ UNCHANGED <<mainVars, serverVars, monitorVars, historyVars, sig, poolVars>>

-----------------------------------------------------------------------------
MainStep ==
    \/ MissingId \/ Configure \/ InstallHandlers
    \/ Socket \/ Bind \/ Listen \/ SetRunning
    \/ TestRunning \/ Poll \/ Accept \/ Submit \/ Notify
    \/ Save \/ StopMonitor \/ JoinMonitor
    \/ Destroy \/ StopServer \/ ClearHandler \/ EndPool

Next ==
    \/ MainStep
    \/ \E s \in Signal : Kill(s) \/ HandleSignal(s) \/ CloseOnSignal(s)
    \/ \E w \in Worker : PoolStep(w) \/ Serve(w) \/ Answer(w) \/ EndConnection(w)
    \/ MonitorTest \/ MonitorPing
    \/ \E c \in Conn : Connect(c) \/ Ask(c) \/ Close(c)
    \/ Over /\ UNCHANGED vars

Spec == Init /\ [][Next]_vars

(* Threads are scheduled and the mutex of the pool is granted in the end.  *)
(* The handler of a standalone server returns; that of a cluster may wait  *)
(* for other nodes for ever (cluster_manager.cpp:75-99), as may a ping.    *)
(* Nobody has to send a signal, to connect, to ask or to leave, and no     *)
(* wait has to end spuriously.                                             *)
Fairness ==
    /\ WF_vars(MainStep) /\ SF_vars(Submit)
    /\ WF_vars(MonitorTest)
    /\ \A s \in Signal : WF_vars(CloseOnSignal(s))
    /\ \A w \in Worker :
          /\ WF_vars(Serve(w)) /\ WF_vars(EndConnection(w))
          /\ WF_vars(mode = "standalone" /\ Answer(w))
          /\ WF_vars(~Over /\ Pool!Sleep(w) /\ PoolStep(w))
          /\ SF_vars(~Over /\ (Pool!TestFalse(w) \/ Pool!Take(w) \/ Pool!Return(w)) /\ PoolStep(w))

FairSpec == Spec /\ Fairness

-----------------------------------------------------------------------------
MainPC ==
    {"configure", "signals", "socket", "bind", "listen", "set_running", "test",
     "poll", "accept", "submit", "notify", "save", "stop_monitor",
     "join_monitor", "destroy", "stop_server", "clear_handler", "end_pool",
     "exited", "killed"}

ConnState ==
    {"none", "idle", "asking", "handled", "left", "orphaned", "closed"}

Objects == {Locals[i] : i \in 1 .. Len(Locals)}

(* Every variable holds a value of its type.                               *)
TypeOK ==
    /\ mode \in {"standalone", "cluster", "no_id"} /\ main \in MainPC
    /\ alive \subseteq Objects /\ handler \subseteq Objects
    /\ fd \in {"none", "socket", "bound", "listening"}
    /\ running \in BOOLEAN /\ pinging \in BOOLEAN
    /\ accepted \in Conn \cup {NoConn}
    /\ sig \in [Signal -> {"unsent", "flagged", "handled"}]
    /\ monitor \in {"none", "test", "ping", "exited"}
    /\ conn \in [Conn -> ConnState]
    /\ backlog \subseteq Conn /\ missed \subseteq Signal
    /\ touched \subseteq Objects \cup {"handler"}
    /\ Pool!TypeOK

(* A server that runs its accept loop without a listening socket, and so   *)
(* neither serves nor stops, has missed a signal: one that came before     *)
(* start set running_ (tcp_server.cpp:69).                                 *)
DeafMissedSignal ==
    main \in {"test", "poll", "accept", "submit", "notify"} /\ running /\ fd = "none"
        => missed # {}

(* The monitor's thread is joined before the objects that it uses are      *)
(* destroyed (server_main.cpp:164, health_monitor.cpp:22-29).              *)
MonitorOutlived ==
    monitor \in {"test", "ping"} => {"cluster", "monitor"} \subseteq alive

(* A process that has ended in order has served every connection that it   *)
(* accepted, to its end, also those accepted while it was told to stop.    *)
ExitServesAll ==
    main = "exited" => \A c \in submitted : ran[c] = 1 /\ conn[c] = "closed"

(* Every signal that is handled and not missed leads to the snapshot       *)
(* (README.md:312), whatever the clients and the other nodes do: nothing   *)
(* that main does before the save waits for them.  A signal that comes     *)
(* before std::signal ends the process without one.                        *)
StopLeadsToSave ==
    \A s \in Signal :
        (sig[s] # "unsent") ~>
            \/ s \in missed
            \/ main \notin {"socket", "bind", "listen", "set_running", "test",
                            "poll", "accept", "submit", "notify", "save"}

(* Four things only keep a server that has saved from ending: a ping that  *)
(* is not answered, a client that keeps its connection, a handler of a     *)
(* cluster that waits for another node, also when its client has left, and *)
(* a worker that went to sleep as the pool was shut down                   *)
(* (health_monitor.cpp:26, cluster_manager.cpp:75, thread_pool.cpp:26).    *)
EndsUnlessHeld ==
    \/ [](main # "stop_monitor")
    \/ <>Over
    \/ <>[](monitor = "ping")
    \/ <>[](\E c \in Conn : conn[c] \in {"idle", "asking", "handled"})
    \/ <>[](mode = "cluster" /\ \E c \in Conn : conn[c] = "orphaned")
    \/ <>[](shutdown /\ \E w \in Worker : worker[w] = "waiting")

(* "objects outlive the lambda" (server_main.cpp:99) and "kept alive for   *)
(* the lifetime of the server" (server_main.cpp:79): no request reaches    *)
(* the replication manager or the cluster manager after its destruction.   *)
ObjectsOutliveTheLambda == touched \cap {"replication", "cluster"} = {}
=============================================================================
