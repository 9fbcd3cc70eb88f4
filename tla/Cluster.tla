------------------------------- MODULE Cluster -------------------------------
(***************************************************************************)
(* A cluster of kv-servers: the replication manager behind each node's     *)
(* request handler, the bounded thread pool that runs the handlers, the    *)
(* synchronous connection each forwarded request opens, and the health     *)
(* monitor that decides which replicas a node still uses.                  *)
(*                                                                         *)
(* A worker serves one connection until its other end closes it, and a     *)
(* worker that forwards a request waits for the answer without a timeout.  *)
(* A forwarded PUT or DELETE is the same request a client would send, so   *)
(* the node that receives it replicates it in turn.                        *)
(*                                                                         *)
(* A node that dies loses its store: in cluster mode nothing is written to *)
(* the log, and the snapshot of a graceful stop belongs to Standalone.     *)
(*                                                                         *)
(* The nodes are started one after the other.  The monitor of a node       *)
(* starts before its server listens, and connect can also fail on its own  *)
(* account (socket, gethostbyname, a timeout of the system): all of that   *)
(* is Unreliable, under which a connect towards a running node may fail.   *)
(***************************************************************************)
EXTENDS KVStore, Sequences, FiniteSets

CONSTANTS
    Node,               \* the nodes of the configuration file
    Config,             \* the same, in the order of the file
    Ring,               \* for each key, the nodes clockwise from its hash
    ReplicationFactor,  \* --replication
    Thread,             \* the threads of each node's pool
    Client,             \* clients, each with one connection at a time
    Started,            \* the nodes that run already in the first state
    Unreliable,         \* may connect fail towards a node that runs?
    Monitoring,         \* bound: the nodes whose health monitor takes steps
    Impatient,          \* may a client leave before its answer has come?
    MaxCrashes,         \* bound: how often each node may die
    MaxQueue,           \* bound: a client connects to a shorter queue only
    None,               \* no node, no connection, no request, no answer
    Gone                \* the other end of a connection that was closed

ASSUME ClusterAssumption ==
    /\ Config \in Seq(Node)
    /\ \A n \in Node : \E i \in 1 .. Len(Config) : Config[i] = n
    /\ Ring \in [Key -> Seq(Node)]
    /\ \A k \in Key : Ring[k] # <<>>
    /\ ReplicationFactor \in Nat
    /\ Thread # {} /\ None \notin Thread
    /\ Started \subseteq Node
    /\ Unreliable \in BOOLEAN
    /\ Monitoring \subseteq Node
    /\ Impatient \in BOOLEAN
    /\ MaxCrashes \in [Node -> Nat]
    /\ MaxQueue \in Nat

(* Thread <<n, None>> is the health monitor of node n. *)
Worker == Node \X Thread
Monitor == Node \X {None}
Caller == Client \cup Worker \cup Monitor

ASSUME CallerAssumption ==
    /\ Client \cap (Worker \cup Monitor) = {}
    /\ Gone \notin Caller

VARIABLES
    alive,    \* is the process of each node running?
    store,    \* the map of each node
    view,     \* NodeInfo::status of each node, as each node knows it
    queue,    \* connections waiting for a worker (tasks_ of the pool)
    serving,  \* the connection each worker is serving
    job,      \* the request each worker is handling
    call,     \* the connection each caller has open
    peer,     \* where each monitor is in the list of nodes
    crashes   \* how often each node has died

vars == <<alive, store, view, queue, serving, job, call, peer, crashes>>

-----------------------------------------------------------------------------
Status == {"UP", "SUSPECT", "DOWN"}

Request ==
    [cmd : {"PUT"}, key : Key, value : Value]
        \cup [cmd : {"GET", "DELETE"}, key : Key, value : {NotFound}]

Ping == [cmd |-> "PING", key |-> NotFound, value |-> NotFound]

IsMutation(r) == r.cmd \in {"PUT", "DELETE"}

Response ==
    [status : {"OK", "NOT_FOUND", "ERROR", "NODE_UNAVAILABLE"},
     value : Value \cup {NotFound}]

Answer(status) == [status |-> status, value |-> NotFound]

(* What a worker has of a connection: who is at the other end, and a       *)
(* request that has been sent and not read yet.                            *)
Connection == [from : Caller \cup {Gone}, req : Request \cup {Ping, None}]

(* A request being handled: the nodes still to be tried, the               *)
(* acknowledgements so far, and the answer once it is known.               *)
Job == [req : Request \cup {Ping}, todo : Seq(Node), acks : Nat,
        ans : Response \cup {None}]

(* The caller's end: "quiet" when no request is outstanding. *)
Call == [to : Node \cup {None}, st : {"quiet", "waiting", "answered"},
         req : Request \cup {Ping, None}, ans : Response \cup {None}]

(* None is not one of the things it stands for the absence of. *)
ASSUME NoneAssumption ==
    /\ None \notin Node \cup Request \cup {Ping} \cup Response
    /\ None \notin Connection
    /\ None \notin Job

NoCall == [to |-> None, st |-> "quiet", req |-> None, ans |-> None]

(* Mutant: half of the replicas are enough. *)
WriteQuorumHalf == ReplicationFactor \div 2

(* write_quorum_ *)
WriteQuorum == ReplicationFactor \div 2 + 1

(* A loop over a list that keeps the elements of S. *)
Filter(s, S) ==
    LET kept[i \in 0 .. Len(s)] ==
            IF i = 0 THEN <<>>
            ELSE IF s[i] \in S THEN Append(kept[i - 1], s[i]) ELSE kept[i - 1]
    IN  kept[Len(s)]

(* How many nodes of the ring are the replicas of key k. *)
ReplicaCount(k) ==
    IF ReplicationFactor < Len(Ring[k]) THEN ReplicationFactor ELSE Len(Ring[k])

(* ClusterManager::getReplicaNodes at node n. *)
ReplicaNodes(n, k) ==
    Filter(SubSeq(Ring[k], 1, ReplicaCount(k)), {m \in Node : view[n][m] # "DOWN"})

IsLocalKey(n, k) == Ring[k][1] = n

Contains(s, m) == \E i \in 1 .. Len(s) : s[i] = m

Without(s, n) == Filter(s, Node \ {n})

(* The connections of caller c lose their other end.  Requests already     *)
(* sent on them stay readable.                                             *)
CutOff(conn, who) ==
    IF conn # None /\ conn.from \in who THEN [conn EXCEPT !.from = Gone]
                                        ELSE conn

CutQueue(who) ==
    [n \in Node |-> [i \in 1 .. Len(queue[n]) |-> CutOff(queue[n][i], who)]]

CutServing(who) == [w \in Worker |-> CutOff(serving[w], who)]

-----------------------------------------------------------------------------
Init ==
    /\ alive = [n \in Node |-> n \in Started]
    /\ store = [n \in Node |-> EmptyMap]
    /\ view = [n \in Node |-> [m \in Node |-> "UP"]]
    /\ queue = [n \in Node |-> <<>>]
    /\ serving = [w \in Worker |-> None]
    /\ job = [w \in Worker |-> None]
    /\ call = [c \in Caller |-> NoCall]
    /\ peer = [n \in Node |-> 1]
    /\ crashes = [n \in Node |-> 0]

(* TcpConnection::connect and writeFrame of request r (None: only the      *)
(* connection) by caller c; the node's accept loop hands the connection to *)
(* its pool however busy the workers are.                                  *)
Open(c, n, r) ==
    /\ alive[n]
    /\ call[c].to = None
    /\ queue' = [queue EXCEPT ![n] = Append(@, [from |-> c, req |-> r])]
    /\ call' = [call EXCEPT ![c] =
           [to |-> n, st |-> IF r = None THEN "quiet" ELSE "waiting",
            req |-> r, ans |-> None]]

(* TcpConnection::connect to node n may fail: nobody listens there, or a   *)
(* call of its own fails.                                                  *)
ConnectFails(n) == ~alive[n] \/ Unreliable

(* The caller closes its connection. *)
Close(c) ==
    /\ queue' = CutQueue({c})
    /\ serving' = CutServing({c})
    /\ call' = [call EXCEPT ![c] = NoCall]

-----------------------------------------------------------------------------
(* A client connects, sends one request at a time, reads the answers, and  *)
(* leaves.                                                                 *)
ClientConnect(c, n) ==
    /\ Len(queue[n]) < MaxQueue
    /\ Open(c, n, None)
    /\ UNCHANGED <<alive, store, view, serving, job, peer, crashes>>

ClientSend(c, r) ==
    /\ call[c].to # None /\ call[c].st = "quiet"
    /\ LET Sent(conn) ==
             IF conn # None /\ conn.from = c THEN [conn EXCEPT !.req = r] ELSE conn
       IN  /\ queue' = [n \in Node |->
                 [i \in 1 .. Len(queue[n]) |-> Sent(queue[n][i])]]
           /\ serving' = [w \in Worker |-> Sent(serving[w])]
    /\ call' = [call EXCEPT ![c] = [@ EXCEPT !.st = "waiting", !.req = r]]
    /\ UNCHANGED <<alive, store, view, job, peer, crashes>>

ClientReceive(c) ==
    /\ call[c].to # None /\ call[c].st = "answered"
    /\ call' = [call EXCEPT ![c] = [@ EXCEPT !.st = "quiet", !.req = None,
                                             !.ans = None]]
    /\ UNCHANGED <<alive, store, view, queue, serving, job, peer, crashes>>

ClientLeave(c) ==
    /\ call[c].to # None
    /\ Impatient \/ call[c].st = "quiet"
    /\ Close(c)
    /\ UNCHANGED <<alive, store, view, job, peer, crashes>>

-----------------------------------------------------------------------------
(* Mutant: the connection stays in the queue. *)
TakeConnectionNoPop(w) ==
    /\ alive[w[1]]
    /\ serving[w] = None
    /\ queue[w[1]] # <<>>
    /\ serving' = [serving EXCEPT ![w] = Head(queue[w[1]])]
    /\ UNCHANGED <<alive, store, view, queue, job, call, peer, crashes>>

(* A worker takes the oldest waiting connection (ThreadPool::workerLoop). *)
TakeConnection(w) ==
    /\ alive[w[1]]
    /\ serving[w] = None
    /\ queue[w[1]] # <<>>
    /\ serving' = [serving EXCEPT ![w] = Head(queue[w[1]])]
    /\ queue' = [queue EXCEPT ![w[1]] = Tail(@)]
    /\ UNCHANGED <<alive, store, view, job, call, peer, crashes>>

(* Mutant: a worker drops a closed connection while it handles a request   *)
(* from it.                                                                *)
EndConnectionBusy(w) ==
    /\ serving[w] # None
    /\ serving[w].from = Gone /\ serving[w].req = None
    /\ serving' = [serving EXCEPT ![w] = None]
    /\ UNCHANGED <<alive, store, view, queue, job, call, peer, crashes>>

(* Mutant: a worker does not notice that a connection has been closed. *)
EndConnectionUnseen(w) == FALSE /\ EndConnectionBusy(w)

(* readRequest finds the connection closed. *)
EndConnection(w) ==
    /\ serving[w] # None
    /\ serving[w].from = Gone /\ serving[w].req = None
    /\ job[w] = None
    /\ serving' = [serving EXCEPT ![w] = None]
    /\ UNCHANGED <<alive, store, view, queue, job, call, peer, crashes>>

(* readRequest returns a request: worker w now has job j for it. *)
Read(w, j) ==
    /\ serving[w] # None
    /\ job[w] = None
    /\ serving' = [serving EXCEPT ![w] = [@ EXCEPT !.req = None]]
    /\ job' = [job EXCEPT ![w] = j]
    /\ UNCHANGED <<alive, view, queue, call, peer, crashes>>

HandlePing(w) ==
    /\ serving[w] # None /\ serving[w].req = Ping
    /\ Read(w, [req |-> Ping, todo |-> <<>>, acks |-> 0, ans |-> Answer("OK")])
    /\ UNCHANGED store

(* Mutant: a mutation is written to the local store of any node. *)
HandleMutationAnywhere(w) ==
    LET n == w[1]
        r == serving[w].req
    IN  /\ serving[w] # None /\ serving[w].req \in Request /\ IsMutation(r)
        /\ Read(w, [req |-> r, todo |-> Without(ReplicaNodes(n, r.key), n),
                    acks |-> 1, ans |-> None])
        /\ store' = [store EXCEPT ![n] =
               IF r.cmd = "PUT" THEN Put(@, r.key, r.value) ELSE Del(@, r.key)]

(* handlePut and handleDelete up to the first replica: the replica list is *)
(* read once, and the local store is written first if the node is in it.   *)
HandleMutation(w) ==
    LET n == w[1]
        r == serving[w].req
        replicas == ReplicaNodes(n, r.key)
        local == Contains(replicas, n)
        ok == r.cmd = "PUT" => PutStatus(r.key, r.value) = "OK"
    IN  /\ serving[w] # None /\ serving[w].req \in Request /\ IsMutation(r)
        /\ Read(w, [req |-> r, todo |-> Without(replicas, n),
                    acks |-> IF local /\ ok THEN 1 ELSE 0, ans |-> None])
        /\ store' = IF local
                    THEN [store EXCEPT ![n] =
                             IF r.cmd = "PUT" THEN Put(@, r.key, r.value)
                                              ELSE Del(@, r.key)]
                    ELSE store

GetAnswer(n, k) ==
    [status |-> GetStatus(store[n], k), value |-> store[n][k]]

(* handleGet up to the first replica: the primary answers from its store,  *)
(* whether it has the key or not.                                          *)
HandleGet(w) ==
    LET n == w[1]
        r == serving[w].req
    IN  /\ serving[w] # None /\ serving[w].req \in Request /\ r.cmd = "GET"
        /\ Read(w, [req |-> r,
                    todo |-> IF IsLocalKey(n, r.key) THEN <<>>
                                                     ELSE ReplicaNodes(n, r.key),
                    acks |-> 0,
                    ans |-> IF IsLocalKey(n, r.key) THEN GetAnswer(n, r.key)
                                                    ELSE None])
        /\ UNCHANGED store

(* Worker w is about to try the next replica. *)
AtReplica(w) ==
    /\ job[w] # None
    /\ job[w].ans = None
    /\ job[w].todo # <<>>
    /\ call[w].to = None

(* forwardRequest, up to waiting for the answer. *)
Forward(w) ==
    /\ AtReplica(w)
    /\ \E m \in Node \ {w[1]} :
          Head(job[w].todo) = m /\ Open(w, m, job[w].req)
    /\ UNCHANGED <<alive, store, view, serving, job, peer, crashes>>

(* Mutant: any answer of a replica counts as an acknowledgement. *)
LearnAnything(j, a) ==
    IF IsMutation(j.req)
    THEN [j EXCEPT !.todo = Tail(@), !.acks = @ + 1]
    ELSE [j EXCEPT !.todo = Tail(@),
                   !.ans = IF a.status = "OK" THEN a ELSE None]

(* What the loop over the replicas does with the answer of the next one,   *)
(* or of the node's own store.                                             *)
(* A GET ends at the first OK, a mutation counts OK and NOT_FOUND.         *)
Learn(j, a) ==
    IF IsMutation(j.req)
    THEN [j EXCEPT !.todo = Tail(@),
                   !.acks = @ + (IF a.status \in {"OK", "NOT_FOUND"} THEN 1 ELSE 0)]
    ELSE [j EXCEPT !.todo = Tail(@),
                   !.ans = IF a.status = "OK" THEN a ELSE None]

(* handleGet reaches its own node in the list. *)
GetLocal(w) ==
    /\ AtReplica(w)
    /\ job[w].req.cmd = "GET" /\ Head(job[w].todo) = w[1]
    /\ job' = [job EXCEPT ![w] = Learn(@, GetAnswer(w[1], job[w].req.key))]
    /\ UNCHANGED <<alive, store, view, queue, serving, call, peer, crashes>>

(* forwardRequest cannot connect. *)
ForwardRefused(w) ==
    /\ AtReplica(w)
    /\ \E m \in Node \ {w[1]} : Head(job[w].todo) = m /\ ConnectFails(m)
    /\ job' = [job EXCEPT ![w] = Learn(@, Answer("NODE_UNAVAILABLE"))]
    /\ UNCHANGED <<alive, store, view, queue, serving, call, peer, crashes>>

(* forwardRequest returns an answer and its connection is destroyed. *)
ForwardReturn(w) ==
    /\ call[w].st = "answered"
    /\ job' = [job EXCEPT ![w] = Learn(@, call[w].ans)]
    /\ Close(w)
    /\ UNCHANGED <<alive, store, view, peer, crashes>>

(* The answer of a job that is done: of a mutation, by counting the        *)
(* acknowledgements; of a GET that found nothing, NOT_FOUND.               *)
Outcome(j) ==
    IF j.ans # None THEN j.ans
    ELSE IF ~IsMutation(j.req) THEN Answer("NOT_FOUND")
    ELSE IF j.acks >= WriteQuorum THEN Answer("OK") ELSE Answer("ERROR")

(* sendResponse: the answer reaches the caller, if it is still there, and  *)
(* the worker goes back to reading from the connection.                    *)
Reply(w) ==
    /\ job[w] # None
    /\ job[w].ans # None \/ job[w].todo = <<>>
    /\ job' = [job EXCEPT ![w] = None]
    /\ LET c == serving[w].from
       IN  call' = IF c = Gone THEN call
                   ELSE [call EXCEPT ![c] = [@ EXCEPT !.st = "answered",
                                                      !.ans = Outcome(job[w])]]
    /\ UNCHANGED <<alive, store, view, queue, serving, peer, crashes>>

-----------------------------------------------------------------------------
(* monitorLoop: the next node of the list, wrapping round after a pause. *)
NextPeer(n) == [peer EXCEPT ![n] = IF @ = Len(Config) THEN 1 ELSE @ + 1]

(* Mutant: a suspected node is never declared down. *)
JudgeOnce(status, success) == IF success THEN "UP" ELSE "SUSPECT"

(* The state of a node after a ping. *)
Judge(status, success) ==
    IF success THEN "UP"
    ELSE IF status = "UP" THEN "SUSPECT" ELSE "DOWN"

(* setNodeStatus: what node n thinks of the nodes after judging m. *)
NodeStatus(n, m, success) ==
    [view[n] EXCEPT ![m] = Judge(view[n][m], success)]

Pinging(n) == n \in Monitoring /\ alive[n] /\ call[<<n, None>>].to = None

SkipSelf(n) ==
    /\ Pinging(n)
    /\ Config[peer[n]] = n
    /\ peer' = NextPeer(n)
    /\ UNCHANGED <<alive, store, view, queue, serving, job, call, crashes>>

PingSend(n) ==
    /\ Pinging(n)
    /\ \E m \in Node \ {n} : Config[peer[n]] = m /\ Open(<<n, None>>, m, Ping)
    /\ UNCHANGED <<alive, store, view, serving, job, peer, crashes>>

(* Mutant: the monitor does not skip its own node. *)
PingRefusedSelf(n) ==
    /\ Pinging(n)
    /\ \E m \in Node :
          /\ Config[peer[n]] = m
          /\ ConnectFails(m)
          /\ view' = [view EXCEPT ![n] = NodeStatus(n, m, FALSE)]
    /\ peer' = NextPeer(n)
    /\ UNCHANGED <<alive, store, queue, serving, job, call, crashes>>

PingRefused(n) ==
    /\ Pinging(n)
    /\ \E m \in Node \ {n} :
          /\ Config[peer[n]] = m
          /\ ConnectFails(m)
          /\ view' = [view EXCEPT ![n] = NodeStatus(n, m, FALSE)]
    /\ peer' = NextPeer(n)
    /\ UNCHANGED <<alive, store, queue, serving, job, call, crashes>>

(* Mutant: the result of pingNode is read the wrong way round. *)
PingReturnInverted(n) ==
    /\ call[<<n, None>>].st = "answered"
    /\ view' = [view EXCEPT ![n] =
           NodeStatus(n, Config[peer[n]], call[<<n, None>>].ans.status # "OK")]
    /\ peer' = NextPeer(n)
    /\ Close(<<n, None>>)
    /\ UNCHANGED <<alive, store, job, crashes>>

PingReturn(n) ==
    /\ call[<<n, None>>].st = "answered"
    /\ view' = [view EXCEPT ![n] =
           NodeStatus(n, Config[peer[n]], call[<<n, None>>].ans.status = "OK")]
    /\ peer' = NextPeer(n)
    /\ Close(<<n, None>>)
    /\ UNCHANGED <<alive, store, job, crashes>>

-----------------------------------------------------------------------------
ThreadsOf(n) == {t \in Worker \cup Monitor : t[1] = n}

(* A node dies: its connections break.  A thread elsewhere that waits for  *)
(* it gets NODE_UNAVAILABLE; a client loses its connection.                *)
Crash(n) ==
    /\ alive[n] /\ crashes[n] < MaxCrashes[n]
    /\ alive' = [alive EXCEPT ![n] = FALSE]
    /\ crashes' = [crashes EXCEPT ![n] = @ + 1]
    /\ queue' = [CutQueue(ThreadsOf(n)) EXCEPT ![n] = <<>>]
    /\ serving' = [w \in Worker |->
           IF w[1] = n THEN None ELSE CutServing(ThreadsOf(n))[w]]
    /\ job' = [w \in Worker |-> IF w[1] = n THEN None ELSE job[w]]
    /\ call' = [c \in Caller |->
           IF c \in ThreadsOf(n) THEN NoCall
           ELSE IF call[c].to # n \/ (c \notin Client /\ call[c].st = "answered")
                THEN call[c]
           ELSE IF c \in Client THEN NoCall
           ELSE [call[c] EXCEPT !.st = "answered",
                                !.ans = Answer("NODE_UNAVAILABLE")]]
    /\ UNCHANGED <<store, view, peer>>

(* The node is started, or started again, from its configuration file and  *)
(* with an empty store.                                                    *)
Start(n) ==
    /\ ~alive[n]
    /\ alive' = [alive EXCEPT ![n] = TRUE]
    /\ store' = [store EXCEPT ![n] = EmptyMap]
    /\ view' = [view EXCEPT ![n] = [m \in Node |-> "UP"]]
    /\ peer' = [peer EXCEPT ![n] = 1]
    /\ UNCHANGED <<queue, serving, job, call, crashes>>

-----------------------------------------------------------------------------
ClientStep(c) ==
    \/ \E n \in Node : ClientConnect(c, n)
    \/ \E r \in Request \cup {Ping} : ClientSend(c, r)
    \/ ClientReceive(c)
    \/ ClientLeave(c)

WorkerStep(w) ==
    \/ TakeConnection(w) \/ EndConnection(w)
    \/ HandlePing(w) \/ HandleMutation(w) \/ HandleGet(w)
    \/ GetLocal(w) \/ Forward(w) \/ ForwardRefused(w) \/ ForwardReturn(w)
    \/ Reply(w)

MonitorStep(n) ==
    SkipSelf(n) \/ PingSend(n) \/ PingRefused(n) \/ PingReturn(n)

Next ==
    \/ \E c \in Client : ClientStep(c)
    \/ \E w \in Worker : WorkerStep(w)
    \/ \E n \in Node : MonitorStep(n) \/ Crash(n) \/ Start(n)

Spec == Init /\ [][Next]_vars

(* Threads are scheduled, and a client reads its answer.  Nothing makes a  *)
(* client send or leave, or a node die or come back.                       *)
Fairness ==
    /\ \A w \in Worker : WF_vars(WorkerStep(w))
    /\ \A n \in Node : WF_vars(MonitorStep(n))
    /\ \A c \in Client : WF_vars(ClientReceive(c))

FairSpec == Spec /\ Fairness

-----------------------------------------------------------------------------
(* Every variable holds a value of its type; a worker handles a request    *)
(* only while it serves a connection.                                      *)
TypeOK ==
    /\ alive \in [Node -> BOOLEAN]
    /\ store \in [Node -> [Key -> Value \cup {NotFound}]]
    /\ view \in [Node -> [Node -> Status]]
    /\ queue \in [Node -> Seq(Connection)]
    /\ serving \in [Worker -> Connection \cup {None}]
    /\ job \in [Worker -> Job \cup {None}]
    /\ \A w \in Worker : job[w] # None => serving[w] # None
    /\ call \in [Caller -> Call]
    /\ peer \in [Node -> 1 .. Len(Config)]
    /\ crashes \in [Node -> Nat]

(* Where the connections of caller c are: in a queue, or with a worker. *)
QueuePlaces(c, n) ==
    {[node |-> n, queued |-> TRUE, at |-> i] :
        i \in {j \in 1 .. Len(queue[n]) : queue[n][j].from = c}}

ServedPlaces(c) ==
    {[node |-> w[1], queued |-> FALSE, at |-> w[2]] :
        w \in {u \in Worker : serving[u] # None /\ serving[u].from = c}}

Places(c) == ServedPlaces(c) \cup UNION {QueuePlaces(c, n) : n \in Node}

(* A caller's open connection is in exactly one place at the node it was   *)
(* opened to, in the queue once or with one worker, unless that node has   *)
(* died and the caller is about to find out; a caller without a connection *)
(* is at the other end of none.  So no request is handled twice, lost in   *)
(* the pool, or answered to another caller (tcp_server.cpp:78-108).        *)
OneConnectionOnePlace ==
    \A c \in Caller :
        /\ \A p, q \in Places(c) : p = q
        /\ \A p \in Places(c) : p.node = call[c].to
        /\ call[c].to # None /\ call[c].st # "answered" => Places(c) # {}

(* With two replicas or more no PUT or DELETE is ever answered OK, by any  *)
(* node to any caller: a forwarded mutation is replicated again by its     *)
(* receiver, so the only acknowledgement a node ever counts is its own     *)
(* (replication_manager.cpp:34 and 101-112).                               *)
ReplicatedWriteNeverAcked ==
    ReplicationFactor >= 2 =>
        \A c \in Caller :
            call[c].st = "answered" /\ IsMutation(call[c].req) =>
                call[c].ans.status \notin {"OK", "NOT_FOUND"}

(* A node stores only keys that the ring places on it, however a request   *)
(* was forwarded and whatever the nodes think of each other                *)
(* (replication_manager.cpp:16-31).                                        *)
OnlyReplicasStore ==
    \A n \in Node, k \in Key :
        store[n][k] # NotFound =>
            \E i \in 1 .. Len(Ring[k]) : i <= ReplicationFactor /\ Ring[k][i] = n

(* A status gets worse only because connecting to the node has failed, or  *)
(* after the node has died: once a ping is under way the monitor waits for *)
(* its answer, so a slow or busy node is never suspected for being slow    *)
(* (health_monitor.cpp:37-51 and 57-79).                                   *)
SlowIsNotSuspected ==
    [][\A n, m \in Node :
          view'[n][m] \notin {view[n][m], "UP"} =>
              call[<<n, None>>].to = None \/ crashes[m] > 0]_vars

(* Whatever connections fail, no node ever doubts itself, so a replica     *)
(* never drops itself from its own replica list (health_monitor.cpp:35,    *)
(* cluster_manager.cpp:36-50).                                             *)
TrustsItself == \A n \in Node : view[n][n] = "UP"

(* What is known of the answer to the job of worker w: from itself, *)
OwnAnswer(w) ==
    IF job[w] # None /\ (job[w].ans # None \/ job[w].todo = <<>>)
    THEN {Outcome(job[w])}
    ELSE {}

(* and from the node that it has forwarded the request to. *)
RemoteAnswer(w) ==
    (IF call[w].st = "answered" THEN {call[w].ans} ELSE {})
        \cup UNION {OwnAnswer(u) : u \in {x \in Worker :
                                      serving[x] # None /\ serving[x].from = w}}

(* What is known of the answer to the request of client c. *)
AnswerTo(c) ==
    UNION {OwnAnswer(w) \cup {Outcome(Learn(job[w], a)) : a \in RemoteAnswer(w)} :
              w \in {x \in Worker :
                       job[x] # None /\ serving[x] # None /\ serving[x].from = c}}

(* The one map of the clients: each key as its primary has it. *)
AtomicMap == [k \in Key |-> store[Ring[k][1]][k]]

(* How far the request of each client is. *)
AtomicOp ==
    [c \in Client |->
        IF call[c].st = "quiet"
        THEN [st |-> "idle", req |-> None, ans |-> None]
        ELSE IF call[c].st = "answered"
        THEN [st |-> "answered", req |-> call[c].req, ans |-> call[c].ans]
        ELSE IF AnswerTo(c) = {}
        THEN [st |-> "sent", req |-> call[c].req, ans |-> None]
        ELSE [st |-> "applied", req |-> call[c].req,
              ans |-> CHOOSE a \in AnswerTo(c) : TRUE]]

Atomic == INSTANCE AtomicStore WITH
    Request <- Request \cup {Ping}, map <- AtomicMap, op <- AtomicOp

(* Once all nodes run, and while no node dies, no connect fails and no     *)
(* client leaves early, a cluster with one replica per key is one atomic   *)
(* map, whichever nodes the clients are connected to: a request is applied *)
(* at the primary of its key, once, between its sending and its answer,    *)
(* and the node that has forwarded it passes the answer on as it is        *)
(* (replication_manager.cpp:12-61).                                        *)
IsAtomicStore == Atomic!Spec

(* Every request a client sends is answered, or its connection breaks.     *)
RequestsAnswered ==
    \A c \in Client : (call[c].st = "waiting") ~> (call[c].st # "waiting")

(* Worker w is taken: a client keeps its connection to it open, or it      *)
(* waits for the answer to a request it has forwarded.                     *)
Held(w) ==
    serving[w] # None /\ (serving[w].from \in Client \/ call[w].st = "waiting")

PoolHeld(n) == alive[n] /\ \A t \in Thread : Held(<<n, t>>)

(* A request is never answered only if some node has all its workers taken *)
(* for ever, by clients that stay connected or by forwarded requests that  *)
(* are not answered either.  Nothing else loses a request: no failed       *)
(* connect, death, abandoned connection or order of arrival                *)
(* (tcp_server.cpp:78-108, cluster_manager.cpp:75-99).                     *)
OnlyHeldPoolsBlock ==
    \A c \in Client :
        <>[](call[c].st = "waiting") => \E n \in Node : <>[]PoolHeld(n)

(* Connecting for a ping of node n fails although the other node runs. *)
PingLost(n) == PingRefused(n) /\ alive[Config[peer[n]]]

(* A node that stays dead is found out by every node that stays up, and    *)
(* one that stays up is trusted again once connecting to it no longer      *)
(* fails, unless another node has all its workers taken for ever: a ping   *)
(* has no timeout, and a monitor that waits for such a node no longer      *)
(* looks at the others (health_monitor.cpp:31-79).                         *)
MonitorConverges ==
    \A n \in Monitoring : \A m \in Node \ {n} :
        \/ \E p \in Node \ {n} : <>[]PoolHeld(p)
        \/ /\ <>[](alive[n] /\ ~alive[m]) => <>[](view[n][m] = "DOWN")
           /\ <>[](alive[n] /\ alive[m]) /\ <>[][~PingLost(n)]_vars =>
                 <>[](view[n][m] = "UP")
==============================================================================
