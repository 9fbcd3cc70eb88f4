# A verification of the distributed key-value store

TLA+ specifications of the server in `src/`, model-checked with TLC on small
instances, with theorems proved by TLAPS for every instance. File names below
are relative to `src/src/` (or to `src/include/` for headers).

## The system

A `kv-server` process recovers its map from a snapshot and a write-ahead log,
accepts TCP connections, and hands each to a pool of worker threads. A worker
serves its connection until the other end closes it: it reads a request, runs
the handler, sends the answer.

| part | source | what it does | hard part |
|---|---|---|---|
| storage engine | `storage/*` | a map with size limits behind one `shared_mutex` | none: each operation is atomic |
| write-ahead log | `persistence/wal.cpp` | append a checksummed record, replay, truncate | torn records, order of appends |
| snapshots | `persistence/snapshot.cpp` | write and read the whole map | rewritten in place |
| server | `server/server_main.cpp` | recovery, handlers, graceful stop | store and log have separate locks; workers run during the stop |
| thread pool | `networking/thread_pool.cpp` | queue, condition variable, shutdown flag | lost wakeups, draining |
| TCP server, connection | `networking/tcp_*.cpp` | accept, serve, connect | one worker per open connection |
| wire protocol | `protocol/protocol.cpp` | length-prefixed frames | partial reads |
| hash ring | `cluster/consistent_hash.cpp` | key to nodes | wrap-round, collisions |
| cluster manager | `cluster/cluster_manager.cpp` | replica lists, forwarding, node statuses | stale lists, waits without a timeout |
| replication manager | `cluster/replication_manager.cpp` | quorum writes, reads | nodes that wait for each other |
| health monitor | `cluster/health_monitor.cpp` | ping, UP / SUSPECT / DOWN | slow against dead |
| clients | `client/cli_client.cpp`, `benchmarks/` | requests | none |

In standalone mode the handler changes the store and then the log. In cluster
mode every handler goes through the replication manager, which reads the list
of replicas, writes the local store if the node is one of them, and then sends
the same request to each of the others over a new connection, waiting for each
answer. The health monitor decides which replicas a list leaves out.

`PROJECT.json` lists the components, the hazards of the code at the lines where
they bite, and for every definition the source lines it stands for.

## The modules

**`KVStore`**: the storage engine as operators on a map (a function on `Key`
with `NotFound` where there is no entry): `Put`, `Del`, and the statuses the
operations answer. Sizes are functions on keys and values, so that both size
checks can fail.

**`Standalone`** (extends `KVStore`): one server with its disk.

- State: the map `store`, the file `log` (records that are whole or torn),
  `snapFile` (what `load` would return), where the main thread is (`main`),
  where each worker is in the handler (`pc`, `req`), and the copy being saved.
- A mutation is three steps: `HandlePut` / `HandleDelete` (the store, under its
  mutex), `AppendBegin` (a part of the record is in the file) and `AppendEnd`
  (all of it, and the client is answered). GET, PING and refused mutations
  change nothing.
- Recovery is `Start` (load the snapshot), `ReplayRecord` per record, and
  `ReplayDone` at the end or at the first torn record, which stays in the file.
- The graceful stop is `BeginSave` (copy the map, empty the file),
  `SaveEntryBegin` and `SaveEntryEnd` per entry, `EndSave`, `Truncate`. The
  workers keep running throughout, as they do in the program.
- `Crash` ends the process anywhere. Bytes that were flushed stay in the file:
  this is the death of a process, not of the machine.
- `Garbled` is a value that `load` reads from a file cut off inside it.
- `raced` and `late` are history variables, used only in properties.

**`ThreadPool`**: `submit`, `shutdown` and `workerLoop`. A critical section is
one step, except that testing the predicate of the wait (`TestFalse`) and
sleeping (`Sleep`) are two: the worker holds the mutex in between, but
`shutdown` sets its flag without the mutex. Spurious wakeups are an action.

**`Cluster`** (extends `KVStore`): nodes, their pools, forwarded requests,
health monitors and clients.

- A connection is in the `queue` of a node or being served (`serving`); the
  caller's end is `call`. Callers are clients, workers and monitors; thread
  `<<n, None>>` is the monitor of node `n`.
- `job[w]` is the request a worker handles, with the replicas still to be tried
  and the acknowledgements so far. `HandleMutation` and `HandleGet` are the
  handlers up to the first replica; `Forward`, `ForwardRefused`,
  `ForwardReturn` and `GetLocal` are the loop over the replicas; `Reply` is the
  rest.
- `SkipSelf`, `PingSend`, `PingRefused` and `PingReturn` are the monitor loop.
- `Crash` breaks the connections of a node; `Start` starts a node, the first time
  or again, with an empty store, because in cluster mode nothing is logged.
  `Started` are the nodes that run in the first state; the others are started at
  any time, and until then a ping or a forwarded request to them is refused.
- `Unreliable` lets a connect towards a running node fail (`ConnectFails`). The
  monitor of a node starts before its server listens, and `connect` has failures
  of its own: no socket, no address for the name, a timeout of the system.
- Pools are the queue and the workers of `ThreadPool`, without its condition
  variable. What `ThreadPool` proves (`ExactlyOnce`, `NoLostSubmit`) is what
  makes `TakeConnection` a faithful step.
- A request and its answer travel as whole messages, which is what
  `ConnectionIsExchange` allows.
- `Ring` is a constant: for each key, the nodes clockwise from its hash, the
  first being the primary and the list for a replication factor its beginning.
  That one such list is behind every call of `getNode` and `getNodes` is
  `ReplicasBeginAtPrimary` of `HashRing`, proved as `OneListPerKey`.

**`AtomicStore`** (extends `KVStore`): what a store promises its clients when
nothing fails. There is one map; a request is sent, applied to the map in one
step, and answered with what that step found. `Cluster` implements it with one
replica per key: `AtomicMap` takes each key from its primary, and `AtomicOp` says
how far a client's request is, from where its answer is known (`AnswerTo`: at the
worker that serves the client, at the worker of the primary it was forwarded to,
or on the way back).

**`HashRing`**: the class of that ring. `hash` is any function from virtual
nodes to hash values, chosen in the initial state, so that every placement and
every collision occurs; a key is its hash value. `AddNode` and `RemoveNode`
change `ring` and `nodes`; `GetNode` and `GetNodes` are operators, the loop of the
latter a recursive function along the points. `IsClockwise` is what `getNodes` is
checked against; it compares distances and mentions no walk.

**`Protocol`**: the conversions between messages and sequences of bytes, and the
frame.

**`Connection`** (extends `Protocol`): one connection between a client and the
worker that serves it. `Write` and `Read` are one call of `write` and `read`,
moving any number of bytes; `Need` is what `readFrame` asks for; `Handle`,
`Reply` and `Return` are what happens when a frame is complete. Either side may
leave anywhere (`Leave`), and the other learns so (`LearnGone`). **`Exchange`** is
what a connection promises: whole requests and whole answers, in order, each at
most once. `Connection` implements it by the identity on the histories.

**`Lifecycle`**: one process from the creation of the server to its end.

- `main` goes through the configuration, the handlers of the signals, `start`
  call by call, the accept loop, the save, `HealthMonitor::stop`, the destruction
  of its objects in reverse order, and the destruction of the global server:
  `stop`, then `handler_`, then the pool.
- The pool is an instance of `ThreadPool` whose owner is `main` and whose tasks
  are connections: `Submit`, `Notify`, `EndPool`, `PoolStep` and `EndConnection`
  are its actions with what the server adds.
- `HandleSignal` and `CloseOnSignal` are the two effects of the signal handler,
  on whichever thread it runs.
- A request is handled in two steps, because a handler of cluster mode waits for
  other nodes: `Serve` reads it and calls the handler, `Answer` returns from it and
  answers. Between the two `main` may go on and destroy what the handler uses, and
  the client may go.
- `touched` records the use of destroyed objects, which is undefined: it goes
  unnoticed or ends the process.

**`MC...`** modules give the constants values for TLC. **`...Proofs`** modules hold
the theorems; those about `Cluster` are in `ClusterProofs` (connections,
acknowledgements, monitors), in `ClusterStoreProofs`, which extends it (types,
replica lists, what the stores hold, the way of a request and who knows its answer),
and in `ClusterAtomicProofs`, which extends that one (the steps of `AtomicStore`).
`ConnectionProofs` also has the theorems about `Protocol`. In the cluster's proofs
Zenon is the prover of a step that does not name one.

A definition commented "Mutant" is a plausible bug in the definition that
follows it. `PROJECT.json` names, for each property, a mutant that breaks it.

## What the runs show

Properties that hold:

| run | instance | property |
|---|---|---|
| `standalone_safety` | 2 workers, 2 usable keys and values plus one oversized each, log of 3 | `RecoveryExact`: outside four windows, a restart gives every key the value last answered. `InterruptedSaveNeverStale`: a crash during the save never brings back an overwritten value. `TruncationLosesNothing`, `AppendOwnsTail`, `TypeOK` |
| `pool` | 3 workers, 3 tasks | `ExactlyOnce`, `NoLostSubmit`, `ShutdownDrains`, `EveryTaskRuns`, `TypeOK` |
| `cluster_replicated` | 2 nodes, 2 replicas, 1 thread each; one node starts later and may die and come back, the other's monitor runs, the client may leave early | `OneConnectionOnePlace`: no connection is lost or served twice. `ReplicatedWriteNeverAcked`. `TypeOK` |
| `cluster_atomic` | 1 replica, 2 threads, 2 clients, 2 keys, an oversized value | `IsAtomicStore`: `Cluster` implements `AtomicStore`. `OnlyReplicasStore` |
| `cluster_liveness` | 2 nodes, 2 replicas, 1 thread each, 2 clients; one node starts later and may die and come back, the other's monitor runs, connects may fail | `OnlyHeldPoolsBlock`: a request stays unanswered only if a pool is taken for ever. `MonitorConverges`: what stays dead is found out, what stays up is trusted again. `SlowIsNotSuspected`, `TrustsItself` |
| `hash_ring` | 3 nodes, 2 virtual nodes each, 5 hash values | `GetNodesIsClockwiseOrder`: `getNodes` gives the nearest nodes in clockwise order. `ReplicasBeginAtPrimary`: every key has one list, which begins with the primary. `RingIsMembership`: without collisions the ring does not depend on its history. `JoinMovesKeysToJoiner`, `LeaveMovesOwnKeysOnly`, `LeaveKeepsReplicaOrder`, `JoinKeepsReplicaOrder`, `TypeOK` |
| `connection` | 2 calls, 2 requests, 2 answers, a buffer of 6 bytes | `FramesParse`, `IsExchange`: `Connection` implements `Exchange`. `CallsEnd`: a caller is answered or learns that the server is gone. `TypeOK` |
| `lifecycle` | 1 worker, 2 connections, 2 signals, all modes | `DeafMissedSignal`: a server loops without a socket only after a signal that came before `running_` was set. `StopLeadsToSave`: every other signal leads to the snapshot. `MonitorOutlived`, `ExitServesAll`, `EndsUnlessHeld`, `TypeOK` |

`RecoveryExact` excludes four windows that the code leaves open, each with a
conjunct of its premise:

- behind a torn record (`NoTornInside`): what is appended there is lost by the
  next replay; `standalone_torn_tail` is the run without the exclusion;
- `raced`: two mutations of a key are logged in the other order than applied;
- `late`: a mutation answered between the copy and the truncation is in neither
  file;
- `saving`: the only snapshot is emptied before it is rewritten.

None can be dropped: without any one of them TLC finds a loss.

Disagreements between the code and what its documentation and comments say:

| run | property | what happens |
|---|---|---|
| `standalone_torn_tail` | `NoCommittedDataLost` | mutations appended behind a torn record are lost by the next replay |
| `pool_shutdown` | `ShutdownReturns` | the notification of `shutdown` falls between a test and a sleep |
| `cluster_put_blocks` | `RequestsAnswered` | with two replicas a PUT is forwarded back and forth until all workers wait |
| `lifecycle_outlive` | `ObjectsOutliveTheLambda` | a worker handles a request after `main` has destroyed the replication manager |

The liveness properties of the cluster name what the code leaves open.
`OnlyHeldPoolsBlock` excepts a node whose workers are all taken for ever, by
clients that stay connected or by requests they have forwarded; two nodes with one
free worker each that forward to each other reach this also with one replica.
`MonitorConverges` excepts the same for the nodes it pings, since a monitor that
waits for one node no longer looks at the others, and asks that connecting for a
ping does not go on failing before it promises trust. None of the exceptions can be
dropped: without any one of them TLC finds a behaviour that violates the property.
A monitor can mark a node that runs, since a failed connect is all the evidence it
has; `SlowIsNotSuspected` says that nothing else counts against a node, in
particular not the time a ping takes, and `TrustsItself` that a node never leaves
itself out of its lists.

`ReplicatedWriteNeverAcked` and `cluster_put_blocks` are two sides of one
fact. A replica treats a forwarded mutation as a new one, and so replicates it
in turn. With a replication factor of two or more the quorum needs the
acknowledgement of another node, which needs one itself: the request ends with
ERROR or not at all.

The end of a process is where most threads meet. A stop is lost only in
one place: `start` sets `running_` without looking whether a signal has cleared
it (`DeafMissedSignal`, `StopLeadsToSave`). A process that has saved ends unless a
ping is not answered, a client keeps its connection, a handler of cluster mode
waits for another node for ever, or a worker went to sleep as the pool was shut
down (`EndsUnlessHeld`); the last is `pool_shutdown` in its place. If it ends, every accepted connection has been served (`ExitServesAll`),
but perhaps with objects that no longer exist (`lifecycle_outlive`; the handler
of standalone mode, which captures the store and the log, is exposed alike).

### Bounds

- `MaxLog`: three records suffice for each window: one before, the torn or
  racing one, and one after. Stops and restarts are not bounded.
- `MaxCrashes`: one node dies at most once; it may come back at any time. It is
  also the node that is not running at first.
- `Monitoring`: in `cluster_replicated` and `cluster_liveness` the monitor of the
  node that stays up takes steps. The node it watches starts, dies and comes back, so
  that its status takes every value; the other monitor would watch a node that
  never stops. The theorems include all monitors.
- `MaxQueue`: a client connects only to an empty queue. Forwarded requests and
  pings are not bounded by it; the number of threads bounds them.
- `cluster_atomic` has two clients, so that requests for a key meet at its primary
  along different ways, and two threads per node: with one, forwarding in both
  directions deadlocks also with one replica. The monitors are left out there;
  the theorem includes them, and connects that fail and statuses that change are
  also included in the theorem about `OnlyReplicasStore`.
- `cluster_liveness` has two clients: one can hold the only worker of a node while
  the other waits. `OnlyHeldPoolsBlock` was also checked with three clients, two
  threads per node and one replica (2,108,224 states), `MonitorConverges` with three
  nodes (32,544 states), where a monitor stuck on one node misses the death of another.
- One thread per node is enough for a forwarded mutation to come back; in
  `cluster_put_blocks` two threads let it bounce twice before the pools are full.
- `cluster_liveness` has one value, which the store refuses. Mutations take the
  same steps whether they are stored or not, and the graph stays small enough
  for the liveness checks. `cluster_atomic` has both kinds of value.
- `hash_ring`: five hash values for six virtual nodes, so that a node can lose
  some or all of its points, and the wrap-round occurs at every place.
- `connection`: the frames are 9 to 16 bytes long and the buffer holds 6, so
  every frame needs several writes. `MaxCalls`: a second frame follows the first
  over the same connection.
- `lifecycle`: with one worker and two connections one is queued while the other
  is served; two signals can meet in `stop`.
- Symmetry is used for workers, threads, clients, keys and values only in runs
  without liveness properties.

Deadlock is checked except in the cluster runs with two replicas, where all
workers may wait for each other and the system really stops. Processes and connections that have ended stutter.

### Fairness

- `ThreadPool`: weak fairness of the owner and of a worker that needs no lock;
  strong fairness of a worker that waits for the mutex, which others take and
  release infinitely often. Tasks return. No spurious wakeup is promised.
- `Cluster`: weak fairness of every worker and monitor thread, and of a client
  reading its answer. Nothing makes a client send or leave, a node start, die or
  come back, or a connect succeed.
- `Connection`: weak fairness of each side's reads, writes and handler, and of
  learning that the other side has gone. Nobody has to ask or to leave.
- `Lifecycle`: weak fairness of `main`, of the monitor's loop except its ping, of
  a signal handler that has begun and of a worker that serves; strong fairness of
  what waits for the pool's mutex. A handler returns in standalone mode, where it
  waits for nobody; in cluster mode nothing makes it return. No signal has to come, no client to leave, no
  ping to return.

## What is proved

The theorems hold for every value of the constants that satisfies the named
assumptions of the modules: `KVStoreAssumption`, `StandaloneAssumption`,
`ThreadPoolAssumption`, `ClusterAssumption` with `CallerAssumption` and
`NoneAssumption`, `HashRingAssumption`, `ConnectionAssumption` and
`LifecycleAssumption` (markers differ from what they mark the absence of; every
node is in the configuration file; every key has a primary; there is a virtual
node per node, a worker per pool and a byte of buffer; messages are short enough
for their length fields).

| module | theorem | states |
|---|---|---|
| `StandaloneProofs` | `TypeCorrect`, `AppendsDoNotInterleave`, `RecoveryIsExact`, `InterruptedSave`, `TruncationIsSafe` | all safety properties of `standalone_safety` |
| `ThreadPoolProofs` | `TypeCorrect`, `TasksRunExactlyOnce`, `SubmitWakesAWorker`, `ShutdownLeavesNothing` | all safety properties of `pool` |
| `ClusterProofs` | `WritesAreNeverAcked`, `ConnectionsStayPut`, `MonitorInvariance`, `SlowNeverSuspected`, `NeverDoubtsItself` | `ReplicatedWriteNeverAcked`, `OneConnectionOnePlace`, the invariant of the monitors and from it `SlowIsNotSuspected` and `TrustsItself` |
| `ClusterStoreProofs` | `ClusterTypes`, `OnlyReplicas` | `TypeOK`, `OnlyReplicasStore` |
| `ClusterAtomicProofs` | `OneReplicaIsAtomic` | with one replica, all nodes running, no failing connects and patient clients `IsAtomicStore` |
| `HashRingProofs` | `TypeInvariant`, `RingDependsOnMembersOnly`, `GetNodesInOrder`, `OneListPerKey`, `JoinMovesLittle`, `LeaveMovesLittle`, `JoinKeepsOrder`, `LeaveKeepsOrder` | all properties of `hash_ring` |
| `ConnectionProofs` | `RequestRoundTrip`, `ResponseRoundTrip`, `ConnectionIsExchange`, `ConnectionTypes`, `FramesAlwaysParse` | what is deserialized is what was serialized, and all safety properties of `connection` |
| `LifecycleProofs` | `ProcessTypeCorrect`, `DeafOnlyAfterMissedSignal`, `MonitorIsOutlived`, `PoolIsImplemented`, `ExitHasServedAll` | `TypeOK`, `DeafMissedSignal`, `MonitorOutlived`, that `Lifecycle` implements its `ThreadPool`, `ExitServesAll` |

**Standalone.** `RecoveryExact` is silent about a server that is replaying,
about a key with a mutation under way, and during a save. The invariant adds
that replay has applied exactly the records before its cursor (`ReplayPrefix`),
that a mutation which overlaps no other is the last to have changed its key
(`PendingUnique`), that the copy differs from the store only in keys mutated
since (`CopyFresh`), how much of the copy is in the file (`SaveProgress`), and
that logged mutations pass the size checks again on replay (`LegalOps`).
`ReplaysTo` states the result of a replay without recursion: the last readable
record of a key decides. The lemmas about it say how it changes when a record
is appended, completed or applied.

**Thread pool.** `NoLostSubmit` needs that nothing is queued while a worker is
between its test and its sleep (`TestedHoldsMutex`, from the mutex), and that a
worker leaves only a drained pool (`ExitedIsDrained`).

**Cluster.** The invariant follows a request along its chain of connections:
what a worker handles is what the caller at the other end still waits for
(`QueueLinked`, `ServingLinked`, `JobLinked`), a waiting worker forwards the
request it handles (`Forwarding`), and every open connection has exactly one
place (`OnePlace`, `HasPlace`). From these, a mutation never has more than the
local acknowledgement (`FewAcks`). For the monitors, `PingIsAnswered` and
`PingCalls` say that a ping goes to another node and ends in OK unless that node
died, which is why a status gets worse only by a failed connect or after a death.

Types and `OnlyReplicasStore` need to know what a list of replicas contains.
`Filter` is a recursive function; `IntervalInduction` proves statements about
`0 .. n` by their least counterexample, `KeptEquation` gives the function its
equation, and `FilterFacts` says that the result is a list of elements of the
argument that are in the set. `StoreInv` adds to `OnlyReplicasStore` that jobs, calls
and answers are typed, because what a node stores is what a request carries.

**Atomicity.** `OneReplicaIsAtomic` is for one replica per key, nodes that all run and do
not die, connects that do not fail and clients that wait for their answers
(`OneReplica`, which `cluster_atomic` satisfies); with a crash the map is lost, after
failed connects a primary that is marked DOWN is left out of the lists of others,
with two replicas nothing is acknowledged. `ChainInv` says
that a request makes at most one hop, to the primary, which decides it at once
(`Plan`, `Hop`), that nobody who is owed an answer has gone (`AttachedQueue`,
`AttachedWorkers`), and that all nodes run and are UP in all eyes (`Calm`, by the monitors' invariant, so
that nobody is left out of a list). From it, everything that is known of the
answer to a client's request agrees (`AnswersKnown`), so `AtomicOp` is well defined.
Reading a request at the primary is then `Perform` of the client it came from, also
over a forwarding node (`RefineRead`); the reply to a client is `Respond`; every
other step of a worker or monitor stutters, in particular an answer that a
forwarding node passes on stays as it is (`Relay`).

**Hash ring.** The invariant is `RingIsMembership` with `TypeOK`, and that `nodes` is
finite. That joins and
leaves move little follows from `CeilingOfSubset`: when the first point clockwise
from a hash is one of a smaller set of points, it is the first of those as well.

For `getNodes`, `NextIsNearest` says that `++it` with its wrap-round goes to the next
point in the order of distance, or ends the turn. The loop's invariant `LoopInv` says
that the result so far is the clockwise list of the nodes passed; `WalkIsClockwise`
proves it by induction on the distance still ahead, and the three ways the loop ends
(`EndsWithCount`, `EndsWithAll`, the end of the turn) each give `IsClockwise`. Since
there is only one clockwise list of a given length (`ClockwiseIsUnique`),
`ReplicasBeginAtPrimary` and what joins and leaves do to a list follow without the
loop: the beginning of a clockwise list is clockwise (`FirstOfIsClockwise`), and so is
the list without a node in the ring without its points (`WithoutIsClockwise`).
`JoinKeepsReplicaOrder` assumes that there are no collisions: a join that takes over
points of other nodes can reorder them.

**Protocol and connection.** `NumberOfDigits` says that the four bytes of a length
give it back; the layouts of messages and frames follow, and from them the round
trips. The invariant of `Connection` says that at any time what a side has read of
a frame, what is on the wire and what is still to be written are, put together,
the frame of the last request or answer (`RequestFlow`, `ResponseFlow`), and that
at most one call is under way (`OneCall`). So a complete frame is that frame, and
each step is a step of `Exchange` or a stutter.

**Lifecycle.** `SocketInv` adds to `DeafMissedSignal` that the socket still listens
when `running_` is about to be set and no signal has come. `MonitorInv` says where
`main` can be while the monitor's thread runs. For `ExitServesAll`, every step is
shown to be one of the pool (`PoolIsUsed`, with `QueueInv`: what is submitted is a
connection); what `ThreadPoolProofs` proves then holds of the server's pool, and
`ServedInv` says that a task ends only when its client has gone.

**Not proved, only model-checked**: the liveness properties (`EveryTaskRuns`,
`OnlyHeldPoolsBlock`, `MonitorConverges`, `CallsEnd`, `StopLeadsToSave`,
`EndsUnlessHeld`), which with their fairness are outside the prover's reach. Every
invariant, action property and refinement of the passing runs is also a theorem.
The properties of the four runs that end in a violation are false.

## What is left out

- The graceful stop of a cluster node as the other nodes see it: nodes in `Cluster`
  only die. After a graceful stop they would come back with a snapshot, as in
  `Standalone`.
- Power loss and failing writes to the log. Both lose answered mutations without
  bound, since nothing calls `sync` and nothing looks at the state of the stream.
- The bytes of records and snapshots. `crc32` is taken to detect every torn record.
- What `hash` computes: the ring is checked for all functions on a small range and
  proved right for all functions on any.
- `setWriteQuorum`, `sync`, `isNodeHealthy`, `nodeCount` and `empty`, which no code of
  the server calls; `removeNode`, which it does not call either, is modelled.
- `getReplicaNodes` takes its mutex once per node; the model reads the statuses
  in one step. With two nodes only one status can change, so the step is exact
  in the client runs.
- A write to a reset connection raises SIGPIPE and ends the process. In `Connection`
  such a write fails and in `Cluster` such an answer is dropped; the end of the
  process is the step `Crash`, which may come at any time.
- In `Lifecycle`, the number of the listening socket's descriptor and its use for
  another file after it was closed; the stream that the signal handler prints to;
  the contents of requests. Each request is one that needs all that the handler
  captures.
- The parsing of the command line, of the configuration file and of the client's
  commands; the result of a name lookup, whose static buffer threads share; the move
  operations of `TcpConnection`; the benchmark.
