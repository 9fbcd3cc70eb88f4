----------------------------- MODULE ThreadPool -----------------------------
(***************************************************************************)
(* Class ThreadPool: a queue of tasks guarded by a mutex, a condition      *)
(* variable the workers wait on, and a shutdown flag that is atomic and    *)
(* NOT guarded by the mutex.  One thread, the owner, submits tasks and in  *)
(* the end shuts the pool down, as the accept loop and the destructor of   *)
(* TcpServer do.                                                           *)
(*                                                                         *)
(* A critical section in which no other thread can observe or change       *)
(* anything is one step.  Testing the predicate of the wait and going to   *)
(* sleep are two: the mutex is held in between, but the shutdown flag can  *)
(* change.                                                                 *)
(***************************************************************************)
EXTENDS Naturals, Sequences

CONSTANTS
    Worker,  \* the threads of the pool
    Task,    \* the tasks the owner may submit, each at most once
    NoTask   \* what a worker without a task runs

ASSUME ThreadPoolAssumption ==
    /\ Worker # {}
    /\ NoTask \notin Task

VARIABLES
    tasks,      \* tasks_: the queue
    shutdown,   \* shutdown_
    pc,         \* where each worker is in workerLoop
    current,    \* the task each worker is running
    owner,      \* where the owner is in submit or shutdown
    submitted,  \* history: tasks that submit has accepted
    ran         \* history: how many times each task has been run

vars == <<tasks, shutdown, pc, current, owner, submitted, ran>>

(* pc[w]: "top"      about to lock the mutex and test the predicate        *)
(*        "tested"   holds the mutex, the predicate was false              *)
(*        "waiting"  asleep on the condition variable                      *)
(*        "running"  runs its task, without the mutex                      *)
(*        "exited"   has returned from workerLoop                          *)
WorkerPC == {"top", "tested", "waiting", "running", "exited"}

OwnerPC == {"idle", "notify_one", "notify_all", "join", "joined"}

MutexFree == \A w \in Worker : pc[w] # "tested"

-----------------------------------------------------------------------------
Init ==
    /\ tasks = <<>>
    /\ shutdown = FALSE
    /\ pc = [w \in Worker |-> "top"]
    /\ current = [w \in Worker |-> NoTask]
    /\ owner = "idle"
    /\ submitted = {}
    /\ ran = [t \in Task |-> 0]

(* submit, up to the end of its critical section. *)
Submit(t) ==
    /\ owner = "idle"
    /\ t \notin submitted
    /\ MutexFree
    /\ ~shutdown
    /\ tasks' = Append(tasks, t)
    /\ submitted' = submitted \cup {t}
    /\ owner' = "notify_one"
    /\ UNCHANGED <<shutdown, pc, current, ran>>

(* Mutant: submit wakes nobody. *)
NotifyOneForgotten ==
    /\ owner = "notify_one"
    /\ owner' = "idle"
    /\ UNCHANGED <<tasks, shutdown, pc, current, submitted, ran>>

(* cv_.notify_one: some waiting worker, if there is one, wakes up. *)
NotifyOne ==
    /\ owner = "notify_one"
    /\ owner' = "idle"
    /\ \/ \E w \in Worker : pc[w] = "waiting" /\ pc' = [pc EXCEPT ![w] = "top"]
       \/ (\A w \in Worker : pc[w] # "waiting") /\ UNCHANGED pc
    /\ UNCHANGED <<tasks, shutdown, current, submitted, ran>>

(* shutdown: the flag is exchanged without taking the mutex. *)
ShutdownSet ==
    /\ owner = "idle"
    /\ ~shutdown
    /\ shutdown' = TRUE
    /\ owner' = "notify_all"
    /\ UNCHANGED <<tasks, pc, current, submitted, ran>>

(* cv_.notify_all. *)
NotifyAll ==
    /\ owner = "notify_all"
    /\ pc' = [w \in Worker |-> IF pc[w] = "waiting" THEN "top" ELSE pc[w]]
    /\ owner' = "join"
    /\ UNCHANGED <<tasks, shutdown, current, submitted, ran>>

(* The last join returns. *)
Join ==
    /\ owner = "join"
    /\ \A w \in Worker : pc[w] = "exited"
    /\ owner' = "joined"
    /\ UNCHANGED <<tasks, shutdown, pc, current, submitted, ran>>

(* The wait's predicate is false: the worker is about to sleep. *)
TestFalse(w) ==
    /\ pc[w] = "top"
    /\ MutexFree
    /\ ~shutdown /\ tasks = <<>>
    /\ pc' = [pc EXCEPT ![w] = "tested"]
    /\ UNCHANGED <<tasks, shutdown, current, owner, submitted, ran>>

(* The wait releases the mutex and sleeps, in one step. *)
Sleep(w) ==
    /\ pc[w] = "tested"
    /\ pc' = [pc EXCEPT ![w] = "waiting"]
    /\ UNCHANGED <<tasks, shutdown, current, owner, submitted, ran>>

(* A wait may return without a notification; its predicate is tested again. *)
SpuriousWakeup(w) ==
    /\ pc[w] = "waiting"
    /\ pc' = [pc EXCEPT ![w] = "top"]
    /\ UNCHANGED <<tasks, shutdown, current, owner, submitted, ran>>

(* Mutant: the front of the queue is read and never popped. *)
TakeWithoutPop(w) ==
    /\ pc[w] = "top"
    /\ MutexFree
    /\ tasks # <<>>
    /\ current' = [current EXCEPT ![w] = Head(tasks)]
    /\ pc' = [pc EXCEPT ![w] = "running"]
    /\ UNCHANGED <<tasks, shutdown, owner, submitted, ran>>

(* The wait returns with a task in the queue: the worker takes it. *)
Take(w) ==
    /\ pc[w] = "top"
    /\ MutexFree
    /\ tasks # <<>>
    /\ current' = [current EXCEPT ![w] = Head(tasks)]
    /\ tasks' = Tail(tasks)
    /\ pc' = [pc EXCEPT ![w] = "running"]
    /\ UNCHANGED <<shutdown, owner, submitted, ran>>

(* Mutant: the worker keeps the task it has run. *)
FinishKeepsTask(w) ==
    /\ pc[w] = "running"
    /\ ran' = [ran EXCEPT ![current[w]] = @ + 1]
    /\ pc' = [pc EXCEPT ![w] = "top"]
    /\ UNCHANGED <<tasks, shutdown, current, owner, submitted>>

(* The task returns. *)
Finish(w) ==
    /\ pc[w] = "running"
    /\ ran' = [ran EXCEPT ![current[w]] = @ + 1]
    /\ current' = [current EXCEPT ![w] = NoTask]
    /\ pc' = [pc EXCEPT ![w] = "top"]
    /\ UNCHANGED <<tasks, shutdown, owner, submitted>>

(* Mutant: a worker leaves on shutdown whatever is still queued. *)
ReturnAtOnce(w) ==
    /\ pc[w] = "top"
    /\ MutexFree
    /\ shutdown
    /\ pc' = [pc EXCEPT ![w] = "exited"]
    /\ UNCHANGED <<tasks, shutdown, current, owner, submitted, ran>>

(* The wait returns because of the shutdown and nothing is queued. *)
Return(w) ==
    /\ pc[w] = "top"
    /\ MutexFree
    /\ shutdown /\ tasks = <<>>
    /\ pc' = [pc EXCEPT ![w] = "exited"]
    /\ UNCHANGED <<tasks, shutdown, current, owner, submitted, ran>>

-----------------------------------------------------------------------------
WorkerStep(w) == TestFalse(w) \/ Sleep(w) \/ Take(w) \/ Finish(w) \/ Return(w)

OwnerStep == NotifyOne \/ NotifyAll \/ Join

Done ==
    /\ owner = "joined"
    /\ UNCHANGED vars

Next ==
    \/ \E t \in Task : Submit(t)
    \/ ShutdownSet
    \/ OwnerStep
    \/ \E w \in Worker : WorkerStep(w) \/ SpuriousWakeup(w)
    \/ Done

Spec == Init /\ [][Next]_vars

(* Every thread is scheduled, a thread that waits for the mutex gets it in *)
(* the end, and tasks return.  Nothing makes the owner submit or shut      *)
(* down, and no wait is sure to return spuriously.                         *)
Fairness ==
    /\ WF_vars(OwnerStep)
    /\ \A w \in Worker :
          /\ WF_vars(Sleep(w) \/ Finish(w))
          /\ SF_vars(TestFalse(w) \/ Take(w) \/ Return(w))

FairSpec == Spec /\ Fairness

-----------------------------------------------------------------------------
FieldTypes ==
    /\ tasks \in Seq(Task)
    /\ shutdown \in BOOLEAN
    /\ pc \in [Worker -> WorkerPC]
    /\ current \in [Worker -> Task \cup {NoTask}]
    /\ owner \in OwnerPC
    /\ submitted \in SUBSET Task
    /\ ran \in [Task -> Nat]

CurrentIsRunning ==
    \A w \in Worker : pc[w] = "running" <=> current[w] # NoTask

(* Every variable holds a value of its type, and a worker has a task       *)
(* exactly while it runs it (thread_pool.h, thread_pool.cpp:40-54).        *)
TypeOK == FieldTypes /\ CurrentIsRunning

Queued(t) == \E i \in 1 .. Len(tasks) : tasks[i] = t

Running(t) == \E w \in Worker : current[w] = t

(* A task that submit accepted is in exactly one place: queued once, being *)
(* run by one worker, or run once; no task is lost, taken twice or run     *)
(* again (thread_pool.cpp:44-52).                                          *)
ExactlyOnce ==
    /\ \A i, j \in 1 .. Len(tasks) : tasks[i] = tasks[j] => i = j
    /\ \A w, u \in Worker :
          current[w] = current[u] => w = u \/ current[w] = NoTask
    /\ \A t \in Task :
          /\ t \in submitted <=> (Queued(t) \/ Running(t) \/ ran[t] = 1)
          /\ ~(Queued(t) /\ Running(t))
          /\ Queued(t) \/ Running(t) => ran[t] = 0
          /\ ran[t] <= 1

(* The wakeup of a submit is never lost: while a task is queued and its    *)
(* notification is not still to come, some worker is awake and on its way  *)
(* to the queue (notify_one after the critical section,                    *)
(* thread_pool.cpp:15-22).                                                 *)
NoLostSubmit ==
    tasks # <<>> /\ owner # "notify_one" =>
        \E w \in Worker : pc[w] \in {"top", "running"}

(* When shutdown returns, every accepted task has been run and no worker   *)
(* is left ("Graceful shutdown", thread_pool.h:20).                        *)
ShutdownDrains ==
    owner = "joined" =>
        /\ \A w \in Worker : pc[w] = "exited"
        /\ \A t \in submitted : ran[t] = 1

(* Every accepted task is run in the end, whether or not the pool is being *)
(* shut down.                                                              *)
EveryTaskRuns == \A t \in Task : (t \in submitted) ~> (ran[t] = 1)

(* "Graceful shutdown" (include/networking/thread_pool.h:20): a call of    *)
(* shutdown returns once the tasks have.                                   *)
ShutdownReturns == shutdown ~> (owner = "joined")
=============================================================================
