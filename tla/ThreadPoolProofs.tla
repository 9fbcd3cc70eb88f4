-------------------------- MODULE ThreadPoolProofs --------------------------
(***************************************************************************)
(* Proofs about ThreadPool, for any number of workers and tasks.           *)
(***************************************************************************)
EXTENDS ThreadPool, TLAPS

(* The mutex: nothing is queued behind the back of a worker that has found *)
(* the queue empty and is about to sleep.                                  *)
TestedHoldsMutex ==
    \A w \in Worker : pc[w] = "tested" =>
        tasks = <<>> /\ \A u \in Worker \ {w} : pc[u] # "tested"

(* A worker leaves only when the pool is shut down and the queue empty. *)
ExitedIsDrained ==
    \A w \in Worker : pc[w] = "exited" => shutdown /\ tasks = <<>>

OwnerPhase ==
    /\ shutdown <=> owner \in {"notify_all", "join", "joined"}
    /\ owner = "joined" => \A w \in Worker : pc[w] = "exited"

IndInv ==
    /\ FieldTypes
    /\ ExactlyOnce
    /\ CurrentIsRunning
    /\ TestedHoldsMutex
    /\ ExitedIsDrained
    /\ OwnerPhase
    /\ NoLostSubmit

-----------------------------------------------------------------------------
LEMMA InitEstablishes == Init => IndInv
  <1> SUFFICES ASSUME Init PROVE IndInv
    OBVIOUS
  <1> USE ThreadPoolAssumption DEF Init
  <1>1. FieldTypes
    <2>1. tasks \in Seq(Task) /\ ran \in [Task -> Nat]
      OBVIOUS
    <2>2. pc \in [Worker -> WorkerPC] /\ current \in [Worker -> Task \cup {NoTask}]
      BY DEF WorkerPC
    <2> QED
      BY <2>1, <2>2 DEF FieldTypes, OwnerPC
  <1>2. ExactlyOnce
    BY DEF ExactlyOnce, Queued, Running
  <1>3. CurrentIsRunning /\ TestedHoldsMutex /\ ExitedIsDrained /\ OwnerPhase
    BY DEF CurrentIsRunning, TestedHoldsMutex, ExitedIsDrained, OwnerPhase
  <1>4. NoLostSubmit
    BY DEF NoLostSubmit
  <1> QED
    BY <1>1, <1>2, <1>3, <1>4 DEF IndInv

LEMMA SubmitKeeps ==
    ASSUME IndInv, NEW t \in Task, Submit(t)
    PROVE  IndInv'
  <1> USE ThreadPoolAssumption DEF IndInv
  <1>0. /\ owner = "idle" /\ t \notin submitted /\ ~shutdown /\ MutexFree
        /\ submitted' = submitted \cup {t} /\ owner' = "notify_one"
        /\ UNCHANGED <<shutdown, pc, current, ran>>
    BY DEF Submit
  <1>1. /\ tasks \in Seq(Task) /\ Len(tasks) \in Nat
        /\ tasks' \in Seq(Task) /\ Len(tasks') = Len(tasks) + 1
        /\ \A i \in 1 .. Len(tasks) : tasks'[i] = tasks[i]
        /\ tasks'[Len(tasks) + 1] = t
    BY DEF Submit, FieldTypes
  <1>2. FieldTypes'
    BY <1>0, <1>1 DEF FieldTypes, OwnerPC
  <1>3. \A s \in Task : Queued(s)' <=> Queued(s) \/ s = t
    BY <1>1 DEF Queued
  <1>4. \A s \in Task : Running(s)' <=> Running(s)
    BY <1>0 DEF Running
  <1>5. ~Queued(t) /\ ~Running(t) /\ ran[t] = 0
    BY <1>0 DEF ExactlyOnce, FieldTypes
  <1>6. ExactlyOnce'
    <2>1. \A i, j \in 1 .. Len(tasks') : tasks'[i] = tasks'[j] => i = j
      BY <1>1, <1>5 DEF ExactlyOnce, Queued
    <2>2. \A s \in Task :
             /\ s \in submitted' <=> (Queued(s)' \/ Running(s)' \/ ran'[s] = 1)
             /\ ~(Queued(s)' /\ Running(s)')
             /\ Queued(s)' \/ Running(s)' => ran'[s] = 0
             /\ ran'[s] <= 1
      BY <1>0, <1>3, <1>4, <1>5 DEF ExactlyOnce
    <2> QED
      BY <1>0, <2>1, <2>2 DEF ExactlyOnce
  <1>7. CurrentIsRunning' /\ OwnerPhase' /\ NoLostSubmit'
    BY <1>0 DEF CurrentIsRunning, OwnerPhase, NoLostSubmit
  <1>8. TestedHoldsMutex' /\ ExitedIsDrained'
    BY <1>0 DEF TestedHoldsMutex, ExitedIsDrained, MutexFree
  <1> QED
    BY <1>2, <1>6, <1>7, <1>8

(* A step that touches neither the queue nor a task. *)
LEMMA QueueUntouched ==
    ASSUME IndInv, UNCHANGED <<tasks, current, submitted, ran>>
    PROVE  ExactlyOnce'
  BY DEF IndInv, ExactlyOnce, Queued, Running

LEMMA OwnerKeeps ==
    ASSUME IndInv, ShutdownSet \/ OwnerStep
    PROVE  IndInv'
  <1> USE ThreadPoolAssumption DEF IndInv
  <1>1. CASE NotifyOne
    <2>1. UNCHANGED <<tasks, shutdown, current, submitted, ran>>
          /\ owner = "notify_one" /\ owner' = "idle"
      BY <1>1 DEF NotifyOne
    <2>2. /\ pc' \in [Worker -> WorkerPC]
          /\ \A w \in Worker : pc'[w] = pc[w] \/ (pc[w] = "waiting" /\ pc'[w] = "top")
      BY <1>1 DEF NotifyOne, FieldTypes, WorkerPC
    <2>3. FieldTypes'
      BY <2>1, <2>2 DEF FieldTypes, OwnerPC
    <2>4. CurrentIsRunning' /\ TestedHoldsMutex' /\ ExitedIsDrained' /\ OwnerPhase'
      BY <2>1, <2>2 DEF CurrentIsRunning, TestedHoldsMutex, ExitedIsDrained, OwnerPhase
    <2>5. NoLostSubmit'
      <3>1. CASE \E w \in Worker : pc[w] = "waiting" /\ pc' = [pc EXCEPT ![w] = "top"]
        BY <3>1 DEF NoLostSubmit, FieldTypes
      <3>2. CASE (\A w \in Worker : pc[w] # "waiting") /\ UNCHANGED pc
        <4>1. tasks # <<>> => \A w \in Worker : pc[w] \in {"top", "running"}
          BY <3>2 DEF TestedHoldsMutex, ExitedIsDrained, FieldTypes, WorkerPC
        <4> QED
          BY <2>1, <3>2, <4>1 DEF NoLostSubmit
      <3> QED
        BY <1>1, <3>1, <3>2 DEF NotifyOne
    <2> QED
      BY <2>1, <2>3, <2>4, <2>5, QueueUntouched
  <1>2. CASE ShutdownSet
    <2>1. /\ UNCHANGED <<tasks, pc, current, submitted, ran>>
          /\ owner = "idle" /\ shutdown' = TRUE /\ owner' = "notify_all"
      BY <1>2 DEF ShutdownSet
    <2> QED
      BY <2>1, QueueUntouched DEF FieldTypes, OwnerPC, CurrentIsRunning,
         TestedHoldsMutex, ExitedIsDrained, OwnerPhase, NoLostSubmit
  <1>3. CASE NotifyAll
    <2>1. UNCHANGED <<tasks, shutdown, current, submitted, ran>>
          /\ owner = "notify_all" /\ owner' = "join"
      BY <1>3 DEF NotifyAll
    <2>2. /\ pc' \in [Worker -> WorkerPC]
          /\ \A w \in Worker : pc'[w] = pc[w] \/ (pc[w] = "waiting" /\ pc'[w] = "top")
      BY <1>3 DEF NotifyAll, FieldTypes, WorkerPC
    <2> QED
      BY <2>1, <2>2, QueueUntouched DEF FieldTypes, OwnerPC, CurrentIsRunning,
         TestedHoldsMutex, ExitedIsDrained, OwnerPhase, NoLostSubmit
  <1>4. CASE Join
    <2>1. /\ UNCHANGED <<tasks, shutdown, pc, current, submitted, ran>>
          /\ owner = "join" /\ owner' = "joined"
          /\ \A w \in Worker : pc[w] = "exited"
      BY <1>4 DEF Join
    <2> QED
      BY <2>1, QueueUntouched DEF FieldTypes, OwnerPC, CurrentIsRunning,
         TestedHoldsMutex, ExitedIsDrained, OwnerPhase, NoLostSubmit
  <1> QED
    BY <1>1, <1>2, <1>3, <1>4 DEF OwnerStep

LEMMA TakeKeeps ==
    ASSUME IndInv, NEW w \in Worker, Take(w)
    PROVE  IndInv'
  <1> USE ThreadPoolAssumption DEF IndInv
  <1> DEFINE t == Head(tasks)
  <1>0. /\ pc[w] = "top" /\ tasks # <<>> /\ MutexFree
        /\ UNCHANGED <<shutdown, owner, submitted, ran>>
    BY DEF Take
  <1>1. /\ tasks \in Seq(Task) /\ Len(tasks) \in Nat /\ Len(tasks) >= 1
        /\ t \in Task /\ t = tasks[1]
        /\ tasks' \in Seq(Task) /\ Len(tasks') = Len(tasks) - 1
        /\ \A i \in 1 .. Len(tasks') : tasks'[i] = tasks[i + 1]
    BY <1>0 DEF Take, FieldTypes
  <1>2. /\ pc' \in [Worker -> WorkerPC]
        /\ current' \in [Worker -> Task \cup {NoTask}]
        /\ pc'[w] = "running" /\ current'[w] = t
        /\ \A u \in Worker \ {w} : pc'[u] = pc[u] /\ current'[u] = current[u]
    BY <1>1 DEF Take, FieldTypes, WorkerPC
  <1>3. FieldTypes'
    BY <1>0, <1>1, <1>2 DEF FieldTypes
  <1>4. current[w] = NoTask
    BY <1>0 DEF CurrentIsRunning
  <1>5. Queued(t) /\ ~Running(t) /\ ran[t] = 0
    BY <1>1 DEF Queued, ExactlyOnce
  <1>6. \A s \in Task : Running(s)' <=> (Running(s) \/ s = t)
    BY <1>1, <1>2, <1>4 DEF Running
  <1>7. \A s \in Task : Queued(s)' <=> (Queued(s) /\ s # t)
    <2>1. \A s \in Task : Queued(s)' => (Queued(s) /\ s # t)
      BY <1>1 DEF Queued, ExactlyOnce
    <2>2. ASSUME NEW s \in Task, Queued(s), s # t
          PROVE  Queued(s)'
      <3>1. PICK i \in 1 .. Len(tasks) : tasks[i] = s
        BY <2>2 DEF Queued
      <3>2. i # 1 /\ i - 1 \in 1 .. Len(tasks') /\ (i - 1) + 1 = i
        BY <1>1, <2>2, <3>1
      <3>3. tasks'[i - 1] = s
        BY <1>1, <3>1, <3>2
      <3> QED
        BY <3>2, <3>3 DEF Queued
    <2> QED
      BY <2>1, <2>2
  <1>8. ExactlyOnce'
    <2>1. \A i, j \in 1 .. Len(tasks') : tasks'[i] = tasks'[j] => i = j
      BY <1>1 DEF ExactlyOnce
    <2>2. \A u, v \in Worker :
             current'[u] = current'[v] => u = v \/ current'[u] = NoTask
      BY <1>2, <1>5 DEF ExactlyOnce, Running
    <2>3. \A s \in Task :
             /\ s \in submitted' <=> (Queued(s)' \/ Running(s)' \/ ran'[s] = 1)
             /\ ~(Queued(s)' /\ Running(s)')
             /\ Queued(s)' \/ Running(s)' => ran'[s] = 0
             /\ ran'[s] <= 1
      BY <1>0, <1>5, <1>6, <1>7 DEF ExactlyOnce
    <2> QED
      BY <2>1, <2>2, <2>3 DEF ExactlyOnce
  <1>9. CurrentIsRunning'
    BY <1>1, <1>2 DEF CurrentIsRunning
  <1>10. TestedHoldsMutex'
    BY <1>0, <1>2 DEF TestedHoldsMutex, MutexFree
  <1>11. ExitedIsDrained'
    BY <1>0, <1>2 DEF ExitedIsDrained
  <1>12. OwnerPhase'
    BY <1>0, <1>2 DEF OwnerPhase
  <1>13. NoLostSubmit'
    BY <1>2 DEF NoLostSubmit
  <1> QED
    BY <1>3, <1>8, <1>9, <1>10, <1>11, <1>12, <1>13

LEMMA FinishKeeps ==
    ASSUME IndInv, NEW w \in Worker, Finish(w)
    PROVE  IndInv'
  <1> USE ThreadPoolAssumption DEF IndInv
  <1> DEFINE t == current[w]
  <1>0. /\ pc[w] = "running"
        /\ UNCHANGED <<tasks, shutdown, owner, submitted>>
    BY DEF Finish
  <1>1. t \in Task
    BY <1>0 DEF CurrentIsRunning, FieldTypes
  <1>2. /\ pc' \in [Worker -> WorkerPC]
        /\ current' \in [Worker -> Task \cup {NoTask}]
        /\ pc'[w] = "top" /\ current'[w] = NoTask
        /\ \A u \in Worker \ {w} : pc'[u] = pc[u] /\ current'[u] = current[u]
    BY DEF Finish, FieldTypes, WorkerPC
  <1>3. Running(t) /\ ~Queued(t) /\ ran[t] = 0
    BY <1>1 DEF Running, ExactlyOnce
  <1>4. /\ ran' \in [Task -> Nat] /\ ran'[t] = 1
        /\ \A s \in Task \ {t} : ran'[s] = ran[s]
    BY <1>1, <1>3 DEF Finish, FieldTypes
  <1>5. FieldTypes'
    BY <1>0, <1>2, <1>4 DEF FieldTypes
  <1>6. \A s \in Task : Running(s)' <=> (Running(s) /\ s # t)
    BY <1>1, <1>2 DEF Running, ExactlyOnce
  <1>7. \A s \in Task : Queued(s)' <=> Queued(s)
    BY <1>0 DEF Queued
  <1>8. ExactlyOnce'
    <2>1. \A s \in Task :
             /\ s \in submitted' <=> (Queued(s)' \/ Running(s)' \/ ran'[s] = 1)
             /\ ~(Queued(s)' /\ Running(s)')
             /\ Queued(s)' \/ Running(s)' => ran'[s] = 0
             /\ ran'[s] <= 1
      BY <1>0, <1>3, <1>4, <1>6, <1>7 DEF ExactlyOnce
    <2> QED
      BY <1>0, <1>2, <2>1 DEF ExactlyOnce
  <1>9. CurrentIsRunning' /\ TestedHoldsMutex' /\ ExitedIsDrained'
    BY <1>0, <1>2 DEF CurrentIsRunning, TestedHoldsMutex, ExitedIsDrained
  <1>10. OwnerPhase' /\ NoLostSubmit'
    BY <1>0, <1>2 DEF OwnerPhase, NoLostSubmit
  <1> QED
    BY <1>5, <1>8, <1>9, <1>10

(* The steps of a worker that only move it between the wait and the loop. *)
LEMMA WaitKeeps ==
    ASSUME IndInv, NEW w \in Worker,
           TestFalse(w) \/ Sleep(w) \/ SpuriousWakeup(w) \/ Return(w)
    PROVE  IndInv'
  <1> USE ThreadPoolAssumption DEF IndInv
  <1>1. UNCHANGED <<tasks, shutdown, current, owner, submitted, ran>>
    BY DEF TestFalse, Sleep, SpuriousWakeup, Return
  <1>2. /\ pc' \in [Worker -> WorkerPC]
        /\ \A u \in Worker \ {w} : pc'[u] = pc[u]
        /\ pc[w] \notin {"running", "exited"} /\ pc'[w] # "running"
        /\ pc'[w] = "tested" => tasks = <<>> /\ MutexFree
        /\ pc'[w] = "exited" => shutdown /\ tasks = <<>>
        /\ pc'[w] # "top" => pc[w] = "tested" \/ tasks = <<>>
    BY DEF TestFalse, Sleep, SpuriousWakeup, Return, FieldTypes, WorkerPC
  <1>3. FieldTypes'
    BY <1>1, <1>2 DEF FieldTypes
  <1>4. CurrentIsRunning'
    BY <1>1, <1>2 DEF CurrentIsRunning
  <1>5. TestedHoldsMutex'
    BY <1>1, <1>2 DEF TestedHoldsMutex, MutexFree
  <1>6. ExitedIsDrained' /\ OwnerPhase'
    BY <1>1, <1>2 DEF ExitedIsDrained, OwnerPhase
  <1>7. NoLostSubmit'
    BY <1>1, <1>2 DEF NoLostSubmit, TestedHoldsMutex
  <1> QED
    BY <1>1, <1>3, <1>4, <1>5, <1>6, <1>7, QueueUntouched

-----------------------------------------------------------------------------
(* The inductive invariant holds in every behaviour of the pool. *)
THEOREM Invariance == Spec => []IndInv
  <1>1. IndInv /\ [Next]_vars => IndInv'
    <2> SUFFICES ASSUME IndInv, [Next]_vars PROVE IndInv'
      OBVIOUS
    <2>1. ASSUME NEW t \in Task, Submit(t) PROVE IndInv'
      BY <2>1, SubmitKeeps
    <2>2. CASE ShutdownSet \/ OwnerStep
      BY <2>2, OwnerKeeps
    <2>3. ASSUME NEW w \in Worker, WorkerStep(w) \/ SpuriousWakeup(w) PROVE IndInv'
      BY <2>3, TakeKeeps, FinishKeeps, WaitKeeps DEF WorkerStep
    <2>4. CASE UNCHANGED vars
      BY <2>4 DEF vars, IndInv, FieldTypes, ExactlyOnce, Queued, Running,
         CurrentIsRunning, TestedHoldsMutex, ExitedIsDrained, OwnerPhase,
         NoLostSubmit
    <2> QED
      BY <2>1, <2>2, <2>3, <2>4 DEF Next, Done
  <1> QED
    BY <1>1, InitEstablishes, PTL DEF Spec

(* Every field has its type (TypeOK). *)
THEOREM TypeCorrect == Spec => []TypeOK
  <1>1. IndInv => TypeOK
    BY DEF IndInv, TypeOK
  <1> QED
    BY <1>1, Invariance, PTL

(* Every accepted task is in exactly one place (ExactlyOnce). *)
THEOREM TasksRunExactlyOnce == Spec => []ExactlyOnce
  <1>1. IndInv => ExactlyOnce
    BY DEF IndInv
  <1> QED
    BY <1>1, Invariance, PTL

(* No notification of submit is lost (NoLostSubmit). *)
THEOREM SubmitWakesAWorker == Spec => []NoLostSubmit
  <1>1. IndInv => NoLostSubmit
    BY DEF IndInv
  <1> QED
    BY <1>1, Invariance, PTL

(* When shutdown returns, all accepted tasks have been run                 *)
(* (ShutdownDrains).                                                       *)
THEOREM ShutdownLeavesNothing == Spec => []ShutdownDrains
  <1>1. IndInv => ShutdownDrains
    <2> SUFFICES ASSUME IndInv, owner = "joined"
                 PROVE  /\ \A w \in Worker : pc[w] = "exited"
                        /\ \A t \in submitted : ran[t] = 1
      BY DEF ShutdownDrains
    <2>1. \A w \in Worker : pc[w] = "exited" /\ current[w] = NoTask
      BY DEF IndInv, OwnerPhase, CurrentIsRunning
    <2>2. tasks = <<>>
      BY <2>1, ThreadPoolAssumption DEF IndInv, ExitedIsDrained
    <2>3. \A t \in Task : ~Running(t) /\ ~Queued(t)
      BY <2>1, <2>2, ThreadPoolAssumption DEF Running, Queued
    <2> QED
      BY <2>1, <2>3 DEF IndInv, ExactlyOnce, FieldTypes
  <1> QED
    BY <1>1, Invariance, PTL
=============================================================================
