-------------------------- MODULE ClusterStoreProofs -------------------------
(***************************************************************************)
(* Proofs about what a cluster stores and answers: types, where keys are   *)
(* stored, and with one replica per key the way of a request to its        *)
(* primary, what it does there, and who knows its answer.  They rest on    *)
(* the invariant of ClusterProofs.                                         *)
(***************************************************************************)
EXTENDS ClusterProofs, WellFoundedInduction

USE DEF Caller, Worker, Monitor

-----------------------------------------------------------------------------
(* Induction up to N, by the least number that is not in S. *)
LEMMA IntervalInduction ==
    ASSUME NEW N \in Nat, NEW S, 0 \in S, \A i \in 0 .. N - 1 : i \in S => i + 1 \in S
    PROVE  \A i \in 0 .. N : i \in S
<1> DEFINE T == {i \in 0 .. N : i \notin S}
<1> SUFFICES ASSUME T # {} PROVE FALSE
  OBVIOUS
<1>1. T \subseteq Nat
  OBVIOUS
<1>2. \E p \in T : \A q \in T : ~(<<q, p>> \in OpToRel(<, Nat))
  BY <1>1, NatLessThanWellFounded, WFMin
<1>3. PICK p \in T : \A q \in T : ~(<<q, p>> \in OpToRel(<, Nat))
  BY <1>2
<1>4. p \in 0 .. N /\ p \notin S /\ p # 0
  BY <1>3
<1>5. p - 1 \in 0 .. N - 1 /\ (p - 1) + 1 = p
  BY <1>4
<1>6. p - 1 \in T
  BY <1>4, <1>5
<1>7. <<p - 1, p>> \in OpToRel(<, Nat)
  BY <1>4 DEF OpToRel
<1> QED
  BY <1>3, <1>6, <1>7

(* The function that Filter computes, and its defining equation. *)
Kept(s, S) ==
    CHOOSE kept : kept = [i \in 0 .. Len(s) |->
        IF i = 0 THEN <<>>
        ELSE IF s[i] \in S THEN Append(kept[i - 1], s[i]) ELSE kept[i - 1]]

LEMMA KeptEquation ==
    ASSUME NEW T, NEW s \in Seq(T), NEW S
    PROVE  /\ Filter(s, S) = Kept(s, S)[Len(s)]
           /\ Kept(s, S)[0] = <<>>
           /\ \A i \in 1 .. Len(s) :
                 Kept(s, S)[i] = IF s[i] \in S THEN Append(Kept(s, S)[i - 1], s[i])
                                               ELSE Kept(s, S)[i - 1]
<1> DEFINE Step(q, i) == IF s[i] \in S THEN Append(q, s[i]) ELSE q
           Good == {n \in 0 .. Len(s) :
                      \E g \in [0 .. n -> Seq(T)] :
                          /\ g[0] = <<>>
                          /\ \A i \in 1 .. n : g[i] = Step(g[i - 1], i)}
<1>0. Len(s) \in Nat /\ \A i \in 1 .. Len(s) : s[i] \in T
  OBVIOUS
<1>1. 0 \in Good
  <2> DEFINE g == [i \in 0 .. 0 |-> <<>>]
  <2>1. g \in [0 .. 0 -> Seq(T)] /\ g[0] = <<>>
    OBVIOUS
  <2>2. \A i \in 1 .. 0 : g[i] = Step(g[i - 1], i)
    OBVIOUS
  <2>3. 0 \in 0 .. Len(s)
    BY <1>0
  <2> HIDE DEF g, Step
  <2> QED
    BY <2>1, <2>2, <2>3
<1>2. ASSUME NEW n \in 0 .. Len(s) - 1, n \in Good PROVE n + 1 \in Good
  <2>1. PICK g \in [0 .. n -> Seq(T)] :
            g[0] = <<>> /\ \A i \in 1 .. n : g[i] = Step(g[i - 1], i)
    BY <1>2
  <2> DEFINE h == [i \in 0 .. n + 1 |-> IF i = n + 1 THEN Step(g[n], n + 1) ELSE g[i]]
  <2>2. Step(g[n], n + 1) \in Seq(T)
    BY <1>0, <2>1
  <2> HIDE DEF Step
  <2>3. h \in [0 .. n + 1 -> Seq(T)]
    BY <1>0, <2>1, <2>2
  <2>4. h[0] = <<>> /\ \A i \in 1 .. n + 1 : h[i] = Step(h[i - 1], i)
    BY <1>0, <2>1
  <2>5. n + 1 \in 0 .. Len(s)
    BY <1>0
  <2> HIDE DEF h
  <2> QED
    BY <2>3, <2>4, <2>5
<1>3. Len(s) \in Good
  <2> HIDE DEF Good
  <2>1. \A i \in 0 .. Len(s) : i \in Good
    BY <1>0, <1>1, <1>2, IntervalInduction
  <2> QED
    BY <1>0, <2>1
<1>4. PICK g \in [0 .. Len(s) -> Seq(T)] :
          g[0] = <<>> /\ \A i \in 1 .. Len(s) : g[i] = Step(g[i - 1], i)
  BY <1>3
<1> DEFINE Body(f) == [i \in 0 .. Len(s) |-> IF i = 0 THEN <<>> ELSE Step(f[i - 1], i)]
<1>5. g = Body(g)
  <2> HIDE DEF Step
  <2> QED
    BY <1>0, <1>4
<1>6. Kept(s, S) = CHOOSE f : f = Body(f)
  BY DEF Kept
<1>7. Kept(s, S) = Body(Kept(s, S))
  <2> HIDE DEF Body
  <2> QED
    BY <1>5, <1>6
<1> DEFINE k == Kept(s, S)
<1>8. k = Body(k)
  BY <1>7
<1> HIDE DEF k, Step
<1>9. k[0] = <<>> /\ \A i \in 1 .. Len(s) : k[i] = Step(k[i - 1], i)
  <2>1. \A i \in 0 .. Len(s) : k[i] = IF i = 0 THEN <<>> ELSE Step(k[i - 1], i)
    BY Zenon, <1>8
  <2>2. 0 \in 0 .. Len(s) /\ \A i \in 1 .. Len(s) : i \in 0 .. Len(s) /\ i # 0
    BY <1>0
  <2> HIDE DEF Body
  <2> QED
    BY <2>1, <2>2
<1>10. Filter(s, S) = Kept(s, S)[Len(s)]
  BY DEF Filter, Kept
<1> QED
  BY <1>9, <1>10 DEF k, Step

(* The elements that Filter keeps are those of the list that are in S. *)
LEMMA FilterFacts ==
    ASSUME NEW T, NEW s \in Seq(T), NEW S
    PROVE  /\ Filter(s, S) \in Seq(T \cap S)
           /\ \A x : Contains(Filter(s, S), x) <=> Contains(s, x) /\ x \in S
<1> DEFINE k == Kept(s, S)
           Good == {n \in 0 .. Len(s) :
                      /\ k[n] \in Seq(T \cap S)
                      /\ \A x : Contains(k[n], x) <=>
                             x \in S /\ \E i \in 1 .. n : s[i] = x}
<1>0. Len(s) \in Nat /\ \A i \in 1 .. Len(s) : s[i] \in T
  OBVIOUS
<1>1. /\ Filter(s, S) = k[Len(s)] /\ k[0] = <<>>
      /\ \A i \in 1 .. Len(s) : k[i] = IF s[i] \in S THEN Append(k[i - 1], s[i])
                                                      ELSE k[i - 1]
  BY KeptEquation
<1> HIDE DEF k
<1>2. 0 \in Good
  <2>1. 0 \in 0 .. Len(s) /\ \A i \in 1 .. 0 : FALSE
    BY <1>0
  <2>2. k[0] \in Seq(T \cap S) /\ Len(k[0]) = 0
    BY <1>1
  <2>3. \A x : ~Contains(k[0], x)
    BY <2>1, <2>2 DEF Contains
  <2> QED
    BY <2>1, <2>2, <2>3
<1>3. ASSUME NEW n \in 0 .. Len(s) - 1, n \in Good PROVE n + 1 \in Good
  <2>1. n + 1 \in 1 .. Len(s) /\ (n + 1) - 1 = n
    BY <1>0
  <2>2. k[n + 1] = IF s[n + 1] \in S THEN Append(k[n], s[n + 1]) ELSE k[n]
    BY <1>1, <2>1
  <2>3. k[n] \in Seq(T \cap S)
        /\ \A x : Contains(k[n], x) <=> x \in S /\ \E i \in 1 .. n : s[i] = x
    BY <1>3
  <2>4. \A x : (\E i \in 1 .. n + 1 : s[i] = x) <=> (\E i \in 1 .. n : s[i] = x) \/ s[n + 1] = x
    BY <2>1
  <2>5. CASE s[n + 1] \in S
    <3>1. k[n + 1] = Append(k[n], s[n + 1]) /\ s[n + 1] \in T \cap S
      BY <2>1, <2>2, <2>5, <1>0
    <3>2. k[n + 1] \in Seq(T \cap S)
      BY <2>3, <3>1
    <3>3. \A x : Contains(k[n + 1], x) <=> Contains(k[n], x) \/ x = s[n + 1]
      <4>1. /\ Len(k[n]) \in Nat /\ Len(k[n + 1]) = Len(k[n]) + 1
            /\ \A i \in 1 .. Len(k[n]) : k[n + 1][i] = k[n][i]
            /\ k[n + 1][Len(k[n]) + 1] = s[n + 1]
        BY <2>3, <3>1
      <4>2. \A i : i \in 1 .. Len(k[n + 1]) <=> i \in 1 .. Len(k[n]) \/ i = Len(k[n]) + 1
        BY <4>1
      <4> QED
        BY <4>1, <4>2 DEF Contains
    <3> QED
      BY <2>1, <2>3, <2>4, <2>5, <3>2, <3>3
  <2>6. CASE s[n + 1] \notin S
    BY <2>1, <2>2, <2>3, <2>4, <2>6
  <2> QED
    BY <2>5, <2>6
<1>4. Len(s) \in Good
  <2> HIDE DEF Good
  <2>1. \A i \in 0 .. Len(s) : i \in Good
    BY <1>0, <1>2, <1>3, IntervalInduction
  <2> QED
    BY <1>0, <2>1
<1> QED
  BY <1>1, <1>4 DEF Contains

LEMMA FilterOfOne ==
    ASSUME NEW p, NEW S
    PROVE  Filter(<<p>>, S) = IF p \in S THEN <<p>> ELSE <<>>
<1>1. ASSUME NEW T, NEW s \in Seq(T), Len(s) = 1, s[1] = p
      PROVE  Filter(s, S) = IF p \in S THEN <<p>> ELSE <<>>
  <2> DEFINE k == Kept(s, S)
  <2>1. /\ Filter(s, S) = k[Len(s)] /\ k[0] = <<>>
        /\ \A i \in 1 .. Len(s) : k[i] = IF s[i] \in S THEN Append(k[i - 1], s[i])
                                                        ELSE k[i - 1]
    BY KeptEquation
  <2> HIDE DEF k
  <2>2. 1 \in 1 .. Len(s) /\ 1 - 1 = 0
    BY <1>1
  <2>3. k[1] = IF p \in S THEN Append(<<>>, p) ELSE <<>>
    BY <1>1, <2>1, <2>2, Zenon
  <2>4. Append(<<>>, p) = <<p>>
    OBVIOUS
  <2> QED
    BY <1>1, <2>1, <2>3, <2>4, Zenon
<1>2. <<p>> \in Seq({p}) /\ Len(<<p>>) = 1 /\ <<p>>[1] = p
  OBVIOUS
<1> QED
  BY <1>1, <1>2, Zenon

(* What a node knows of the replicas of a key are nodes that the ring      *)
(* places it on.                                                           *)
LEMMA ReplicaNodesFacts ==
    ASSUME NEW n \in Node, NEW k \in Key
    PROVE  /\ ReplicaNodes(n, k) \in Seq(Node)
           /\ Without(ReplicaNodes(n, k), n) \in Seq(Node)
           /\ \A m : Contains(ReplicaNodes(n, k), m) =>
                 \E i \in 1 .. Len(Ring[k]) : i <= ReplicationFactor /\ Ring[k][i] = m
<1> DEFINE first == SubSeq(Ring[k], 1, ReplicaCount(k))
           S == {m \in Node : view[n][m] # "DOWN"}
<1>0. Ring[k] \in Seq(Node) /\ ReplicationFactor \in Nat
  BY ClusterAssumption
<1>1. /\ Len(Ring[k]) \in Nat
      /\ ReplicaCount(k) \in Nat /\ ReplicaCount(k) <= Len(Ring[k])
      /\ ReplicaCount(k) <= ReplicationFactor
  BY <1>0 DEF ReplicaCount
<1>2. /\ first \in Seq(Node) /\ Len(first) = ReplicaCount(k)
      /\ \A i \in 1 .. ReplicaCount(k) : first[i] = Ring[k][i]
  BY <1>0, <1>1
<1> HIDE DEF first, S
<1>3. ReplicaNodes(n, k) = Filter(first, S)
  BY DEF ReplicaNodes, first, S
<1>4. /\ Filter(first, S) \in Seq(Node \cap S)
      /\ \A x : Contains(Filter(first, S), x) <=> Contains(first, x) /\ x \in S
  BY <1>2, FilterFacts
<1>5. ReplicaNodes(n, k) \in Seq(Node)
  BY <1>3, <1>4
<1>6. Without(ReplicaNodes(n, k), n) \in Seq(Node)
  <2>1. Filter(ReplicaNodes(n, k), Node \ {n}) \in Seq(Node \cap (Node \ {n}))
    BY <1>5, FilterFacts
  <2> QED
    BY <2>1 DEF Without
<1>7. ASSUME NEW m, Contains(ReplicaNodes(n, k), m)
      PROVE  \E i \in 1 .. Len(Ring[k]) : i <= ReplicationFactor /\ Ring[k][i] = m
  <2>1. PICK i \in 1 .. ReplicaCount(k) : first[i] = m
    BY <1>2, <1>3, <1>4, <1>7 DEF Contains
  <2>2. i \in 1 .. Len(Ring[k]) /\ i <= ReplicationFactor
    BY <1>0, <1>1, <2>1
  <2> QED
    BY <1>2, <2>1, <2>2
<1> QED
  BY <1>5, <1>6, <1>7

-----------------------------------------------------------------------------
(* The parts of TypeOK that the invariant of ClusterProofs leaves open. *)
Map == [Key -> Value \cup {NotFound}]

JobTyped(j) == j.todo \in Seq(Node) /\ j.ans \in Response \cup {None}

CallTyped(x) ==
    /\ x.req \in Request \cup {Ping, None}
    /\ x.ans \in Response \cup {None}
    /\ x.st = "answered" => x.ans \in Response

DataTypes ==
    /\ store \in [Node -> Map]
    /\ \A w \in Worker : job[w] # None => JobTyped(job[w])
    /\ \A c \in Caller : CallTyped(call[c])

StoreInv == DataTypes /\ OnlyReplicasStore

(* From here on Zenon is the prover, and a step for SMT says so. *)
USE Zenon

LEMMA RequestFacts ==
    ASSUME NEW r \in Request
    PROVE  /\ r.key \in Key /\ r.cmd \in {"PUT", "GET", "DELETE"}
           /\ r.cmd = "PUT" => r.value \in Value
  BY DEF Request

LEMMA AnswerTyped ==
    ASSUME NEW s \in {"OK", "NOT_FOUND", "ERROR", "NODE_UNAVAILABLE"}
    PROVE  Answer(s) \in Response /\ Answer(s).status = s /\ Answer(s).value = NotFound
  BY DEF Answer, Response

LEMMA MapFacts ==
    ASSUME NEW m \in Map, NEW k \in Key
    PROVE  /\ Del(m, k) \in Map /\ Del(m, k)[k] = NotFound
           /\ \A v \in Value : Put(m, k, v) \in Map
           /\ \A x \in Key : x # k => Del(m, k)[x] = m[x]
           /\ \A v \in Value, x \in Key : x # k => Put(m, k, v)[x] = m[x]
           /\ [status |-> GetStatus(m, k), value |-> m[k]] \in Response
  BY DEF Map, Del, Put, GetStatus, Response

LEMMA LearnTyped ==
    ASSUME NEW j, JobShape(j), JobTyped(j), j.todo # <<>>, NEW a \in Response
    PROVE  JobTyped(Learn(j, a)) /\ Learn(j, a).todo = Tail(j.todo)
  <1>1. Tail(j.todo) \in Seq(Node)
    BY SMT DEF JobTyped
  <1>2. /\ Learn(j, a).todo = Tail(j.todo)
        /\ Learn(j, a).ans \in {j.ans, a, None}
    <2>1. CASE IsMutation(j.req)
      BY <2>1 DEF Learn, JobShape
    <2>2. CASE ~IsMutation(j.req)
      BY <2>2 DEF Learn, JobShape
    <2> QED
      BY <2>1, <2>2
  <1> QED
    BY <1>1, <1>2 DEF JobTyped

LEMMA OutcomeTyped ==
    ASSUME NEW j, JobTyped(j)
    PROVE  Outcome(j) \in Response
  BY AnswerTyped DEF Outcome, JobTyped

LEMMA StoreInit == Init => StoreInv
  <1> SUFFICES ASSUME Init PROVE StoreInv
    OBVIOUS
  <1>1. /\ store = [n \in Node |-> EmptyMap] /\ job = [w \in Worker |-> None]
        /\ call = [c \in Caller |-> NoCall]
    BY DEF Init
  <1>2. EmptyMap \in Map /\ \A k \in Key : EmptyMap[k] = NotFound
    BY DEF EmptyMap, Map
  <1>3. CallTyped(NoCall)
    BY DEF CallTyped, NoCall
  <1> QED
    BY <1>1, <1>2, <1>3 DEF StoreInv, DataTypes, OnlyReplicasStore

(* A step that gives jobs and calls typed values and leaves the stores. *)
LEMMA StoreUntouched ==
    ASSUME StoreInv, UNCHANGED store,
           \A w \in Worker : job'[w] # job[w] /\ job'[w] # None => JobTyped(job'[w]),
           \A c \in Caller : call'[c] # call[c] => CallTyped(call'[c])
    PROVE  StoreInv'
  <1>1. \A w \in Worker : job'[w] # None => JobTyped(job[w])'
    BY DEF StoreInv, DataTypes, JobTyped
  <1>2. \A c \in Caller : CallTyped(call[c])'
    BY DEF StoreInv, DataTypes, CallTyped
  <1>3. OnlyReplicasStore'
    BY DEF StoreInv, OnlyReplicasStore
  <1> QED
    BY <1>1, <1>2, <1>3 DEF StoreInv, DataTypes

LEMMA OpenTyped ==
    ASSUME IndInv, StoreInv, NEW c \in Caller, NEW n \in Node,
           NEW r \in Request \cup {Ping, None}, Open(c, n, r), UNCHANGED <<store, job>>
    PROVE  StoreInv'
  <1> DEFINE new == [to |-> n, st |-> IF r = None THEN "quiet" ELSE "waiting",
                     req |-> r, ans |-> None]
  <1>1. call' = [call EXCEPT ![c] = new] /\ call = [x \in Caller |-> call[x]]
    BY DEF Open, IndInv, Shapes
  <1>2. CallTyped(new)
    BY DEF CallTyped
  <1> HIDE DEF new
  <1>3. call'[c] = new /\ \A x \in Caller : x # c => call'[x] = call[x]
    BY <1>1
  <1> QED
    BY <1>2, <1>3, StoreUntouched

LEMMA CloseTyped ==
    ASSUME IndInv, StoreInv, NEW c \in Caller, Close(c), UNCHANGED store,
           \A w \in Worker : job'[w] # job[w] /\ job'[w] # None => JobTyped(job'[w])
    PROVE  StoreInv'
  <1>1. call' = [call EXCEPT ![c] = NoCall] /\ call = [x \in Caller |-> call[x]]
    BY DEF Close, IndInv, Shapes
  <1>2. CallTyped(NoCall)
    BY DEF CallTyped, NoCall
  <1>3. call'[c] = NoCall /\ \A x \in Caller : x # c => call'[x] = call[x]
    BY <1>1
  <1> QED
    BY <1>2, <1>3, StoreUntouched

LEMMA StoreClients ==
    ASSUME IndInv, StoreInv, NEW c \in Client, ClientStep(c)
    PROVE  StoreInv'
  <1>1. ASSUME NEW n \in Node, ClientConnect(c, n) PROVE StoreInv'
    BY <1>1, OpenTyped DEF ClientConnect
  <1>2. CASE ClientLeave(c)
    BY <1>2, CloseTyped DEF ClientLeave
  <1>3. /\ call = [x \in Caller |-> call[x]] /\ c \in Caller
        /\ CallShape(call[c]) /\ CallTyped(call[c])
    BY DEF IndInv, Shapes, StoreInv, DataTypes
  <1>4. ASSUME NEW r \in Request \cup {Ping}, ClientSend(c, r) PROVE StoreInv'
    <2> DEFINE new == [call[c] EXCEPT !.st = "waiting", !.req = r]
    <2>1. call' = [call EXCEPT ![c] = new] /\ UNCHANGED <<store, job>>
      BY <1>4 DEF ClientSend
    <2>2. CallTyped(new)
      BY <1>3 DEF CallTyped, CallShape
    <2> HIDE DEF new
    <2>3. call'[c] = new /\ \A x \in Caller : x # c => call'[x] = call[x]
      BY <2>1, <1>3
    <2> QED
      BY <2>1, <2>2, <2>3, StoreUntouched
  <1>5. CASE ClientReceive(c)
    <2> DEFINE new == [call[c] EXCEPT !.st = "quiet", !.req = None, !.ans = None]
    <2>1. call' = [call EXCEPT ![c] = new] /\ UNCHANGED <<store, job>>
      BY <1>5 DEF ClientReceive
    <2>2. CallTyped(new)
      BY <1>3 DEF CallTyped, CallShape
    <2> HIDE DEF new
    <2>3. call'[c] = new /\ \A x \in Caller : x # c => call'[x] = call[x]
      BY <2>1, <1>3
    <2> QED
      BY <2>1, <2>2, <2>3, StoreUntouched
  <1> QED
    BY <1>1, <1>2, <1>4, <1>5 DEF ClientStep

(* A worker has read a request. *)
LEMMA ReadTyped ==
    ASSUME IndInv, NEW w \in Worker, NEW j, JobTyped(j), Read(w, j), StoreInv
    PROVE  /\ \A u \in Worker : job'[u] # job[u] /\ job'[u] # None => JobTyped(job'[u])
           /\ call' = call
  <1>1. job' = [job EXCEPT ![w] = j] /\ job = [u \in Worker |-> job[u]] /\ call' = call
    BY DEF Read, IndInv, Shapes
  <1>2. job'[w] = j /\ \A u \in Worker : u # w => job'[u] = job[u]
    BY <1>1
  <1> QED
    BY <1>1, <1>2

LEMMA HandleMutationTyped ==
    ASSUME IndInv, MonitorInv, StoreInv, NEW w \in Worker, HandleMutation(w)
    PROVE  StoreInv'
  <1> DEFINE n == w[1]
             r == serving[w].req
             replicas == ReplicaNodes(n, r.key)
             todo == Without(replicas, n)
             acks == IF Contains(replicas, n)
                           /\ (r.cmd = "PUT" => PutStatus(r.key, r.value) = "OK")
                     THEN 1 ELSE 0
             j == [req |-> r, todo |-> todo, acks |-> acks, ans |-> None]
             m == IF r.cmd = "PUT" THEN Put(store[n], r.key, r.value)
                                   ELSE Del(store[n], r.key)
  <1>1. /\ r \in Request /\ IsMutation(r) /\ Read(w, j)
        /\ store' = IF Contains(replicas, n) THEN [store EXCEPT ![n] = m] ELSE store
    BY DEF HandleMutation
  <1>2. n \in Node /\ r.key \in Key /\ (r.cmd = "PUT" => r.value \in Value)
    BY <1>1, CallersDiffer, RequestFacts
  <1>3. /\ replicas \in Seq(Node)
        /\ Contains(replicas, n) =>
              \E i \in 1 .. Len(Ring[r.key]) : i <= ReplicationFactor /\ Ring[r.key][i] = n
    BY <1>2, ReplicaNodesFacts
  <1>4. todo \in Seq(Node)
    <2> HIDE DEF replicas
    <2>1. Without(replicas, n) \in Seq(Node \cap (Node \ {n}))
      BY SMT, <1>3, FilterFacts DEF Without
    <2> QED
      BY SMT, <2>1
  <1>5. store \in [Node -> Map] /\ store[n] \in Map
    BY <1>2 DEF StoreInv, DataTypes
  <1>6. m \in Map /\ \A k \in Key : k # r.key => m[k] = store[n][k]
    <2> HIDE DEF n, r
    <2>1. /\ Del(store[n], r.key) \in Map
          /\ \A k \in Key : k # r.key => Del(store[n], r.key)[k] = store[n][k]
      BY <1>2, <1>5, MapFacts
    <2>2. r.cmd = "PUT" =>
             /\ Put(store[n], r.key, r.value) \in Map
             /\ \A k \in Key : k # r.key =>
                   Put(store[n], r.key, r.value)[k] = store[n][k]
      BY <1>2, <1>5, MapFacts
    <2> QED
      BY <2>1, <2>2
  <1> HIDE DEF m, acks, todo, replicas, n, r
  <1>7. JobTyped(j)
    BY <1>4 DEF JobTyped
  <1> HIDE DEF j
  <1>8. /\ \A u \in Worker : job'[u] # job[u] /\ job'[u] # None => JobTyped(job'[u])
        /\ call' = call
    BY <1>1, <1>7, ReadTyped
  <1>9. CASE ~Contains(replicas, n)
    BY <1>1, <1>8, <1>9, StoreUntouched
  <1>10. CASE Contains(replicas, n)
    <2>1. /\ store' \in [Node -> Map] /\ store'[n] = m
          /\ \A x \in Node : x # n => store'[x] = store[x]
      BY <1>1, <1>2, <1>5, <1>6, <1>10
    <2>2. OnlyReplicasStore'
      <3> SUFFICES ASSUME NEW x \in Node, NEW k \in Key, store'[x][k] # NotFound
                   PROVE  \E i \in 1 .. Len(Ring[k]) :
                              i <= ReplicationFactor /\ Ring[k][i] = x
        BY DEF OnlyReplicasStore
      <3>1. CASE x = n /\ k = r.key
        BY <1>3, <1>10, <3>1
      <3>2. CASE ~(x = n /\ k = r.key)
        <4>1. store[x][k] # NotFound
          BY <2>1, <1>6, <3>2
        <4> QED
          BY <4>1 DEF StoreInv, OnlyReplicasStore
      <3> QED
        BY <3>1, <3>2
    <2>3. \A u \in Worker : job'[u] # None => JobTyped(job[u])'
      BY <1>8 DEF StoreInv, DataTypes, JobTyped
    <2>4. \A c \in Caller : CallTyped(call[c])'
      BY <1>8 DEF StoreInv, DataTypes, CallTyped
    <2> QED
      BY <2>1, <2>2, <2>3, <2>4 DEF StoreInv, DataTypes
  <1> QED
    BY <1>9, <1>10

LEMMA HandleGetTyped ==
    ASSUME IndInv, MonitorInv, StoreInv, NEW w \in Worker, HandleGet(w)
    PROVE  StoreInv'
  <1> DEFINE n == w[1]
             r == serving[w].req
             todo == IF IsLocalKey(n, r.key) THEN <<>> ELSE ReplicaNodes(n, r.key)
             ans == IF IsLocalKey(n, r.key) THEN GetAnswer(n, r.key) ELSE None
             j == [req |-> r, todo |-> todo, acks |-> 0, ans |-> ans]
  <1>1. r \in Request /\ Read(w, j) /\ store' = store
    BY DEF HandleGet
  <1>2. n \in Node /\ r.key \in Key
    BY <1>1, CallersDiffer, RequestFacts
  <1>3. ReplicaNodes(n, r.key) \in Seq(Node)
    BY <1>2, ReplicaNodesFacts
  <1>4. GetAnswer(n, r.key) \in Response
    BY <1>2, MapFacts DEF StoreInv, DataTypes, GetAnswer
  <1>5. todo \in Seq(Node) /\ ans \in Response \cup {None}
    BY SMT, <1>3, <1>4
  <1> HIDE DEF todo, ans, n, r
  <1>6. JobTyped(j)
    BY <1>5 DEF JobTyped
  <1> HIDE DEF j
  <1> QED
    BY <1>1, <1>6, ReadTyped, StoreUntouched

(* A worker goes on after the answer of a replica. *)
LEMMA LearnedTyped ==
    ASSUME IndInv, StoreInv, NEW w \in Worker, job[w] # None, job[w].todo # <<>>,
           NEW a \in Response, job' = [job EXCEPT ![w] = Learn(@, a)]
    PROVE  \A u \in Worker : job'[u] # job[u] /\ job'[u] # None => JobTyped(job'[u])
  <1>1. job = [u \in Worker |-> job[u]] /\ JobShape(job[w]) /\ JobTyped(job[w])
    BY DEF IndInv, Shapes, StoreInv, DataTypes
  <1>2. job'[w] = Learn(job[w], a) /\ \A u \in Worker : u # w => job'[u] = job[u]
    BY <1>1
  <1> QED
    BY <1>1, <1>2, LearnTyped

LEMMA ReplyTyped ==
    ASSUME IndInv, StoreInv, NEW w \in Worker, Reply(w)
    PROVE  StoreInv'
  <1> DEFINE c == serving[w].from
             a == Outcome(job[w])
             new == [call[c] EXCEPT !.st = "answered", !.ans = a]
  <1>1. /\ job[w] # None /\ job' = [job EXCEPT ![w] = None] /\ UNCHANGED store
        /\ call' = IF c = Gone THEN call ELSE [call EXCEPT ![c] = new]
    BY DEF Reply
  <1>2. a \in Response
    BY <1>1, OutcomeTyped DEF StoreInv, DataTypes
  <1>3. c \in Caller \cup {Gone}
    BY <1>1, ServingOrigins DEF IndInv, JobLinked
  <1>4. job = [u \in Worker |-> job[u]] /\ call = [x \in Caller |-> call[x]]
    BY DEF IndInv, Shapes
  <1>5. \A u \in Worker : job'[u] # job[u] => job'[u] = None
    BY <1>1, <1>4
  <1>6. ASSUME NEW x \in Caller, call'[x] # call[x] PROVE CallTyped(call'[x])
    <2> HIDE DEF a, c
    <2>1. x = c /\ call'[x] = [call[x] EXCEPT !.st = "answered", !.ans = a]
      BY <1>1, <1>3, <1>4, <1>6
    <2>2. CallShape(call[x]) /\ CallTyped(call[x])
      BY DEF IndInv, Shapes, StoreInv, DataTypes
    <2> QED
      BY <2>1, <2>2, <1>2 DEF CallShape, CallTyped
  <1> QED
    BY <1>1, <1>5, <1>6, StoreUntouched

LEMMA StoreWorkers ==
    ASSUME IndInv, MonitorInv, StoreInv, NEW w \in Worker, WorkerStep(w)
    PROVE  StoreInv'
  <1>1. CASE TakeConnection(w) \/ EndConnection(w)
    <2>1. UNCHANGED <<store, job, call>>
      BY <1>1 DEF TakeConnection, EndConnection
    <2> QED
      BY <2>1, StoreUntouched
  <1>2. CASE HandlePing(w)
    <2> DEFINE j == [req |-> Ping, todo |-> <<>>, acks |-> 0, ans |-> Answer("OK")]
    <2>1. Read(w, j) /\ UNCHANGED store
      BY <1>2 DEF HandlePing
    <2>2. JobTyped(j)
      BY SMT, AnswerTyped DEF JobTyped
    <2> HIDE DEF j
    <2> QED
      BY <2>1, <2>2, ReadTyped, StoreUntouched
  <1>3. CASE GetLocal(w)
    <2>1. /\ job[w] # None /\ job[w].todo # <<>> /\ job[w].req.cmd = "GET"
          /\ UNCHANGED <<store, call>>
          /\ job' = [job EXCEPT ![w] = Learn(@, GetAnswer(w[1], job[w].req.key))]
      BY <1>3 DEF GetLocal, AtReplica
    <2>2. job[w].req \in Request
      BY <2>1, PingNotRequest DEF IndInv, Shapes, JobShape
    <2>3. GetAnswer(w[1], job[w].req.key) \in Response
      BY <2>2, MapFacts, RequestFacts, CallersDiffer DEF StoreInv, DataTypes, GetAnswer
    <2> QED
      BY <2>1, <2>3, LearnedTyped, StoreUntouched
  <1>4. CASE Forward(w)
    <2>1. PICK m \in Node : Open(w, m, job[w].req)
      BY <1>4 DEF Forward
    <2>2. job[w] # None /\ UNCHANGED <<store, job>>
      BY <1>4 DEF Forward, AtReplica
    <2>3. job[w].req \in Request \cup {Ping, None}
      BY <2>2 DEF IndInv, Shapes, JobShape
    <2> QED
      BY <2>1, <2>2, <2>3, OpenTyped
  <1>5. CASE ForwardRefused(w)
    <2>1. /\ job[w] # None /\ job[w].todo # <<>> /\ UNCHANGED <<store, call>>
          /\ job' = [job EXCEPT ![w] = Learn(@, Answer("NODE_UNAVAILABLE"))]
      BY <1>5 DEF ForwardRefused, AtReplica
    <2>2. Answer("NODE_UNAVAILABLE") \in Response
      BY AnswerTyped
    <2> QED
      BY <2>1, <2>2, LearnedTyped, StoreUntouched
  <1>6. CASE ForwardReturn(w)
    <2>1. /\ call[w].st = "answered" /\ Close(w) /\ UNCHANGED store
          /\ job' = [job EXCEPT ![w] = Learn(@, call[w].ans)]
      BY <1>6 DEF ForwardReturn
    <2>2. job[w] # None /\ job[w].todo # <<>>
      BY <2>1 DEF IndInv, Forwarding
    <2>3. call[w].ans \in Response
      BY <2>1 DEF StoreInv, DataTypes, CallTyped
    <2> QED
      BY <2>1, <2>2, <2>3, LearnedTyped, CloseTyped
  <1> QED
    BY <1>1, <1>2, <1>3, <1>4, <1>5, <1>6, HandleMutationTyped, HandleGetTyped,
       ReplyTyped DEF WorkerStep

LEMMA StoreMonitors ==
    ASSUME IndInv, StoreInv, NEW n \in Node, MonitorStep(n)
    PROVE  StoreInv'
  <1>1. <<n, None>> \in Caller
    OBVIOUS
  <1>2. CASE SkipSelf(n) \/ PingRefused(n)
    <2>1. UNCHANGED <<store, job, call>>
      BY <1>2 DEF SkipSelf, PingRefused
    <2> QED
      BY <2>1, StoreUntouched
  <1>3. CASE PingSend(n)
    BY <1>1, <1>3, OpenTyped DEF PingSend
  <1>4. CASE PingReturn(n)
    BY <1>1, <1>4, CloseTyped DEF PingReturn
  <1> QED
    BY <1>2, <1>3, <1>4 DEF MonitorStep

LEMMA StoreCrash ==
    ASSUME IndInv, StoreInv, NEW n \in Node, Crash(n)
    PROVE  StoreInv'
  <1>1. \A w \in Worker : job'[w] # job[w] => job'[w] = None
    BY DEF Crash
  <1>2. ASSUME NEW c \in Caller, call'[c] # call[c] PROVE CallTyped(call'[c])
    <2> DEFINE cut == [call[c] EXCEPT !.st = "answered",
                                      !.ans = Answer("NODE_UNAVAILABLE")]
    <2>1. call'[c] = NoCall \/ call'[c] = cut
      BY <1>2 DEF Crash
    <2>2. CallShape(call[c]) /\ CallTyped(call[c])
      BY DEF IndInv, Shapes, StoreInv, DataTypes
    <2>3. CallTyped(NoCall)
      BY DEF CallTyped, NoCall
    <2>4. CallTyped(cut)
      BY <2>2, AnswerTyped DEF CallTyped, CallShape
    <2> QED
      BY <2>1, <2>3, <2>4
  <1>3. UNCHANGED store
    BY DEF Crash
  <1> QED
    BY <1>1, <1>2, <1>3, StoreUntouched

LEMMA StoreStart ==
    ASSUME StoreInv, NEW n \in Node, Start(n)
    PROVE  StoreInv'
  <1>1. store' = [store EXCEPT ![n] = EmptyMap] /\ UNCHANGED <<job, call>>
    BY DEF Start
  <1>2. EmptyMap \in Map /\ \A k \in Key : EmptyMap[k] = NotFound
    BY DEF EmptyMap, Map
  <1>3. store' \in [Node -> Map]
    BY <1>1, <1>2 DEF StoreInv, DataTypes
  <1>4. OnlyReplicasStore'
    BY <1>1, <1>2 DEF StoreInv, DataTypes, OnlyReplicasStore
  <1>5. \A w \in Worker : job'[w] # None => JobTyped(job[w])'
    BY <1>1 DEF StoreInv, DataTypes, JobTyped
  <1>6. \A c \in Caller : CallTyped(call[c])'
    BY <1>1 DEF StoreInv, DataTypes, CallTyped
  <1> QED
    BY <1>3, <1>4, <1>5, <1>6 DEF StoreInv, DataTypes

(* The types of the data, and where keys are stored, hold throughout. *)
THEOREM StoreInvariance == Spec => []StoreInv
  <1>1. IndInv /\ MonitorInv /\ StoreInv /\ [Next]_vars => StoreInv'
    <2> SUFFICES ASSUME IndInv, MonitorInv, StoreInv, [Next]_vars PROVE StoreInv'
      OBVIOUS
    <2>1. CASE UNCHANGED vars
      <3>1. UNCHANGED <<store, job, call>>
        BY <2>1 DEF vars
      <3> QED
        BY <3>1, StoreUntouched
    <2>2. CASE Next
      BY <2>2, StoreClients, StoreWorkers, StoreMonitors, StoreCrash, StoreStart
         DEF Next
    <2> QED
      BY <2>1, <2>2
  <1> QED
    BY <1>1, StoreInit, Invariance, MonitorInvariance, PTL DEF Spec

(* Every variable of the cluster keeps its type (TypeOK), and a worker     *)
(* handles a request only while it serves a connection.                    *)
THEOREM ClusterTypes == Spec => []TypeOK
  <1>1. IndInv /\ MonitorInv /\ StoreInv => TypeOK
    <2> SUFFICES ASSUME IndInv, MonitorInv, StoreInv PROVE TypeOK
      OBVIOUS
    <2>1. ASSUME NEW w \in Worker, job[w] # None
          PROVE  job[w] \in Job /\ serving[w] # None
      <3>1. JobShape(job[w]) /\ JobTyped(job[w]) /\ serving[w] # None
        BY <2>1 DEF IndInv, Shapes, JobLinked, StoreInv, DataTypes
      <3> QED
        BY <3>1 DEF JobShape, JobTyped, Job
    <2>2. ASSUME NEW c \in Caller PROVE call[c] \in Call
      <3>1. CallShape(call[c]) /\ CallTyped(call[c])
        BY DEF IndInv, Shapes, StoreInv, DataTypes
      <3> QED
        BY <3>1 DEF CallShape, CallTyped, Call
    <2>3. job \in [Worker -> Job \cup {None}] /\ call \in [Caller -> Call]
      BY <2>1, <2>2 DEF IndInv, Shapes
    <2> QED
      BY <2>1, <2>3 DEF TypeOK, IndInv, Shapes, MonitorInv, MonitorTypes, StoreInv,
         DataTypes, Map
  <1> QED
    BY <1>1, Invariance, MonitorInvariance, StoreInvariance, PTL

(* A node stores only keys that the ring places on it (OnlyReplicasStore), *)
(* however often nodes die, come back and write each other off.            *)
THEOREM OnlyReplicas == Spec => []OnlyReplicasStore
  <1>1. StoreInv => OnlyReplicasStore
    BY DEF StoreInv
  <1> QED
    BY <1>1, StoreInvariance, PTL

-----------------------------------------------------------------------------
(* One replica per key, in a cluster whose nodes all run already, where no *)
(* node dies, no connect fails and no client leaves before its answer.     *)
OneReplica ==
    /\ ReplicationFactor = 1
    /\ Started = Node
    /\ ~Unreliable
    /\ ~Impatient
    /\ \A n \in Node : MaxCrashes[n] = 0

Primary(k) == Ring[k][1]

(* All nodes run, and trust each other. *)
Calm ==
    \A n \in Node :
        alive[n] /\ crashes[n] = 0 /\ \A m \in Node : view[n][m] = "UP"

(* Nobody who is owed an answer has gone. *)
AttachedQueue ==
    \A n \in Node : \A i \in 1 .. Len(queue[n]) :
        queue[n][i].req # None => queue[n][i].from # Gone

AttachedWorkers ==
    \A w \in Worker :
        /\ serving[w] # None /\ serving[w].req # None => serving[w].from # Gone
        /\ job[w] # None => serving[w].from # Gone

Decided(w) == job[w].ans # None \/ job[w].todo = <<>>

(* A worker whose answer is open is not at the primary, and has only the   *)
(* primary to ask.                                                         *)
Plan ==
    \A w \in Worker : job[w] # None /\ ~Decided(w) =>
        /\ job[w].req \in Request
        /\ w[1] # Primary(job[w].req.key)
        /\ job[w].todo = <<Primary(job[w].req.key)>>
        /\ job[w].acks = 0

(* A worker forwards to the primary. *)
Hop == \A w \in Worker : call[w].to # None => call[w].to = Primary(call[w].req.key)

ChainInv == Calm /\ AttachedQueue /\ AttachedWorkers /\ Plan /\ Hop

LEMMA NobodyDies ==
    ASSUME OneReplica, Calm
    PROVE  /\ \A n \in Node : alive[n] /\ ~Crash(n) /\ ~Start(n) /\ ~PingRefused(n)
           /\ \A n, m \in Node : view[n][m] = "UP"
           /\ \A w \in Worker : ~ForwardRefused(w)
  <1>1. /\ \A n \in Node : alive[n] /\ ~ConnectFails(n)
        /\ \A n, m \in Node : view[n][m] = "UP"
    BY DEF Calm, OneReplica, ConnectFails
  <1>2. \A n \in Node : ~Crash(n)
    <2>1. \A n \in Node : Crash(n) => crashes[n] < MaxCrashes[n]
      BY DEF Crash
    <2>2. \A n \in Node : crashes[n] = 0 /\ MaxCrashes[n] = 0
      BY DEF Calm, OneReplica
    <2> QED
      BY SMT, <2>1, <2>2
  <1>3. \A n \in Node : ~Start(n) /\ ~PingRefused(n)
    BY <1>1 DEF Start, PingRefused
  <1>4. \A w \in Worker : ~ForwardRefused(w)
    BY <1>1 DEF ForwardRefused
  <1> QED
    BY <1>1, <1>2, <1>3, <1>4

LEMMA TheReplica ==
    ASSUME OneReplica, MonitorInv, Calm, NEW n \in Node, NEW k \in Key
    PROVE  /\ Primary(k) \in Node
           /\ ReplicaNodes(n, k) = <<Primary(k)>>
           /\ Contains(ReplicaNodes(n, k), n) <=> Primary(k) = n
           /\ Without(ReplicaNodes(n, k), n) =
                 IF Primary(k) = n THEN <<>> ELSE <<Primary(k)>>
  <1>1. Ring[k] \in Seq(Node) /\ Ring[k] # <<>> /\ ReplicationFactor = 1
    BY ClusterAssumption DEF OneReplica
  <1>2. Len(Ring[k]) \in Nat /\ Len(Ring[k]) >= 1 /\ Primary(k) \in Node
    BY SMT, <1>1 DEF Primary
  <1>3. ReplicaCount(k) = 1
    <2> DEFINE l == Len(Ring[k])
    <2>1. ReplicaCount(k) = IF 1 < l THEN 1 ELSE l
      BY <1>1 DEF ReplicaCount
    <2>2. l \in Nat /\ l >= 1
      BY <1>2
    <2> HIDE DEF l
    <2> QED
      BY SMT, <2>1, <2>2
  <1>4. SubSeq(Ring[k], 1, 1) = <<Primary(k)>>
    <2> DEFINE s == Ring[k]
               t == SubSeq(s, 1, 1)
    <2>1. s \in Seq(Node) /\ Len(s) \in Nat /\ Len(s) >= 1
      BY <1>1, <1>2
    <2> HIDE DEF s
    <2>2. t \in Seq(Node) /\ Len(t) = 1 /\ t[1] = s[1]
      BY SMT, <2>1
    <2> HIDE DEF t
    <2>3. t = <<t[1]>>
      BY SMT, <2>2
    <2> QED
      BY <2>2, <2>3 DEF s, t, Primary
  <1>5. Primary(k) \in {m \in Node : view[n][m] # "DOWN"}
    BY <1>2, NobodyDies
  <1>6. ReplicaNodes(n, k) = <<Primary(k)>>
    BY <1>3, <1>4, <1>5, FilterOfOne DEF ReplicaNodes
  <1>7. Contains(<<Primary(k)>>, n) <=> Primary(k) = n
    BY SMT DEF Contains
  <1>8. Without(<<Primary(k)>>, n) = IF Primary(k) = n THEN <<>> ELSE <<Primary(k)>>
    <2>1. Primary(k) \in Node \ {n} <=> Primary(k) # n
      BY <1>2
    <2> QED
      BY <2>1, FilterOfOne DEF Without
  <1> QED
    BY <1>2, <1>6, <1>7, <1>8

(* What reading a mutation and a GET comes to with one replica. *)
LEMMA MutationRead ==
    ASSUME OneReplica, MonitorInv, Calm, NEW w \in Worker, HandleMutation(w),
           NEW r, r = serving[w].req, NEW n, n = w[1]
    PROVE  /\ serving[w] # None /\ r \in Request /\ IsMutation(r) /\ n \in Node
           /\ r.key \in Key
           /\ Read(w, [req |-> r,
                       todo |-> IF Primary(r.key) = n THEN <<>> ELSE <<Primary(r.key)>>,
                       acks |-> IF Primary(r.key) = n
                                      /\ (r.cmd = "PUT" => PutStatus(r.key, r.value) = "OK")
                                THEN 1 ELSE 0,
                       ans |-> None])
           /\ store' = IF Primary(r.key) = n
                       THEN [store EXCEPT ![n] = IF r.cmd = "PUT"
                                                 THEN Put(@, r.key, r.value)
                                                 ELSE Del(@, r.key)]
                       ELSE store
  <1>1. /\ serving[w] # None /\ r \in Request /\ IsMutation(r)
        /\ Read(w, [req |-> r, todo |-> Without(ReplicaNodes(n, r.key), n),
                    acks |-> IF Contains(ReplicaNodes(n, r.key), n)
                                   /\ (r.cmd = "PUT" => PutStatus(r.key, r.value) = "OK")
                             THEN 1 ELSE 0,
                    ans |-> None])
        /\ store' = IF Contains(ReplicaNodes(n, r.key), n)
                    THEN [store EXCEPT ![n] = IF r.cmd = "PUT"
                                              THEN Put(@, r.key, r.value)
                                              ELSE Del(@, r.key)]
                    ELSE store
    BY DEF HandleMutation
  <1>2. n \in Node /\ r.key \in Key
    BY <1>1, CallersDiffer, RequestFacts
  <1>3. /\ Contains(ReplicaNodes(n, r.key), n) <=> Primary(r.key) = n
        /\ Without(ReplicaNodes(n, r.key), n) =
              IF Primary(r.key) = n THEN <<>> ELSE <<Primary(r.key)>>
    BY <1>2, TheReplica
  <1> QED
    BY <1>1, <1>2, <1>3

LEMMA GetRead ==
    ASSUME OneReplica, MonitorInv, Calm, NEW w \in Worker, HandleGet(w),
           NEW r, r = serving[w].req, NEW n, n = w[1]
    PROVE  /\ serving[w] # None /\ r \in Request /\ r.cmd = "GET" /\ n \in Node
           /\ r.key \in Key /\ UNCHANGED store
           /\ Read(w, [req |-> r,
                       todo |-> IF Primary(r.key) = n THEN <<>> ELSE <<Primary(r.key)>>,
                       acks |-> 0,
                       ans |-> IF Primary(r.key) = n THEN GetAnswer(n, r.key) ELSE None])
  <1>1. /\ serving[w] # None /\ r \in Request /\ r.cmd = "GET" /\ UNCHANGED store
        /\ Read(w, [req |-> r,
                    todo |-> IF Primary(r.key) = n THEN <<>> ELSE ReplicaNodes(n, r.key),
                    acks |-> 0,
                    ans |-> IF Primary(r.key) = n THEN GetAnswer(n, r.key) ELSE None])
    BY DEF HandleGet, IsLocalKey, Primary
  <1>2. n \in Node /\ r.key \in Key
    BY <1>1, CallersDiffer, RequestFacts
  <1>3. ReplicaNodes(n, r.key) = <<Primary(r.key)>>
    BY <1>2, TheReplica
  <1> QED
    BY <1>1, <1>2, <1>3

-----------------------------------------------------------------------------
LEMMA ChainInit == ASSUME OneReplica PROVE Init => ChainInv
  <1> SUFFICES ASSUME Init PROVE ChainInv
    OBVIOUS
  <1>1. /\ \A n \in Node : queue[n] = <<>> /\ Len(queue[n]) = 0 /\ crashes[n] = 0
        /\ \A w \in Worker : serving[w] = None /\ job[w] = None
        /\ \A c \in Caller : call[c].to = None
    BY DEF Init, NoCall
  <1>2. Calm
    BY DEF Init, OneReplica, Calm
  <1> QED
    BY SMT, <1>1, <1>2 DEF ChainInv, AttachedQueue, AttachedWorkers, Plan, Hop

(* The calls of workers and their jobs stay as they are. *)
LEMMA PlansStay ==
    ASSUME ChainInv, \A w \in Worker : job'[w] # job[w] => job'[w] = None,
           \A w \in Worker : call'[w].to # None =>
               call'[w].to = call[w].to /\ call'[w].req = call[w].req
    PROVE  Plan' /\ Hop'
  <1>1. Plan'
    BY DEF ChainInv, Plan, Decided
  <1>2. Hop'
    BY DEF ChainInv, Hop
  <1> QED
    BY <1>1, <1>2

LEMMA OpenAttached ==
    ASSUME IndInv, ChainInv, NEW c \in Caller, NEW n \in Node, NEW r, Open(c, n, r),
           UNCHANGED <<serving, job>>
    PROVE  /\ AttachedQueue' /\ AttachedWorkers'
           /\ call'[c].to = n /\ call'[c].req = r
           /\ \A x \in Caller : x # c => call'[x] = call[x]
  <1> DEFINE conn == [from |-> c, req |-> r]
  <1>1. /\ queue' = [queue EXCEPT ![n] = Append(@, conn)]
        /\ call' = [call EXCEPT ![c] =
                [to |-> n, st |-> IF r = None THEN "quiet" ELSE "waiting",
                 req |-> r, ans |-> None]]
    BY DEF Open
  <1>2. queue \in [Node -> Seq(Connection)] /\ call = [x \in Caller |-> call[x]]
    BY DEF IndInv, Shapes
  <1>3. conn.from # Gone
    BY CallersDiffer
  <1> HIDE DEF conn
  <1>4. ASSUME NEW m \in Node, NEW i \in 1 .. Len(queue'[m])
        PROVE  queue'[m][i] = conn \/ (i \in 1 .. Len(queue[m]) /\ queue'[m][i] = queue[m][i])
    <2>1. queue[m] \in Seq(Connection) /\ queue'[m] \in {queue[m], Append(queue[m], conn)}
      BY <1>1, <1>2
    <2> QED
      BY SMT, <2>1
  <1>5. AttachedQueue'
    BY SMT, <1>3, <1>4 DEF ChainInv, AttachedQueue
  <1>6. AttachedWorkers'
    BY DEF ChainInv, AttachedWorkers
  <1> QED
    BY <1>1, <1>2, <1>5, <1>6

LEMMA CloseAttached ==
    ASSUME IndInv, ChainInv, NEW c \in Caller, call[c].st # "waiting", Close(c),
           \A w \in Worker : job'[w] # None => job[w] # None
    PROVE  /\ AttachedQueue' /\ AttachedWorkers' /\ call'[c] = NoCall
           /\ \A x \in Caller : x # c => call'[x] = call[x]
  <1>1. /\ queue' = CutQueue({c}) /\ serving' = CutServing({c})
        /\ call' = [call EXCEPT ![c] = NoCall] /\ call = [x \in Caller |-> call[x]]
    BY DEF Close, IndInv, Shapes
  <1>2. Shapes /\ {c} \in SUBSET Caller /\ Gone \notin Caller
    BY CallersDiffer DEF IndInv
  <1>3. \A n \in Node : /\ Len(queue'[n]) = Len(queue[n])
                        /\ \A i \in 1 .. Len(queue[n]) :
                              queue'[n][i] = CutOff(queue[n][i], {c})
    BY SMT, <1>1, <1>2, CutQueueFacts
  <1>4. \A w \in Worker : serving'[w] = CutOff(serving[w], {c})
    BY <1>1, <1>2, CutServingFacts
  <1>5. ASSUME NEW n \in Node, NEW i \in 1 .. Len(queue[n]), queue'[n][i].req # None
        PROVE  queue'[n][i].from # Gone
    <2>1. queue[n][i] \in Connection
      BY <1>2, QueueOrigins
    <2>2. /\ queue'[n][i].req = queue[n][i].req
          /\ queue'[n][i].from = IF queue[n][i].from \in {c} THEN Gone ELSE queue[n][i].from
      BY SMT, <2>1, <1>2, <1>3, CutOffFacts
    <2>3. queue[n][i].from # Gone /\ Linked(queue[n][i], n)
      BY <1>5, <2>2 DEF ChainInv, AttachedQueue, IndInv, QueueLinked
    <2>4. queue[n][i].from # c
      BY <1>5, <2>2, <2>3 DEF Linked
    <2> QED
      BY <2>2, <2>3, <2>4
  <1>6. ASSUME NEW w \in Worker
        PROVE  /\ serving'[w] # None /\ serving'[w].req # None => serving'[w].from # Gone
               /\ job'[w] # None => serving'[w].from # Gone
    <2>1. CASE serving[w] = None
      <3>1. serving'[w] = None /\ job[w] = None
        BY <2>1, <1>4, CutOffFacts DEF IndInv, JobLinked, CutOff
      <3> QED
        BY <3>1
    <2>2. CASE serving[w] # None
      <3>1. serving[w] \in Connection /\ Linked(serving[w], w[1])
        BY <2>2, <1>2, ServingOrigins DEF IndInv, ServingLinked
      <3>2. /\ serving'[w].req = serving[w].req
            /\ serving'[w].from = IF serving[w].from \in {c} THEN Gone ELSE serving[w].from
        BY SMT, <3>1, <1>2, <1>4, CutOffFacts
      <3>3. serving[w].req # None => serving[w].from # c /\ serving[w].from # Gone
        BY <2>2, <3>1 DEF Linked, ChainInv, AttachedWorkers
      <3>4. job[w] # None => serving[w].from # c /\ serving[w].from # Gone
        BY DEF IndInv, JobLinked, ChainInv, AttachedWorkers
      <3> QED
        BY <3>2, <3>3, <3>4
    <2> QED
      BY <2>1, <2>2
  <1>7. AttachedQueue'
    BY <1>3, <1>5 DEF AttachedQueue
  <1>8. AttachedWorkers'
    BY <1>6 DEF AttachedWorkers
  <1> QED
    BY <1>1, <1>7, <1>8

LEMMA ChainClients ==
    ASSUME OneReplica, IndInv, ChainInv, NEW c \in Client, ClientStep(c)
    PROVE  ChainInv'
  <1> USE CallersDiffer
  <1>1. UNCHANGED <<job, crashes>> /\ Calm'
    <2>1. UNCHANGED <<alive, view, job, crashes>>
      BY DEF ClientStep, ClientConnect, ClientSend, ClientReceive, ClientLeave
    <2> QED
      BY <2>1 DEF ChainInv, Calm
  <1>2. ASSUME \A x \in Caller : x # c => call'[x] = call[x], AttachedQueue', AttachedWorkers'
        PROVE  ChainInv'
    <2>1. Plan' /\ Hop'
      BY <1>1, <1>2, PlansStay
    <2> QED
      BY <1>1, <1>2, <2>1 DEF ChainInv
  <1>3. ASSUME NEW n \in Node, ClientConnect(c, n) PROVE ChainInv'
    <2>1. Open(c, n, None) /\ UNCHANGED <<serving, job>> /\ c \in Caller
      BY <1>3 DEF ClientConnect
    <2> QED
      BY SMT, <2>1, <1>2, OpenAttached
  <1>4. CASE ClientLeave(c)
    <2>1. Close(c) /\ call[c].st # "waiting" /\ c \in Caller
      BY <1>4 DEF ClientLeave, OneReplica
    <2> QED
      BY <2>1, <1>1, <1>2, CloseAttached
  <1>5. CASE ClientReceive(c)
    <2>1. /\ UNCHANGED <<queue, serving>>
          /\ call' = [call EXCEPT ![c] = [@ EXCEPT !.st = "quiet", !.req = None,
                                                   !.ans = None]]
      BY <1>5 DEF ClientReceive
    <2>2. \A x \in Caller : x # c => call'[x] = call[x]
      BY <2>1 DEF IndInv, Shapes
    <2>3. AttachedQueue'
      BY <2>1 DEF ChainInv, AttachedQueue
    <2>4. AttachedWorkers'
      BY <2>1, <1>1 DEF ChainInv, AttachedWorkers
    <2> QED
      BY <2>2, <2>3, <2>4, <1>2
  <1>6. ASSUME NEW r \in Request \cup {Ping}, ClientSend(c, r) PROVE ChainInv'
    <2> DEFINE Sent(conn) ==
                 IF conn # None /\ conn.from = c THEN [conn EXCEPT !.req = r] ELSE conn
    <2>1. /\ queue' = [n \in Node |-> [i \in 1 .. Len(queue[n]) |-> Sent(queue[n][i])]]
          /\ serving' = [w \in Worker |-> Sent(serving[w])]
          /\ call' = [call EXCEPT ![c] = [@ EXCEPT !.st = "waiting", !.req = r]]
      BY <1>6 DEF ClientSend
    <2>2. \A x \in Caller : x # c => call'[x] = call[x]
      BY <2>1 DEF IndInv, Shapes
    <2>3. ASSUME NEW conn \in Connection
          PROVE  /\ Sent(conn) # None /\ Sent(conn).from = conn.from
                 /\ conn.from = Gone => Sent(conn).req = conn.req
      BY NoneAssumption DEF Connection
    <2>4. Sent(None) = None
      OBVIOUS
    <2> HIDE DEF Sent
    <2>5. AttachedQueue'
      <3> SUFFICES ASSUME NEW n \in Node, NEW i \in 1 .. Len(queue'[n]),
                          queue'[n][i].req # None
                   PROVE  queue'[n][i].from # Gone
        BY DEF AttachedQueue
      <3>1. queue[n] \in Seq(Connection) /\ Len(queue[n]) \in Nat
        BY SMT DEF IndInv, Shapes
      <3>2. queue'[n] = [h \in 1 .. Len(queue[n]) |-> Sent(queue[n][h])]
        BY <2>1
      <3>3. i \in 1 .. Len(queue[n]) /\ queue'[n][i] = Sent(queue[n][i])
        BY SMT, <3>1, <3>2
      <3>4. queue[n][i] \in Connection
        BY SMT, <3>1, <3>3
      <3> QED
        BY SMT, <3>3, <3>4, <2>3 DEF ChainInv, AttachedQueue
    <2>6. AttachedWorkers'
      <3> SUFFICES ASSUME NEW w \in Worker
                   PROVE  /\ serving'[w] # None /\ serving'[w].req # None =>
                                serving'[w].from # Gone
                          /\ job'[w] # None => serving'[w].from # Gone
        BY DEF AttachedWorkers
      <3>1. serving'[w] = Sent(serving[w]) /\ (job[w] # None => serving[w] # None)
        BY <2>1 DEF IndInv, JobLinked
      <3>2. CASE serving[w] = None
        BY <3>1, <3>2, <2>4, <1>1
      <3>3. CASE serving[w] # None
        <4>1. serving[w] \in Connection
          BY <3>3 DEF IndInv, Shapes
        <4> QED
          BY SMT, <4>1, <3>1, <3>3, <2>3, <1>1 DEF ChainInv, AttachedWorkers
      <3> QED
        BY <3>2, <3>3
    <2> QED
      BY <2>2, <2>5, <2>6, <1>2
  <1> QED
    BY <1>3, <1>4, <1>5, <1>6 DEF ClientStep

LEMMA ChainMonitors ==
    ASSUME OneReplica, IndInv, MonitorInv, ChainInv, NEW n \in Node, MonitorStep(n)
    PROVE  ChainInv'
  <1> USE CallersDiffer
  <1> DEFINE me == <<n, None>>
  <1>0. me \in Caller /\ me \notin Worker /\ Worker \subseteq Caller
    OBVIOUS
  <1>1. UNCHANGED <<job, crashes>> /\ Calm'
    <2>1. UNCHANGED <<alive, job, crashes>>
      BY DEF MonitorStep, SkipSelf, PingSend, PingRefused, PingReturn
    <2>2. Calm /\ ~PingRefused(n)
      BY NobodyDies DEF ChainInv
    <2>3. CASE SkipSelf(n) \/ PingSend(n)
      <3>1. view' = view
        BY <2>3 DEF SkipSelf, PingSend
      <3> QED
        BY <2>1, <2>2, <3>1 DEF Calm
    (* A ping is answered OK, since nobody has died. *)
    <2>4. CASE PingReturn(n)
      <3> DEFINE m == Config[peer[n]]
      <3>1. /\ call[me].st = "answered"
            /\ view' = [view EXCEPT ![n] = NodeStatus(n, m, call[me].ans.status = "OK")]
        BY <2>4 DEF PingReturn
      <3>2. call[me].to # None
        BY <3>1, <1>0 DEF IndInv, ClosedIsQuiet
      <3>3. /\ call[me].to = m
            /\ call[me].ans.status = "OK" \/ crashes[call[me].to] > 0
        BY <3>1, <3>2 DEF MonitorInv, PingCalls, PingCall
      <3>4. m \in Node
        BY <1>0, <3>2, <3>3 DEF IndInv, Shapes, CallShape
      <3>5. call[me].ans.status = "OK"
        <4>1. crashes[m] = 0
          BY <2>2, <3>4 DEF Calm
        <4> QED
          BY SMT, <4>1, <3>3
      <3> HIDE DEF m
      <3>6. NodeStatus(n, m, call[me].ans.status = "OK") = [view[n] EXCEPT ![m] = "UP"]
        BY <3>5 DEF NodeStatus, Judge
      <3>7. view \in [Node -> [Node -> Status]]
        BY DEF MonitorInv, MonitorTypes
      <3>8. \A j, k \in Node : view'[j][k] = "UP"
        BY SMT, <3>1, <3>4, <3>6, <3>7, <2>2 DEF Calm
      <3> QED
        BY <2>1, <2>2, <3>8 DEF Calm
    <2> QED
      BY <2>1, <2>2, <2>3, <2>4 DEF MonitorStep
  <1>2. ASSUME \A x \in Caller : x # me => call'[x] = call[x],
               AttachedQueue', AttachedWorkers'
        PROVE  ChainInv'
    <2>1. Plan' /\ Hop'
      BY <1>0, <1>1, <1>2, PlansStay
    <2> QED
      BY <1>1, <1>2, <2>1 DEF ChainInv
  <1> HIDE DEF me
  <1>3. CASE SkipSelf(n) \/ PingRefused(n)
    <2>1. UNCHANGED <<queue, serving, call>>
      BY <1>3 DEF SkipSelf, PingRefused
    <2>2. AttachedQueue'
      BY <2>1 DEF ChainInv, AttachedQueue
    <2>3. AttachedWorkers'
      BY <2>1, <1>1 DEF ChainInv, AttachedWorkers
    <2> QED
      BY <2>1, <2>2, <2>3, <1>2
  <1>4. CASE PingSend(n)
    <2>1. PICK m \in Node : Open(me, m, Ping)
      BY <1>4 DEF PingSend, me
    <2>2. UNCHANGED <<serving, job>>
      BY <1>4 DEF PingSend
    <2> QED
      BY SMT, <2>1, <2>2, <1>0, <1>2, OpenAttached
  <1>5. CASE PingReturn(n)
    <2>1. Close(me) /\ call[me].st # "waiting"
      BY <1>5 DEF PingReturn, me
    <2> QED
      BY <2>1, <1>0, <1>1, <1>2, CloseAttached
  <1> QED
    BY <1>3, <1>4, <1>5 DEF MonitorStep

(* A worker reads a request: if its answer is open, the worker is not at   *)
(* the primary.                                                            *)
LEMMA ReadChain ==
    ASSUME IndInv, ChainInv, NEW w \in Worker, NEW j, Read(w, j), UNCHANGED crashes,
           serving[w].req # None,
           j.ans # None \/ j.todo = <<>> \/
              /\ j.req \in Request /\ j.acks = 0
              /\ w[1] # Primary(j.req.key) /\ j.todo = <<Primary(j.req.key)>>
    PROVE  ChainInv'
  <1>1. /\ serving[w] # None /\ UNCHANGED <<queue, call>>
        /\ serving' = [serving EXCEPT ![w] = [@ EXCEPT !.req = None]]
        /\ job' = [job EXCEPT ![w] = j]
        /\ UNCHANGED <<alive, view>>
    BY DEF Read
  <1>2. /\ serving \in [Worker -> Connection \cup {None}]
        /\ serving[w] \in Connection /\ job = [u \in Worker |-> job[u]]
    BY <1>1 DEF IndInv, Shapes
  <1>3. /\ serving'[w].from = serving[w].from /\ serving'[w].req = None /\ job'[w] = j
        /\ \A u \in Worker : u # w => serving'[u] = serving[u] /\ job'[u] = job[u]
    BY <1>1, <1>2 DEF Connection
  <1>4. serving[w].from # Gone
    BY <1>1 DEF ChainInv, AttachedWorkers
  <1>5. AttachedQueue' /\ Calm'
    BY <1>1 DEF ChainInv, AttachedQueue, Calm
  <1>6. AttachedWorkers'
    BY SMT, <1>3, <1>4 DEF ChainInv, AttachedWorkers
  <1>7. Plan'
    BY <1>3 DEF ChainInv, Plan, Decided
  <1>8. Hop'
    BY <1>1 DEF ChainInv, Hop
  <1> QED
    BY <1>5, <1>6, <1>7, <1>8 DEF ChainInv

LEMMA ChainWorkers ==
    ASSUME OneReplica, IndInv, MonitorInv, StoreInv, ChainInv, NEW w \in Worker,
           WorkerStep(w)
    PROVE  ChainInv'
  <1> USE CallersDiffer
  <1>a. UNCHANGED <<alive, view, crashes>>
    BY DEF WorkerStep, TakeConnection, EndConnection, HandlePing, HandleMutation,
       HandleGet, Read, GetLocal, Forward, ForwardRefused, ForwardReturn, Reply
  <1>0. /\ UNCHANGED crashes /\ Calm' /\ Calm
        /\ job = [u \in Worker |-> job[u]] /\ call = [c \in Caller |-> call[c]]
        /\ serving \in [Worker -> Connection \cup {None}]
        /\ queue \in [Node -> Seq(Connection)]
    BY <1>a DEF ChainInv, Calm, IndInv, Shapes
  <1>1. CASE TakeConnection(w)
    <2> DEFINE n == w[1]
    <2>1. /\ n \in Node /\ serving[w] = None /\ queue[n] # <<>>
          /\ serving' = [serving EXCEPT ![w] = Head(queue[n])]
          /\ queue' = [queue EXCEPT ![n] = Tail(@)]
          /\ UNCHANGED <<job, call>>
      BY <1>1 DEF TakeConnection
    <2> HIDE DEF n
    <2>2. queue[n] \in Seq(Connection)
      BY <2>1, <1>0
    <2>3. /\ Head(queue[n]) = queue[n][1] /\ 1 \in 1 .. Len(queue[n])
          /\ \A i \in 1 .. Len(Tail(queue[n])) :
                Tail(queue[n])[i] = queue[n][i + 1] /\ i + 1 \in 1 .. Len(queue[n])
      BY SMT, <2>1, <2>2
    <2>4. /\ queue'[n] = Tail(queue[n]) /\ serving'[w] = queue[n][1]
          /\ \A m \in Node : m # n => queue'[m] = queue[m]
          /\ \A u \in Worker : u # w => serving'[u] = serving[u]
      BY <2>1, <2>3, <1>0
    <2>5. AttachedQueue'
      <3> SUFFICES ASSUME NEW m \in Node, NEW i \in 1 .. Len(queue'[m]),
                          queue'[m][i].req # None
                   PROVE  queue'[m][i].from # Gone
        BY DEF AttachedQueue
      <3>1. CASE m # n
        <4>1. queue'[m] = queue[m]
          BY <3>1, <2>4
        <4> QED
          BY <4>1 DEF ChainInv, AttachedQueue
      <3>2. CASE m = n
        BY SMT, <3>2, <2>1, <2>3, <2>4 DEF ChainInv, AttachedQueue
      <3> QED
        BY <3>1, <3>2
    <2>6. job[w] = None
      BY <2>1 DEF IndInv, JobLinked
    <2>7. queue[n][1].req # None => queue[n][1].from # Gone
      BY <2>1, <2>3 DEF ChainInv, AttachedQueue
    <2>8. AttachedWorkers'
      BY SMT, <2>1, <2>4, <2>6, <2>7 DEF ChainInv, AttachedWorkers
    <2> QED
      BY <2>1, <2>5, <2>8, <1>0, PlansStay DEF ChainInv
  <1>2. CASE EndConnection(w)
    <2>1. /\ job[w] = None /\ UNCHANGED <<queue, job, call>>
          /\ serving' = [serving EXCEPT ![w] = None]
      BY <1>2 DEF EndConnection
    <2>2. serving'[w] = None /\ \A u \in Worker : u # w => serving'[u] = serving[u]
      BY <2>1, <1>0
    <2>3. AttachedQueue'
      BY <2>1 DEF ChainInv, AttachedQueue
    <2>4. AttachedWorkers'
      BY SMT, <2>1, <2>2 DEF ChainInv, AttachedWorkers
    <2> QED
      BY <2>1, <2>3, <2>4, <1>0, PlansStay DEF ChainInv
  <1>3. CASE HandlePing(w)
    <2> DEFINE j == [req |-> Ping, todo |-> <<>>, acks |-> 0, ans |-> Answer("OK")]
    <2>1. Read(w, j) /\ serving[w].req # None
      BY <1>3, NoneAssumption DEF HandlePing
    <2>2. j.todo = <<>>
      OBVIOUS
    <2> HIDE DEF j
    <2> QED
      BY <2>1, <2>2, <1>0, ReadChain
  <1>4. CASE HandleMutation(w)
    <2> DEFINE r == serving[w].req
               p == Primary(r.key)
               todo == IF p = w[1] THEN <<>> ELSE <<p>>
               acks == IF p = w[1] /\ (r.cmd = "PUT" => PutStatus(r.key, r.value) = "OK")
                       THEN 1 ELSE 0
               j == [req |-> r, todo |-> todo, acks |-> acks, ans |-> None]
    <2>1. r \in Request /\ Read(w, j) /\ r # None
      BY <1>0, <1>4, MutationRead, NoneAssumption
    <2>2. p # w[1] => todo = <<p>> /\ acks = 0
      OBVIOUS
    <2>3. p = w[1] => todo = <<>>
      OBVIOUS
    <2> HIDE DEF todo, acks, r
    <2>4. j.req = r /\ j.todo = todo /\ j.acks = acks
      OBVIOUS
    <2> HIDE DEF j
    <2>5. serving[w].req # None
      BY <2>1 DEF r
    <2> QED
      BY <2>1, <2>2, <2>3, <2>4, <2>5, <1>0, ReadChain
  <1>5. CASE HandleGet(w)
    <2> DEFINE r == serving[w].req
               p == Primary(r.key)
               todo == IF p = w[1] THEN <<>> ELSE <<p>>
               ans == IF p = w[1] THEN GetAnswer(w[1], r.key) ELSE None
               j == [req |-> r, todo |-> todo, acks |-> 0, ans |-> ans]
    <2>1. r \in Request /\ Read(w, j) /\ r # None
      BY <1>0, <1>5, GetRead, NoneAssumption
    <2>2. (p # w[1] => todo = <<p>>) /\ (p = w[1] => todo = <<>>)
      OBVIOUS
    <2> HIDE DEF todo, ans, r
    <2>3. j.req = r /\ j.todo = todo /\ j.acks = 0
      OBVIOUS
    <2> HIDE DEF j
    <2>4. serving[w].req # None
      BY <2>1 DEF r
    <2> QED
      BY <2>1, <2>2, <2>3, <2>4, <1>0, ReadChain
  <1>6. ASSUME job[w] # None, ~Decided(w)
        PROVE  /\ Primary(job[w].req.key) # w[1] /\ job[w].req \in Request
               /\ Head(job[w].todo) = Primary(job[w].req.key)
               /\ Tail(job[w].todo) = <<>>
    <2>1. /\ job[w].todo = <<Primary(job[w].req.key)>> /\ job[w].req \in Request
          /\ Primary(job[w].req.key) # w[1]
      BY <1>6 DEF ChainInv, Plan
    <2> QED
      BY SMT, <2>1
  <1>7. CASE GetLocal(w)
    BY <1>6, <1>7 DEF GetLocal, AtReplica, Decided
  <1>8. CASE Forward(w)
    <2>1. /\ job[w] # None /\ ~Decided(w) /\ UNCHANGED <<serving, job>>
          /\ \E m \in Node : Head(job[w].todo) = m /\ Open(w, m, job[w].req)
      BY <1>8 DEF Forward, AtReplica, Decided
    <2>2. PICK m \in Node : Head(job[w].todo) = m /\ Open(w, m, job[w].req)
      BY <2>1
    <2>3. m = Primary(job[w].req.key)
      BY <2>1, <2>2, <1>6
    <2>4. /\ AttachedQueue' /\ AttachedWorkers'
          /\ call'[w].to = m /\ call'[w].req = job[w].req
          /\ \A x \in Caller : x # w => call'[x] = call[x]
      BY SMT, <2>1, <2>2, OpenAttached
    <2>5. Plan'
      BY <2>1 DEF ChainInv, Plan, Decided
    <2>6. Hop'
      BY <2>3, <2>4 DEF ChainInv, Hop
    <2> QED
      BY <2>4, <2>5, <2>6, <1>0 DEF ChainInv
  <1>9. CASE ForwardReturn(w)
    <2>1. /\ call[w].st = "answered" /\ Close(w)
          /\ job' = [job EXCEPT ![w] = Learn(@, call[w].ans)]
      BY <1>9 DEF ForwardReturn
    <2>2. job[w] # None /\ ~Decided(w)
      BY <2>1 DEF IndInv, Forwarding, Decided
    <2>3. /\ job'[w] = Learn(job[w], call[w].ans)
          /\ \A u \in Worker : u # w => job'[u] = job[u]
      BY <2>1, <1>0
    <2>4. Learn(job[w], call[w].ans).todo = <<>>
      <3>1. /\ JobShape(job[w]) /\ JobTyped(job[w]) /\ job[w].todo # <<>>
            /\ call[w].ans \in Response
        BY <2>1, <2>2 DEF IndInv, Shapes, StoreInv, DataTypes, CallTyped, Decided
      <3> QED
        BY <3>1, <2>2, <1>6, LearnTyped
    <2>5. /\ AttachedQueue' /\ AttachedWorkers' /\ call'[w] = NoCall
          /\ \A x \in Caller : x # w => call'[x] = call[x]
      BY SMT, <2>1, <2>2, <2>3, CloseAttached
    <2>6. Plan'
      BY <2>3, <2>4 DEF ChainInv, Plan, Decided
    <2>7. Hop'
      BY SMT, <2>5 DEF ChainInv, Hop, NoCall
    <2> QED
      BY <2>5, <2>6, <2>7, <1>0 DEF ChainInv
  <1>10. CASE Reply(w)
    <2> DEFINE c == serving[w].from
               a == Outcome(job[w])
    <2>1. /\ job[w] # None /\ job' = [job EXCEPT ![w] = None]
          /\ UNCHANGED <<queue, serving>>
          /\ call' = IF c = Gone THEN call
                     ELSE [call EXCEPT ![c] = [@ EXCEPT !.st = "answered", !.ans = a]]
      BY <1>10 DEF Reply
    <2>2. c \in Caller \cup {Gone}
      BY <2>1, ServingOrigins DEF IndInv, JobLinked
    <2> HIDE DEF a, c
    <2>3. \A u \in Worker : job'[u] # job[u] => job'[u] = None
      BY <2>1, <1>0
    <2>4. ASSUME NEW u \in Worker
          PROVE  call'[u].to = call[u].to /\ call'[u].req = call[u].req
      <3>1. CallShape(call[u])
        BY DEF IndInv, Shapes
      <3>2. call'[u] \in {call[u], [call[u] EXCEPT !.st = "answered", !.ans = a]}
        BY <2>1, <2>2, <1>0
      <3> QED
        BY <3>1, <3>2 DEF CallShape
    <2>5. AttachedQueue'
      BY <2>1 DEF ChainInv, AttachedQueue
    <2>6. AttachedWorkers'
      BY <2>1, <2>3 DEF ChainInv, AttachedWorkers
    <2> QED
      BY <2>3, <2>4, <2>5, <2>6, <1>0, PlansStay DEF ChainInv
  <1> QED
    BY <1>0, <1>1, <1>2, <1>3, <1>4, <1>5, <1>7, <1>8, <1>9, <1>10, NobodyDies
       DEF WorkerStep

AllInv == IndInv /\ MonitorInv /\ StoreInv /\ ChainInv

LEMMA ChainInvariance == ASSUME OneReplica PROVE Spec => []AllInv
  <1>1. IndInv /\ MonitorInv /\ StoreInv /\ ChainInv /\ [Next]_vars => ChainInv'
    <2> SUFFICES ASSUME IndInv, MonitorInv, StoreInv, ChainInv, [Next]_vars
                 PROVE  ChainInv'
      OBVIOUS
    <2>1. CASE UNCHANGED vars
      <3>1. UNCHANGED <<alive, view, queue, serving, job, call, crashes>>
        BY <2>1 DEF vars
      <3>2. Plan' /\ Hop'
        BY <3>1, PlansStay
      <3>3. AttachedQueue'
        BY <3>1 DEF ChainInv, AttachedQueue
      <3>4. AttachedWorkers' /\ Calm'
        BY <3>1 DEF ChainInv, AttachedWorkers, Calm
      <3> QED
        BY <3>2, <3>3, <3>4 DEF ChainInv
    <2>2. CASE Next
      <3>1. Calm
        BY DEF ChainInv
      <3> QED
        BY <2>2, <3>1, ChainClients, ChainWorkers, ChainMonitors, NobodyDies DEF Next
    <2> QED
      BY <2>1, <2>2
  <1> QED
    BY <1>1, ChainInit, Invariance, MonitorInvariance, StoreInvariance, PTL
       DEF Spec, AllInv

-----------------------------------------------------------------------------
(* Who knows the answer to a client's request. *)
Busy(c, w) == With(c, w) /\ job[w] # None

Answers ==
    \A c \in Client :
        /\ (\A w \in Worker : ~Busy(c, w)) => AnswerTo(c) = {}
        /\ \A w \in Worker : Busy(c, w) /\ Decided(w) => AnswerTo(c) = {Outcome(job[w])}
        /\ \A w \in Worker : Busy(c, w) /\ ~Decided(w) =>
             /\ call[w].st = "answered" =>
                   AnswerTo(c) = {Outcome(Learn(job[w], call[w].ans))}
             /\ call[w].st # "answered" /\ (\A u \in Worker : ~Busy(w, u)) =>
                   AnswerTo(c) = {}
             /\ \A u \in Worker : Busy(w, u) =>
                   AnswerTo(c) = {Outcome(Learn(job[w], Outcome(job[u])))}

(* A worker has one caller's connection, and a caller has one worker. *)
LEMMA OneWorker ==
    ASSUME IndInv, NEW c \in Caller, NEW w \in Worker, NEW u \in Worker,
           With(c, w), With(c, u)
    PROVE  w = u
  BY DEF IndInv, OnePlace

(* A request that was forwarded is at its primary, and who has forwarded   *)
(* it waits.                                                               *)
LEMMA ForwardedOnce ==
    ASSUME IndInv, ChainInv, NEW w \in Worker, NEW u \in Worker, Busy(w, u)
    PROVE  /\ Decided(u) /\ call[w].st = "waiting"
           /\ job[w] # None /\ ~Decided(w) /\ job[w].req = job[u].req
           /\ u[1] = Primary(job[u].req.key)
  <1>1. w # Gone /\ w \in Caller /\ serving[u] # None /\ serving[u].from = w
    BY CallersDiffer DEF Busy, With
  <1>2. /\ call[w].st = "waiting" /\ call[w].req = job[u].req /\ call[w].to = u[1]
    BY <1>1 DEF Busy, IndInv, JobLinked, ServingLinked, Linked
  <1>3. u[1] = Primary(job[u].req.key)
    BY <1>2, CallersDiffer DEF ChainInv, Hop
  <1>4. Decided(u)
    BY <1>3 DEF Busy, ChainInv, Plan
  <1>5. job[w] # None /\ ~Decided(w) /\ job[w].req = call[w].req
    BY <1>2 DEF IndInv, Forwarding, Decided
  <1> QED
    BY <1>2, <1>3, <1>4, <1>5

LEMMA RemoteKnown ==
    ASSUME IndInv, ChainInv, NEW w \in Worker
    PROVE  /\ job[w] # None /\ Decided(w) => RemoteAnswer(w) = {}
           /\ call[w].st = "answered" => RemoteAnswer(w) = {call[w].ans}
           /\ call[w].st # "answered" /\ (\A u \in Worker : ~Busy(w, u)) =>
                 RemoteAnswer(w) = {}
           /\ \A u \in Worker : Busy(w, u) => RemoteAnswer(w) = {Outcome(job[u])}
  <1>1. ASSUME NEW a
        PROVE  a \in RemoteAnswer(w) <=>
                   \/ call[w].st = "answered" /\ a = call[w].ans
                   \/ \E u \in Worker : With(w, u) /\ a \in OwnAnswer(u)
    BY DEF RemoteAnswer, With
  <1>2. ASSUME NEW u \in Worker, NEW a
        PROVE  a \in OwnAnswer(u) <=> job[u] # None /\ Decided(u) /\ a = Outcome(job[u])
    BY DEF OwnAnswer, Decided
  <1>3. \A u \in Worker : Busy(w, u) =>
            Decided(u) /\ call[w].st = "waiting" /\ ~Decided(w)
    BY ForwardedOnce
  <1>4. call[w].st = "answered" => ~Decided(w)
    BY DEF IndInv, Forwarding, Decided
  <1>5. \A u, x \in Worker : Busy(w, u) /\ Busy(w, x) => u = x
    BY OneWorker DEF Busy
  <1>6. ASSUME NEW a
        PROVE  a \in RemoteAnswer(w) <=>
                   \/ call[w].st = "answered" /\ a = call[w].ans
                   \/ \E u \in Worker : Busy(w, u) /\ a = Outcome(job[u])
    BY <1>1, <1>2, <1>3 DEF Busy
  <1>7. job[w] # None /\ Decided(w) => RemoteAnswer(w) = {}
    BY <1>3, <1>4, <1>6
  <1>8. call[w].st = "answered" => RemoteAnswer(w) = {call[w].ans}
    BY <1>3, <1>6
  <1>9. call[w].st # "answered" /\ (\A u \in Worker : ~Busy(w, u)) => RemoteAnswer(w) = {}
    BY <1>6
  <1>10. ASSUME NEW u \in Worker, Busy(w, u) PROVE RemoteAnswer(w) = {Outcome(job[u])}
    <2>1. call[w].st # "answered"
      BY <1>3, <1>10
    <2>2. \A a : a \in RemoteAnswer(w) <=> a = Outcome(job[u])
      BY <1>5, <1>6, <1>10, <2>1
    <2> QED
      BY <2>2
  <1> QED
    BY <1>7, <1>8, <1>9, <1>10

LEMMA AnswersKnown == AllInv => Answers
  <1> SUFFICES ASSUME IndInv, ChainInv, NEW c \in Client
               PROVE
        /\ (\A w \in Worker : ~Busy(c, w)) => AnswerTo(c) = {}
        /\ \A w \in Worker : Busy(c, w) /\ Decided(w) => AnswerTo(c) = {Outcome(job[w])}
        /\ \A w \in Worker : Busy(c, w) /\ ~Decided(w) =>
             /\ call[w].st = "answered" =>
                   AnswerTo(c) = {Outcome(Learn(job[w], call[w].ans))}
             /\ call[w].st # "answered" /\ (\A u \in Worker : ~Busy(w, u)) =>
                   AnswerTo(c) = {}
             /\ \A u \in Worker : Busy(w, u) =>
                   AnswerTo(c) = {Outcome(Learn(job[w], Outcome(job[u])))}
    BY DEF AllInv, Answers
  <1> DEFINE Of(w) == OwnAnswer(w) \cup {Outcome(Learn(job[w], a)) : a \in RemoteAnswer(w)}
  <1>1. AnswerTo(c) = UNION {Of(w) : w \in {x \in Worker : Busy(c, x)}}
    <2>1. {x \in Worker : job[x] # None /\ serving[x] # None /\ serving[x].from = c}
              = {x \in Worker : Busy(c, x)}
      BY DEF Busy, With
    <2> QED
      BY <2>1 DEF AnswerTo
  <1>2. ASSUME NEW w \in Worker, Busy(c, w) PROVE AnswerTo(c) = Of(w)
    <2>1. \A x \in Worker : Busy(c, x) <=> x = w
      BY <1>2, OneWorker DEF Busy
    <2>2. {x \in Worker : Busy(c, x)} = {w}
      BY <2>1
    <2> HIDE DEF Of
    <2> QED
      BY <1>1, <2>2
  <1>3. (\A w \in Worker : ~Busy(c, w)) => AnswerTo(c) = {}
    BY <1>1
  <1>4. ASSUME NEW w \in Worker, Busy(c, w), Decided(w)
        PROVE  AnswerTo(c) = {Outcome(job[w])}
    <2>1. RemoteAnswer(w) = {} /\ OwnAnswer(w) = {Outcome(job[w])}
      BY <1>4, RemoteKnown DEF OwnAnswer, Busy, Decided
    <2> QED
      BY <1>2, <1>4, <2>1
  <1>5. ASSUME NEW w \in Worker, Busy(c, w), ~Decided(w)
        PROVE  AnswerTo(c) = {Outcome(Learn(job[w], a)) : a \in RemoteAnswer(w)}
    <2>1. OwnAnswer(w) = {}
      BY <1>5 DEF OwnAnswer, Decided
    <2> QED
      BY <1>2, <1>5, <2>1
  <1>6. ASSUME NEW w \in Worker, Busy(c, w), ~Decided(w), call[w].st = "answered"
        PROVE  AnswerTo(c) = {Outcome(Learn(job[w], call[w].ans))}
    <2>1. RemoteAnswer(w) = {call[w].ans}
      BY <1>6, RemoteKnown
    <2> QED
      BY SMT, <1>5, <1>6, <2>1
  <1>7. ASSUME NEW w \in Worker, Busy(c, w), ~Decided(w), call[w].st # "answered",
               \A u \in Worker : ~Busy(w, u)
        PROVE  AnswerTo(c) = {}
    <2>1. RemoteAnswer(w) = {}
      BY <1>7, RemoteKnown
    <2> QED
      BY <1>5, <1>7, <2>1
  <1>8. ASSUME NEW w \in Worker, Busy(c, w), ~Decided(w), NEW u \in Worker, Busy(w, u)
        PROVE  AnswerTo(c) = {Outcome(Learn(job[w], Outcome(job[u])))}
    <2>1. RemoteAnswer(w) = {Outcome(job[u])}
      BY <1>8, RemoteKnown
    <2> QED
      BY SMT, <1>5, <1>8, <2>1
  <1> QED
    BY <1>3, <1>4, <1>6, <1>7, <1>8

(* Outcome and Learn look at no variable. *)
LEMMA OutcomeIsConstant ==
    ASSUME NEW w \in Worker, NEW u \in Worker
    PROVE  /\ Outcome(job[w])' = Outcome(job'[w])
           /\ Outcome(Learn(job[w], call[w].ans))' = Outcome(Learn(job'[w], call'[w].ans))
           /\ Outcome(Learn(job[w], Outcome(job[u])))'
                 = Outcome(Learn(job'[w], Outcome(job'[u])))
  <1>1. Outcome(job[w])' = Outcome(job'[w])
    BY DEF Outcome, WriteQuorum, IsMutation, Answer
  <1>2. Outcome(Learn(job[w], call[w].ans))' = Outcome(Learn(job'[w], call'[w].ans))
    BY DEF Outcome, Learn, WriteQuorum, IsMutation, Answer
  <1>3. Outcome(Learn(job[w], Outcome(job[u])))'
            = Outcome(Learn(job'[w], Outcome(job'[u])))
    BY DEF Outcome, Learn, WriteQuorum, IsMutation, Answer
  <1> QED
    BY <1>1, <1>2, <1>3

(* What a client's answer depends on. *)
LEMMA AnswerStays ==
    ASSUME Answers, Answers', NEW c \in Client,
           \A x \in Worker : Busy(c, x)' <=> Busy(c, x),
           \A x \in Worker : Busy(c, x) =>
               /\ job'[x] = job[x]
               /\ call'[x].st = "answered" <=> call[x].st = "answered"
               /\ call[x].st = "answered" => call'[x].ans = call[x].ans
               /\ \A u \in Worker : Busy(x, u)' <=> Busy(x, u)
               /\ \A u \in Worker : Busy(x, u) => job'[u] = job[u]
    PROVE  AnswerTo(c)' = AnswerTo(c)
  <1>1. CASE \A x \in Worker : ~Busy(c, x)
    BY <1>1 DEF Answers
  <1>2. ASSUME NEW x \in Worker, Busy(c, x) PROVE AnswerTo(c)' = AnswerTo(c)
    <2>1. /\ Busy(c, x)' /\ job'[x] = job[x] /\ (Decided(x)' <=> Decided(x))
      BY <1>2 DEF Decided
    <2>2. CASE Decided(x)
      <3>1. AnswerTo(c) = {Outcome(job[x])}
        BY <1>2, <2>2 DEF Answers
      <3>2. AnswerTo(c)' = {Outcome(job'[x])}
        BY <2>1, <2>2, OutcomeIsConstant DEF Answers
      <3> QED
        BY <2>1, <3>1, <3>2
    <2>3. CASE ~Decided(x) /\ call[x].st = "answered"
      <3>1. AnswerTo(c) = {Outcome(Learn(job[x], call[x].ans))}
        BY <1>2, <2>3 DEF Answers
      <3>2. call'[x].st = "answered" /\ call'[x].ans = call[x].ans
        BY <1>2, <2>3
      <3>3. AnswerTo(c)' = {Outcome(Learn(job'[x], call'[x].ans))}
        BY <2>1, <2>3, <3>2, OutcomeIsConstant DEF Answers
      <3> QED
        BY <2>1, <3>1, <3>2, <3>3
    <2>4. CASE ~Decided(x) /\ call[x].st # "answered" /\ \A u \in Worker : ~Busy(x, u)
      <3>1. AnswerTo(c) = {}
        BY <1>2, <2>4 DEF Answers
      <3>2. call'[x].st # "answered" /\ \A u \in Worker : ~Busy(x, u)'
        BY <1>2, <2>4
      <3>3. AnswerTo(c)' = {}
        BY <2>1, <2>4, <3>2 DEF Answers
      <3> QED
        BY <3>1, <3>3
    <2>5. ASSUME ~Decided(x), NEW u \in Worker, Busy(x, u)
          PROVE  AnswerTo(c)' = AnswerTo(c)
      <3>1. job'[u] = job[u] /\ Busy(x, u)'
        BY <1>2, <2>5
      <3> QED
        <4>1. AnswerTo(c) = {Outcome(Learn(job[x], Outcome(job[u])))}
          BY SMT, <1>2, <2>5 DEF Answers
        <4>2. AnswerTo(c)' = {Outcome(Learn(job'[x], Outcome(job'[u])))}
          BY SMT, <2>1, <2>5, <3>1, OutcomeIsConstant DEF Answers
        <4> QED
          BY <2>1, <3>1, <4>1, <4>2
    <2> QED
      BY <2>2, <2>3, <2>4, <2>5
  <1> QED
    BY <1>1, <1>2

(* A client whose request worker w is not working on. *)
LEMMA Elsewhere ==
    ASSUME IndInv, Answers, Answers', NEW w \in Worker, NEW c \in Client,
           ~With(c, w), \A x \in Worker : Busy(c, x) => ~With(x, w),
           \A x \in Caller : With(x, w)' => With(x, w),
           \A u \in Worker : u # w => job'[u] = job[u],
           \A u \in Worker : u # w /\ job[u] # None =>
               serving'[u] # None /\ serving'[u].from = serving[u].from,
           \A x \in Worker : Busy(c, x) => call'[x] = call[x]
    PROVE  AnswerTo(c)' = AnswerTo(c)
  <1>1. \A u \in Worker : job[u] # None => serving[u] # None
    BY DEF IndInv, JobLinked
  <1>2. \A x \in Caller, u \in Worker : u # w => (Busy(x, u)' <=> Busy(x, u))
    BY <1>1 DEF Busy, With
  <1>3. \A x \in Worker : Busy(c, x)' <=> Busy(c, x)
    <2>1. ~Busy(c, w) /\ ~Busy(c, w)'
      BY DEF Busy
    <2> QED
      BY <2>1, <1>2
  <1>4. ASSUME NEW x \in Worker, Busy(c, x)
        PROVE  /\ job'[x] = job[x] /\ call'[x] = call[x]
               /\ \A u \in Worker : Busy(x, u)' <=> Busy(x, u)
               /\ \A u \in Worker : Busy(x, u) => job'[u] = job[u]
    <2>1. x # w
      BY <1>4 DEF Busy
    <2>2. ~Busy(x, w) /\ ~Busy(x, w)'
      BY <1>4 DEF Busy
    <2>3. \A u \in Worker : Busy(x, u)' <=> Busy(x, u)
      BY <2>2, <1>2
    <2> QED
      BY <2>1, <2>2, <2>3, <1>4
  <1> QED
    BY <1>3, <1>4, AnswerStays

(* A request whose answer is open has come from a client. *)
LEMMA OpenIsFromClient ==
    ASSUME AllInv, NEW w \in Worker, job[w] # None, ~Decided(w)
    PROVE  serving[w].from \in Client /\ Busy(serving[w].from, w)
  <1> USE DEF AllInv
  <1> DEFINE f == serving[w].from
  <1>1. serving[w] # None /\ f # Gone /\ f \in Caller
    <2>1. serving[w] # None /\ f # Gone
      BY DEF IndInv, JobLinked, ChainInv, AttachedWorkers
    <2> QED
      BY <2>1, ServingOrigins DEF IndInv
  <1>2. Busy(f, w)
    BY <1>1 DEF Busy, With
  <1> HIDE DEF f
  <1>3. f \notin Worker
    BY <1>2, ForwardedOnce
  <1>4. f \notin Monitor
    <2> SUFFICES ASSUME f \in Monitor PROVE FALSE
      OBVIOUS
    <2>1. PICK n \in Node : f = <<n, None>>
      BY SMT
    <2>2. call[f].req = job[w].req /\ call[f].to = w[1]
      BY <1>1 DEF f, IndInv, JobLinked, ServingLinked, Linked
    <2>3. call[f].req = Ping
      BY <2>1, <2>2, CallersDiffer DEF MonitorInv, PingCalls, PingCall
    <2>4. job[w].req \in Request
      BY DEF ChainInv, Plan
    <2> QED
      BY <2>2, <2>3, <2>4, PingNotRequest
  <1>5. f \in Client
    BY <1>1, <1>3, <1>4
  <1> QED
    BY <1>2, <1>5 DEF f

-----------------------------------------------------------------------------
(* The answers that a forwarding node passes on as they are. *)
Relayed(r, a) ==
    /\ IsMutation(r) => a \in {Answer("OK"), Answer("ERROR")}
    /\ ~IsMutation(r) => a.status = "OK" \/ a = Answer("NOT_FOUND")

LEMMA Relay ==
    ASSUME OneReplica, NEW j, JobShape(j), j.ans = None, j.acks = 0,
           NEW a \in Response, Relayed(j.req, a)
    PROVE  Outcome(Learn(j, a)) = a
  <1>0. a # None /\ WriteQuorum = 1
    BY SMT, NoneAssumption DEF OneReplica, WriteQuorum
  <1> DEFINE k == Learn(j, a)
  <1>1. CASE IsMutation(j.req)
    <2> DEFINE d == IF a.status \in {"OK", "NOT_FOUND"} THEN 1 ELSE 0
    <2>1. k = [j EXCEPT !.todo = Tail(@), !.acks = @ + d]
      BY <1>1 DEF Learn
    <2>2. a = Answer("OK") \/ a = Answer("ERROR")
      BY <1>1 DEF Relayed
    <2>3. (a = Answer("OK") => d = 1) /\ (a = Answer("ERROR") => d = 0)
      BY AnswerTyped
    <2> HIDE DEF d
    <2>4. k.ans = None /\ k.req = j.req /\ k.acks = 0 + d
      BY <2>1 DEF JobShape
    <2> HIDE DEF k
    <2>5. Outcome(k) = IF k.acks >= 1 THEN Answer("OK") ELSE Answer("ERROR")
      BY <2>4, <1>0, <1>1 DEF Outcome
    <2>6. CASE a = Answer("OK")
      <3>1. k.acks = 1
        BY SMT, <2>3, <2>4, <2>6
      <3> QED
        BY SMT, <3>1, <2>5, <2>6 DEF k
    <2>7. CASE a = Answer("ERROR")
      <3>1. k.acks = 0
        BY SMT, <2>3, <2>4, <2>7
      <3> QED
        BY SMT, <3>1, <2>5, <2>7 DEF k
    <2> QED
      BY <2>2, <2>6, <2>7
  <1>2. CASE ~IsMutation(j.req)
    <2>1. k.ans = (IF a.status = "OK" THEN a ELSE None) /\ k.req = j.req
      BY <1>2 DEF Learn, JobShape
    <2> HIDE DEF k
    <2>2. a.status # "OK" => a = Answer("NOT_FOUND")
      BY <1>2 DEF Relayed
    <2> QED
      BY <2>1, <2>2, <1>0, <1>2 DEF Outcome, k
  <1> QED
    BY <1>1, <1>2

(* What reading a request does at the primary of its key is what the       *)
(* request does to the one map.                                            *)
LEMMA MutationPerformed ==
    ASSUME OneReplica, StoreInv, NEW r \in Request, IsMutation(r), NEW n \in Node,
           n = Primary(r.key), NEW j,
           j = [req |-> r, todo |-> <<>>,
                acks |-> IF r.cmd = "PUT" => PutStatus(r.key, r.value) = "OK" THEN 1 ELSE 0,
                ans |-> None],
           store' = [store EXCEPT ![n] = IF r.cmd = "PUT" THEN Put(@, r.key, r.value)
                                                          ELSE Del(@, r.key)]
    PROVE  /\ AtomicMap' = Atomic!Apply(AtomicMap, r)
           /\ Outcome(j) = Atomic!Result(AtomicMap, r)
           /\ Outcome(j) \in Response /\ Relayed(r, Outcome(j))
  <1>1. /\ r.key \in Key /\ r.cmd \in {"PUT", "DELETE"}
        /\ (r.cmd = "PUT" => r.value \in Value)
    BY RequestFacts DEF IsMutation
  <1>2. store \in [Node -> Map] /\ \A k \in Key : Primary(k) \in Node
    <2>1. ASSUME NEW k \in Key PROVE Primary(k) \in Node
      <3>1. Ring[k] \in Seq(Node) /\ Ring[k] # <<>>
        BY ClusterAssumption
      <3> QED
        BY SMT, <3>1 DEF Primary
    <2> QED
      BY <2>1 DEF StoreInv, DataTypes
  <1>3. /\ AtomicMap = [k \in Key |-> store[Primary(k)][k]]
        /\ AtomicMap' = [k \in Key |-> store'[Primary(k)][k]]
    BY DEF AtomicMap, Primary
  <1>4. \A k \in Key : /\ Primary(k) # n => store'[Primary(k)] = store[Primary(k)]
                       /\ Primary(k) = n =>
                             store'[Primary(k)] =
                                IF r.cmd = "PUT" THEN Put(store[n], r.key, r.value)
                                                 ELSE Del(store[n], r.key)
    BY <1>2
  <1> DEFINE ok == PutStatus(r.key, r.value) = "OK"
  <1>5. CASE r.cmd = "PUT" /\ ok
    <2>1. Put(store[n], r.key, r.value) = [store[n] EXCEPT ![r.key] = r.value]
      BY <1>5 DEF Put
    <2>2. \A k \in Key :
              store'[Primary(k)][k] = IF k = r.key THEN r.value ELSE store[Primary(k)][k]
      BY SMT, <2>1, <1>1, <1>2, <1>4, <1>5 DEF Map
    <2>3. Atomic!Apply(AtomicMap, r) = [AtomicMap EXCEPT ![r.key] = r.value]
      BY <1>5 DEF Atomic!Apply, Atomic!Put, Atomic!PutStatus, PutStatus
    <2>4. AtomicMap' = Atomic!Apply(AtomicMap, r)
      BY <2>2, <2>3, <1>1, <1>3
    <2>5. Atomic!Result(AtomicMap, r) = Answer("OK")
      BY <1>5 DEF Atomic!Result, Atomic!PutStatus, PutStatus, Answer
    <2>6. j = [req |-> r, todo |-> <<>>, acks |-> 1, ans |-> None]
      BY <1>5
    <2>7. Outcome(j) = Answer("OK")
      BY SMT, <2>6 DEF Outcome, WriteQuorum, OneReplica
    <2> QED
      BY <2>4, <2>5, <2>7, AnswerTyped DEF Relayed
  <1>6. CASE r.cmd = "PUT" /\ ~ok
    <2>1. Put(store[n], r.key, r.value) = store[n]
      BY <1>6 DEF Put
    <2>2. \A k \in Key : store'[Primary(k)][k] = store[Primary(k)][k]
      BY <2>1, <1>4, <1>6
    <2>3. Atomic!Apply(AtomicMap, r) = AtomicMap
      BY <1>6 DEF Atomic!Apply, Atomic!Put, Atomic!PutStatus, PutStatus
    <2>4. AtomicMap' = Atomic!Apply(AtomicMap, r)
      BY <2>2, <2>3, <1>3
    <2>5. Atomic!Result(AtomicMap, r) = Answer("ERROR")
      BY <1>6 DEF Atomic!Result, Atomic!PutStatus, PutStatus, Answer
    <2>6. j = [req |-> r, todo |-> <<>>, acks |-> 0, ans |-> None]
      BY <1>6
    <2>7. Outcome(j) = Answer("ERROR")
      BY SMT, <2>6 DEF Outcome, WriteQuorum, OneReplica
    <2> QED
      BY <2>4, <2>5, <2>7, AnswerTyped DEF Relayed
  <1>7. CASE r.cmd = "DELETE"
    <2>1. Del(store[n], r.key) = [store[n] EXCEPT ![r.key] = NotFound]
      BY DEF Del
    <2>2. \A k \in Key :
              store'[Primary(k)][k] = IF k = r.key THEN NotFound ELSE store[Primary(k)][k]
      BY SMT, <2>1, <1>1, <1>2, <1>4, <1>7 DEF Map
    <2>3. Atomic!Apply(AtomicMap, r) = [AtomicMap EXCEPT ![r.key] = NotFound]
      BY <1>7 DEF Atomic!Apply, Atomic!Del
    <2>4. AtomicMap' = Atomic!Apply(AtomicMap, r)
      BY <2>2, <2>3, <1>1, <1>3
    <2>5. Atomic!Result(AtomicMap, r) = Answer("OK")
      BY <1>7 DEF Atomic!Result, Answer
    <2>6. j = [req |-> r, todo |-> <<>>, acks |-> 1, ans |-> None]
      BY <1>7
    <2>7. Outcome(j) = Answer("OK")
      BY SMT, <2>6 DEF Outcome, WriteQuorum, OneReplica
    <2> QED
      BY <2>4, <2>5, <2>7, AnswerTyped DEF Relayed
  <1> QED
    BY <1>1, <1>5, <1>6, <1>7

LEMMA MapStays == ASSUME store' = store PROVE AtomicMap' = AtomicMap
  BY DEF AtomicMap

LEMMA GetPerformed ==
    ASSUME OneReplica, StoreInv, NEW r \in Request, r.cmd = "GET", NEW n \in Node,
           n = Primary(r.key), NEW j, j.ans = GetAnswer(n, r.key), UNCHANGED store
    PROVE  /\ AtomicMap' = Atomic!Apply(AtomicMap, r)
           /\ Outcome(j) = Atomic!Result(AtomicMap, r)
           /\ Outcome(j) \in Response /\ Relayed(r, Outcome(j))
  <1>1. r.key \in Key /\ store[n] \in Map
    BY RequestFacts DEF StoreInv, DataTypes
  <1>2. GetAnswer(n, r.key) \in Response
    BY <1>1, MapFacts DEF GetAnswer
  <1>3. Outcome(j) = GetAnswer(n, r.key)
    BY <1>2, NoneAssumption DEF Outcome
  <1>4. AtomicMap[r.key] = store[n][r.key]
    BY <1>1 DEF AtomicMap, Primary
  <1>5. Atomic!Result(AtomicMap, r) = GetAnswer(n, r.key)
    BY <1>4 DEF Atomic!Result, Atomic!GetStatus, GetStatus, GetAnswer
  <1>6. Atomic!Apply(AtomicMap, r) = AtomicMap
    BY DEF Atomic!Apply
  <1>7. Relayed(r, GetAnswer(n, r.key))
    BY DEF Relayed, IsMutation, GetAnswer, GetStatus, Answer
  <1> QED
    BY <1>2, <1>3, <1>5, <1>6, <1>7, MapStays
=============================================================================
