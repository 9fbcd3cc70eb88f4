------------------------- MODULE ClusterAtomicProofs -------------------------
(***************************************************************************)
(* With one replica per key a cluster is one atomic map: each step of      *)
(* Cluster is a step of AtomicStore or none, by the invariants of          *)
(* ClusterProofs and ClusterStoreProofs.                                   *)
(***************************************************************************)
EXTENDS ClusterStoreProofs

(* Zenon is the prover, and a step for SMT says so. *)
USE Zenon DEF Caller, Worker, Monitor

-----------------------------------------------------------------------------
LEMMA OpStays ==
    ASSUME NEW c \in Client, call'[c] = call[c], AnswerTo(c)' = AnswerTo(c)
    PROVE  AtomicOp'[c] = AtomicOp[c]
  BY DEF AtomicOp

(* The clients other than d keep what they have. *)
LEMMA OpExcept ==
    ASSUME NEW d \in Client, NEW v, AtomicOp'[d] = v,
           \A c \in Client : c # d => AtomicOp'[c] = AtomicOp[c]
    PROVE  AtomicOp' = [AtomicOp EXCEPT ![d] = v]
  <1>1. AtomicOp = [c \in Client |-> AtomicOp[c]]
    BY DEF AtomicOp
  <1>2. AtomicOp' = [c \in Client |-> AtomicOp'[c]]
    BY DEF AtomicOp
  <1> HIDE DEF AtomicOp
  <1> QED
    BY <1>1, <1>2

LEMMA AtomicStutter ==
    ASSUME AtomicMap' = AtomicMap, \A c \in Client : AtomicOp'[c] = AtomicOp[c]
    PROVE  UNCHANGED Atomic!vars
  <1>1. AtomicOp = [c \in Client |-> AtomicOp[c]]
    BY DEF AtomicOp
  <1>2. AtomicOp' = [c \in Client |-> AtomicOp'[c]]
    BY DEF AtomicOp
  <1>3. AtomicOp' = AtomicOp
    BY <1>1, <1>2
  <1> QED
    BY <1>3 DEF Atomic!vars

(* Steps that leave the jobs, and who they are for. *)
LEMMA LinksStay ==
    ASSUME IndInv, Answers, Answers', UNCHANGED job,
           \A w \in Worker : job[w] # None =>
               serving'[w] # None /\ serving'[w].from = serving[w].from,
           \A w \in Worker :
               /\ call'[w].st = "answered" <=> call[w].st = "answered"
               /\ call[w].st = "answered" => call'[w].ans = call[w].ans
    PROVE  \A c \in Client : AnswerTo(c)' = AnswerTo(c)
  <1>1. \A x, w \in Client \cup Worker : w \in Worker => (Busy(x, w)' <=> Busy(x, w))
    BY DEF Busy, With, IndInv, JobLinked
  <1>2. ASSUME NEW c \in Client PROVE AnswerTo(c)' = AnswerTo(c)
    <2>1. \A x \in Worker : Busy(c, x)' <=> Busy(c, x)
      BY <1>1
    <2>2. \A x, u \in Worker : Busy(x, u)' <=> Busy(x, u)
      BY <1>1
    <2>3. \A x \in Worker : job'[x] = job[x]
      OBVIOUS
    <2> QED
      BY <2>1, <2>2, <2>3, AnswerStays
  <1> QED
    BY <1>2

(* Closing a connection that nobody works for. *)
LEMMA CloseLinks ==
    ASSUME IndInv, AttachedWorkers', NEW c \in Caller, Close(c), NEW w \in Worker,
           job[w] # None, job'[w] # None
    PROVE  serving'[w] # None /\ serving'[w].from = serving[w].from
  <1>1. Shapes /\ {c} \in SUBSET Caller
    BY DEF IndInv
  <1>2. serving'[w] = CutOff(serving[w], {c}) /\ serving[w] # None
    BY <1>1, CutServingFacts DEF Close, IndInv, JobLinked
  <1>3. serving[w] \in Connection
    BY <1>1, <1>2, ServingOrigins
  <1>4. /\ serving'[w] # None
        /\ serving'[w].from = IF serving[w].from \in {c} THEN Gone ELSE serving[w].from
    BY SMT, <1>1, <1>2, <1>3, CutOffFacts
  <1>5. serving'[w].from # Gone
    BY DEF AttachedWorkers
  <1> QED
    BY <1>4, <1>5

LEMMA RefineClients ==
    ASSUME OneReplica, AllInv, AllInv', Answers, Answers', NEW c \in Client, ClientStep(c)
    PROVE  [Atomic!Next]_(Atomic!vars)
  <1> USE CallersDiffer DEF AllInv
  <1>1. UNCHANGED <<store, job>>
    BY DEF ClientStep, ClientConnect, ClientSend, ClientReceive, ClientLeave
  <1>2. /\ call = [x \in Caller |-> call[x]] /\ CallShape(call[c]) /\ c \in Caller
    BY DEF IndInv, Shapes
  <1>3. \A x \in Caller : x # c => call'[x] = call[x]
    BY <1>2 DEF ClientStep, ClientConnect, ClientSend, ClientReceive, ClientLeave,
       Open, Close
  <1>4. ASSUME \A w \in Worker : job[w] # None =>
                   serving'[w] # None /\ serving'[w].from = serving[w].from
        PROVE  \A x \in Client : AnswerTo(x)' = AnswerTo(x)
    BY <1>1, <1>3, <1>4, LinksStay
  <1>5. ASSUME \A x \in Client : AnswerTo(x)' = AnswerTo(x)
        PROVE  \A x \in Client : x # c => AtomicOp'[x] = AtomicOp[x]
    BY <1>3, <1>5, OpStays
  <1>6. AtomicMap' = AtomicMap
    BY <1>1, MapStays
  <1>7. ASSUME call[c].st = "quiet", call'[c].st = "quiet",
               \A x \in Client : AnswerTo(x)' = AnswerTo(x)
        PROVE  UNCHANGED Atomic!vars
    <2>1. AtomicOp'[c] = AtomicOp[c]
      BY <1>7 DEF AtomicOp
    <2> QED
      BY <2>1, <1>5, <1>6, <1>7, AtomicStutter
  <1>8. ASSUME NEW n \in Node, ClientConnect(c, n) PROVE UNCHANGED Atomic!vars
    <2>1. Open(c, n, None) /\ UNCHANGED serving
      BY <1>8 DEF ClientConnect
    <2>2. call[c].st = "quiet" /\ call'[c].st = "quiet"
      BY <2>1, <1>2 DEF Open, IndInv, ClosedIsQuiet
    <2>3. \A x \in Client : AnswerTo(x)' = AnswerTo(x)
      BY <2>1, <1>4 DEF IndInv, JobLinked
    <2> QED
      BY <2>2, <2>3, <1>7
  <1>9. CASE ClientLeave(c)
    <2>1. Close(c) /\ call[c].st = "quiet"
      BY <1>9 DEF ClientLeave, OneReplica
    <2>2. call'[c].st = "quiet"
      BY <2>1, <1>2 DEF Close, NoCall
    <2>3. \A x \in Client : AnswerTo(x)' = AnswerTo(x)
      BY <2>1, <1>1, <1>2, <1>4, CloseLinks DEF ChainInv
    <2> QED
      BY <2>1, <2>2, <2>3, <1>7
  <1>10. CASE ClientReceive(c)
    <2>1. /\ call[c].st = "answered" /\ UNCHANGED serving
          /\ call' = [call EXCEPT ![c] = [@ EXCEPT !.st = "quiet", !.req = None,
                                                   !.ans = None]]
      BY <1>10 DEF ClientReceive
    <2>2. call'[c].st = "quiet"
      BY <2>1, <1>2 DEF CallShape
    <2>3. \A x \in Client : AnswerTo(x)' = AnswerTo(x)
      BY <2>1, <1>4 DEF IndInv, JobLinked
    <2>4. AtomicOp[c].st = "answered" /\ AtomicOp'[c] = Atomic!Idle
      BY <2>1, <2>2 DEF AtomicOp, Atomic!Idle
    <2>5. AtomicOp' = [AtomicOp EXCEPT ![c] = Atomic!Idle]
      BY <2>3, <2>4, <1>5, OpExcept
    <2>6. Atomic!Receive(c)
      BY <2>4, <2>5, <1>6 DEF Atomic!Receive
    <2> QED
      BY <2>6 DEF Atomic!Next
  <1>11. ASSUME NEW r \in Request \cup {Ping}, ClientSend(c, r)
         PROVE  Atomic!Next
    <2> DEFINE Sent(conn) ==
                 IF conn # None /\ conn.from = c THEN [conn EXCEPT !.req = r] ELSE conn
    <2>1. /\ call[c].st = "quiet" /\ serving' = [w \in Worker |-> Sent(serving[w])]
          /\ call' = [call EXCEPT ![c] = [@ EXCEPT !.st = "waiting", !.req = r]]
      BY <1>11 DEF ClientSend
    <2>2. call'[c].st = "waiting" /\ call'[c].req = r
      BY <2>1, <1>2 DEF CallShape
    <2>3. ASSUME NEW w \in Worker, job[w] # None
          PROVE  serving'[w] # None /\ serving'[w].from = serving[w].from
      <3>1. serving[w] \in Connection /\ serving[w] # None
        BY <2>3, ServingOrigins DEF IndInv, JobLinked
      <3> QED
        BY SMT, <2>1, <3>1, NoneAssumption DEF Connection
    <2>4. \A x \in Client : AnswerTo(x)' = AnswerTo(x)
      BY <2>3, <1>4
    <2>5. AnswerTo(c) = {}
      <3>1. ASSUME NEW w \in Worker PROVE ~Busy(c, w)
        BY SMT, <2>1 DEF Busy, With, IndInv, JobLinked
      <3> QED
        BY <3>1 DEF Answers
    <2>6. AtomicOp[c] = Atomic!Idle /\ AtomicOp'[c] = Atomic!Sent(r)
      BY <2>1, <2>2, <2>4, <2>5 DEF AtomicOp, Atomic!Idle, Atomic!Sent
    <2>7. AtomicOp' = [AtomicOp EXCEPT ![c] = Atomic!Sent(r)]
      BY <2>4, <2>6, <1>5, OpExcept
    <2>8. Atomic!Send(c, r)
      BY <2>6, <2>7, <1>6 DEF Atomic!Send
    <2> QED
      BY <2>8 DEF Atomic!Next
  <1> QED
    BY <1>8, <1>9, <1>10, <1>11 DEF ClientStep

(* No client waits for a monitor. *)
LEMMA RefineMonitors ==
    ASSUME OneReplica, AllInv, AllInv', Answers, Answers', NEW n \in Node, MonitorStep(n)
    PROVE  UNCHANGED Atomic!vars
  <1> USE CallersDiffer DEF AllInv
  <1> DEFINE me == <<n, None>>
  <1>0. me \in Caller /\ me \notin Worker /\ me \notin Client
    BY CallerAssumption
  <1>1. UNCHANGED <<store, job>>
    BY DEF MonitorStep, SkipSelf, PingSend, PingRefused, PingReturn
  <1>2. call = [x \in Caller |-> call[x]]
    BY DEF IndInv, Shapes
  <1>3. \A x \in Caller : x # me => call'[x] = call[x]
    BY <1>2 DEF MonitorStep, SkipSelf, PingSend, PingRefused, PingReturn, Open, Close
  <1>4. ASSUME NEW w \in Worker, job[w] # None
        PROVE  serving'[w] # None /\ serving'[w].from = serving[w].from
    <2>1. CASE UNCHANGED serving
      BY <2>1, <1>4 DEF IndInv, JobLinked
    <2>2. CASE Close(me)
      BY <2>2, <1>0, <1>1, <1>4, CloseLinks DEF ChainInv
    <2> QED
      BY <2>1, <2>2 DEF MonitorStep, SkipSelf, PingSend, PingRefused, PingReturn
  <1> HIDE DEF me
  <1>5. \A w \in Worker : call'[w] = call[w]
    BY <1>0, <1>3
  <1>6. \A c \in Client : AnswerTo(c)' = AnswerTo(c)
    BY <1>1, <1>4, <1>5, LinksStay
  <1>7. \A c \in Client : call'[c] = call[c]
    BY <1>0, <1>3
  <1> QED
    BY <1>1, <1>6, <1>7, OpStays, MapStays, AtomicStutter

(* Taking a connection, dropping one and forwarding change nothing yet. *)
LEMMA RefineQuiet ==
    ASSUME AllInv, AllInv', Answers, Answers', NEW w \in Worker,
           TakeConnection(w) \/ EndConnection(w) \/ Forward(w)
    PROVE  UNCHANGED Atomic!vars
  <1> USE CallersDiffer DEF AllInv
  <1>1. UNCHANGED <<store, job>>
    BY DEF TakeConnection, EndConnection, Forward
  <1>2. /\ call = [x \in Caller |-> call[x]]
        /\ serving \in [Worker -> Connection \cup {None}]
    BY DEF IndInv, Shapes
  <1>3. ASSUME NEW u \in Worker, job[u] # None
        PROVE  serving'[u] # None /\ serving'[u].from = serving[u].from
    <2>1. serving[u] # None
      BY <1>3 DEF IndInv, JobLinked
    <2>2. CASE Forward(w)
      BY <2>1, <2>2 DEF Forward
    <2>3. CASE TakeConnection(w) \/ EndConnection(w)
      <3>1. u # w
        BY <2>1, <2>3, <1>3 DEF TakeConnection, EndConnection
      <3>2. serving'[u] = serving[u]
        BY <3>1, <2>3, <1>2 DEF TakeConnection, EndConnection
      <3> QED
        BY <3>2, <2>1
    <2> QED
      BY <2>2, <2>3
  <1>4. /\ \A x \in Caller : x # w => call'[x] = call[x]
        /\ call'[w] = call[w] \/ (call[w].st # "answered" /\ call'[w].st # "answered")
    <2>1. CASE TakeConnection(w) \/ EndConnection(w)
      BY <2>1 DEF TakeConnection, EndConnection
    <2>2. CASE Forward(w)
      <3>1. PICK m \in Node : Open(w, m, job[w].req)
        BY <2>2 DEF Forward
      <3>2. call[w].to = None /\ call[w].st = "quiet"
        BY <3>1 DEF Open, IndInv, ClosedIsQuiet
      <3>3. call' = [call EXCEPT ![w] =
                [to |-> m, st |-> IF job[w].req = None THEN "quiet" ELSE "waiting",
                 req |-> job[w].req, ans |-> None]]
        BY <3>1 DEF Open
      <3>4. call'[w].st # "answered"
        BY <3>3, <1>2
      <3> QED
        BY <3>2, <3>3, <3>4, <1>2
    <2> QED
      BY <2>1, <2>2
  <1>5. \A c \in Client : AnswerTo(c)' = AnswerTo(c)
    BY <1>1, <1>3, <1>4, LinksStay
  <1>6. \A c \in Client : call'[c] = call[c]
    BY <1>4
  <1> QED
    BY <1>1, <1>5, <1>6, OpStays, MapStays, AtomicStutter

LEMMA RefineForwardReturn ==
    ASSUME AllInv, AllInv', Answers, Answers', NEW w \in Worker, ForwardReturn(w)
    PROVE  UNCHANGED Atomic!vars
  <1> USE CallersDiffer DEF AllInv
  <1>1. /\ call[w].st = "answered" /\ Close(w) /\ UNCHANGED store
        /\ job' = [job EXCEPT ![w] = Learn(@, call[w].ans)]
    BY DEF ForwardReturn
  <1>2. job[w] # None /\ ~Decided(w) /\ job[w].ans = None /\ job[w].todo # <<>>
    BY <1>1 DEF IndInv, Forwarding, Decided
  <1>3. /\ job = [u \in Worker |-> job[u]] /\ call = [x \in Caller |-> call[x]]
        /\ JobShape(job[w])
    BY <1>2 DEF IndInv, Shapes
  <1>4. /\ job'[w] = Learn(job[w], call[w].ans)
        /\ \A u \in Worker : u # w => job'[u] = job[u]
    BY <1>1, <1>3
  <1>5. JobTyped(job[w]) /\ call[w].ans \in Response
    BY <1>1, <1>2 DEF StoreInv, DataTypes, CallTyped
  <1>6. job'[w] # None /\ job'[w].todo = <<>>
    <2> DEFINE j == Learn(job[w], call[w].ans)
    <2>0. JobTyped(j) /\ j.todo = Tail(job[w].todo) /\ JobShape(j)
      BY <1>2, <1>3, <1>5, LearnTyped, LearnFacts
    <2> HIDE DEF j
    <2>1. /\ JobTyped(job'[w]) /\ job'[w].todo = Tail(job[w].todo)
          /\ JobShape(job'[w])
      BY <2>0, <1>4 DEF j
    <2>2. job'[w] \in Job
      BY <2>1 DEF JobTyped, JobShape, Job
    <2>3. Tail(job[w].todo) = <<>>
      <3>1. job[w].todo = <<Primary(job[w].req.key)>>
        BY <1>2 DEF ChainInv, Plan
      <3> QED
        BY SMT, <3>1
    <2> QED
      BY <2>1, <2>2, <2>3, NoneAssumption
  <1>7. \A x \in Caller : x # w => call'[x] = call[x]
    BY <1>1, <1>3 DEF Close
  <1>8. \A u \in Worker : job[u] # None =>
            serving'[u] # None /\ serving'[u].from = serving[u].from
    BY <1>1, <1>4, <1>6, CloseLinks DEF ChainInv
  <1>9. PICK f \in Client : f = serving[w].from /\ Busy(f, w)
    BY <1>2, OpenIsFromClient
  <1>10. AnswerTo(f)' = AnswerTo(f)
    <2>1. AnswerTo(f) = {Outcome(Learn(job[w], call[w].ans))}
      BY <1>1, <1>2, <1>9 DEF Answers
    <2>2. Busy(f, w)' /\ Decided(w)'
      BY <1>2, <1>6, <1>8, <1>9 DEF Busy, With, Decided
    <2>3. AnswerTo(f)' = {Outcome(job'[w])}
      BY <2>2, OutcomeIsConstant DEF Answers
    <2> QED
      BY <2>1, <2>3, <1>4
  <1>11. ASSUME NEW c \in Client, c # f PROVE AnswerTo(c)' = AnswerTo(c)
    <2>1. ~With(c, w) /\ \A x \in Worker : ~With(x, w)
      BY <1>9, <1>11, CallerAssumption DEF With
    <2>2. \A x \in Caller : With(x, w)' => With(x, w)
      BY <1>2, <1>8 DEF With, IndInv, JobLinked
    <2>3. \A x \in Worker : Busy(c, x) => call'[x] = call[x]
      BY <2>1, <1>7 DEF Busy
    <2> QED
      BY SMT, <2>1, <2>2, <2>3, <1>4, <1>8, Elsewhere
  <1>12. \A c \in Client : call'[c] = call[c] /\ AnswerTo(c)' = AnswerTo(c)
    BY <1>7, <1>10, <1>11
  <1> QED
    BY <1>1, <1>12, OpStays, MapStays, AtomicStutter

LEMMA RefineReply ==
    ASSUME AllInv, AllInv', Answers, Answers', NEW w \in Worker, Reply(w)
    PROVE  [Atomic!Next]_(Atomic!vars)
  <1> USE CallersDiffer DEF AllInv
  <1>0. PICK f : f = serving[w].from
    OBVIOUS
  <1> DEFINE a == Outcome(job[w])
  <1>1. /\ job[w] # None /\ Decided(w) /\ UNCHANGED <<store, serving>>
        /\ job' = [job EXCEPT ![w] = None]
        /\ call' = IF f = Gone THEN call
                   ELSE [call EXCEPT ![f] = [@ EXCEPT !.st = "answered", !.ans = a]]
    BY <1>0 DEF Reply, Decided
  <1>2. f # Gone /\ f \in Caller /\ serving[w] # None
    BY <1>0, <1>1, ServingOrigins DEF IndInv, JobLinked, ChainInv, AttachedWorkers
  <1>3. /\ job = [u \in Worker |-> job[u]] /\ call = [x \in Caller |-> call[x]]
        /\ CallShape(call[f])
    BY <1>2 DEF IndInv, Shapes
  <1>4. call[f].st = "waiting" /\ call[f].req = job[w].req /\ Busy(f, w)
    BY <1>0, <1>1, <1>2 DEF IndInv, JobLinked, Busy, With
  <1>5. /\ job'[w] = None /\ \A u \in Worker : u # w => job'[u] = job[u]
        /\ call'[f].st = "answered" /\ call'[f].ans = a /\ call'[f].req = call[f].req
        /\ \A x \in Caller : x # f => call'[x] = call[x]
    BY <1>1, <1>2, <1>3 DEF CallShape
  <1>6. AtomicMap' = AtomicMap
    BY <1>1, MapStays
  <1>7. \A u \in Worker : job[u] # None =>
            serving'[u] # None /\ serving'[u].from = serving[u].from
    BY <1>1 DEF IndInv, JobLinked
  <1>8. ASSUME NEW c \in Client, c # f, \A x \in Worker : Busy(c, x) => x # f
        PROVE  AtomicOp'[c] = AtomicOp[c]
    <2>1. ~With(c, w) /\ \A x \in Worker : Busy(c, x) => ~With(x, w)
      BY <1>0, <1>8 DEF With
    <2>2. \A x \in Caller : With(x, w)' => With(x, w)
      BY <1>1 DEF With
    <2>3. \A x \in Worker : Busy(c, x) => call'[x] = call[x]
      BY <1>5, <1>8
    <2>4. AnswerTo(c)' = AnswerTo(c)
      BY SMT, <2>1, <2>2, <2>3, <1>5, <1>7, Elsewhere
    <2>5. call'[c] = call[c]
      BY <1>5, <1>8
    <2> QED
      BY <2>4, <2>5, OpStays
  <1>9. CASE f \in Client
    <2>1. AnswerTo(f) = {a}
      BY <1>1, <1>4, <1>9 DEF Answers
    <2>2. (CHOOSE x \in AnswerTo(f) : TRUE) = a /\ AnswerTo(f) # {}
      BY <2>1
    <2> HIDE DEF a
    <2>3. AtomicOp[f] = [st |-> "applied", req |-> call[f].req, ans |-> a]
      BY <2>2, <1>4, <1>9 DEF AtomicOp
    <2>4. AtomicOp'[f] = [st |-> "answered", req |-> call[f].req, ans |-> a]
      BY <1>5, <1>9 DEF AtomicOp
    <2>5. \A c \in Client : c # f => AtomicOp'[c] = AtomicOp[c]
      BY <1>8, <1>9, CallerAssumption
    <2>6. AtomicOp' = [AtomicOp EXCEPT ![f] = Atomic!Answered(call[f].req, a)]
      BY <2>4, <2>5, <1>9, OpExcept DEF Atomic!Answered
    <2>7. /\ AtomicOp[f].st = "applied" /\ AtomicOp[f].req = call[f].req
          /\ AtomicOp[f].ans = a
      BY SMT, <2>3
    <2>8. Atomic!Respond(f)
      BY <2>6, <2>7, <1>6 DEF Atomic!Respond
    <2> QED
      BY <2>8, <1>9 DEF Atomic!Next
  <1>10. CASE f \in Monitor
    <2>1. \A c \in Client : c # f /\ \A x \in Worker : x # f
      BY <1>10, CallerAssumption
    <2> QED
      BY <2>1, <1>6, <1>8, AtomicStutter
  <1>11. CASE f \in Worker
    <2>1. job[f] # None /\ ~Decided(f)
      BY <1>4, <1>11, ForwardedOnce
    <2>2. PICK c \in Client : c = serving[f].from /\ Busy(c, f)
      BY <2>1, <1>11, OpenIsFromClient
    <2>3. f # w
      BY <2>1, <1>1
    <2>4. AnswerTo(c) = {Outcome(Learn(job[f], Outcome(job[w])))}
      BY SMT, <2>1, <2>2, <1>4, <1>11 DEF Answers
    <2>5. Busy(c, f)' /\ ~Decided(f)' /\ job'[f] = job[f]
      BY <2>1, <2>2, <2>3, <1>1, <1>5, <1>11 DEF Busy, With, Decided
    <2>6. AnswerTo(c)' = {Outcome(Learn(job'[f], call'[f].ans))}
      BY <2>5, <1>5, <1>11, OutcomeIsConstant DEF Answers
    <2>7. AnswerTo(c)' = AnswerTo(c) /\ call'[c] = call[c]
      BY SMT, <2>4, <2>5, <2>6, <1>5, <1>11, CallerAssumption
    <2>8. AtomicOp'[c] = AtomicOp[c]
      BY <2>7, OpStays
    <2>9. ASSUME NEW d \in Client, d # c PROVE AtomicOp'[d] = AtomicOp[d]
      <3>1. d # f /\ \A x \in Worker : Busy(d, x) => x # f
        BY <2>2, <2>9, <1>11, CallerAssumption DEF Busy, With
      <3> QED
        BY <3>1, <1>8
    <2> QED
      BY <2>8, <2>9, <1>6, AtomicStutter
  <1> QED
    BY <1>2, <1>9, <1>10, <1>11

(* Worker w reads request r, and knows the answer at once. *)
LEMMA RefineRead ==
    ASSUME OneReplica, AllInv, AllInv', Answers, Answers', NEW w \in Worker,
           NEW r \in Request \cup {Ping}, serving[w] # None, serving[w].req = r,
           NEW j, Read(w, j), j.req = r, j # None, j.ans # None \/ j.todo = <<>>,
           AtomicMap' = Atomic!Apply(AtomicMap, r),
           Outcome(j) = Atomic!Result(AtomicMap, r),
           Outcome(j) \in Response, r \in Request => Relayed(r, Outcome(j)),
           r = Ping => UNCHANGED store
    PROVE  [Atomic!Next]_(Atomic!vars)
  <1> USE CallersDiffer DEF AllInv
  <1>0. PICK f : f = serving[w].from
    OBVIOUS
  <1>1. /\ job[w] = None /\ UNCHANGED call
        /\ serving' = [serving EXCEPT ![w] = [@ EXCEPT !.req = None]]
        /\ job' = [job EXCEPT ![w] = j]
    BY DEF Read
  <1>2. /\ job = [u \in Worker |-> job[u]]
        /\ serving \in [Worker -> Connection \cup {None}]
        /\ serving[w] \in Connection /\ r # None
    BY NoneAssumption DEF IndInv, Shapes
  <1>3. /\ job'[w] = j /\ \A u \in Worker : u # w => job'[u] = job[u]
        /\ serving'[w] # None /\ serving'[w].from = f
        /\ \A u \in Worker : u # w => serving'[u] = serving[u]
    <2>1. /\ job'[w] = j /\ \A u \in Worker : u # w => job'[u] = job[u]
          /\ serving'[w] = [serving[w] EXCEPT !.req = None]
          /\ \A u \in Worker : u # w => serving'[u] = serving[u]
      BY <1>1, <1>2
    <2>2. serving'[w] \in Connection /\ serving'[w].from = f
      BY <2>1, <1>0, <1>2 DEF Connection
    <2> QED
      BY <2>1, <2>2, NoneAssumption
  <1>4. f \in Caller /\ f # Gone
    BY <1>0, <1>2, ServingOrigins DEF IndInv, ChainInv, AttachedWorkers
  <1>5. call[f].st = "waiting" /\ call[f].req = r /\ call[f].to = w[1]
    BY <1>0, <1>2, <1>4 DEF IndInv, ServingLinked, Linked
  <1>6. With(f, w) /\ Busy(f, w)' /\ Decided(w)'
    BY <1>0, <1>3 DEF With, Busy, Decided
  <1>7. \A u \in Worker : u # w /\ job[u] # None =>
            serving'[u] # None /\ serving'[u].from = serving[u].from
    BY <1>3 DEF IndInv, JobLinked
  <1>8. ASSUME NEW c \in Client, c # f, \A x \in Worker : Busy(c, x) => x # f
        PROVE  AtomicOp'[c] = AtomicOp[c]
    <2>1. ~With(c, w) /\ \A x \in Worker : Busy(c, x) => ~With(x, w)
      BY <1>0, <1>8 DEF With
    <2>2. \A x \in Caller : With(x, w)' => With(x, w)
      BY <1>0, <1>3 DEF With
    <2>3. AnswerTo(c)' = AnswerTo(c)
      BY SMT, <2>1, <2>2, <1>1, <1>3, <1>7, Elsewhere
    <2> QED
      BY <2>3, <1>1, OpStays
  <1>9. ASSUME NEW c \in Client, AnswerTo(c) = {}, AnswerTo(c)' = {Outcome(j)},
               call[c].st = "waiting", call[c].req = r,
               \A d \in Client : d # c => AtomicOp'[d] = AtomicOp[d]
        PROVE  Atomic!Next
    <2> DEFINE a == Outcome(j)
    <2>1. AnswerTo(c)' # {} /\ (CHOOSE x \in AnswerTo(c)' : TRUE) = a
      BY <1>9
    <2> HIDE DEF a
    <2>2. AtomicOp[c] = [st |-> "sent", req |-> r, ans |-> None]
      BY <1>9 DEF AtomicOp
    <2>3. AtomicOp'[c] = [st |-> "applied", req |-> r, ans |-> a]
      BY <2>1, <1>1, <1>9 DEF AtomicOp
    <2>4. AtomicOp' = [AtomicOp EXCEPT ![c] = Atomic!Applied(r, a)]
      BY <2>3, <1>9, OpExcept DEF Atomic!Applied
    <2>5. AtomicOp[c].st = "sent" /\ AtomicOp[c].req = r
      BY SMT, <2>2
    <2>6. a = Atomic!Result(AtomicMap, r)
      BY DEF a
    <2>7. Atomic!Perform(c)
      BY <2>4, <2>5, <2>6 DEF Atomic!Perform
    <2> QED
      BY <2>7 DEF Atomic!Next
  <1>10. CASE f \in Client
    <2>1. \A x \in Worker : ~Busy(f, x)
      BY <1>1, <1>4, <1>6, OneWorker DEF Busy
    <2>2. AnswerTo(f) = {}
      BY <2>1, <1>10 DEF Answers
    <2>3. AnswerTo(f)' = {Outcome(j)}
      BY <1>3, <1>6, <1>10, OutcomeIsConstant DEF Answers
    <2>4. \A d \in Client : d # f => AtomicOp'[d] = AtomicOp[d]
      BY <1>8, <1>10, CallerAssumption
    <2> QED
      BY <2>2, <2>3, <2>4, <1>5, <1>9, <1>10
  <1>11. CASE f \in Monitor
    <2>1. \A c \in Client : c # f /\ \A x \in Worker : x # f
      BY <1>11, CallerAssumption
    <2>2. r = Ping
      <3>1. PICK n \in Node : f = <<n, None>>
        BY SMT, <1>11
      <3> QED
        BY <3>1, <1>5 DEF MonitorInv, PingCalls, PingCall
    <2> QED
      BY <2>1, <2>2, <1>8, MapStays, AtomicStutter
  <1>12. CASE f \in Worker
    <2>1. /\ job[f] # None /\ ~Decided(f) /\ job[f].req = r
          /\ job[f].ans = None
      BY <1>5, <1>12 DEF IndInv, Forwarding, Decided
    <2>2. JobShape(job[f]) /\ job[f].acks = 0 /\ r \in Request
      BY SMT, <2>1, <1>12 DEF IndInv, Shapes, ChainInv, Plan
    <2>3. PICK c \in Client : c = serving[f].from /\ Busy(c, f)
      BY <2>1, <1>12, OpenIsFromClient
    <2>4. f # w
      BY <2>1, <1>1
    <2>5. \A u \in Worker : ~Busy(f, u)
      BY <1>1, <1>4, <1>6, OneWorker DEF Busy
    <2>6. AnswerTo(c) = {}
      BY <2>1, <2>3, <2>5, <1>5, <1>12 DEF Answers
    <2>7. Busy(c, f)' /\ ~Decided(f)' /\ job'[f] = job[f]
      BY <2>1, <2>3, <2>4, <1>3, <1>12 DEF Busy, With, Decided
    <2>8. AnswerTo(c)' = {Outcome(Learn(job'[f], Outcome(job'[w])))}
      BY SMT, <2>7, <1>6, <1>12, OutcomeIsConstant DEF Answers
    <2>9. Outcome(Learn(job[f], Outcome(j))) = Outcome(j)
      BY SMT, <2>1, <2>2, Relay
    <2>10. AnswerTo(c)' = {Outcome(j)}
      BY <2>7, <2>8, <2>9, <1>3
    <2>11. call[c].st = "waiting" /\ call[c].req = r
      <3>1. serving[f] # None /\ serving[f].from # Gone
        BY <2>3, <1>12 DEF Busy, With, ChainInv, AttachedWorkers
      <3> QED
        BY <3>1, <2>1, <2>3, <1>12 DEF IndInv, JobLinked
    <2>12. ASSUME NEW d \in Client, d # c PROVE AtomicOp'[d] = AtomicOp[d]
      <3>1. d # f /\ \A x \in Worker : Busy(d, x) => x # f
        BY <2>3, <2>12, <1>12, CallerAssumption DEF Busy, With
      <3> QED
        BY <3>1, <1>8
    <2> QED
      BY <2>6, <2>10, <2>11, <2>12, <1>9
  <1> QED
    BY <1>4, <1>10, <1>11, <1>12

(* Worker w reads a request that it has to forward. *)
LEMMA RefineReadOpen ==
    ASSUME AllInv, AllInv', Answers, Answers', NEW w \in Worker,
           NEW r \in Request, serving[w] # None, serving[w].req = r,
           NEW j, Read(w, j), j.req = r, j # None, j.ans = None, j.todo # <<>>,
           w[1] # Primary(r.key), UNCHANGED store
    PROVE  UNCHANGED Atomic!vars
  <1> USE CallersDiffer DEF AllInv
  <1>0. PICK f : f = serving[w].from
    OBVIOUS
  <1>1. /\ job[w] = None /\ UNCHANGED call
        /\ serving' = [serving EXCEPT ![w] = [@ EXCEPT !.req = None]]
        /\ job' = [job EXCEPT ![w] = j]
    BY DEF Read
  <1>2. /\ job = [u \in Worker |-> job[u]]
        /\ serving \in [Worker -> Connection \cup {None}]
        /\ serving[w] \in Connection /\ r # None
    BY NoneAssumption DEF IndInv, Shapes
  <1>3. /\ job'[w] = j /\ \A u \in Worker : u # w => job'[u] = job[u]
        /\ serving'[w] # None /\ serving'[w].from = f
        /\ \A u \in Worker : u # w => serving'[u] = serving[u]
    <2>1. /\ job'[w] = j /\ \A u \in Worker : u # w => job'[u] = job[u]
          /\ serving'[w] = [serving[w] EXCEPT !.req = None]
          /\ \A u \in Worker : u # w => serving'[u] = serving[u]
      BY <1>1, <1>2
    <2>2. serving'[w] \in Connection /\ serving'[w].from = f
      BY <2>1, <1>0, <1>2 DEF Connection
    <2> QED
      BY <2>1, <2>2, NoneAssumption
  <1>4. f \in Caller /\ f # Gone
    BY <1>0, <1>2, ServingOrigins DEF IndInv, ChainInv, AttachedWorkers
  <1>5. call[f].st = "waiting" /\ call[f].req = r /\ call[f].to = w[1]
    BY <1>0, <1>2, <1>4 DEF IndInv, ServingLinked, Linked
  <1>6. f \notin Worker
    BY <1>5 DEF ChainInv, Hop
  <1>7. With(f, w) /\ Busy(f, w)' /\ ~Decided(w)'
    BY <1>0, <1>3 DEF With, Busy, Decided
  <1>8. \A u \in Worker : u # w /\ job[u] # None =>
            serving'[u] # None /\ serving'[u].from = serving[u].from
    BY SMT, <1>3 DEF IndInv, JobLinked
  <1>9. ASSUME NEW c \in Client PROVE AnswerTo(c)' = AnswerTo(c)
    <2>1. CASE c = f
      <3>1. \A x \in Worker : ~Busy(f, x)
        BY <1>1, <1>4, <1>7, OneWorker DEF Busy
      <3>2. AnswerTo(c) = {}
        BY <2>1, <3>1 DEF Answers
      <3>3. call[w].st # "answered"
        BY <1>1 DEF IndInv, Forwarding
      <3>4. ASSUME NEW u \in Worker PROVE ~Busy(w, u)'
        <4>1. CASE u = w
          BY <4>1, <1>3, <1>6 DEF Busy, With
        <4>2. CASE u # w
          <5>1. ~Busy(w, u)
            BY <1>1, ForwardedOnce
          <5> QED
            BY <4>2, <5>1, <1>3 DEF Busy, With
        <4> QED
          BY <4>1, <4>2
      <3>5. call'[w].st # "answered"
        BY <3>3, <1>1
      <3>6. AnswerTo(c)' = {}
        BY <2>1, <3>4, <3>5, <1>7 DEF Answers
      <3> QED
        BY <3>2, <3>6
    <2>2. CASE c # f
      <3>1. ~With(c, w) /\ \A x \in Worker : ~With(x, w)
        BY <1>0, <1>6, <2>2 DEF With
      <3>2. \A x \in Caller : With(x, w)' => With(x, w)
        BY <1>0, <1>3 DEF With
      <3> QED
        BY SMT, <3>1, <3>2, <1>1, <1>3, <1>8, Elsewhere
    <2> QED
      BY <2>1, <2>2
  <1> QED
    BY <1>1, <1>9, OpStays, MapStays, AtomicStutter

LEMMA RefineWorkers ==
    ASSUME OneReplica, AllInv, AllInv', Answers, Answers', NEW w \in Worker, WorkerStep(w)
    PROVE  [Atomic!Next]_(Atomic!vars)
  <1>0. MonitorInv /\ StoreInv /\ Calm
    BY DEF AllInv, ChainInv
  <1>1. CASE HandlePing(w)
    <2> DEFINE j == [req |-> Ping, todo |-> <<>>, acks |-> 0, ans |-> Answer("OK")]
    <2>1. serving[w] # None /\ serving[w].req = Ping /\ Read(w, j) /\ UNCHANGED store
      BY <1>1 DEF HandlePing
    <2>2. Answer("OK") \in Response /\ Answer("OK") # None
      BY AnswerTyped, NoneAssumption
    <2>3. j \in Job
      BY SMT, <2>2 DEF Job
    <2>4. j # None /\ j.req = Ping /\ j.todo = <<>> /\ j.ans = Answer("OK")
      BY <2>3, NoneAssumption
    <2> HIDE DEF j
    <2>5. Outcome(j) = Answer("OK")
      BY <2>2, <2>4 DEF Outcome
    <2>6. /\ Atomic!Result(AtomicMap, Ping) = Answer("OK")
          /\ Atomic!Apply(AtomicMap, Ping) = AtomicMap
      BY DEF Atomic!Result, Atomic!Apply, Ping, Answer
    <2>7. AtomicMap' = Atomic!Apply(AtomicMap, Ping)
      BY <2>1, <2>6, MapStays
    <2> QED
      BY <2>1, <2>2, <2>4, <2>5, <2>6, <2>7, PingNotRequest, RefineRead
  <1>2. CASE HandleMutation(w)
    <2> DEFINE r == serving[w].req
               p == Primary(r.key)
               ok == r.cmd = "PUT" => PutStatus(r.key, r.value) = "OK"
               todo == IF p = w[1] THEN <<>> ELSE <<p>>
               acks == IF p = w[1] /\ ok THEN 1 ELSE 0
               j == [req |-> r, todo |-> todo, acks |-> acks, ans |-> None]
    <2>1. /\ serving[w] # None /\ r \in Request /\ IsMutation(r) /\ w[1] \in Node
          /\ r.key \in Key /\ Read(w, j)
          /\ store' = IF p = w[1]
                      THEN [store EXCEPT ![w[1]] = IF r.cmd = "PUT"
                                                   THEN Put(@, r.key, r.value)
                                                   ELSE Del(@, r.key)]
                      ELSE store
      BY SMT, <1>0, <1>2, MutationRead
    <2>2. p \in Node
      BY <1>0, <2>1, TheReplica
    <2>3. todo \in Seq(Node) /\ acks \in Nat
      BY SMT, <2>2
    <2>4. j \in Job
      BY <2>1, <2>3 DEF Job
    <2>5. CASE p = w[1]
      <3>1. j = [req |-> r, todo |-> <<>>, acks |-> IF ok THEN 1 ELSE 0, ans |-> None]
        BY <2>5
      <3>2. j.todo = <<>> /\ j.req = r
        BY <2>5
      <3>3. store' = [store EXCEPT ![w[1]] = IF r.cmd = "PUT"
                                             THEN Put(@, r.key, r.value)
                                             ELSE Del(@, r.key)]
        BY <2>1, <2>5
      <3> HIDE DEF j, todo, acks
      <3>4. /\ AtomicMap' = Atomic!Apply(AtomicMap, r)
            /\ Outcome(j) = Atomic!Result(AtomicMap, r)
            /\ Outcome(j) \in Response /\ Relayed(r, Outcome(j))
        BY <1>0, <2>1, <2>5, <3>1, <3>3, MutationPerformed
      <3>5. j # None /\ r # Ping
        BY <2>1, <2>4, NoneAssumption, PingNotRequest
      <3> QED
        BY <2>1, <3>2, <3>4, <3>5, RefineRead
    <2>6. CASE p # w[1]
      <3>1. j.ans = None /\ j.todo # <<>> /\ j.req = r /\ UNCHANGED store
        BY <2>1, <2>6
      <3> HIDE DEF j, todo, acks
      <3>2. j # None
        BY <2>4, NoneAssumption
      <3> QED
        BY <2>1, <2>6, <3>1, <3>2, RefineReadOpen
    <2> QED
      BY <2>5, <2>6
  <1>3. CASE HandleGet(w)
    <2> DEFINE r == serving[w].req
               p == Primary(r.key)
               todo == IF p = w[1] THEN <<>> ELSE <<p>>
               ans == IF p = w[1] THEN GetAnswer(w[1], r.key) ELSE None
               j == [req |-> r, todo |-> todo, acks |-> 0, ans |-> ans]
    <2>1. /\ serving[w] # None /\ r \in Request /\ r.cmd = "GET" /\ w[1] \in Node
          /\ r.key \in Key /\ Read(w, j) /\ UNCHANGED store
      BY <1>0, <1>3, GetRead
    <2>2. p \in Node
      BY <1>0, <2>1, TheReplica
    <2>3. GetAnswer(w[1], r.key) \in Response
      BY <1>0, <2>1, MapFacts DEF StoreInv, DataTypes, GetAnswer
    <2>4. todo \in Seq(Node) /\ ans \in Response \cup {None}
      BY SMT, <2>2, <2>3
    <2>5. j \in Job
      BY <2>1, <2>4 DEF Job
    <2>6. CASE p = w[1]
      <3>1. j.todo = <<>> /\ j.req = r /\ j.ans = GetAnswer(w[1], r.key)
        BY <2>6
      <3> HIDE DEF j, todo, ans
      <3>2. /\ AtomicMap' = Atomic!Apply(AtomicMap, r)
            /\ Outcome(j) = Atomic!Result(AtomicMap, r)
            /\ Outcome(j) \in Response /\ Relayed(r, Outcome(j))
        BY <1>0, <2>1, <2>6, <3>1, GetPerformed
      <3>3. j # None /\ r # Ping
        BY <2>1, <2>5, NoneAssumption, PingNotRequest
      <3> QED
        BY <2>1, <3>1, <3>2, <3>3, RefineRead
    <2>7. CASE p # w[1]
      <3>1. j.ans = None /\ j.todo # <<>> /\ j.req = r
        BY <2>7
      <3> HIDE DEF j, todo, ans
      <3>2. j # None
        BY <2>5, NoneAssumption
      <3> QED
        BY <2>1, <2>7, <3>1, <3>2, RefineReadOpen
    <2> QED
      BY <2>6, <2>7
  <1>4. ~GetLocal(w)
    <2> SUFFICES ASSUME GetLocal(w) PROVE FALSE
      OBVIOUS
    <2>1. /\ job[w] # None /\ ~Decided(w) /\ Head(job[w].todo) = w[1]
      BY DEF GetLocal, AtReplica, Decided
    <2>2. /\ job[w].todo = <<Primary(job[w].req.key)>>
          /\ w[1] # Primary(job[w].req.key)
      BY <2>1 DEF AllInv, ChainInv, Plan
    <2> QED
      BY SMT, <2>1, <2>2
  <1> QED
    BY <1>0, <1>1, <1>2, <1>3, <1>4, NobodyDies, RefineQuiet, RefineForwardReturn,
       RefineReply DEF WorkerStep

(* With one replica per key, once all nodes run, and while none dies, no   *)
(* connect fails and no client leaves early, the cluster is one atomic map *)
(* (IsAtomicStore), whatever the number of nodes, workers, clients and     *)
(* keys, whichever nodes the clients use, and with or without the health   *)
(* monitors: each request takes effect once, at the primary, and is        *)
(* answered with what it did there (replication_manager.cpp:12-112).       *)
THEOREM OneReplicaIsAtomic == ASSUME OneReplica PROVE Spec => IsAtomicStore
  <1>1. Init => Atomic!Init
    <2> SUFFICES ASSUME Init PROVE Atomic!Init
      OBVIOUS
    <2>1. ASSUME NEW k \in Key PROVE Ring[k][1] \in Node
      <3>1. Ring[k] \in Seq(Node) /\ Ring[k] # <<>>
        BY ClusterAssumption
      <3> QED
        BY SMT, <3>1
    <2>2. AtomicMap = Atomic!EmptyMap
      BY <2>1 DEF Init, AtomicMap, EmptyMap, Atomic!EmptyMap
    <2>3. \A c \in Client : call[c].st = "quiet"
      BY DEF Init, NoCall
    <2>4. AtomicOp = [c \in Client |-> Atomic!Idle]
      BY <2>3 DEF AtomicOp, Atomic!Idle
    <2> QED
      BY <2>2, <2>4 DEF Atomic!Init
  <1>2. AllInv /\ AllInv' /\ Answers /\ Answers' /\ [Next]_vars
            => [Atomic!Next]_(Atomic!vars)
    <2> SUFFICES ASSUME AllInv, AllInv', Answers, Answers', [Next]_vars
                 PROVE  [Atomic!Next]_(Atomic!vars)
      OBVIOUS
    <2>1. CASE UNCHANGED vars
      <3>1. UNCHANGED <<store, serving, job, call>> /\ IndInv
        BY <2>1 DEF vars, AllInv
      <3>2. \A w \in Worker : job[w] # None =>
                serving'[w] # None /\ serving'[w].from = serving[w].from
        BY <3>1 DEF IndInv, JobLinked
      <3>3. \A c \in Client : AnswerTo(c)' = AnswerTo(c) /\ call'[c] = call[c]
        BY <3>1, <3>2, LinksStay
      <3> QED
        BY <3>1, <3>3, OpStays, MapStays, AtomicStutter
    <2>2. CASE Next
      <3>1. MonitorInv /\ Calm
        BY DEF AllInv, ChainInv
      <3> QED
        BY <2>2, <3>1, RefineClients, RefineWorkers, RefineMonitors, NobodyDies DEF Next
    <2> QED
      BY <2>1, <2>2
  <1> QED
    BY <1>1, <1>2, AnswersKnown, ChainInvariance, PTL DEF Spec, IsAtomicStore, Atomic!Spec
==============================================================================
