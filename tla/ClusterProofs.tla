---------------------------- MODULE ClusterProofs ----------------------------
(***************************************************************************)
(* Proofs about Cluster, for any nodes, pools, clients, keys, ring,        *)
(* replication factor and bounds.  The invariant follows a request along   *)
(* the chain of connections it is forwarded on: what a worker handles is   *)
(* what the caller at the other end still waits for.                       *)
(***************************************************************************)
EXTENDS Cluster, TLAPS

(* Zenon is the prover, and a step for SMT says so. *)
USE Zenon DEF Caller, Worker, Monitor

(* The parts of TypeOK that the argument needs. *)
JobShape(j) ==
    /\ j = [req |-> j.req, todo |-> j.todo, acks |-> j.acks, ans |-> j.ans]
    /\ j.req \in Request \cup {Ping}
    /\ j.acks \in Nat

CallShape(x) ==
    /\ x = [to |-> x.to, st |-> x.st, req |-> x.req, ans |-> x.ans]
    /\ x.to \in Node \cup {None}
    /\ x.st \in {"quiet", "waiting", "answered"}

Shapes ==
    /\ queue \in [Node -> Seq(Connection)]
    /\ serving \in [Worker -> Connection \cup {None}]
    /\ job = [w \in Worker |-> job[w]]
    /\ \A w \in Worker : job[w] # None => JobShape(job[w])
    /\ call = [c \in Caller |-> call[c]]
    /\ \A c \in Caller : CallShape(call[c])

(* A connection at node n belongs to a caller that has it open, and a      *)
(* request on it is the one its caller waits for.                          *)
Linked(conn, n) ==
    conn.from # Gone =>
        /\ call[conn.from].to = n
        /\ conn.req # None => /\ call[conn.from].st = "waiting"
                              /\ call[conn.from].req = conn.req

QueueLinked ==
    \A n \in Node : \A i \in 1 .. Len(queue[n]) : Linked(queue[n][i], n)

ServingLinked ==
    \A w \in Worker : serving[w] # None => Linked(serving[w], w[1])

(* So does a request that has been read. *)
JobLinked ==
    \A w \in Worker : job[w] # None =>
        /\ serving[w] # None
        /\ serving[w].req = None
        /\ serving[w].from # Gone =>
              /\ call[serving[w].from].st = "waiting"
              /\ call[serving[w].from].req = job[w].req

(* A worker that waits for another node forwards the request it handles. *)
Forwarding ==
    \A w \in Worker : call[w].st # "quiet" =>
        /\ job[w] # None
        /\ job[w].ans = None
        /\ job[w].todo # <<>>
        /\ call[w].req = job[w].req

(* Only a client keeps a connection open without a request on it. *)
ClosedIsQuiet ==
    \A c \in Caller :
        /\ call[c].to = None => call[c].st = "quiet"
        /\ c \in Worker /\ call[c].st = "quiet" => call[c].to = None

With(c, w) == serving[w] # None /\ serving[w].from = c

InQueue(c, n) == \E i \in 1 .. Len(queue[n]) : queue[n][i].from = c

(* OneConnectionOnePlace, place by place. *)
OnePlace ==
    \A c \in Caller :
        /\ \A n \in Node : \A i, j \in 1 .. Len(queue[n]) :
              queue[n][i].from = c /\ queue[n][j].from = c => i = j
        /\ \A w, u \in Worker : With(c, w) /\ With(c, u) => w = u
        /\ \A n \in Node, w \in Worker : ~(InQueue(c, n) /\ With(c, w))

HasPlace ==
    \A c \in Caller :
        call[c].to # None /\ (call[c].st # "answered" \/ c \in Client) =>
            (\E n \in Node : InQueue(c, n)) \/ (\E w \in Worker : With(c, w))

(* A mutation has one acknowledgement at most, the local one, and no       *)
(* answer before all replicas have been tried.                             *)
FewAcks ==
    \A w \in Worker : job[w] # None /\ IsMutation(job[w].req) =>
        /\ job[w].ans = None
        /\ ReplicationFactor >= 2 => job[w].acks <= 1

IndInv ==
    /\ Shapes
    /\ QueueLinked /\ ServingLinked /\ JobLinked
    /\ Forwarding /\ ClosedIsQuiet
    /\ OnePlace /\ HasPlace
    /\ FewAcks /\ ReplicatedWriteNeverAcked

-----------------------------------------------------------------------------
LEMMA CallersDiffer ==
    /\ \A w \in Worker : w \notin Client \cup Monitor /\ w[1] \in Node
    /\ \A n \in Node : <<n, None>> \in Monitor
    /\ Gone \notin Caller /\ None \notin Node
  BY ClusterAssumption, CallerAssumption, NoneAssumption

LEMMA QueueOrigins ==
    ASSUME Shapes, NEW n \in Node, NEW i \in 1 .. Len(queue[n])
    PROVE  /\ queue[n][i] \in Connection /\ queue[n][i] # None
           /\ queue[n][i].from \in Caller \cup {Gone}
  <1>1. queue[n] \in Seq(Connection)
    BY DEF Shapes
  <1>2. queue[n][i] \in Connection
    BY SMT, <1>1
  <1> QED
    BY <1>2, NoneAssumption DEF Connection

LEMMA InitEstablishes == Init => IndInv
  <1> SUFFICES ASSUME Init PROVE IndInv
    OBVIOUS
  <1>1. /\ queue = [n \in Node |-> <<>>] /\ serving = [w \in Worker |-> None]
        /\ job = [w \in Worker |-> None] /\ call = [c \in Caller |-> NoCall]
    BY DEF Init
  <1>2. /\ \A n \in Node : queue[n] = <<>> /\ Len(queue[n]) = 0
        /\ \A w \in Worker : serving[w] = None /\ job[w] = None
        /\ \A c \in Caller : call[c] = NoCall
    BY <1>1
  <1>3. Shapes
    <2>1. queue \in [Node -> Seq(Connection)]
      BY SMT, <1>1
    <2>2. serving \in [Worker -> Connection \cup {None}]
      BY <1>1
    <2>3. \A c \in Caller : CallShape(call[c])
      BY SMT, <1>2 DEF CallShape, NoCall
    <2> QED
      BY <1>1, <1>2, <2>1, <2>2, <2>3 DEF Shapes
  <1>4. QueueLinked /\ ServingLinked /\ JobLinked /\ FewAcks
    BY SMT, <1>2 DEF QueueLinked, ServingLinked, JobLinked, FewAcks
  <1>5. \A c \in Caller : call[c].st = "quiet" /\ call[c].to = None
    BY SMT, <1>2 DEF NoCall
  <1>6. Forwarding /\ ClosedIsQuiet /\ HasPlace /\ ReplicatedWriteNeverAcked
    BY <1>5 DEF Forwarding, ClosedIsQuiet, HasPlace, ReplicatedWriteNeverAcked
  <1>7. OnePlace
    BY SMT, <1>2 DEF OnePlace, With, InQueue
  <1> QED
    BY <1>3, <1>4, <1>6, <1>7 DEF IndInv

(* A caller opens a connection. *)
LEMMA OpenKeeps ==
    ASSUME IndInv, NEW c \in Caller, NEW n \in Node,
           NEW r \in Request \cup {Ping, None}, Open(c, n, r),
           UNCHANGED <<serving, job>>,
           c \in Worker => /\ job[c] # None /\ job[c].ans = None
                           /\ job[c].todo # <<>> /\ job[c].req = r
    PROVE  IndInv'
  <1> USE CallersDiffer DEF IndInv
  <1> DEFINE conn == [from |-> c, req |-> r]
             new == [to |-> n, st |-> IF r = None THEN "quiet" ELSE "waiting",
                     req |-> r, ans |-> None]
  <1>1. conn \in Connection /\ conn.from = c /\ conn.req = r
    BY DEF Connection
  <1>2. /\ call[c].to = None
        /\ queue' = [queue EXCEPT ![n] = Append(@, conn)]
        /\ call' = [call EXCEPT ![c] = new]
    BY DEF Open
  <1> HIDE DEF conn
  <1>3. /\ queue' \in [Node -> Seq(Connection)]
        /\ Len(queue[n]) \in Nat /\ Len(queue'[n]) = Len(queue[n]) + 1
        /\ \A i \in 1 .. Len(queue[n]) : queue'[n][i] = queue[n][i]
        /\ queue'[n][Len(queue[n]) + 1] = conn
        /\ \A m \in Node : m # n => queue'[m] = queue[m]
    BY SMT, <1>1, <1>2 DEF Shapes
  <1>4. /\ call' = [x \in Caller |-> call'[x]]
        /\ call'[c] = new
        /\ \A x \in Caller : x # c => call'[x] = call[x]
    BY <1>2 DEF Shapes
  <1>5. new.to = n /\ new.req = r /\ (r # None => new.st = "waiting")
        /\ new.st # "answered" /\ (r = None => new.st = "quiet") /\ CallShape(new)
    BY DEF CallShape
  <1> HIDE DEF new
  <1>6. Shapes'
    BY <1>3, <1>4, <1>5 DEF Shapes
  <1>7. \A m \in Node : \A i \in 1 .. Len(queue[m]) :
            queue[m][i].from \in Caller \cup {Gone}
    BY QueueOrigins
  <1>8. \A w \in Worker : serving[w] # None => serving[w].from \in Caller \cup {Gone}
    BY DEF Shapes, Connection
  <1>9. \A m \in Node : \A i \in 1 .. Len(queue[m]) : queue[m][i].from # c
    BY SMT, <1>2, <1>7 DEF QueueLinked, Linked
  <1>10. \A w \in Worker : ~With(c, w)
    BY SMT, <1>2, <1>8 DEF ServingLinked, Linked, With
  <1>11. QueueLinked'
    <2>1. ASSUME NEW m \in Node, NEW i \in 1 .. Len(queue'[m]) PROVE Linked(queue[m][i], m)'
      <3>1. CASE m = n /\ i = Len(queue[n]) + 1
        BY <3>1, <1>1, <1>3, <1>4, <1>5 DEF Linked
      <3>2. CASE ~(m = n /\ i = Len(queue[n]) + 1)
        <4>1. i \in 1 .. Len(queue[m]) /\ queue'[m][i] = queue[m][i]
          BY SMT, <3>2, <1>3
        <4> QED
          BY SMT, <4>1, <1>4, <1>7, <1>9 DEF Linked, QueueLinked
      <3> QED
        BY <3>1, <3>2
    <2> QED
      BY <2>1 DEF QueueLinked
  <1>12. ServingLinked' /\ JobLinked'
    BY SMT, <1>4, <1>8, <1>10 DEF ServingLinked, JobLinked, Linked, With
  <1>13. Forwarding' /\ ClosedIsQuiet' /\ FewAcks'
    <2>1. c \in Worker => r # None
      BY SMT, NoneAssumption DEF Shapes, JobShape
    <2> QED
      BY SMT, <2>1, <1>4, <1>5 DEF Forwarding, ClosedIsQuiet, FewAcks
  <1>14. \A x \in Caller, m \in Node : InQueue(x, m)' <=> InQueue(x, m) \/ (x = c /\ m = n)
    BY <1>1, <1>3, SMTT(30) DEF InQueue
  <1>15. OnePlace'
    <2>1. \A x \in Caller, m \in Node : \A i, j \in 1 .. Len(queue'[m]) :
              queue'[m][i].from = x /\ queue'[m][j].from = x => i = j
      <3> SUFFICES ASSUME NEW x \in Caller, NEW m \in Node,
                          NEW i \in 1 .. Len(queue'[m]), NEW j \in 1 .. Len(queue'[m]),
                          queue'[m][i].from = x, queue'[m][j].from = x
                   PROVE  i = j
        BY SMT
      <3>1. CASE m # n
        <4>1. queue'[m] = queue[m]
          BY <3>1, <1>3
        <4> QED
          BY SMT, <4>1 DEF OnePlace
      <3>2. CASE m = n /\ x = c
        <4>1. \A h \in 1 .. Len(queue'[n]) :
                  queue'[n][h].from = c => h = Len(queue[n]) + 1
          <5>1. \A h \in 1 .. Len(queue'[n]) :
                    h = Len(queue[n]) + 1 \/ h \in 1 .. Len(queue[n])
            BY SMT, <1>3
          <5>2. \A h \in 1 .. Len(queue[n]) : queue'[n][h].from # c
            BY <1>3, <1>9, SMTT(30)
          <5> QED
            BY <5>1, <5>2
        <4> QED
          BY <3>2, <4>1
      <3>3. CASE m = n /\ x # c
        <4>1. i \in 1 .. Len(queue[n]) /\ j \in 1 .. Len(queue[n])
          BY SMT, <3>3, <1>1, <1>3
        <4> QED
          BY <3>3, <4>1, <1>3, SMTT(30) DEF OnePlace
      <3> QED
        BY <3>1, <3>2, <3>3
    <2>2. \A x \in Caller, w \in Worker : With(x, w)' <=> With(x, w)
      BY DEF With
    <2> QED
      BY SMT, <2>1, <2>2, <1>10, <1>14 DEF OnePlace
  <1>16. HasPlace'
    BY SMT, <1>4, <1>14 DEF HasPlace, With
  <1>17. ReplicatedWriteNeverAcked'
    BY <1>4, <1>5 DEF ReplicatedWriteNeverAcked
  <1> QED
    BY <1>6, <1>11, <1>12, <1>13, <1>15, <1>16, <1>17

-----------------------------------------------------------------------------
LEMMA CutOffFacts ==
    ASSUME NEW conn \in Connection, NEW who \in SUBSET Caller
    PROVE  /\ CutOff(conn, who) \in Connection
           /\ CutOff(conn, who) # None
           /\ CutOff(conn, who).req = conn.req
           /\ CutOff(conn, who).from = IF conn.from \in who THEN Gone ELSE conn.from
           /\ CutOff(None, who) = None
  BY NoneAssumption DEF CutOff, Connection

LEMMA CutQueueFacts ==
    ASSUME Shapes, NEW who \in SUBSET Caller
    PROVE  /\ CutQueue(who) \in [Node -> Seq(Connection)]
           /\ \A n \in Node :
                /\ Len(CutQueue(who)[n]) = Len(queue[n])
                /\ \A i \in 1 .. Len(queue[n]) :
                      CutQueue(who)[n][i] = CutOff(queue[n][i], who)
  <1>1. ASSUME NEW n \in Node
        PROVE  LET cut == [i \in 1 .. Len(queue[n]) |-> CutOff(queue[n][i], who)]
               IN  cut \in Seq(Connection) /\ Len(cut) = Len(queue[n])
    <2>1. queue[n] \in Seq(Connection) /\ Len(queue[n]) \in Nat
      BY SMT DEF Shapes
    <2>2. \A i \in 1 .. Len(queue[n]) : CutOff(queue[n][i], who) \in Connection
      BY QueueOrigins, CutOffFacts
    <2> QED
      BY SMT, <2>1, <2>2
  <1> QED
    BY <1>1 DEF CutQueue

LEMMA CutServingFacts ==
    ASSUME Shapes, NEW who \in SUBSET Caller
    PROVE  /\ CutServing(who) \in [Worker -> Connection \cup {None}]
           /\ \A w \in Worker : CutServing(who)[w] = CutOff(serving[w], who)
  <1>1. \A w \in Worker : CutOff(serving[w], who) \in Connection \cup {None}
    BY CutOffFacts DEF Shapes, CutOff
  <1> QED
    BY <1>1 DEF CutServing

(* The job of worker w is replaced by one for the same request. *)
JobAdvances(w) ==
    /\ job' = [job EXCEPT ![w] = job'[w]]
    /\ JobShape(job'[w])
    /\ job'[w].req = job[w].req
    /\ IsMutation(job[w].req) =>
          /\ job'[w].ans = None
          /\ ReplicationFactor >= 2 => job'[w].acks <= 1

(* A caller closes its connection; a worker that does so goes on with its  *)
(* request.                                                                *)
LEMMA CloseKeeps ==
    ASSUME IndInv, NEW c \in Caller, Close(c),
           \/ UNCHANGED job /\ c \notin Worker
           \/ c \in Worker /\ job[c] # None /\ JobAdvances(c)
    PROVE  IndInv'
  <1> USE CallersDiffer DEF IndInv
  <1>1. /\ queue' = CutQueue({c}) /\ serving' = CutServing({c})
        /\ call' = [call EXCEPT ![c] = NoCall]
    BY DEF Close
  <1>2. /\ queue' \in [Node -> Seq(Connection)]
        /\ \A n \in Node :
             /\ Len(queue'[n]) = Len(queue[n])
             /\ \A i \in 1 .. Len(queue[n]) : queue'[n][i] = CutOff(queue[n][i], {c})
    <2>1. Shapes /\ {c} \in SUBSET Caller
      OBVIOUS
    <2>2. /\ CutQueue({c}) \in [Node -> Seq(Connection)]
          /\ \A n \in Node :
               /\ Len(CutQueue({c})[n]) = Len(queue[n])
               /\ \A i \in 1 .. Len(queue[n]) :
                     CutQueue({c})[n][i] = CutOff(queue[n][i], {c})
      BY <2>1, CutQueueFacts
    <2> QED
      BY <1>1, <2>2
  <1>3. /\ serving' \in [Worker -> Connection \cup {None}]
        /\ \A w \in Worker : serving'[w] = CutOff(serving[w], {c})
    BY <1>1, CutServingFacts
  <1>4. \A n \in Node : \A i \in 1 .. Len(queue[n]) :
            /\ queue[n][i].from \in Caller \cup {Gone}
            /\ queue'[n][i].req = queue[n][i].req
            /\ queue'[n][i].from = IF queue[n][i].from = c THEN Gone ELSE queue[n][i].from
    <2> SUFFICES ASSUME NEW n \in Node, NEW i \in 1 .. Len(queue[n])
                 PROVE  /\ queue[n][i].from \in Caller \cup {Gone}
                        /\ queue'[n][i].req = queue[n][i].req
                        /\ queue'[n][i].from = IF queue[n][i].from = c THEN Gone
                                               ELSE queue[n][i].from
      OBVIOUS
    <2>1. queue[n][i] \in Connection /\ queue[n][i].from \in Caller \cup {Gone}
      BY QueueOrigins
    <2>2. queue'[n][i] = CutOff(queue[n][i], {c})
      BY <1>2
    <2> QED
      BY SMT, <2>1, <2>2, CutOffFacts
  <1>5. \A w \in Worker :
            /\ serving'[w] = None <=> serving[w] = None
            /\ serving[w] # None =>
                  /\ serving[w].from \in Caller \cup {Gone}
                  /\ serving'[w].req = serving[w].req
                  /\ serving'[w].from = IF serving[w].from = c THEN Gone ELSE serving[w].from
    <2> SUFFICES ASSUME NEW w \in Worker
                 PROVE  /\ serving'[w] = None <=> serving[w] = None
                        /\ serving[w] # None =>
                              /\ serving[w].from \in Caller \cup {Gone}
                              /\ serving'[w].req = serving[w].req
                              /\ serving'[w].from = IF serving[w].from = c THEN Gone
                                                    ELSE serving[w].from
      OBVIOUS
    <2>1. CASE serving[w] = None
      BY <2>1, <1>3 DEF CutOff
    <2>2. CASE serving[w] # None
      <3>1. serving[w] \in Connection
        BY <2>2 DEF Shapes
      <3> QED
        BY SMT, <2>2, <3>1, <1>3, CutOffFacts DEF Connection
    <2> QED
      BY <2>1, <2>2
  <1>6. /\ call' = [x \in Caller |-> call'[x]]
        /\ call'[c] = NoCall
        /\ \A x \in Caller : x # c => call'[x] = call[x]
    BY <1>1 DEF Shapes
  <1>7. /\ job' = [w \in Worker |-> job'[w]]
        /\ \A w \in Worker : job'[w] # job[w] =>
              /\ w = c /\ job[w] # None /\ JobShape(job'[w])
              /\ job'[w].req = job[w].req
              /\ IsMutation(job[w].req) =>
                    /\ job'[w].ans = None
                    /\ ReplicationFactor >= 2 => job'[w].acks <= 1
    BY DEF JobAdvances, Shapes
  <1>8. CallShape(NoCall) /\ NoCall.to = None /\ NoCall.st = "quiet"
    BY DEF CallShape, NoCall
  <1>9. Shapes'
    <2>1. \A w \in Worker : job'[w] # None => JobShape(job'[w])
      BY <1>7 DEF Shapes
    <2>2. \A x \in Caller : CallShape(call'[x])
      BY <1>6, <1>8 DEF Shapes
    <2>3. job' = [w \in Worker |-> job'[w]] /\ call' = [x \in Caller |-> call'[x]]
      BY <1>6, <1>7
    <2>4. queue' \in [Node -> Seq(Connection)]
      BY <1>2
    <2>5. serving' \in [Worker -> Connection \cup {None}]
      BY <1>3
    <2> QED
      BY <2>1, <2>2, <2>3, <2>4, <2>5 DEF Shapes
  <1>10. QueueLinked'
    BY SMT, <1>2, <1>4, <1>6 DEF QueueLinked, Linked
  <1>11. ServingLinked'
    BY SMT, <1>5, <1>6 DEF ServingLinked, Linked
  <1>12. JobLinked'
    BY SMT, <1>5, <1>6, <1>7 DEF JobLinked
  <1>13. Forwarding' /\ ClosedIsQuiet' /\ ReplicatedWriteNeverAcked'
    BY SMT, <1>6, <1>7, <1>8 DEF Forwarding, ClosedIsQuiet, ReplicatedWriteNeverAcked
  <1>14. FewAcks'
    BY <1>7 DEF FewAcks
  <1>15. \A x \in Caller, n \in Node : InQueue(x, n)' <=> InQueue(x, n) /\ x # c
    <2> SUFFICES ASSUME NEW x \in Caller, NEW n \in Node
                 PROVE  InQueue(x, n)' <=> InQueue(x, n) /\ x # c
      OBVIOUS
    <2>1. \A i \in 1 .. Len(queue[n]) :
              queue'[n][i].from = x <=> queue[n][i].from = x /\ x # c
      BY SMT, <1>4
    <2> QED
      BY <1>2, <2>1 DEF InQueue
  <1>16. \A x \in Caller, w \in Worker : With(x, w)' <=> With(x, w) /\ x # c
    BY <1>5 DEF With
  <1>17. OnePlace'
    <2>1. \A x \in Caller, n \in Node : \A i, j \in 1 .. Len(queue'[n]) :
              queue'[n][i].from = x /\ queue'[n][j].from = x => i = j
      <3> SUFFICES ASSUME NEW x \in Caller, NEW n \in Node,
                          NEW i \in 1 .. Len(queue[n]), NEW j \in 1 .. Len(queue[n]),
                          queue'[n][i].from = x, queue'[n][j].from = x
                   PROVE  i = j
        BY SMT, <1>2
      <3>1. queue[n][i].from = x /\ queue[n][j].from = x
        BY <1>4
      <3> QED
        BY SMT, <3>1 DEF OnePlace
    <2> QED
      BY SMT, <2>1, <1>15, <1>16 DEF OnePlace
  <1>18. HasPlace'
    BY SMT, <1>6, <1>8, <1>15, <1>16 DEF HasPlace
  <1> QED
    BY <1>9, <1>10, <1>11, <1>12, <1>13, <1>14, <1>17, <1>18

-----------------------------------------------------------------------------
(* A client sends a request on its connection. *)
LEMMA SendKeeps ==
    ASSUME IndInv, NEW c \in Client, NEW r \in Request \cup {Ping}, ClientSend(c, r)
    PROVE  IndInv'
  <1> USE CallersDiffer DEF IndInv
  <1> DEFINE Sent(conn) ==
               IF conn # None /\ conn.from = c THEN [conn EXCEPT !.req = r] ELSE conn
  <1>1. /\ call[c].to # None /\ call[c].st = "quiet"
        /\ queue' = [n \in Node |-> [i \in 1 .. Len(queue[n]) |-> Sent(queue[n][i])]]
        /\ serving' = [w \in Worker |-> Sent(serving[w])]
        /\ call' = [call EXCEPT ![c] = [@ EXCEPT !.st = "waiting", !.req = r]]
        /\ UNCHANGED job
    BY DEF ClientSend
  <1>2. ASSUME NEW conn \in Connection
        PROVE  /\ Sent(conn) \in Connection /\ Sent(conn) # None
               /\ Sent(conn).from = conn.from
               /\ Sent(conn).req = IF conn.from = c THEN r ELSE conn.req
    BY NoneAssumption DEF Connection
  <1>3. Sent(None) = None
    OBVIOUS
  <1> HIDE DEF Sent
  <1>4. \A n \in Node : \A i \in 1 .. Len(queue[n]) :
            /\ queue[n][i].from \in Caller \cup {Gone}
            /\ Sent(queue[n][i]) \in Connection
            /\ Sent(queue[n][i]).from = queue[n][i].from
            /\ Sent(queue[n][i]).req = IF queue[n][i].from = c THEN r ELSE queue[n][i].req
    <2> SUFFICES ASSUME NEW n \in Node, NEW i \in 1 .. Len(queue[n])
                 PROVE  /\ queue[n][i].from \in Caller \cup {Gone}
                        /\ Sent(queue[n][i]) \in Connection
                        /\ Sent(queue[n][i]).from = queue[n][i].from
                        /\ Sent(queue[n][i]).req = IF queue[n][i].from = c THEN r
                                                   ELSE queue[n][i].req
      OBVIOUS
    <2>1. queue[n][i] \in Connection /\ queue[n][i].from \in Caller \cup {Gone}
      BY QueueOrigins
    <2> QED
      BY <2>1, <1>2
  <1>5. /\ queue' \in [Node -> Seq(Connection)]
        /\ \A n \in Node :
             /\ Len(queue'[n]) = Len(queue[n])
             /\ \A i \in 1 .. Len(queue[n]) : queue'[n][i] = Sent(queue[n][i])
    <2>1. ASSUME NEW n \in Node
          PROVE  LET sent == [i \in 1 .. Len(queue[n]) |-> Sent(queue[n][i])]
                 IN  sent \in Seq(Connection) /\ Len(sent) = Len(queue[n])
      <3>1. queue[n] \in Seq(Connection) /\ Len(queue[n]) \in Nat
        BY SMT DEF Shapes
      <3> QED
        BY SMT, <3>1, <1>4
    <2> QED
      BY <2>1, <1>1
  <1>6. \A n \in Node : \A i \in 1 .. Len(queue[n]) :
            /\ queue'[n][i].from = queue[n][i].from
            /\ queue'[n][i].req = IF queue[n][i].from = c THEN r ELSE queue[n][i].req
    BY SMT, <1>4, <1>5
  <1>7. /\ serving' \in [Worker -> Connection \cup {None}]
        /\ \A w \in Worker :
             /\ serving'[w] = None <=> serving[w] = None
             /\ serving[w] # None =>
                  /\ serving[w].from \in Caller \cup {Gone}
                  /\ serving'[w].from = serving[w].from
                  /\ serving'[w].req = IF serving[w].from = c THEN r ELSE serving[w].req
    <2>1. \A w \in Worker : serving[w] \in Connection \/ serving[w] = None
      BY DEF Shapes
    <2>2. \A w \in Worker : Sent(serving[w]) \in Connection \cup {None}
      BY <2>1, <1>2, <1>3
    <2>3. \A w \in Worker : serving'[w] = Sent(serving[w])
      BY <1>1
    <2>4. ASSUME NEW w \in Worker
          PROVE  /\ serving'[w] = None <=> serving[w] = None
                 /\ serving[w] # None =>
                      /\ serving[w].from \in Caller \cup {Gone}
                      /\ serving'[w].from = serving[w].from
                      /\ serving'[w].req = IF serving[w].from = c THEN r ELSE serving[w].req
      <3>1. CASE serving[w] = None
        BY <3>1, <2>3, <1>3
      <3>2. CASE serving[w] \in Connection
        <4>1. serving[w].from \in Caller \cup {Gone} /\ serving[w] # None
          BY <3>2, NoneAssumption DEF Connection
        <4> QED
          BY <3>2, <4>1, <2>3, <1>2
      <3> QED
        BY <2>1, <3>1, <3>2
    <2> QED
      BY <1>1, <2>2, <2>4
  <1>8. /\ call' = [x \in Caller |-> call'[x]]
        /\ call'[c] = [call[c] EXCEPT !.st = "waiting", !.req = r]
        /\ \A x \in Caller : x # c => call'[x] = call[x]
    BY <1>1 DEF Shapes
  <1>9. /\ call'[c].to = call[c].to /\ call'[c].st = "waiting" /\ call'[c].req = r
        /\ CallShape(call'[c])
    <2>1. CallShape(call[c])
      BY DEF Shapes
    <2> QED
      BY <1>8, <2>1 DEF CallShape
  <1>10. Shapes'
    <2>1. \A x \in Caller : CallShape(call'[x])
      BY <1>8, <1>9 DEF Shapes
    <2> QED
      <3>1. job' = job
        BY <1>1
      <3>2. /\ job' = [w \in Worker |-> job'[w]]
            /\ \A w \in Worker : job'[w] # None => JobShape(job'[w])
        BY <3>1 DEF Shapes
      <3>3. queue' \in [Node -> Seq(Connection)]
        BY <1>5
      <3>4. serving' \in [Worker -> Connection \cup {None}]
        BY <1>7
      <3>5. call' = [x \in Caller |-> call'[x]]
        BY <1>8
      <3> QED
        BY <3>2, <3>3, <3>4, <3>5, <2>1 DEF Shapes
  <1>11. QueueLinked'
    <2> SUFFICES ASSUME NEW n \in Node, NEW i \in 1 .. Len(queue[n])
                 PROVE  Linked(queue[n][i], n)'
      BY <1>5 DEF QueueLinked
    <2>1. /\ queue'[n][i].from = queue[n][i].from
          /\ queue[n][i].from \in Caller \cup {Gone}
          /\ queue'[n][i].req = IF queue[n][i].from = c THEN r ELSE queue[n][i].req
          /\ Linked(queue[n][i], n)
      BY <1>4, <1>6 DEF QueueLinked
    <2>2. CASE queue[n][i].from = c
      BY <2>1, <2>2, <1>9 DEF Linked
    <2>3. CASE queue[n][i].from # c
      BY SMT, <2>1, <2>3, <1>8 DEF Linked
    <2> QED
      BY <2>2, <2>3
  <1>12. ServingLinked'
    <2> SUFFICES ASSUME NEW w \in Worker, serving[w] # None
                 PROVE  Linked(serving[w], w[1])'
      BY <1>7 DEF ServingLinked
    <2>1. Linked(serving[w], w[1])
      BY DEF ServingLinked
    <2>2. CASE serving[w].from = c
      BY <2>1, <2>2, <1>7, <1>9 DEF Linked
    <2>3. CASE serving[w].from # c
      BY SMT, <2>1, <2>3, <1>7, <1>8 DEF Linked
    <2> QED
      BY <2>2, <2>3
  <1>13. JobLinked'
    <2>1. \A w \in Worker : job[w] # None => serving[w].from # c
      BY <1>1 DEF JobLinked
    <2> QED
      BY SMT, <2>1, <1>1, <1>7, <1>8 DEF JobLinked
  <1>14. Forwarding' /\ ClosedIsQuiet' /\ ReplicatedWriteNeverAcked' /\ FewAcks'
    BY SMT, <1>1, <1>8, <1>9
       DEF Forwarding, ClosedIsQuiet, ReplicatedWriteNeverAcked, FewAcks
  <1>15. \A x \in Caller, n \in Node : InQueue(x, n)' <=> InQueue(x, n)
    <2> SUFFICES ASSUME NEW x \in Caller, NEW n \in Node
                 PROVE  InQueue(x, n)' <=> InQueue(x, n)
      OBVIOUS
    <2>1. \A i \in 1 .. Len(queue[n]) : queue'[n][i].from = queue[n][i].from
      BY <1>6
    <2> QED
      BY <1>5, <2>1 DEF InQueue
  <1>16. \A x \in Caller, w \in Worker : With(x, w)' <=> With(x, w)
    BY <1>7 DEF With
  <1>17. OnePlace'
    <2>1. \A x \in Caller, n \in Node : \A i, j \in 1 .. Len(queue'[n]) :
              queue'[n][i].from = x /\ queue'[n][j].from = x => i = j
      BY SMT, <1>5, <1>6 DEF OnePlace
    <2> QED
      BY <2>1, <1>15, <1>16 DEF OnePlace
  <1>18. HasPlace'
    BY SMT, <1>1, <1>8, <1>15, <1>16 DEF HasPlace
  <1> QED
    BY <1>10, <1>11, <1>12, <1>13, <1>14, <1>17, <1>18

(* Only the caller's end of caller c changes: it reads its answer, or an   *)
(* answer arrives.                                                         *)
LEMMA ReceiveKeeps ==
    ASSUME IndInv, NEW c \in Client, ClientReceive(c)
    PROVE  IndInv'
  <1> USE CallersDiffer DEF IndInv
  <1>1. /\ call[c].to # None /\ call[c].st = "answered"
        /\ call' = [call EXCEPT ![c] = [@ EXCEPT !.st = "quiet", !.req = None,
                                                 !.ans = None]]
        /\ UNCHANGED <<queue, serving, job>>
    BY DEF ClientReceive
  <1>2. /\ call' = [x \in Caller |-> call'[x]]
        /\ call'[c].to = call[c].to /\ call'[c].st = "quiet" /\ CallShape(call'[c])
        /\ \A x \in Caller : x # c => call'[x] = call[x]
    <2>1. CallShape(call[c])
      BY DEF Shapes
    <2>2. /\ call' = [x \in Caller |-> call'[x]]
          /\ call'[c] = [call[c] EXCEPT !.st = "quiet", !.req = None, !.ans = None]
          /\ \A x \in Caller : x # c => call'[x] = call[x]
      BY <1>1 DEF Shapes
    <2> QED
      BY <2>1, <2>2 DEF CallShape
  <1>3. Shapes'
    BY <1>1, <1>2 DEF Shapes
  <1>4. QueueLinked'
    BY SMT, <1>1, <1>2, QueueOrigins DEF QueueLinked, Linked
  <1>5. ServingLinked' /\ JobLinked'
    <2>1. \A w \in Worker : serving[w] # None => serving[w].from \in Caller \cup {Gone}
      BY DEF Shapes, Connection
    <2> QED
      BY SMT, <2>1, <1>1, <1>2 DEF ServingLinked, JobLinked, Linked
  <1>6. Forwarding' /\ ClosedIsQuiet' /\ ReplicatedWriteNeverAcked' /\ FewAcks'
    BY SMT, <1>1, <1>2
       DEF Forwarding, ClosedIsQuiet, ReplicatedWriteNeverAcked, FewAcks
  <1>7. OnePlace'
    BY SMT, <1>1 DEF OnePlace, With, InQueue
  <1>8. HasPlace'
    BY SMT, <1>1, <1>2 DEF HasPlace, With, InQueue
  <1> QED
    BY <1>3, <1>4, <1>5, <1>6, <1>7, <1>8

-----------------------------------------------------------------------------
LEMMA ServingOrigins ==
    ASSUME Shapes, NEW w \in Worker, serving[w] # None
    PROVE  serving[w] \in Connection /\ serving[w].from \in Caller \cup {Gone}
  BY DEF Shapes, Connection

(* A worker takes a connection from the queue of its node. *)
LEMMA TakeKeeps ==
    ASSUME IndInv, NEW w \in Worker, TakeConnection(w)
    PROVE  IndInv'
  <1> USE CallersDiffer DEF IndInv
  <1> DEFINE n == w[1]
  <1>1. /\ n \in Node /\ serving[w] = None /\ queue[n] # <<>>
        /\ serving' = [serving EXCEPT ![w] = Head(queue[n])]
        /\ queue' = [queue EXCEPT ![n] = Tail(@)]
        /\ UNCHANGED <<job, call>>
    BY DEF TakeConnection
  <1> HIDE DEF n
  <1>2. /\ queue[n] \in Seq(Connection) /\ Len(queue[n]) \in Nat \ {0}
        /\ Head(queue[n]) = queue[n][1] /\ 1 \in 1 .. Len(queue[n])
        /\ Tail(queue[n]) \in Seq(Connection)
        /\ Len(Tail(queue[n])) = Len(queue[n]) - 1
        /\ \A i \in 1 .. Len(queue[n]) - 1 : Tail(queue[n])[i] = queue[n][i + 1]
    BY SMT, <1>1 DEF Shapes
  <1>3. /\ queue' \in [Node -> Seq(Connection)]
        /\ Len(queue'[n]) = Len(queue[n]) - 1
        /\ \A i \in 1 .. Len(queue'[n]) :
              queue'[n][i] = queue[n][i + 1] /\ i + 1 \in 1 .. Len(queue[n])
        /\ \A m \in Node : m # n => queue'[m] = queue[m]
    BY SMT, <1>1, <1>2 DEF Shapes
  <1>4. /\ queue[n][1] \in Connection /\ queue[n][1] # None
        /\ queue[n][1].from \in Caller \cup {Gone}
    BY <1>1, <1>2, QueueOrigins
  <1>5. /\ serving' \in [Worker -> Connection \cup {None}]
        /\ serving'[w] = queue[n][1]
        /\ \A u \in Worker : u # w => serving'[u] = serving[u]
    BY <1>1, <1>2, <1>4 DEF Shapes
  <1>6. job[w] = None
    BY <1>1 DEF JobLinked
  <1>7. Shapes'
    BY <1>1, <1>3, <1>5 DEF Shapes
  <1>8. QueueLinked'
    <2> SUFFICES ASSUME NEW m \in Node, NEW i \in 1 .. Len(queue'[m])
                 PROVE  Linked(queue[m][i], m)'
      BY DEF QueueLinked
    <2>1. CASE m = n
      BY SMT, <2>1, <1>1, <1>3 DEF QueueLinked, Linked
    <2>2. CASE m # n
      BY SMT, <2>2, <1>1, <1>3 DEF QueueLinked, Linked
    <2> QED
      BY <2>1, <2>2
  <1>9. ServingLinked'
    <2>1. Linked(queue[n][1], n)
      BY <1>1, <1>2 DEF QueueLinked
    <2> QED
      BY <2>1, <1>1, <1>5 DEF ServingLinked, Linked, n
  <1>10. JobLinked'
    BY <1>1, <1>5, <1>6 DEF JobLinked
  <1>11. Forwarding' /\ ClosedIsQuiet' /\ FewAcks' /\ ReplicatedWriteNeverAcked'
    BY <1>1 DEF Forwarding, ClosedIsQuiet, FewAcks, ReplicatedWriteNeverAcked
  <1>12. \A x \in Caller, u \in Worker :
            With(x, u)' <=> (u = w /\ queue[n][1].from = x) \/ (u # w /\ With(x, u))
    BY <1>4, <1>5 DEF With
  <1>13. \A x \in Caller, m \in Node : m # n => (InQueue(x, m)' <=> InQueue(x, m))
    BY <1>3 DEF InQueue
  <1>14. \A x \in Caller : InQueue(x, n) => InQueue(x, n)' \/ queue[n][1].from = x
    <2> SUFFICES ASSUME NEW x \in Caller, NEW i \in 1 .. Len(queue[n]),
                        queue[n][i].from = x, i # 1
                 PROVE  InQueue(x, n)'
      BY DEF InQueue
    <2>1. i - 1 \in 1 .. Len(queue'[n]) /\ (i - 1) + 1 = i
      BY SMT, <1>2, <1>3
    <2> QED
      BY <2>1, <1>3 DEF InQueue
  <1>15. \A x \in Caller : InQueue(x, n)' =>
            InQueue(x, n) /\ queue[n][1].from # x
    <2> SUFFICES ASSUME NEW x \in Caller, NEW i \in 1 .. Len(queue'[n]),
                        queue'[n][i].from = x
                 PROVE  InQueue(x, n) /\ queue[n][1].from # x
      BY DEF InQueue
    <2>1. i + 1 \in 1 .. Len(queue[n]) /\ queue[n][i + 1].from = x /\ i + 1 # 1
      BY SMT, <1>2, <1>3
    <2> QED
      BY SMT, <2>1, <1>1, <1>2 DEF InQueue, OnePlace
  <1>16. \A x \in Caller : queue[n][1].from = x =>
            /\ \A u \in Worker : ~With(x, u)
            /\ \A m \in Node : m # n => ~InQueue(x, m)
    <2> SUFFICES ASSUME NEW x \in Caller, queue[n][1].from = x
                 PROVE  /\ \A u \in Worker : ~With(x, u)
                        /\ \A m \in Node : m # n => ~InQueue(x, m)
      OBVIOUS
    <2>1. InQueue(x, n)
      BY <1>2 DEF InQueue
    <2>2. \A m \in Node : InQueue(x, m) => call[x].to = m
      BY SMT DEF InQueue, QueueLinked, Linked
    <2> QED
      BY <2>1, <2>2, <1>1 DEF OnePlace
  <1>17. OnePlace'
    <2>1. \A x \in Caller, m \in Node : \A i, j \in 1 .. Len(queue'[m]) :
              queue'[m][i].from = x /\ queue'[m][j].from = x => i = j
      <3> SUFFICES ASSUME NEW x \in Caller, NEW m \in Node,
                          NEW i \in 1 .. Len(queue'[m]), NEW j \in 1 .. Len(queue'[m]),
                          queue'[m][i].from = x, queue'[m][j].from = x
                   PROVE  i = j
        BY SMT
      <3>1. CASE m = n
        <4>1. /\ i + 1 \in 1 .. Len(queue[n]) /\ j + 1 \in 1 .. Len(queue[n])
              /\ queue[n][i + 1].from = x /\ queue[n][j + 1].from = x
          BY <3>1, <1>3
        <4>2. i + 1 = j + 1
          BY SMT, <4>1, <1>1 DEF OnePlace
        <4> QED
          BY SMT, <4>2
      <3>2. CASE m # n
        <4>1. queue'[m] = queue[m]
          BY <3>2, <1>3
        <4> QED
          BY SMT, <4>1 DEF OnePlace
      <3> QED
        BY <3>1, <3>2
    <2>2. \A x \in Caller, u, v \in Worker : With(x, u)' /\ With(x, v)' => u = v
      BY SMT, <1>12, <1>16 DEF OnePlace
    <2>3. \A x \in Caller, m \in Node, u \in Worker : ~(InQueue(x, m)' /\ With(x, u)')
      BY <1>12, <1>13, <1>15, <1>16, SMTT(30) DEF OnePlace
    <2> QED
      BY <2>1, <2>2, <2>3 DEF OnePlace
  <1>18. HasPlace'
    <2> SUFFICES ASSUME NEW x \in Caller, call[x].to # None,
                        call[x].st # "answered" \/ x \in Client
                 PROVE  \/ \E m \in Node : InQueue(x, m)'
                        \/ \E u \in Worker : With(x, u)'
      BY <1>1 DEF HasPlace
    <2>1. CASE \E m \in Node : InQueue(x, m)
      BY <2>1, <1>12, <1>13, <1>14
    <2>2. CASE \E u \in Worker : With(x, u)
      BY SMT, <2>2, <1>1, <1>12 DEF With
    <2> QED
      BY <2>1, <2>2 DEF HasPlace
  <1> QED
    BY <1>7, <1>8, <1>9, <1>10, <1>11, <1>17, <1>18

(* A worker is done with a closed connection. *)
LEMMA EndKeeps ==
    ASSUME IndInv, NEW w \in Worker, EndConnection(w)
    PROVE  IndInv'
  <1> USE CallersDiffer DEF IndInv
  <1>1. /\ serving[w].from = Gone /\ job[w] = None
        /\ serving' = [serving EXCEPT ![w] = None]
        /\ UNCHANGED <<queue, job, call>>
    BY DEF EndConnection
  <1>2. /\ serving' \in [Worker -> Connection \cup {None}]
        /\ serving'[w] = None
        /\ \A u \in Worker : u # w => serving'[u] = serving[u]
    BY <1>1 DEF Shapes
  <1>3. Shapes'
    BY <1>1, <1>2 DEF Shapes
  <1>4. QueueLinked' /\ Forwarding' /\ ClosedIsQuiet' /\ FewAcks'
        /\ ReplicatedWriteNeverAcked'
    <2>1. QueueLinked'
      BY SMT, <1>1 DEF QueueLinked, Linked
    <2>2. Forwarding' /\ ClosedIsQuiet'
      BY <1>1 DEF Forwarding, ClosedIsQuiet
    <2>3. FewAcks' /\ ReplicatedWriteNeverAcked'
      BY <1>1 DEF FewAcks, ReplicatedWriteNeverAcked
    <2> QED
      BY <2>1, <2>2, <2>3
  <1>5. ServingLinked' /\ JobLinked'
    BY <1>1, <1>2 DEF ServingLinked, JobLinked, Linked
  <1>6. \A x \in Caller, u \in Worker : With(x, u)' <=> With(x, u)
    BY SMT, <1>1, <1>2 DEF With
  <1>7. \A x \in Caller, n \in Node : InQueue(x, n)' <=> InQueue(x, n)
    BY <1>1 DEF InQueue
  <1>8. OnePlace'
    BY SMT, <1>1, <1>6, <1>7 DEF OnePlace
  <1>9. HasPlace'
    BY <1>1, <1>6, <1>7 DEF HasPlace
  <1> QED
    BY <1>3, <1>4, <1>5, <1>8, <1>9

-----------------------------------------------------------------------------
(* A worker reads the request on its connection and has job j for it. *)
LEMMA ReadKeeps ==
    ASSUME IndInv, NEW w \in Worker, NEW j, Read(w, j), JobShape(j),
           j.req = serving[w].req,
           IsMutation(j.req) => /\ j.ans = None
                                /\ ReplicationFactor >= 2 => j.acks <= 1
    PROVE  IndInv'
  <1> USE CallersDiffer DEF IndInv
  <1>1. /\ serving[w] # None /\ job[w] = None
        /\ serving' = [serving EXCEPT ![w] = [@ EXCEPT !.req = None]]
        /\ job' = [job EXCEPT ![w] = j]
        /\ UNCHANGED <<queue, call>>
    BY DEF Read
  <1>2. j.req # None
    BY NoneAssumption DEF JobShape
  <1>3. serving[w] \in Connection /\ serving[w].from \in Caller \cup {Gone}
    BY <1>1, ServingOrigins
  <1>4. /\ [serving[w] EXCEPT !.req = None] \in Connection
        /\ [serving[w] EXCEPT !.req = None].from = serving[w].from
        /\ [serving[w] EXCEPT !.req = None].req = None
    BY <1>3 DEF Connection
  <1>5. /\ serving' \in [Worker -> Connection \cup {None}]
        /\ serving'[w] # None
        /\ serving'[w].from = serving[w].from /\ serving'[w].req = None
        /\ \A u \in Worker : u # w => serving'[u] = serving[u]
    BY <1>1, <1>4, NoneAssumption DEF Shapes
  <1>6. /\ job' = [u \in Worker |-> job'[u]] /\ job'[w] = j
        /\ \A u \in Worker : u # w => job'[u] = job[u]
    BY <1>1 DEF Shapes
  <1>7. Shapes'
    <2>1. \A u \in Worker : job'[u] # None => JobShape(job'[u])
      BY <1>6 DEF Shapes
    <2> QED
      BY <1>1, <1>5, <1>6, <2>1 DEF Shapes
  <1>8. Linked(serving[w], w[1])
    BY <1>1 DEF ServingLinked
  <1>9. QueueLinked' /\ ClosedIsQuiet' /\ ReplicatedWriteNeverAcked'
    BY SMT, <1>1 DEF QueueLinked, Linked, ClosedIsQuiet, ReplicatedWriteNeverAcked
  <1>10. ServingLinked'
    BY <1>1, <1>5, <1>8 DEF ServingLinked, Linked
  <1>11. JobLinked'
    BY SMT, <1>1, <1>2, <1>5, <1>6, <1>8 DEF JobLinked, Linked
  <1>12. Forwarding' /\ FewAcks'
    BY SMT, <1>1, <1>6 DEF Forwarding, FewAcks
  <1>13. \A x \in Caller, u \in Worker : With(x, u)' <=> With(x, u)
    BY SMT, <1>1, <1>5 DEF With
  <1>14. OnePlace' /\ HasPlace'
    BY SMT, <1>1, <1>13 DEF OnePlace, HasPlace, InQueue
  <1> QED
    BY <1>7, <1>9, <1>10, <1>11, <1>12, <1>14

(* A worker goes on with its request without the network. *)
LEMMA AdvanceKeeps ==
    ASSUME IndInv, NEW w \in Worker, job[w] # None, call[w].to = None,
           JobAdvances(w), UNCHANGED <<queue, serving, call>>
    PROVE  IndInv'
  <1> USE DEF IndInv
  <1>1. /\ job' = [u \in Worker |-> job'[u]]
        /\ \A u \in Worker : u # w => job'[u] = job[u]
        /\ JobShape(job'[w]) /\ job'[w].req = job[w].req
        /\ IsMutation(job[w].req) => /\ job'[w].ans = None
                                     /\ ReplicationFactor >= 2 => job'[w].acks <= 1
    BY DEF JobAdvances, Shapes
  <1>2. Shapes'
    BY <1>1 DEF Shapes
  <1>3. QueueLinked' /\ ServingLinked' /\ ClosedIsQuiet' /\ ReplicatedWriteNeverAcked'
    <2>1. QueueLinked'
      BY SMT DEF QueueLinked, Linked
    <2>2. ServingLinked'
      BY DEF ServingLinked, Linked
    <2>3. ClosedIsQuiet' /\ ReplicatedWriteNeverAcked'
      BY DEF ClosedIsQuiet, ReplicatedWriteNeverAcked
    <2> QED
      BY <2>1, <2>2, <2>3
  <1>4. JobLinked'
    BY SMT, <1>1 DEF JobLinked
  <1>5. Forwarding'
    BY SMT, <1>1 DEF Forwarding, ClosedIsQuiet
  <1>6. FewAcks'
    BY <1>1 DEF FewAcks
  <1>7. OnePlace' /\ HasPlace'
    BY SMT DEF OnePlace, HasPlace, InQueue, With
  <1> QED
    BY <1>2, <1>3, <1>4, <1>5, <1>6, <1>7

(* The answer to a mutation with one acknowledgement at most. *)
LEMMA OutcomeOfFewAcks ==
    ASSUME NEW j, IsMutation(j.req), j.ans = None, j.acks \in Nat, j.acks <= 1,
           ReplicationFactor >= 2
    PROVE  Outcome(j).status = "ERROR"
  <1>1. WriteQuorum > 1
    BY SMT, ClusterAssumption DEF WriteQuorum
  <1>2. WriteQuorum \in Nat
    BY SMT, ClusterAssumption DEF WriteQuorum
  <1> QED
    BY SMT, <1>1, <1>2 DEF Outcome, Answer

(* A worker answers its caller. *)
LEMMA ReplyKeeps ==
    ASSUME IndInv, NEW w \in Worker, Reply(w)
    PROVE  IndInv'
  <1> USE CallersDiffer DEF IndInv
  <1> DEFINE c == serving[w].from
             a == Outcome(job[w])
  <1>1. /\ job[w] # None /\ (job[w].ans # None \/ job[w].todo = <<>>)
        /\ job' = [job EXCEPT ![w] = None]
        /\ call' = IF c = Gone THEN call
                   ELSE [call EXCEPT ![c] = [@ EXCEPT !.st = "answered", !.ans = a]]
        /\ UNCHANGED <<queue, serving>>
    BY DEF Reply
  <1>2. /\ serving[w] # None /\ serving[w].req = None
        /\ c # Gone => call[c].st = "waiting" /\ call[c].req = job[w].req
    BY <1>1 DEF JobLinked
  <1>3. c \in Caller \cup {Gone}
    BY <1>2, ServingOrigins
  <1>4. call[w].st = "quiet"
    BY <1>1 DEF Forwarding
  <1>5. c \in Caller => With(c, w)
    BY <1>2 DEF With
  <1>6. IsMutation(job[w].req) /\ ReplicationFactor >= 2 => a.status = "ERROR"
    BY <1>1, OutcomeOfFewAcks DEF FewAcks, Shapes, JobShape
  <1> HIDE DEF c, a
  <1>7. /\ job' = [u \in Worker |-> job'[u]] /\ job'[w] = None
        /\ \A u \in Worker : u # w => job'[u] = job[u]
    BY <1>1 DEF Shapes
  <1>8. /\ call' = [x \in Caller |-> call'[x]]
        /\ \A x \in Caller : x # c => call'[x] = call[x]
        /\ c \in Caller => call'[c] = [call[c] EXCEPT !.st = "answered", !.ans = a]
    BY <1>1, <1>3 DEF Shapes
  <1>9. c \in Caller => /\ CallShape(call'[c]) /\ call'[c].to = call[c].to
                        /\ call'[c].st = "answered" /\ call'[c].ans = a
                        /\ call'[c].req = call[c].req
    <2>1. c \in Caller => CallShape(call[c])
      BY DEF Shapes
    <2> QED
      BY <2>1, <1>8 DEF CallShape
  <1>10. Shapes'
    <2>1. \A x \in Caller : CallShape(call'[x])
      BY <1>8, <1>9 DEF Shapes
    <2>2. \A u \in Worker : job'[u] # None => JobShape(job'[u])
      BY <1>7 DEF Shapes
    <2> QED
      BY <1>1, <1>7, <1>8, <2>1, <2>2 DEF Shapes
  <1>11. /\ \A n \in Node : ~(c \in Caller /\ InQueue(c, n))
         /\ \A u \in Worker : c \in Caller /\ With(c, u) => u = w
    BY <1>5 DEF OnePlace
  <1>12. QueueLinked'
    <2> SUFFICES ASSUME NEW n \in Node, NEW i \in 1 .. Len(queue[n])
                 PROVE  Linked(queue[n][i], n)'
      BY <1>1 DEF QueueLinked
    <2>1. queue[n][i].from \in Caller \cup {Gone} /\ Linked(queue[n][i], n)
      BY QueueOrigins DEF QueueLinked
    <2>2. queue[n][i].from = c => c = Gone
      BY <1>3, <1>11 DEF InQueue
    <2> DEFINE from == queue[n][i].from
    <2>3. CASE from = Gone
      BY <2>3, <1>1 DEF Linked
    <2>4. CASE from # Gone
      <3>1. call'[from] = call[from] /\ queue' = queue
        BY <2>1, <2>2, <2>4, <1>1, <1>8
      <3> QED
        BY <2>1, <3>1 DEF Linked
    <2> QED
      BY <2>3, <2>4
  <1>13. ServingLinked'
    <2> SUFFICES ASSUME NEW u \in Worker, serving[u] # None
                 PROVE  Linked(serving[u], u[1])'
      BY <1>1 DEF ServingLinked
    <2>1. serving[u].from \in Caller \cup {Gone} /\ Linked(serving[u], u[1])
      BY ServingOrigins DEF ServingLinked
    <2>2. CASE u = w
      BY <2>1, <2>2, <1>1, <1>2, <1>8, <1>9 DEF Linked, c
    <2>3. CASE u # w
      <3>1. serving[u].from = c => c = Gone
        BY <2>1, <2>3, <1>11 DEF With
      <3> QED
        BY <2>1, <3>1, <1>1, <1>8 DEF Linked
    <2> QED
      BY <2>2, <2>3
  <1>14. JobLinked'
    <2> SUFFICES ASSUME NEW u \in Worker, u # w, job[u] # None
                 PROVE  /\ serving[u] # None
                        /\ serving[u].req = None
                        /\ serving[u].from # Gone =>
                              /\ call'[serving[u].from].st = "waiting"
                              /\ call'[serving[u].from].req = job[u].req
      BY SMT, <1>1, <1>7 DEF JobLinked
    <2>1. serving[u] # None /\ serving[u].from \in Caller \cup {Gone}
      BY ServingOrigins DEF JobLinked
    <2>2. serving[u].from = c => c = Gone
      BY <2>1, <1>11 DEF With
    <2> QED
      BY <2>1, <2>2, <1>8 DEF JobLinked
  <1>15. Forwarding'
    <2> SUFFICES ASSUME NEW u \in Worker, call'[u].st # "quiet"
                 PROVE  /\ job'[u] # None /\ job'[u].ans = None
                        /\ job'[u].todo # <<>> /\ call'[u].req = job'[u].req
      BY DEF Forwarding
    <2>1. call[u].st # "quiet" /\ call'[u].req = call[u].req
      BY <1>2, <1>8, <1>9 DEF c
    <2>2. u # w
      BY <2>1, <1>4
    <2> QED
      BY SMT, <2>1, <2>2, <1>7 DEF Forwarding
  <1>16. ClosedIsQuiet'
    BY SMT, <1>2, <1>8, <1>9 DEF ClosedIsQuiet, c
  <1>17. FewAcks'
    BY <1>7 DEF FewAcks
  <1>18. ReplicatedWriteNeverAcked'
    <2> SUFFICES ASSUME ReplicationFactor >= 2, NEW x \in Caller,
                        call'[x].st = "answered", IsMutation(call'[x].req)
                 PROVE  call'[x].ans.status \notin {"OK", "NOT_FOUND"}
      BY DEF ReplicatedWriteNeverAcked
    <2>1. CASE x = c
      BY <2>1, <1>2, <1>6, <1>9 DEF c
    <2>2. CASE x # c
      BY <2>2, <1>8 DEF ReplicatedWriteNeverAcked
    <2> QED
      BY <2>1, <2>2
  <1>19. OnePlace'
    BY SMT, <1>1 DEF OnePlace, InQueue, With
  <1>20. HasPlace'
    BY SMT, <1>1, <1>8, <1>9 DEF HasPlace, InQueue, With, c
  <1> QED
    BY <1>10, <1>12, <1>13, <1>14, <1>15, <1>16, <1>17, <1>18, <1>19, <1>20

-----------------------------------------------------------------------------
(* A node dies. *)
LEMMA CrashKeeps ==
    ASSUME IndInv, NEW n \in Node, Crash(n)
    PROVE  IndInv'
  <1> USE CallersDiffer DEF IndInv
  <1> DEFINE T == ThreadsOf(n)
             Told(c) == [call[c] EXCEPT !.st = "answered",
                                        !.ans = Answer("NODE_UNAVAILABLE")]
  <1>1. T \in SUBSET Caller /\ T \cap Client = {}
        /\ \A w \in Worker : w \in T <=> w[1] = n
    BY CallerAssumption DEF ThreadsOf
  <1>2. /\ queue' = [CutQueue(T) EXCEPT ![n] = <<>>]
        /\ serving' = [w \in Worker |-> IF w[1] = n THEN None ELSE CutServing(T)[w]]
        /\ job' = [w \in Worker |-> IF w[1] = n THEN None ELSE job[w]]
        /\ call' = [c \in Caller |->
               IF c \in T THEN NoCall
               ELSE IF call[c].to # n \/ (c \notin Client /\ call[c].st = "answered")
                    THEN call[c]
               ELSE IF c \in Client THEN NoCall
               ELSE Told(c)]
    BY DEF Crash
  <1>3. \A c \in Caller : Told(c).st = "answered" /\ Told(c).to = call[c].to
           /\ Told(c).req = call[c].req /\ CallShape(Told(c))
           /\ Told(c).ans.status = "NODE_UNAVAILABLE"
    <2>1. \A c \in Caller : CallShape(call[c])
      BY DEF Shapes
    <2>2. Answer("NODE_UNAVAILABLE").status = "NODE_UNAVAILABLE"
      BY DEF Answer
    <2>3. \A c \in Caller :
             Told(c) = [call[c] EXCEPT !.st = "answered",
                                       !.ans = Answer("NODE_UNAVAILABLE")]
      OBVIOUS
    <2> HIDE DEF Told
    <2>4. ASSUME NEW c \in Caller
          PROVE  /\ Told(c).st = "answered" /\ Told(c).to = call[c].to
                 /\ Told(c).req = call[c].req /\ CallShape(Told(c))
                 /\ Told(c).ans = Answer("NODE_UNAVAILABLE")
      <3>1. CallShape(call[c])
        BY <2>1
      <3>2. Told(c) = [call[c] EXCEPT !.st = "answered",
                                      !.ans = Answer("NODE_UNAVAILABLE")]
        BY <2>3
      <3> QED
        BY <3>1, <3>2 DEF CallShape
    <2> QED
      BY <2>2, <2>4
  <1> HIDE DEF T, Told
  <1>4. /\ queue' \in [Node -> Seq(Connection)]
        /\ queue'[n] = <<>> /\ Len(queue'[n]) = 0
        /\ \A m \in Node : m # n => queue'[m] = CutQueue(T)[m]
    <2>1. CutQueue(T) \in [Node -> Seq(Connection)]
      BY <1>1, CutQueueFacts
    <2>2. <<>> \in Seq(Connection) /\ Len(<<>>) = 0
      BY SMT
    <2> QED
      BY <2>1, <2>2, <1>2
  <1>5. \A m \in Node : m # n => Len(queue'[m]) = Len(queue[m])
    BY SMT, <1>1, <1>4, CutQueueFacts
  <1>6. ASSUME NEW m \in Node, m # n, NEW i \in 1 .. Len(queue[m])
        PROVE  /\ queue[m][i].from \in Caller \cup {Gone}
               /\ queue'[m][i].req = queue[m][i].req
               /\ queue'[m][i].from = IF queue[m][i].from \in T THEN Gone
                                      ELSE queue[m][i].from
    <2>1. queue[m][i] \in Connection /\ queue[m][i].from \in Caller \cup {Gone}
      BY QueueOrigins
    <2>2. queue'[m][i] = CutOff(queue[m][i], T)
      BY SMT, <1>1, <1>4, <1>6, CutQueueFacts
    <2>3. T \in SUBSET Caller
      BY <1>1
    <2> QED
      BY SMT, <2>1, <2>2, <2>3, CutOffFacts
  <1>7. serving' \in [Worker -> Connection \cup {None}]
    BY SMT, <1>1, <1>2, CutServingFacts
  <1>8. ASSUME NEW w \in Worker, serving'[w] # None
        PROVE  /\ w[1] # n /\ serving[w] # None
               /\ serving[w].from \in Caller \cup {Gone}
               /\ serving'[w].req = serving[w].req
               /\ serving'[w].from = IF serving[w].from \in T THEN Gone
                                     ELSE serving[w].from
    <2>1. w[1] # n /\ serving'[w] = CutOff(serving[w], T)
      BY <1>1, <1>2, <1>8, CutServingFacts
    <2>2. serving[w] # None
      BY <2>1, <1>8 DEF CutOff
    <2>3. serving[w] \in Connection /\ serving[w].from \in Caller \cup {Gone}
      BY <2>2, ServingOrigins
    <2> QED
      BY SMT, <2>1, <2>2, <2>3, <1>1, CutOffFacts
  <1>9. \A w \in Worker : serving[w] # None /\ w[1] # n => serving'[w] # None
    <2> SUFFICES ASSUME NEW w \in Worker, serving[w] # None, w[1] # n
                 PROVE  serving'[w] # None
      OBVIOUS
    <2>1. serving'[w] = CutOff(serving[w], T)
      BY <1>1, <1>2, CutServingFacts
    <2> QED
      BY <2>1, <1>1, ServingOrigins, CutOffFacts
  <1>10. \A w \in Worker : job'[w] # None => w[1] # n /\ job'[w] = job[w]
    BY <1>2
  <1>11. CallShape(NoCall) /\ NoCall.to = None /\ NoCall.st = "quiet"
    BY DEF CallShape, NoCall
  <1>12. \A c \in Caller :
           /\ CallShape(call'[c])
           /\ c \notin T /\ call[c].to # n => call'[c] = call[c]
    BY <1>2, <1>3, <1>11 DEF Shapes
  <1>13. Shapes'
    <2>1. job' = [w \in Worker |-> job'[w]] /\ call' = [c \in Caller |-> call'[c]]
      BY <1>2
    <2>2. \A w \in Worker : job'[w] # None => JobShape(job'[w])
      BY <1>10 DEF Shapes
    <2>3. \A c \in Caller : CallShape(call'[c])
      BY <1>12
    <2> QED
      BY <1>4, <1>7, <2>1, <2>2, <2>3 DEF Shapes
  <1>14. QueueLinked'
    <2> SUFFICES ASSUME NEW m \in Node, NEW i \in 1 .. Len(queue'[m])
                 PROVE  Linked(queue[m][i], m)'
      BY DEF QueueLinked
    <2>1. m # n /\ i \in 1 .. Len(queue[m])
      BY SMT, <1>4, <1>5
    <2>2. Linked(queue[m][i], m)
      BY <2>1 DEF QueueLinked
    <2> DEFINE from == queue[m][i].from
    <2>3. queue'[m][i].req = queue[m][i].req /\ from \in Caller \cup {Gone}
      BY <2>1, <1>6
    <2>4. CASE queue'[m][i].from = Gone
      BY <2>4 DEF Linked
    <2>5. CASE queue'[m][i].from # Gone
      <3>1. queue'[m][i].from = from /\ from \notin T /\ from # Gone
        BY <2>1, <2>5, <1>6
      <3>2. call[from].to = m
        BY <2>2, <3>1 DEF Linked
      <3>3. call'[from] = call[from]
        BY <2>1, <2>3, <3>1, <3>2, <1>12
      <3> QED
        BY <2>2, <2>3, <3>1, <3>3 DEF Linked
    <2> QED
      BY <2>4, <2>5
  <1>15. ServingLinked'
    <2> SUFFICES ASSUME NEW w \in Worker, serving'[w] # None
                 PROVE  Linked(serving[w], w[1])'
      BY DEF ServingLinked
    <2>1. Linked(serving[w], w[1])
      BY <1>8 DEF ServingLinked
    <2> QED
      BY <2>1, <1>8, <1>12, SMTT(30) DEF Linked
  <1>16. JobLinked'
    <2> SUFFICES ASSUME NEW w \in Worker, job'[w] # None
                 PROVE  /\ serving'[w] # None
                        /\ serving'[w].req = None
                        /\ serving'[w].from # Gone =>
                              /\ call'[serving'[w].from].st = "waiting"
                              /\ call'[serving'[w].from].req = job'[w].req
      BY DEF JobLinked
    <2>1. w[1] # n /\ job'[w] = job[w] /\ serving[w] # None
      BY <1>10 DEF JobLinked
    <2>2. serving'[w] # None /\ Linked(serving[w], w[1])
      BY <2>1, <1>9 DEF ServingLinked
    <2> DEFINE from == serving[w].from
    <2>3. serving'[w].req = serving[w].req /\ from \in Caller \cup {Gone}
      BY <2>2, <1>8
    <2>4. /\ serving[w].req = None
          /\ from # Gone => call[from].st = "waiting" /\ call[from].req = job[w].req
      BY <2>1 DEF JobLinked
    <2>5. ASSUME serving'[w].from # Gone
          PROVE  /\ serving'[w].from = from /\ from # Gone
                 /\ call'[from] = call[from]
      <3>1. serving'[w].from = from /\ from \notin T /\ from # Gone
        BY <2>2, <2>5, <1>8
      <3>2. call[from].to = w[1]
        BY <2>2, <3>1 DEF Linked
      <3> QED
        BY <2>1, <2>3, <3>1, <3>2, <1>12
    <2> HIDE DEF from
    <2> QED
      BY <2>1, <2>2, <2>3, <2>4, <2>5
  <1>17. Forwarding'
    <2> SUFFICES ASSUME NEW w \in Worker, call'[w].st # "quiet"
                 PROVE  /\ job'[w] # None /\ job'[w].ans = None
                        /\ job'[w].todo # <<>> /\ call'[w].req = job'[w].req
      BY DEF Forwarding
    <2>1. w[1] # n /\ job'[w] = job[w]
      BY <1>1, <1>2, <1>11
    <2>2. call'[w] = call[w] \/ (call'[w] = Told(w) /\ call[w].st # "answered" /\ call[w].to = n)
      BY <1>1, <1>2, <2>1
    <2>3. call[w].st # "quiet" /\ call'[w].req = call[w].req
      <3>1. CASE call'[w] = call[w]
        BY <3>1
      <3>2. CASE call'[w] = Told(w) /\ call[w].to = n
        <4>1. call[w].to # None /\ w \in Caller
          BY <3>2
        <4> QED
          BY <3>2, <4>1, <1>3 DEF ClosedIsQuiet
      <3> QED
        BY <2>2, <3>1, <3>2
    <2> QED
      BY <2>1, <2>3 DEF Forwarding
  <1> DEFINE Outcomes(c) == \/ call'[c] = NoCall
                            \/ call'[c] = call[c]
                            \/ call'[c] = Told(c) /\ call[c].to = n
  <1>18. \A c \in Caller : Outcomes(c)
    BY <1>2
  <1>19. ClosedIsQuiet'
    <2> SUFFICES ASSUME NEW c \in Caller
                 PROVE  /\ call'[c].to = None => call'[c].st = "quiet"
                        /\ c \in Worker /\ call'[c].st = "quiet" => call'[c].to = None
      BY DEF ClosedIsQuiet
    <2>1. CASE call'[c] = NoCall
      BY <2>1, <1>11
    <2>2. CASE call'[c] = call[c]
      BY <2>2 DEF ClosedIsQuiet
    <2>3. CASE call'[c] = Told(c) /\ call[c].to = n
      <3>1. call'[c].to # None /\ call'[c].st = "answered"
        BY <2>3, <1>3
      <3> QED
        BY <3>1
    <2> QED
      BY <2>1, <2>2, <2>3, <1>18
  <1>20. FewAcks'
    BY <1>10 DEF FewAcks
  <1>21. ReplicatedWriteNeverAcked'
    <2> SUFFICES ASSUME ReplicationFactor >= 2, NEW c \in Caller,
                        call'[c].st = "answered", IsMutation(call'[c].req)
                 PROVE  call'[c].ans.status \notin {"OK", "NOT_FOUND"}
      BY DEF ReplicatedWriteNeverAcked
    <2>1. CASE call'[c] = NoCall
      BY <2>1, <1>11
    <2>2. CASE call'[c] = call[c]
      BY <2>2 DEF ReplicatedWriteNeverAcked
    <2>3. CASE call'[c] = Told(c)
      BY <2>3, <1>3
    <2> QED
      BY <2>1, <2>2, <2>3, <1>18
  <1>22. OnePlace'
    <2>1. \A x \in Caller, m \in Node : InQueue(x, m)' => InQueue(x, m)
      <3> SUFFICES ASSUME NEW x \in Caller, NEW m \in Node,
                          NEW i \in 1 .. Len(queue'[m]), queue'[m][i].from = x
                   PROVE  InQueue(x, m)
        BY SMT DEF InQueue
      <3>1. m # n /\ i \in 1 .. Len(queue[m])
        BY SMT, <1>4, <1>5
      <3> QED
        BY <3>1, <1>6 DEF InQueue
    <2>2. \A x \in Caller, w \in Worker : With(x, w)' => With(x, w)
      BY <1>8 DEF With
    <2>3. \A x \in Caller, m \in Node : \A i, j \in 1 .. Len(queue'[m]) :
              queue'[m][i].from = x /\ queue'[m][j].from = x => i = j
      <3> SUFFICES ASSUME NEW x \in Caller, NEW m \in Node,
                          NEW i \in 1 .. Len(queue'[m]), NEW j \in 1 .. Len(queue'[m]),
                          queue'[m][i].from = x, queue'[m][j].from = x
                   PROVE  i = j
        BY SMT
      <3>1. m # n /\ i \in 1 .. Len(queue[m]) /\ j \in 1 .. Len(queue[m])
        BY SMT, <1>4, <1>5
      <3>2. queue[m][i].from = x /\ queue[m][j].from = x
        BY <3>1, <1>6
      <3> QED
        <4>1. \A k, l \in 1 .. Len(queue[m]) :
                  queue[m][k].from = x /\ queue[m][l].from = x => k = l
          BY DEF OnePlace
        <4> QED
          BY <3>1, <3>2, <4>1
    <2> QED
      BY <2>1, <2>2, <2>3 DEF OnePlace
  <1>23. HasPlace'
    <2> SUFFICES ASSUME NEW x \in Caller, call'[x].to # None,
                        call'[x].st # "answered" \/ x \in Client
                 PROVE  \/ \E m \in Node : InQueue(x, m)'
                        \/ \E w \in Worker : With(x, w)'
      BY DEF HasPlace
    <2>1. x \notin T /\ call[x].to # n /\ call'[x] = call[x]
      BY <1>2, <1>3, <1>11
    <2>2. CASE \E m \in Node : InQueue(x, m)
      <3>1. PICK m \in Node : \E i \in 1 .. Len(queue[m]) : queue[m][i].from = x
        BY <2>2 DEF InQueue
      <3>2. PICK i \in 1 .. Len(queue[m]) : queue[m][i].from = x
        BY <3>1
      <3>3. m # n
        BY <2>1, <3>2, SMTT(30) DEF QueueLinked, Linked
      <3>4. i \in 1 .. Len(queue'[m]) /\ queue'[m][i].from = x
        BY <2>1, <3>2, <3>3, <1>5, <1>6
      <3> QED
        BY <3>4 DEF InQueue
    <2>3. CASE \E w \in Worker : With(x, w)
      <3>1. PICK w \in Worker : With(x, w)
        BY <2>3
      <3>2. w[1] # n
        BY <2>1, <3>1 DEF ServingLinked, Linked, With
      <3>3. serving'[w] # None
        BY <3>1, <3>2, <1>9 DEF With
      <3>4. With(x, w)'
        BY <2>1, <3>1, <3>3, <1>8 DEF With
      <3> QED
        BY <3>4
    <2> QED
      BY <2>1, <2>2, <2>3 DEF HasPlace
  <1> QED
    BY <1>13, <1>14, <1>15, <1>16, <1>17, <1>19, <1>20, <1>21, <1>22, <1>23

-----------------------------------------------------------------------------
LEMMA LearnFacts ==
    ASSUME NEW j, JobShape(j), NEW a
    PROVE  /\ JobShape(Learn(j, a)) /\ Learn(j, a).req = j.req
           /\ IsMutation(j.req) => Learn(j, a).ans = j.ans
           /\ IsMutation(j.req) /\ a.status \notin {"OK", "NOT_FOUND"} =>
                 Learn(j, a).acks = j.acks
  <1> DEFINE k == Learn(j, a)
  <1> SUFFICES /\ JobShape(k) /\ k.req = j.req
               /\ IsMutation(j.req) => k.ans = j.ans
               /\ IsMutation(j.req) /\ a.status \notin {"OK", "NOT_FOUND"} =>
                     k.acks = j.acks
    OBVIOUS
  <1>0. k = Learn(j, a)
    OBVIOUS
  <1> HIDE DEF k
  <1>1. CASE IsMutation(j.req)
    <2> DEFINE d == IF a.status \in {"OK", "NOT_FOUND"} THEN 1 ELSE 0
    <2>1. k = [j EXCEPT !.todo = Tail(@), !.acks = @ + d]
      BY <1>0, <1>1 DEF Learn
    <2>2. d \in Nat /\ (a.status \notin {"OK", "NOT_FOUND"} => d = 0)
      OBVIOUS
    <2> HIDE DEF d
    <2>3. k = [req |-> j.req, todo |-> Tail(j.todo), acks |-> j.acks + d, ans |-> j.ans]
      BY <2>1 DEF JobShape
    <2>4. j.acks + d \in Nat /\ (d = 0 => j.acks + d = j.acks)
      BY SMT, <2>2 DEF JobShape
    <2>5. k = [req |-> k.req, todo |-> k.todo, acks |-> k.acks, ans |-> k.ans]
          /\ k.req = j.req /\ k.ans = j.ans /\ k.acks = j.acks + d
      BY <2>3
    <2> QED
      BY <2>2, <2>4, <2>5 DEF JobShape
  <1>2. CASE ~IsMutation(j.req)
    <2>1. k = [j EXCEPT !.todo = Tail(@),
                        !.ans = IF a.status = "OK" THEN a ELSE None]
      BY <1>0, <1>2 DEF Learn
    <2> QED
      BY <2>1, <1>2 DEF JobShape
  <1> QED
    BY <1>1, <1>2

LEMMA LearnAdvances ==
    ASSUME IndInv, NEW w \in Worker, job[w] # None, NEW a,
           job' = [job EXCEPT ![w] = Learn(@, a)],
           IsMutation(job[w].req) /\ ReplicationFactor >= 2 =>
               a.status \notin {"OK", "NOT_FOUND"}
    PROVE  JobAdvances(w)
  <1>1. JobShape(job[w]) /\ job = [u \in Worker |-> job[u]]
    BY DEF IndInv, Shapes
  <1>2. job'[w] = Learn(job[w], a) /\ job' = [job EXCEPT ![w] = job'[w]]
    BY <1>1
  <1>3. /\ JobShape(job'[w]) /\ job'[w].req = job[w].req
        /\ IsMutation(job[w].req) => job'[w].ans = job[w].ans
        /\ IsMutation(job[w].req) /\ a.status \notin {"OK", "NOT_FOUND"} =>
              job'[w].acks = job[w].acks
    BY <1>1, <1>2, LearnFacts
  <1> QED
    BY <1>2, <1>3 DEF JobAdvances, IndInv, FewAcks

LEMMA ReadJobs ==
    ASSUME IndInv, NEW w \in Worker,
           HandlePing(w) \/ HandleMutation(w) \/ HandleGet(w)
    PROVE  IndInv'
  <1>1. CASE HandlePing(w)
    <2> DEFINE j == [req |-> Ping, todo |-> <<>>, acks |-> 0, ans |-> Answer("OK")]
    <2>1. Read(w, j) /\ serving[w].req = Ping
      BY <1>1 DEF HandlePing
    <2>2. JobShape(j) /\ j.req = Ping /\ ~IsMutation(j.req)
      BY DEF JobShape, IsMutation, Ping
    <2> HIDE DEF j
    <2> QED
      BY <2>1, <2>2, ReadKeeps
  <1>2. CASE HandleMutation(w)
    <2> DEFINE r == serving[w].req
               replicas == ReplicaNodes(w[1], r.key)
               n1 == IF Contains(replicas, w[1])
                           /\ (r.cmd = "PUT" => PutStatus(r.key, r.value) = "OK")
                     THEN 1 ELSE 0
               j == [req |-> r, todo |-> Without(replicas, w[1]), acks |-> n1,
                     ans |-> None]
    <2>1. Read(w, j) /\ r \in Request
      BY <1>2 DEF HandleMutation
    <2>2. n1 \in Nat /\ n1 <= 1
      <3>1. n1 = 0 \/ n1 = 1
        OBVIOUS
      <3> HIDE DEF n1
      <3> QED
        BY SMT, <3>1
    <2> HIDE DEF replicas, r, n1
    <2>3. JobShape(j) /\ j.req = r /\ j.ans = None /\ j.acks <= 1
      BY <2>1, <2>2 DEF JobShape
    <2> HIDE DEF j
    <2> QED
      BY <2>1, <2>3, ReadKeeps DEF r
  <1>3. CASE HandleGet(w)
    <2> DEFINE r == serving[w].req
               todo == IF IsLocalKey(w[1], r.key) THEN <<>>
                                                  ELSE ReplicaNodes(w[1], r.key)
               ans == IF IsLocalKey(w[1], r.key) THEN GetAnswer(w[1], r.key) ELSE None
               j == [req |-> r, todo |-> todo, acks |-> 0, ans |-> ans]
    <2>1. Read(w, j) /\ r \in Request /\ r.cmd = "GET"
      BY <1>3 DEF HandleGet
    <2> HIDE DEF r, todo, ans
    <2>2. JobShape(j) /\ j.req = r /\ ~IsMutation(j.req)
      BY <2>1 DEF JobShape, IsMutation
    <2> HIDE DEF j
    <2>3. j.req = serving[w].req
      BY <2>2 DEF r
    <2> QED
      BY <2>1, <2>2, <2>3, ReadKeeps
  <1> QED
    BY <1>1, <1>2, <1>3

LEMMA UntouchedKeeps ==
    ASSUME IndInv, UNCHANGED <<queue, serving, job, call>>
    PROVE  IndInv'
  <1> USE DEF IndInv
  <1>0. Shapes'
    <2>1. queue' = queue /\ serving' = serving /\ job' = job /\ call' = call
      OBVIOUS
    <2> QED
      BY <2>1 DEF Shapes
  <1>1. QueueLinked' /\ ServingLinked'
    BY DEF QueueLinked, ServingLinked, Linked
  <1>2. JobLinked' /\ Forwarding' /\ ClosedIsQuiet' /\ FewAcks'
    BY DEF JobLinked, Forwarding, ClosedIsQuiet, FewAcks
  <1>3. /\ \A x \in Caller, n \in Node : InQueue(x, n)' <=> InQueue(x, n)
        /\ \A x \in Caller, w \in Worker : With(x, w)' <=> With(x, w)
    BY DEF InQueue, With
  <1>4. OnePlace'
    <2>1. queue' = queue
      OBVIOUS
    <2>2. \A x \in Caller, n \in Node : \A i, j \in 1 .. Len(queue'[n]) :
              queue'[n][i].from = x /\ queue'[n][j].from = x => i = j
      BY SMT, <2>1 DEF OnePlace
    <2> QED
      BY <1>3, <2>2 DEF OnePlace
  <1>5. HasPlace'
    BY <1>3 DEF HasPlace
  <1>6. ReplicatedWriteNeverAcked'
    BY DEF ReplicatedWriteNeverAcked
  <1> QED
    BY <1>0, <1>1, <1>2, <1>4, <1>5, <1>6

LEMMA WorkerKeeps ==
    ASSUME IndInv, NEW w \in Worker, WorkerStep(w)
    PROVE  IndInv'
  <1>1. CASE Forward(w)
    <2>1. PICK m \in Node : Open(w, m, job[w].req)
      BY <1>1 DEF Forward
    <2>2. /\ job[w] # None /\ job[w].ans = None /\ job[w].todo # <<>>
          /\ UNCHANGED <<serving, job>>
      BY <1>1 DEF Forward, AtReplica
    <2>3. job[w].req \in Request \cup {Ping}
      BY <2>2 DEF IndInv, Shapes, JobShape
    <2> QED
      BY <2>1, <2>2, <2>3, OpenKeeps
  <1>2. CASE ForwardRefused(w)
    <2> DEFINE a == Answer("NODE_UNAVAILABLE")
    <2>1. /\ job[w] # None /\ call[w].to = None
          /\ job' = [job EXCEPT ![w] = Learn(@, a)]
          /\ UNCHANGED <<queue, serving, call>>
      BY <1>2 DEF ForwardRefused, AtReplica
    <2>2. a.status \notin {"OK", "NOT_FOUND"}
      BY DEF Answer
    <2> HIDE DEF a
    <2> QED
      BY <2>1, <2>2, LearnAdvances, AdvanceKeeps
  <1>3. CASE ForwardReturn(w)
    <2>1. /\ call[w].st = "answered" /\ Close(w)
          /\ job' = [job EXCEPT ![w] = Learn(@, call[w].ans)]
      BY <1>3 DEF ForwardReturn
    <2>2. job[w] # None /\ call[w].req = job[w].req
      BY <2>1 DEF IndInv, Forwarding
    <2>3. IsMutation(job[w].req) /\ ReplicationFactor >= 2 =>
              call[w].ans.status \notin {"OK", "NOT_FOUND"}
      BY <2>1, <2>2 DEF IndInv, ReplicatedWriteNeverAcked
    <2>4. JobAdvances(w)
      BY <2>1, <2>2, <2>3, LearnAdvances
    <2> QED
      BY <2>1, <2>2, <2>4, CloseKeeps
  <1>4. CASE GetLocal(w)
    <2> DEFINE a == GetAnswer(w[1], job[w].req.key)
    <2>1. /\ job[w] # None /\ call[w].to = None /\ job[w].req.cmd = "GET"
          /\ job' = [job EXCEPT ![w] = Learn(@, a)]
          /\ UNCHANGED <<queue, serving, call>>
      BY <1>4 DEF GetLocal, AtReplica
    <2>2. ~IsMutation(job[w].req)
      BY <2>1 DEF IsMutation
    <2> HIDE DEF a
    <2> QED
      BY <2>1, <2>2, LearnAdvances, AdvanceKeeps
  <1> QED
    BY <1>1, <1>2, <1>3, <1>4, TakeKeeps, EndKeeps, ReadJobs, ReplyKeeps
       DEF WorkerStep

LEMMA ClientKeeps ==
    ASSUME IndInv, NEW c \in Client, ClientStep(c)
    PROVE  IndInv'
  <1> USE CallersDiffer
  <1>1. ASSUME NEW n \in Node, ClientConnect(c, n) PROVE IndInv'
    BY <1>1, OpenKeeps DEF ClientConnect
  <1>2. CASE ClientLeave(c)
    BY <1>2, CloseKeeps DEF ClientLeave
  <1> QED
    BY <1>1, <1>2, SendKeeps, ReceiveKeeps DEF ClientStep

LEMMA MonitorKeeps ==
    ASSUME IndInv, NEW n \in Node, MonitorStep(n)
    PROVE  IndInv'
  <1> USE CallersDiffer
  <1> DEFINE c == <<n, None>>
  <1>1. c \in Caller /\ c \notin Worker
    BY ClusterAssumption
  <1>2. CASE PingSend(n)
    <2>1. PICK m \in Node : Open(c, m, Ping)
      BY <1>2 DEF PingSend
    <2>2. UNCHANGED <<serving, job>>
      BY <1>2 DEF PingSend
    <2> QED
      BY <1>1, <2>1, <2>2, OpenKeeps
  <1>3. CASE PingReturn(n)
    BY <1>1, <1>3, CloseKeeps DEF PingReturn
  <1>4. CASE SkipSelf(n) \/ PingRefused(n)
    BY <1>4, UntouchedKeeps DEF SkipSelf, PingRefused
  <1> QED
    BY <1>2, <1>3, <1>4 DEF MonitorStep

(* Every reachable state satisfies the invariant. *)
THEOREM Invariance == Spec => []IndInv
  <1>1. IndInv /\ [Next]_vars => IndInv'
    <2> SUFFICES ASSUME IndInv, [Next]_vars PROVE IndInv'
      OBVIOUS
    <2>1. ASSUME NEW n \in Node, Start(n) PROVE IndInv'
      BY <2>1, UntouchedKeeps DEF Start
    <2>2. CASE UNCHANGED vars
      BY <2>2, UntouchedKeeps DEF vars
    <2> QED
      BY <2>1, <2>2, ClientKeeps, WorkerKeeps, MonitorKeeps, CrashKeeps DEF Next
  <1> QED
    BY <1>1, InitEstablishes, PTL DEF Spec

(* With a replication factor of two or more no PUT or DELETE is ever       *)
(* answered OK (ReplicatedWriteNeverAcked).                                *)
THEOREM WritesAreNeverAcked == Spec => []ReplicatedWriteNeverAcked
  <1>1. IndInv => ReplicatedWriteNeverAcked
    BY DEF IndInv
  <1> QED
    BY <1>1, Invariance, PTL

(* A connection is in exactly one place (OneConnectionOnePlace): no        *)
(* request is handled twice or answered to another caller.                 *)
THEOREM ConnectionsStayPut == Spec => []OneConnectionOnePlace
  <1>1. IndInv => OneConnectionOnePlace
    <2> SUFFICES ASSUME IndInv, NEW c \in Caller
                 PROVE  /\ \A p, q \in Places(c) : p = q
                        /\ \A p \in Places(c) : p.node = call[c].to
                        /\ call[c].to # None /\ call[c].st # "answered" => Places(c) # {}
      BY DEF OneConnectionOnePlace
    <2> USE CallersDiffer DEF IndInv
    <2>1. ASSUME NEW p \in Places(c)
          PROVE  \/ \E n \in Node : \E i \in 1 .. Len(queue[n]) :
                       /\ queue[n][i].from = c
                       /\ p = [node |-> n, queued |-> TRUE, at |-> i]
                 \/ \E w \in Worker :
                       /\ With(c, w)
                       /\ p = [node |-> w[1], queued |-> FALSE, at |-> w[2]]
      <3>1. CASE p \in ServedPlaces(c)
        <4>1. PICK w \in {u \in Worker : serving[u] # None /\ serving[u].from = c} :
                  p = [node |-> w[1], queued |-> FALSE, at |-> w[2]]
          BY <3>1 DEF ServedPlaces
        <4> QED
          BY <4>1 DEF With
      <3>2. CASE p \in UNION {QueuePlaces(c, n) : n \in Node}
        <4>1. PICK n \in Node : p \in QueuePlaces(c, n)
          BY <3>2
        <4> QED
          BY <4>1 DEF QueuePlaces
      <3> QED
        BY <2>1, <3>1, <3>2 DEF Places
    <2>2. \A n \in Node : \A i \in 1 .. Len(queue[n]) :
              queue[n][i].from = c => call[c].to = n /\ InQueue(c, n)
      BY SMT DEF QueueLinked, Linked, InQueue
    <2>3. \A w \in Worker : With(c, w) => call[c].to = w[1]
      BY DEF ServingLinked, Linked, With
    <2>4. \A p \in Places(c) : p.node = call[c].to
      BY SMT, <2>1, <2>2, <2>3
    <2>5. ASSUME NEW p \in Places(c), NEW q \in Places(c) PROVE p = q
      <3>1. CASE \E n \in Node : \E i \in 1 .. Len(queue[n]) :
                    /\ queue[n][i].from = c
                    /\ p = [node |-> n, queued |-> TRUE, at |-> i]
        <4>1. PICK n \in Node : \E i \in 1 .. Len(queue[n]) :
                  queue[n][i].from = c /\ p = [node |-> n, queued |-> TRUE, at |-> i]
          BY <3>1
        <4>2. PICK i \in 1 .. Len(queue[n]) :
                  queue[n][i].from = c /\ p = [node |-> n, queued |-> TRUE, at |-> i]
          BY <4>1
        <4>3. call[c].to = n /\ \A w \in Worker : ~With(c, w)
          BY <4>2, <2>2 DEF OnePlace
        <4>4. PICK m \in Node : \E j \in 1 .. Len(queue[m]) :
                  queue[m][j].from = c /\ q = [node |-> m, queued |-> TRUE, at |-> j]
          BY <2>1, <4>3
        <4>5. PICK j \in 1 .. Len(queue[m]) :
                  queue[m][j].from = c /\ q = [node |-> m, queued |-> TRUE, at |-> j]
          BY <4>4
        <4>6. m = n
          BY <4>3, <4>5, <2>2
        <4>7. \A k, l \in 1 .. Len(queue[n]) :
                  queue[n][k].from = c /\ queue[n][l].from = c => k = l
          BY DEF OnePlace
        <4>8. j \in 1 .. Len(queue[n]) /\ queue[n][j].from = c
          BY <4>5, <4>6
        <4>9. i = j
          BY <4>2, <4>7, <4>8
        <4> QED
          BY <4>2, <4>5, <4>6, <4>9
      <3>2. CASE \E w \in Worker :
                    /\ With(c, w)
                    /\ p = [node |-> w[1], queued |-> FALSE, at |-> w[2]]
        <4>1. PICK w \in Worker :
                  With(c, w) /\ p = [node |-> w[1], queued |-> FALSE, at |-> w[2]]
          BY <3>2
        <4>2. \A n \in Node : ~InQueue(c, n)
          BY <4>1 DEF OnePlace
        <4>3. \A n \in Node : \A i \in 1 .. Len(queue[n]) : queue[n][i].from # c
          BY <2>2, <4>2
        <4>4. PICK u \in Worker :
                  With(c, u) /\ q = [node |-> u[1], queued |-> FALSE, at |-> u[2]]
          BY SMT, <2>1, <4>3
        <4>5. w = u
          BY <4>1, <4>4 DEF OnePlace
        <4> QED
          BY <4>1, <4>4, <4>5
      <3> QED
        BY <2>1, <3>1, <3>2
    <2>6. call[c].to # None /\ call[c].st # "answered" => Places(c) # {}
      <3>1. \A n \in Node : InQueue(c, n) => Places(c) # {}
        <4> SUFFICES ASSUME NEW n \in Node, NEW i \in 1 .. Len(queue[n]),
                            queue[n][i].from = c
                     PROVE  Places(c) # {}
          BY DEF InQueue
        <4>1. [node |-> n, queued |-> TRUE, at |-> i] \in QueuePlaces(c, n)
          BY DEF QueuePlaces
        <4> QED
          BY SMT, <4>1 DEF Places
      <3>2. \A w \in Worker : With(c, w) => Places(c) # {}
        <4> SUFFICES ASSUME NEW w \in Worker, With(c, w) PROVE Places(c) # {}
          OBVIOUS
        <4>1. [node |-> w[1], queued |-> FALSE, at |-> w[2]] \in ServedPlaces(c)
          BY DEF ServedPlaces, With
        <4>2. ServedPlaces(c) \subseteq Places(c)
          BY DEF Places
        <4> QED
          BY <4>1, <4>2
      <3> QED
        BY <3>1, <3>2 DEF HasPlace
    <2> QED
      BY <2>4, <2>5, <2>6
  <1> QED
    BY <1>1, Invariance, PTL

-----------------------------------------------------------------------------
(* The health monitor. *)
MonitorTypes ==
    /\ alive \in [Node -> BOOLEAN]
    /\ view \in [Node -> [Node -> Status]]
    /\ peer \in [Node -> 1 .. Len(Config)]
    /\ crashes \in [Node -> Nat]

PingIsAnswered ==
    \A w \in Worker : job[w] # None /\ job[w].req = Ping =>
        job[w].ans # None /\ job[w].ans.status = "OK"

(* A ping goes to the node the monitor has come to, and is answered OK     *)
(* unless that node died.                                                  *)
PingCall(n, x) ==
    x.to # None =>
        /\ alive[n]
        /\ x.to = Config[peer[n]] /\ x.to # n
        /\ x.req = Ping
        /\ x.st = "answered" => x.ans.status = "OK" \/ crashes[x.to] > 0

PingCalls == \A n \in Node : PingCall(n, call[<<n, None>>])

MonitorInv ==
    MonitorTypes /\ PingIsAnswered /\ PingCalls /\ TrustsItself

LEMMA MonitorInit == Init => MonitorInv
  <1> SUFFICES ASSUME Init PROVE MonitorInv
    OBVIOUS
  <1> USE DEF Init
  <1>1. \A n \in Node : 1 \in 1 .. Len(Config)
    BY SMT, ClusterAssumption
  <1>2. MonitorTypes
    <2>1. alive \in [Node -> BOOLEAN] /\ crashes \in [Node -> Nat]
      BY SMT
    <2> QED
      BY <1>1, <2>1 DEF MonitorTypes, Status
  <1>3. PingIsAnswered /\ TrustsItself
    BY DEF PingIsAnswered, TrustsItself
  <1>4. PingCalls
    BY CallersDiffer DEF PingCalls, PingCall, NoCall
  <1> QED
    BY <1>2, <1>3, <1>4 DEF MonitorInv

(* A step that changes neither the monitors' state nor their connections. *)
LEMMA MonitorUntouched ==
    ASSUME MonitorInv, UNCHANGED <<alive, view, peer, crashes>>, PingIsAnswered',
           \A n \in Node : call'[<<n, None>>] = call[<<n, None>>]
    PROVE  MonitorInv'
  <1>1. MonitorTypes' /\ TrustsItself'
    BY DEF MonitorInv, MonitorTypes, TrustsItself
  <1>2. PingCalls'
    BY DEF MonitorInv, PingCalls, PingCall
  <1> QED
    BY <1>1, <1>2 DEF MonitorInv

LEMMA PingNotRequest == Ping \notin Request /\ ~IsMutation(Ping) /\ Ping.cmd = "PING"
  BY DEF Ping, Request, IsMutation

LEMMA MonitorClients ==
    ASSUME IndInv, MonitorInv, NEW c \in Client, ClientStep(c)
    PROVE  MonitorInv'
  <1>1. UNCHANGED <<alive, view, peer, crashes, job>>
    BY DEF ClientStep, ClientConnect, ClientSend, ClientReceive, ClientLeave
  <1>2. PingIsAnswered'
    BY <1>1 DEF MonitorInv, PingIsAnswered
  <1>3. \A x \in Caller : x # c => call'[x] = call[x]
    BY DEF ClientStep, ClientConnect, ClientSend, ClientReceive, ClientLeave,
       Open, Close, IndInv, Shapes
  <1>4. \A n \in Node : <<n, None>> # c /\ <<n, None>> \in Caller
    BY SMT, CallerAssumption
  <1> QED
    BY <1>1, <1>2, <1>3, <1>4, MonitorUntouched

LEMMA MonitorWorkers ==
    ASSUME IndInv, MonitorInv, NEW w \in Worker, WorkerStep(w)
    PROVE  MonitorInv'
  <1> USE CallersDiffer
  <1>1. \A n \in Node : <<n, None>> # w /\ <<n, None>> \in Caller
    OBVIOUS
  <1>2. job = [u \in Worker |-> job[u]] /\ call = [c \in Caller |-> call[c]]
    BY DEF IndInv, Shapes
  <1>3. CASE TakeConnection(w) \/ EndConnection(w)
    <2>1. UNCHANGED <<alive, view, peer, crashes, job, call>>
      BY <1>3 DEF TakeConnection, EndConnection
    <2>2. PingIsAnswered'
      BY <2>1 DEF MonitorInv, PingIsAnswered
    <2> QED
      BY <2>1, <2>2, MonitorUntouched
  <1>4. ASSUME NEW j, Read(w, j), j.req = Ping => j.ans # None /\ j.ans.status = "OK"
        PROVE  MonitorInv'
    <2>1. UNCHANGED <<alive, view, peer, crashes, call>> /\ job' = [job EXCEPT ![w] = j]
      BY <1>4 DEF Read
    <2>2. job'[w] = j /\ \A u \in Worker : u # w => job'[u] = job[u]
      BY <2>1, <1>2
    <2>3. PingIsAnswered'
      BY <2>2, <1>4 DEF MonitorInv, PingIsAnswered
    <2> QED
      BY <2>1, <2>3, MonitorUntouched
  <1>5. CASE HandlePing(w)
    <2> DEFINE j == [req |-> Ping, todo |-> <<>>, acks |-> 0, ans |-> Answer("OK")]
    <2>1. Read(w, j)
      BY <1>5 DEF HandlePing
    <2>2. j.ans.status = "OK" /\ j.ans = Answer("OK")
      BY DEF Answer
    <2>3. Answer("OK") # None
      BY SMT, NoneAssumption DEF Response, Answer
    <2> HIDE DEF j
    <2> QED
      BY <2>1, <2>2, <2>3, <1>4
  <1>6. CASE HandleMutation(w) \/ HandleGet(w)
    <2>1. serving[w].req \in Request
      BY <1>6 DEF HandleMutation, HandleGet
    <2>2. PICK todo, acks, ans :
              Read(w, [req |-> serving[w].req, todo |-> todo, acks |-> acks, ans |-> ans])
      BY <1>6, ZenonT(30) DEF HandleMutation, HandleGet
    <2> DEFINE j == [req |-> serving[w].req, todo |-> todo, acks |-> acks, ans |-> ans]
    <2>3. Read(w, j)
      BY <2>2
    <2>4. j.req # Ping
      BY <2>1, PingNotRequest
    <2> HIDE DEF j
    <2> QED
      BY <2>3, <2>4, <1>4
  <1>7. ASSUME NEW a, job[w].ans = None, job[w] # None,
               job' = [job EXCEPT ![w] = Learn(@, a)],
               UNCHANGED <<alive, view, peer, crashes>>,
               \A c \in Caller : c # w => call'[c] = call[c]
        PROVE  MonitorInv'
    <2>1. /\ \A u \in Worker : u # w => job'[u] = job[u]
          /\ job'[w] = Learn(job[w], a)
      BY <1>2, <1>7
    <2>2. job'[w].req = job[w].req
      BY <2>1, <1>7, LearnFacts DEF IndInv, Shapes
    <2>3. job[w].req # Ping
      BY <1>7 DEF MonitorInv, PingIsAnswered
    <2>4. PingIsAnswered'
      BY <2>1, <2>2, <2>3 DEF MonitorInv, PingIsAnswered
    <2> QED
      BY <2>4, <1>1, <1>7, MonitorUntouched
  <1>8. CASE GetLocal(w)
    BY <1>7, <1>8 DEF GetLocal, AtReplica
  <1>9. CASE ForwardRefused(w)
    BY <1>7, <1>9 DEF ForwardRefused, AtReplica
  <1>10. CASE ForwardReturn(w)
    <2>1. /\ call[w].st = "answered" /\ call' = [call EXCEPT ![w] = NoCall]
          /\ job' = [job EXCEPT ![w] = Learn(@, call[w].ans)]
          /\ UNCHANGED <<alive, view, peer, crashes>>
      BY <1>10 DEF ForwardReturn, Close
    <2>2. job[w] # None /\ job[w].ans = None
      BY <2>1 DEF IndInv, Forwarding
    <2>3. \A c \in Caller : c # w => call'[c] = call[c]
      BY <2>1, <1>2
    <2> QED
      BY <2>1, <2>2, <2>3, <1>7
  <1>11. CASE Forward(w)
    <2>1. UNCHANGED <<alive, view, peer, crashes, job>>
      BY <1>11 DEF Forward
    <2>2. \A c \in Caller : c # w => call'[c] = call[c]
      BY <1>2, <1>11 DEF Forward, Open
    <2>3. PingIsAnswered'
      BY <2>1 DEF MonitorInv, PingIsAnswered
    <2> QED
      BY <2>1, <2>2, <2>3, <1>1, MonitorUntouched
  <1>12. CASE Reply(w)
    <2> DEFINE c == serving[w].from
               a == Outcome(job[w])
    <2>1. /\ job[w] # None
          /\ job' = [job EXCEPT ![w] = None]
          /\ call' = IF c = Gone THEN call
                     ELSE [call EXCEPT ![c] = [@ EXCEPT !.st = "answered", !.ans = a]]
          /\ UNCHANGED <<alive, view, peer, crashes>>
      BY <1>12 DEF Reply
    <2>2. c # Gone => call[c].req = job[w].req /\ c \in Caller
      BY <2>1, ServingOrigins DEF IndInv, JobLinked
    <2>3. job[w].req = Ping => a.status = "OK"
      BY <2>1 DEF MonitorInv, PingIsAnswered, Outcome
    <2> HIDE DEF c, a
    <2>4. PingIsAnswered'
      BY <2>1, <1>2 DEF MonitorInv, PingIsAnswered
    <2>5. /\ \A x \in Caller : x # c => call'[x] = call[x]
          /\ c # Gone => call'[c] = [call[c] EXCEPT !.st = "answered", !.ans = a]
      BY <2>1, <2>2, <1>2
    <2>6. ASSUME NEW n \in Node PROVE PingCall(n, call[<<n, None>>])'
      <3>1. PingCall(n, call[<<n, None>>])
        BY DEF MonitorInv, PingCalls
      <3>2. CASE <<n, None>> # c
        BY <3>1, <3>2, <2>1, <2>5, <1>1 DEF PingCall
      <3>3. CASE <<n, None>> = c
        <4>1. c \in Caller /\ CallShape(call[c])
          BY <3>3, <1>1 DEF IndInv, Shapes
        <4>2. call'[c].to = call[c].to /\ call'[c].req = call[c].req /\ call'[c].ans = a
          BY <4>1, <2>5 DEF CallShape
        <4> QED
          BY <4>1, <4>2, <3>1, <3>3, <2>1, <2>2, <2>3 DEF PingCall
      <3> QED
        BY <3>2, <3>3
    <2>7. MonitorTypes' /\ TrustsItself'
      BY <2>1 DEF MonitorInv, MonitorTypes, TrustsItself
    <2> QED
      BY <2>4, <2>6, <2>7 DEF MonitorInv, PingCalls
  <1> QED
    BY <1>3, <1>5, <1>6, <1>8, <1>9, <1>10, <1>11, <1>12 DEF WorkerStep

LEMMA MonitorThemselves ==
    ASSUME IndInv, MonitorInv, NEW n \in Node, MonitorStep(n)
    PROVE  MonitorInv'
  <1> USE CallersDiffer
  <1> DEFINE me == <<n, None>>
  <1>1. /\ me \in Caller /\ me # Gone
        /\ \A m \in Node : m # n => <<m, None>> # me
        /\ \A m \in Node : <<m, None>> \in Caller
    OBVIOUS
  <1>2. call = [c \in Caller |-> call[c]] /\ CallShape(call[me])
    BY <1>1 DEF IndInv, Shapes
  <1>3. PingIsAnswered'
    <2>1. UNCHANGED job
      BY DEF MonitorStep, SkipSelf, PingSend, PingRefused, PingReturn
    <2> QED
      BY <2>1 DEF MonitorInv, PingIsAnswered
  <1>4. alive' = alive /\ crashes' = crashes
    BY DEF MonitorStep, SkipSelf, PingSend, PingRefused, PingReturn
  <1>6. /\ NextPeer(n) \in [Node -> 1 .. Len(Config)]
        /\ \A m \in Node : m # n => NextPeer(n)[m] = peer[m]
        /\ Config[peer[n]] \in Node
    <2>1. Config \in Seq(Node) /\ peer \in [Node -> 1 .. Len(Config)]
      BY ClusterAssumption DEF MonitorInv, MonitorTypes
    <2>3. Len(Config) \in Nat /\ \A i \in 1 .. Len(Config) : Config[i] \in Node
      BY SMT, <2>1
    <2>4. peer[n] \in 1 .. Len(Config)
      BY <2>1
    <2>2. /\ NextPeer(n) \in [Node -> 1 .. Len(Config)]
          /\ \A m \in Node : m # n => NextPeer(n)[m] = peer[m]
      BY SMT, <2>1, <2>3, <2>4 DEF NextPeer
    <2> QED
      BY <2>2, <2>3, <2>4
  <1>7. PingCall(n, call[me])
    BY DEF MonitorInv, PingCalls
  (* The monitor moves on: its connection is closed. *)
  <1>8. ASSUME peer' = NextPeer(n), call'[me].to = None,
               \A c \in Caller : c # me => call'[c] = call[c]
        PROVE  PingCalls'
    <2> SUFFICES ASSUME NEW m \in Node PROVE PingCall(m, call[<<m, None>>])'
      BY DEF PingCalls
    <2>1. CASE m = n
      BY <2>1, <1>8 DEF PingCall
    <2>2. CASE m # n
      <3>1. call'[<<m, None>>] = call[<<m, None>>] /\ peer'[m] = peer[m]
        BY <2>2, <1>1, <1>6, <1>8
      <3>2. PingCall(m, call[<<m, None>>])
        BY DEF PingCalls, MonitorInv
      <3> QED
        BY <3>1, <3>2, <1>4 DEF PingCall
    <2> QED
      BY <2>1, <2>2
  (* It has judged node m. *)
  <1>9. ASSUME NEW m \in Node, m # n, NEW ok \in BOOLEAN,
               view' = [view EXCEPT ![n] = NodeStatus(n, m, ok)]
        PROVE  view' \in [Node -> [Node -> Status]] /\ TrustsItself'
    <2>1. view \in [Node -> [Node -> Status]]
      BY DEF MonitorInv, MonitorTypes
    <2>2. Judge(view[n][m], ok) \in Status
      BY DEF Judge, Status
    <2>4. /\ NodeStatus(n, m, ok) \in [Node -> Status]
          /\ \A j \in Node : j # m => NodeStatus(n, m, ok)[j] = view[n][j]
      BY <2>1, <2>2 DEF NodeStatus
    <2>3. /\ view' \in [Node -> [Node -> Status]]
          /\ \A j \in Node : j # m => view'[n][j] = view[n][j]
          /\ \A k \in Node : k # n => view'[k] = view[k]
      BY <1>9, <2>1, <2>4
    <2>6. TrustsItself'
      BY SMT, <2>3, <1>9 DEF TrustsItself, MonitorInv
    <2> QED
      BY <2>3, <2>6
  <1>10. CASE SkipSelf(n)
    <2>1. peer' = NextPeer(n) /\ UNCHANGED <<view, call>> /\ call[me].to = None
      BY <1>10 DEF SkipSelf, Pinging
    <2>2. PingCalls'
      BY <2>1, <1>8
    <2>3. MonitorTypes' /\ TrustsItself'
      BY <2>1, <1>4, <1>6 DEF MonitorInv, MonitorTypes, TrustsItself
    <2> QED
      BY <2>2, <2>3, <1>3 DEF MonitorInv
  <1>11. CASE PingSend(n)
    <2>1. PICK m \in Node \ {n} : Config[peer[n]] = m /\ Open(me, m, Ping)
      BY <1>11 DEF PingSend
    <2>2. UNCHANGED <<view, peer>> /\ alive[n]
      BY <1>11 DEF PingSend, Pinging
    <2>3. call' = [call EXCEPT ![me] =
              [to |-> m, st |-> IF Ping = None THEN "quiet" ELSE "waiting",
               req |-> Ping, ans |-> None]]
      BY <2>1 DEF Open
    <2>4. /\ call'[me].to = m /\ call'[me].req = Ping /\ call'[me].st # "answered"
          /\ \A c \in Caller : c # me => call'[c] = call[c]
      BY <2>3, <1>1, <1>2
    <2>5. PingCalls'
      <3> SUFFICES ASSUME NEW k \in Node PROVE PingCall(k, call[<<k, None>>])'
        BY DEF PingCalls
      <3>1. CASE k = n
        BY <3>1, <2>1, <2>2, <2>4, <1>4 DEF PingCall
      <3>2. CASE k # n
        <4>1. call'[<<k, None>>] = call[<<k, None>>]
          BY <3>2, <2>4, <1>1
        <4>2. PingCall(k, call[<<k, None>>])
          BY DEF PingCalls, MonitorInv
        <4> QED
          BY <4>1, <4>2, <2>2, <1>4 DEF PingCall
      <3> QED
        BY <3>1, <3>2
    <2>6. MonitorTypes' /\ TrustsItself'
      BY <2>2, <1>4 DEF MonitorInv, MonitorTypes, TrustsItself
    <2> QED
      BY <2>5, <2>6, <1>3 DEF MonitorInv
  <1>12. CASE PingRefused(n)
    <2>1. PICK m \in Node \ {n} :
              view' = [view EXCEPT ![n] = NodeStatus(n, m, FALSE)]
      BY <1>12 DEF PingRefused
    <2>2. peer' = NextPeer(n) /\ UNCHANGED call /\ call[me].to = None
      BY <1>12 DEF PingRefused, Pinging
    <2>4. view' \in [Node -> [Node -> Status]] /\ TrustsItself'
      BY <2>1, <1>9
    <2>5. PingCalls'
      BY <2>2, <1>8
    <2>6. MonitorTypes'
      BY <2>2, <2>4, <1>4, <1>6 DEF MonitorInv, MonitorTypes
    <2> QED
      BY <2>4, <2>5, <2>6, <1>3 DEF MonitorInv
  <1>13. CASE PingReturn(n)
    <2> DEFINE m == Config[peer[n]]
               ok == call[me].ans.status = "OK"
    <2>1. /\ call[me].st = "answered"
          /\ view' = [view EXCEPT ![n] = NodeStatus(n, m, ok)]
          /\ peer' = NextPeer(n)
          /\ call' = [call EXCEPT ![me] = NoCall]
      BY <1>13 DEF PingReturn, Close
    <2>2. call'[me] = NoCall /\ \A c \in Caller : c # me => call'[c] = call[c]
      BY <2>1, <1>1, <1>2
    <2>3. call[me].to # None
      BY <2>1, <1>1 DEF IndInv, ClosedIsQuiet
    <2>4. m \in Node /\ m # n /\ ok \in BOOLEAN
      BY <2>1, <2>3, <1>6, <1>7 DEF PingCall
    <2> HIDE DEF m, ok
    <2>5. view' \in [Node -> [Node -> Status]] /\ TrustsItself'
      BY <2>1, <2>4, <1>9
    <2>6. PingCalls'
      <3>1. call'[me].to = None
        BY SMT, <2>2 DEF NoCall
      <3>2. peer' = NextPeer(n)
        BY <2>1
      <3> QED
        BY <3>1, <3>2, <2>2, <1>8
    <2>7. MonitorTypes'
      BY <2>1, <2>5, <1>4, <1>6 DEF MonitorInv, MonitorTypes
    <2> QED
      BY <2>5, <2>6, <2>7, <1>3 DEF MonitorInv
  <1> QED
    BY <1>10, <1>11, <1>12, <1>13 DEF MonitorStep

LEMMA MonitorCrash ==
    ASSUME IndInv, MonitorInv, NEW n \in Node, Crash(n)
    PROVE  MonitorInv'
  <1> USE CallersDiffer
  <1>1. /\ alive' = [alive EXCEPT ![n] = FALSE]
        /\ crashes' = [crashes EXCEPT ![n] = @ + 1]
        /\ UNCHANGED <<view, peer>>
    BY DEF Crash
  <1>2. alive \in [Node -> BOOLEAN] /\ crashes \in [Node -> Nat]
    BY DEF MonitorInv, MonitorTypes
  <1>3. /\ \A m \in Node : m # n => alive'[m] = alive[m] /\ crashes'[m] = crashes[m]
        /\ ~alive'[n] /\ crashes'[n] > 0
        /\ \A m \in Node : crashes[m] > 0 => crashes'[m] > 0
    BY SMT, <1>1, <1>2
  <1>4. MonitorTypes'
    BY SMT, <1>1, <1>2 DEF MonitorInv, MonitorTypes
  <1>5. TrustsItself'
    BY <1>1 DEF MonitorInv, TrustsItself
  <1>6. PingIsAnswered'
    <2>1. job' = [w \in Worker |-> IF w[1] = n THEN None ELSE job[w]]
      BY DEF Crash
    <2> QED
      BY <2>1 DEF MonitorInv, PingIsAnswered
  <1>7. PingCalls'
    <2> SUFFICES ASSUME NEW m \in Node PROVE PingCall(m, call[<<m, None>>])'
      BY DEF PingCalls
    <2> DEFINE me == <<m, None>>
               cut == [call[me] EXCEPT !.st = "answered",
                                       !.ans = Answer("NODE_UNAVAILABLE")]
    <2>1. me \in Caller /\ me \notin Client /\ (me \in ThreadsOf(n) <=> m = n)
      BY CallerAssumption DEF ThreadsOf
    <2>2. call'[me] = IF m = n THEN NoCall
                      ELSE IF call[me].to # n \/ call[me].st = "answered"
                           THEN call[me] ELSE cut
      BY <2>1 DEF Crash
    <2>3. CallShape(call[me]) /\ PingCall(m, call[me])
      BY <2>1 DEF IndInv, Shapes, MonitorInv, PingCalls
    <2>4. CASE m = n
      BY SMT, <2>2, <2>4 DEF PingCall, NoCall
    <2>5. CASE m # n /\ (call[me].to # n \/ call[me].st = "answered")
      <3>1. call'[me] = call[me]
        BY <2>2, <2>5
      <3>2. call[me].to # None => call[me].to \in Node
        BY <2>3 DEF CallShape
      <3> QED
        BY <3>1, <3>2, <2>3, <2>5, <1>1, <1>3 DEF PingCall
    <2>6. CASE m # n /\ call[me].to = n /\ call[me].st # "answered"
      <3>1. call'[me] = cut
        BY <2>2, <2>6
      <3>2. cut.to = n /\ cut.req = call[me].req
        BY <2>3, <2>6 DEF CallShape
      <3>3. n # None
        BY NoneAssumption
      <3> QED
        BY <3>1, <3>2, <3>3, <2>3, <2>6, <1>1, <1>3 DEF PingCall
    <2> QED
      BY <2>4, <2>5, <2>6
  <1> QED
    BY <1>4, <1>5, <1>6, <1>7 DEF MonitorInv

LEMMA MonitorStart ==
    ASSUME IndInv, MonitorInv, NEW n \in Node, Start(n)
    PROVE  MonitorInv'
  <1>1. /\ ~alive[n]
        /\ alive' = [alive EXCEPT ![n] = TRUE]
        /\ view' = [view EXCEPT ![n] = [m \in Node |-> "UP"]]
        /\ peer' = [peer EXCEPT ![n] = 1]
        /\ UNCHANGED <<job, call, crashes>>
    BY DEF Start
  <1>2. MonitorTypes
    BY DEF MonitorInv
  <1>3. MonitorTypes'
    <2>1. Config \in Seq(Node) /\ peer[n] \in 1 .. Len(Config)
      BY <1>2, ClusterAssumption DEF MonitorTypes
    <2>2. 1 \in 1 .. Len(Config)
      BY SMT, <2>1
    <2> QED
      BY <1>1, <1>2, <2>2 DEF MonitorTypes, Status
  <1>4. PingIsAnswered'
    BY <1>1 DEF MonitorInv, PingIsAnswered
  <1>5. TrustsItself'
    BY <1>1, <1>2 DEF MonitorInv, MonitorTypes, TrustsItself
  <1>6. PingCalls'
    BY <1>1, <1>2 DEF MonitorInv, MonitorTypes, PingCalls, PingCall
  <1> QED
    BY <1>3, <1>4, <1>5, <1>6 DEF MonitorInv

(* A ping in flight went to the other node that the monitor has come to, a *)
(* worker that handles one has OK as its answer, and a ping is answered OK *)
(* unless its node has died, in every reachable state and whatever workers *)
(* and clients do (health_monitor.cpp:57-79, server_main.cpp:106).         *)
THEOREM MonitorInvariance == Spec => []MonitorInv
  <1>1. IndInv /\ MonitorInv /\ [Next]_vars => MonitorInv'
    <2> SUFFICES ASSUME IndInv, MonitorInv, [Next]_vars PROVE MonitorInv'
      OBVIOUS
    <2>1. CASE UNCHANGED vars
      BY <2>1 DEF vars, MonitorInv, MonitorTypes, PingIsAnswered, PingCalls, PingCall,
         TrustsItself
    <2>2. CASE Next
      BY <2>2, MonitorClients, MonitorWorkers, MonitorThemselves, MonitorCrash,
         MonitorStart DEF Next
    <2> QED
      BY <2>1, <2>2
  <1> QED
    BY <1>1, MonitorInit, Invariance, PTL DEF Spec

(* No node ever doubts itself, so that a replica never drops itself from   *)
(* its own replica list, whatever connections fail and whatever nodes die  *)
(* (health_monitor.cpp:35, cluster_manager.cpp:36-50).                     *)
THEOREM NeverDoubtsItself == Spec => []TrustsItself
  <1>1. MonitorInv => TrustsItself
    BY DEF MonitorInv
  <1> QED
    BY <1>1, MonitorInvariance, PTL

(* A status gets worse only when connecting to the node has failed or      *)
(* after the node has died, whatever the number of nodes, threads and      *)
(* clients and however long a ping takes (health_monitor.cpp:37-79).       *)
THEOREM SlowNeverSuspected == Spec => SlowIsNotSuspected
  <1> DEFINE Worse(n, m) == view'[n][m] \notin {view[n][m], "UP"}
             Excused(n, m) == call[<<n, None>>].to = None \/ crashes[m] > 0
  <1>1. IndInv /\ MonitorInv /\ [Next]_vars =>
            \A n, m \in Node : Worse(n, m) => Excused(n, m)
    <2> SUFFICES ASSUME IndInv, MonitorInv, [Next]_vars, NEW n \in Node, NEW m \in Node,
                        Worse(n, m)
                 PROVE  Excused(n, m)
      OBVIOUS
    <2>1. view'[n] # view[n] /\ view'[n][m] # "UP"
      OBVIOUS
    <2>2. view \in [Node -> [Node -> Status]]
      BY DEF MonitorInv, MonitorTypes
    (* Only its own monitor makes a status of node n worse. *)
    <2>3. MonitorStep(n)
      <3>1. CASE UNCHANGED vars
        BY <3>1, <2>1 DEF vars
      <3>2. ASSUME NEW c \in Client, ClientStep(c) PROVE FALSE
        BY <3>2, <2>1 DEF ClientStep, ClientConnect, ClientSend, ClientReceive,
           ClientLeave
      <3>3. ASSUME NEW w \in Worker, WorkerStep(w) PROVE FALSE
        BY <3>3, <2>1 DEF WorkerStep, TakeConnection, EndConnection, HandlePing,
           HandleMutation, HandleGet, Read, GetLocal, Forward, ForwardRefused,
           ForwardReturn, Reply
      <3>4. ASSUME NEW k \in Node, Crash(k) \/ Start(k) PROVE FALSE
        <4>1. view' = view \/ view' = [view EXCEPT ![k] = [j \in Node |-> "UP"]]
          BY <3>4 DEF Crash, Start
        <4>2. view'[n] = view[n] \/ view'[n] = [j \in Node |-> "UP"]
          BY <4>1, <2>2
        <4> QED
          BY <4>2, <2>1
      <3>5. ASSUME NEW k \in Node, k # n, MonitorStep(k) PROVE FALSE
        BY <3>5, <2>1, <2>2 DEF MonitorStep, SkipSelf, PingSend, PingRefused, PingReturn
      <3> QED
        BY <3>1, <3>2, <3>3, <3>4, <3>5 DEF Next
    <2>4. CASE SkipSelf(n) \/ PingSend(n) \/ PingRefused(n)
      BY <2>4 DEF SkipSelf, PingSend, PingRefused, Pinging
    <2>5. CASE PingReturn(n)
      <3> DEFINE p == Config[peer[n]]
                 ok == call[<<n, None>>].ans.status = "OK"
      <3>1. /\ call[<<n, None>>].st = "answered"
            /\ view' = [view EXCEPT ![n] = [view[n] EXCEPT ![p] = Judge(view[n][p], ok)]]
        BY <2>5 DEF PingReturn, NodeStatus
      <3>2. PingCall(n, call[<<n, None>>])
        BY DEF MonitorInv, PingCalls
      <3>3. ~ok => Excused(n, p)
        BY <3>1, <3>2 DEF PingCall
      <3>4. ok => Judge(view[n][p], ok) = "UP"
        BY DEF Judge
      <3> HIDE DEF p, ok
      <3>5. view'[n] = [view[n] EXCEPT ![p] = Judge(view[n][p], ok)]
        BY <3>1, <2>2
      <3>6. m # p => view'[n][m] = view[n][m]
        BY <3>5, <2>2
      <3>7. m = p => view'[n][m] = Judge(view[n][p], ok)
        BY <3>5, <2>2
      <3> QED
        BY <3>3, <3>4, <3>6, <3>7
    <2> QED
      BY <2>3, <2>4, <2>5 DEF MonitorStep
  <1>2. IndInv /\ MonitorInv /\ [Next]_vars =>
            [\A n, m \in Node : Worse(n, m) => Excused(n, m)]_vars
    BY <1>1
  <1> QED
    BY <1>2, Invariance, MonitorInvariance, PTL DEF Spec, SlowIsNotSuspected
==============================================================================
