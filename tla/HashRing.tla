------------------------------ MODULE HashRing ------------------------------
(***************************************************************************)
(* Class ConsistentHashRing: the map ring_ from hash values to node ids    *)
(* and the list nodes_ of the physical nodes, changed by addNode and       *)
(* removeNode and read by getNode and getNodes.  Every method holds the    *)
(* mutex from its first to its last statement, so each is one step.        *)
(*                                                                         *)
(* The hash function is some fixed function: where it puts the virtual     *)
(* nodes is chosen once, in the initial state.  Two virtual nodes may      *)
(* collide.  A key is represented by its hash value.                       *)
(***************************************************************************)
EXTENDS Naturals, Sequences, FiniteSets

CONSTANTS
    Node,     \* node ids
    NoNode,   \* the empty string that getNode returns for an empty ring
    MaxHash,  \* the largest hash value
    VNodes    \* virtual_nodes_per_node_

Hash == 0 .. MaxHash

VNode == 0 .. VNodes - 1

ASSUME HashRingAssumption ==
    /\ NoNode \notin Node
    /\ MaxHash \in Nat
    /\ VNodes \in Nat \ {0}

VARIABLES
    hash,   \* hash[n][i]: the hash of the string n#i
    ring,   \* ring_: the node id at each hash value, or NoNode
    nodes   \* nodes_: a vector without duplicates of which only the
            \* elements and the size are used

vars == <<hash, ring, nodes>>

Points == {p \in Hash : ring[p] # NoNode}

Owners == {ring[p] : p \in Points}

Least(S) == CHOOSE p \in S : \A q \in S : p <= q

(* The first element of S from h on, or the least one when there is none. *)
Ceiling(S, h) ==
    LET above == {p \in S : p >= h}
    IN  IF above # {} THEN Least(above) ELSE Least(S)

(* Mutant: ring_.upper_bound(h). *)
UpperBound(h) == Ceiling(Points, h + 1)

(* ring_.lower_bound(h), or ring_.begin() when that is ring_.end(). *)
LowerBound(h) == Ceiling(Points, h)

(* ++it, and back to ring_.begin() from ring_.end(). *)
Clockwise(p) == Ceiling(Points, p + 1)

(* Mutant: the point is found by counting points, as in modulo hashing. *)
GetNodeModulo(h) ==
    IF Points = {} THEN NoNode
    ELSE ring[CHOOSE p \in Points :
                 Cardinality({q \in Points : q < p}) = h % Cardinality(Points)]

GetNode(h) == IF Points = {} THEN NoNode ELSE ring[LowerBound(h)]

(* Mutant: the id is pushed whether it is new or not. *)
VisitAgain(result, n) == Append(result, n)

(* The body of the loop of getNodes: the id is pushed if it is new. *)
Visit(result, n) ==
    IF \E i \in 1 .. Len(result) : result[i] = n
    THEN result
    ELSE Append(result, n)

(* getNodes: from the first point clockwise, until count nodes, all the    *)
(* nodes or the first point again are reached.                             *)
GetNodes(h, count) ==
    LET start == LowerBound(h)
        walk[p \in Points] ==
            [result \in Seq(Node) |->
                LET visited == Visit(result, ring[p])
                IN  IF Len(result) >= count \/ Len(result) >= Cardinality(nodes)
                    THEN result
                    ELSE IF Clockwise(p) = start
                         THEN visited
                         ELSE walk[Clockwise(p)][visited]]
    IN  IF Points = {} \/ count = 0 THEN <<>> ELSE walk[start][<<>>]

-----------------------------------------------------------------------------
Init ==
    /\ hash \in [Node -> [VNode -> Hash]]
    /\ ring = [p \in Hash |-> NoNode]
    /\ nodes = {}

VirtualPoints(n) == {hash[n][i] : i \in VNode}

(* addNode, also of a node that is present: ring_[hash(n#i)] = n takes a   *)
(* point over from whoever has it.                                         *)
AddNode(n) ==
    /\ nodes' = nodes \cup {n}
    /\ ring' = [p \in Hash |-> IF p \in VirtualPoints(n) THEN n ELSE ring[p]]
    /\ UNCHANGED hash

(* Mutant: the points are erased by hash, whoever has them. *)
RemoveNodeByHash(n) ==
    /\ nodes' = nodes \ {n}
    /\ ring' = [p \in Hash |->
                  IF p \in VirtualPoints(n) THEN NoNode ELSE ring[p]]
    /\ UNCHANGED hash

(* Mutant: the first virtual node stays behind. *)
RemoveNodeButOne(n) ==
    /\ nodes' = nodes \ {n}
    /\ ring' = [p \in Hash |->
                  IF ring[p] = n /\ p # hash[n][0] THEN NoNode ELSE ring[p]]
    /\ UNCHANGED hash

(* removeNode: the points whose value is n are erased. *)
RemoveNode(n) ==
    /\ nodes' = nodes \ {n}
    /\ ring' = [p \in Hash |-> IF ring[p] = n THEN NoNode ELSE ring[p]]
    /\ UNCHANGED hash

Next == \E n \in Node : AddNode(n) \/ RemoveNode(n)

Spec == Init /\ [][Next]_vars

-----------------------------------------------------------------------------
(* Every variable holds a value of its type; every point of the ring       *)
(* belongs to a physical node that is present and was put there by one of  *)
(* that node's virtual nodes (consistent_hash.cpp:18-39).                  *)
TypeOK ==
    /\ hash \in [Node -> [VNode -> Hash]]
    /\ ring \in [Hash -> Node \cup {NoNode}]
    /\ nodes \in SUBSET Node
    /\ \A p \in Points : ring[p] \in nodes /\ p \in VirtualPoints(ring[p])

NoCollision ==
    \A m, n \in Node : m # n => VirtualPoints(m) \cap VirtualPoints(n) = {}

(* Where no virtual nodes of two nodes collide, the ring depends on the    *)
(* members alone: after any history of joins, repeated joins and leaves    *)
(* each member has all its points and nobody else has any.  Two servers    *)
(* that read the same nodes in another order route every key alike         *)
(* (cluster_manager.cpp:33-37).                                            *)
RingIsMembership ==
    NoCollision =>
        \A p \in Hash, n \in Node :
            ring[p] = n <=> n \in nodes /\ p \in VirtualPoints(n)

(* "Only keys in the new node's ranges migrate" (docs/architecture.md:146):*)
(* a join moves a key to the new node or not at all.                       *)
JoinMovesKeysToJoiner ==
    [][\A n \in Node :
          AddNode(n) => \A h \in Hash :
              GetNode(h)' = GetNode(h) \/ GetNode(h)' = n]_vars

(* "Affected keys redistribute" (docs/architecture.md:147): a leave moves  *)
(* no key whose node stays, whatever collided before.                      *)
LeaveMovesOwnKeysOnly ==
    [][\A n \in Node :
          RemoveNode(n) => \A h \in Hash :
              GetNode(h) # n => GetNode(h)' = GetNode(h)]_vars

-----------------------------------------------------------------------------
(* How far clockwise from h the point p is. *)
Distance(h, p) == IF p >= h THEN p - h ELSE p + MaxHash + 1 - h

PointsOf(r, n) == {p \in Hash : r[p] = n}

(* Some point of m is nearer to h than all points of n, in ring r. *)
Nearer(r, h, m, n) ==
    \E p \in PointsOf(r, m) : \A q \in PointsOf(r, n) : Distance(h, p) < Distance(h, q)

(* In s are nodes of ring r in the order of their distance from h, each    *)
(* once: the count nearest, or all when there are fewer.                   *)
IsClockwise(r, h, count, s) ==
    /\ \A i \in 1 .. Len(s) : PointsOf(r, s[i]) # {}
    /\ Len(s) <= count
    /\ \A i, j \in 1 .. Len(s) : i < j => Nearer(r, h, s[i], s[j])
    /\ \A n \in Node : PointsOf(r, n) # {} =>
          \/ \E i \in 1 .. Len(s) : s[i] = n
          \/ Len(s) = count /\ \A i \in 1 .. Len(s) : Nearer(r, h, s[i], n)

(* From |nodes| on, a larger count gives nothing more. *)
Counts == 0 .. Cardinality(nodes) + 1

(* "Returns unique physical nodes, walking clockwise around the ring"      *)
(* (include/cluster/consistent_hash.h:26): getNodes gives, for every hash  *)
(* and count, the nodes with a point in the order of their distance, each  *)
(* once, as many as asked for or as there are, also when a member has lost *)
(* all its points in collisions.                                           *)
GetNodesIsClockwiseOrder ==
    \A h \in Hash, count \in Counts :
        LET s == GetNodes(h, count)
        IN  s \in Seq(nodes) /\ IsClockwise(ring, h, count, s)

FirstOf(s, count) == SubSeq(s, 1, IF count < Len(s) THEN count ELSE Len(s))

(* Every key has one list of nodes: getNode gives its first, and getNodes  *)
(* as many of it from the front as are asked for.  So the node that takes  *)
(* a key for its own (cluster_manager.cpp:57-60) is the one that every     *)
(* other node finds first among the key's replicas                         *)
(* (cluster_manager.cpp:46-55).                                            *)
ReplicasBeginAtPrimary ==
    \A h \in Hash :
        LET all == GetNodes(h, Cardinality(nodes))
        IN  /\ GetNode(h) = IF all = <<>> THEN NoNode ELSE all[1]
            /\ \A count \in Counts : GetNodes(h, count) = FirstOf(all, count)

(* s without node n, which is at most once in it. *)
Without(s, n) ==
    IF \E i \in 1 .. Len(s) : s[i] = n
    THEN LET k == CHOOSE i \in 1 .. Len(s) : s[i] = n
         IN  [i \in 1 .. Len(s) - 1 |-> IF i < k THEN s[i] ELSE s[i + 1]]
    ELSE s

(* "Affected keys redistribute to the next clockwise node"                 *)
(* (docs/architecture.md:147): when a node leaves, the replicas of every   *)
(* key are the old ones without it, in the old order, and at most one new  *)
(* node at the end; a key of the node that left goes to the node that was  *)
(* its next replica.                                                       *)
LeaveKeepsReplicaOrder ==
    [][\A n \in Node :
          RemoveNode(n) => \A h \in Hash, count \in Counts :
              GetNodes(h, count)' =
                  FirstOf(Without(GetNodes(h, count + 1), n), count)]_vars

(* "Only keys in the new node's ranges migrate" (docs/architecture.md:146),*)
(* of the replicas: where no virtual nodes of two nodes collide, a node    *)
(* that joins takes its place in the list of replicas of a key, and the    *)
(* other nodes keep their order; at most the last of them drops out.       *)
JoinKeepsReplicaOrder ==
    [][\A n \in Node :
          NoCollision /\ n \notin nodes /\ AddNode(n) =>
              \A h \in Hash, count \in Counts :
                  GetNodes(h, count) =
                      FirstOf(Without(GetNodes(h, count + 1)', n), count)]_vars
=============================================================================
