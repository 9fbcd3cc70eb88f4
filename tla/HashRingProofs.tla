--------------------------- MODULE HashRingProofs ---------------------------
(***************************************************************************)
(* Proofs for every set of nodes, every number of virtual nodes, every     *)
(* size of the hash space and every hash function, collisions included:    *)
(* the type invariant, the ring as a function of the membership, what      *)
(* getNodes computes, and what a join and a leave may move.                *)
(***************************************************************************)
EXTENDS HashRing, TLAPS, FiniteSetTheorems

LEMMA HashIsNat == Hash \subseteq Nat
  BY HashRingAssumption DEF Hash

(* A set of hash values that is not empty has a least element. *)
LEMMA LeastExists ==
    ASSUME NEW S \in SUBSET Hash, S # {}
    PROVE  Least(S) \in S /\ \A q \in S : Least(S) <= q
<1>1. \E p \in S : \A q \in S : ~(<<q, p>> \in OpToRel(<, Nat))
  <2>1. S \subseteq Nat
    BY HashRingAssumption DEF Hash
  <2> QED
    BY <2>1, NatLessThanWellFounded, WFMin
<1>2. \E p \in S : \A q \in S : p <= q
  <2>1. PICK p \in S : \A q \in S : ~(<<q, p>> \in OpToRel(<, Nat))
    BY <1>1
  <2>2. ASSUME NEW q \in S PROVE p <= q
    <3>1. p \in Nat /\ q \in Nat
      BY HashRingAssumption DEF Hash
    <3>2. ~(q < p)
      BY <2>1, <3>1 DEF OpToRel
    <3> QED
      BY <3>1, <3>2
  <2> QED
    BY <2>2
<1> QED
  BY <1>2 DEF Least

(* The first element of S from h on, and when there is none, the least. *)
LEMMA CeilingFacts ==
    ASSUME NEW S \in SUBSET Hash, S # {}, NEW h \in Nat
    PROVE  /\ Ceiling(S, h) \in S
           /\ Ceiling(S, h) >= h =>
                  \A q \in S : q >= h => Ceiling(S, h) <= q
           /\ Ceiling(S, h) < h =>
                  \A q \in S : q < h /\ Ceiling(S, h) <= q
<1> DEFINE above == {p \in S : p >= h}
<1>0. h \in Nat /\ \A p \in S : p \in Nat
  BY HashRingAssumption DEF Hash
<1>1. CASE above # {}
  <2>1. Ceiling(S, h) = Least(above)
    BY <1>1 DEF Ceiling
  <2>2. Least(above) \in above /\ \A q \in above : Least(above) <= q
    <3>1. above \in SUBSET Hash
      OBVIOUS
    <3> QED
      BY <1>1, <3>1, LeastExists
  <2>3. Ceiling(S, h) \in S /\ Ceiling(S, h) >= h
    BY <2>1, <2>2
  <2>4. \A q \in S : q >= h => Ceiling(S, h) <= q
    BY <2>1, <2>2
  <2>5. ASSUME NEW c \in Nat, c >= h PROVE ~(c < h)
    BY <1>0, <2>5
  <2>6. Ceiling(S, h) \in Nat
    BY <1>0, <2>3
  <2> QED
    BY <2>3, <2>4, <2>5, <2>6
<1>2. CASE above = {}
  <2>1. Ceiling(S, h) = Least(S)
    BY <1>2 DEF Ceiling
  <2>2. Least(S) \in S /\ \A q \in S : Least(S) <= q
    BY LeastExists
  <2>3. \A q \in S : q < h
    BY <1>0, <1>2
  <2> QED
    BY <1>0, <2>1, <2>2, <2>3
<1> QED
  BY <1>1, <1>2

(* Taking other points away does not move the first point from h on. *)
LEMMA CeilingOfSubset ==
    ASSUME NEW T \in SUBSET Hash, NEW S \in SUBSET T, NEW h \in Hash,
           Ceiling(T, h) \in S
    PROVE  Ceiling(S, h) = Ceiling(T, h)
<1> DEFINE a == Ceiling(S, h)
           b == Ceiling(T, h)
<1>0. h \in Nat
  BY HashRingAssumption DEF Hash
<1>1. /\ a \in S
      /\ a >= h => \A q \in S : q >= h => a <= q
      /\ a < h => \A q \in S : q < h /\ a <= q
  BY <1>0, CeilingFacts
<1>2. /\ b \in T
      /\ b >= h => \A q \in T : q >= h => b <= q
      /\ b < h => \A q \in T : q < h /\ b <= q
  BY <1>0, CeilingFacts
<1> HIDE DEF a, b
<1>3. a \in Nat /\ b \in Nat /\ h \in Nat
  <2>1. Hash \subseteq Nat
    BY HashRingAssumption DEF Hash
  <2> QED
    BY <1>1, <1>2, <2>1
<1>4. a \in T /\ b \in S
  BY <1>1 DEF b
<1>5. a = b
  BY <1>1, <1>2, <1>3, <1>4
<1> QED
  BY <1>5 DEF a, b

-----------------------------------------------------------------------------
LEMMA AddNodeRing ==
    ASSUME TypeOK, NEW n \in Node, AddNode(n)
    PROVE  /\ \A p \in Hash : ring'[p] = IF p \in VirtualPoints(n) THEN n ELSE ring[p]
           /\ Points' = Points \cup (VirtualPoints(n) \cap Hash)
           /\ nodes' = nodes \cup {n}
           /\ ring' \in [Hash -> Node \cup {NoNode}]
           /\ hash' = hash
<1>1. \A p \in Hash : ring'[p] = IF p \in VirtualPoints(n) THEN n ELSE ring[p]
  BY DEF AddNode
<1>2. n # NoNode
  BY HashRingAssumption
<1>3. Points' = Points \cup (VirtualPoints(n) \cap Hash)
  BY <1>1, <1>2 DEF Points
<1>4. ring' \in [Hash -> Node \cup {NoNode}]
  BY DEF AddNode, TypeOK
<1> QED
  BY <1>1, <1>3, <1>4 DEF AddNode

LEMMA RemoveNodeRing ==
    ASSUME TypeOK, NEW n \in Node, RemoveNode(n)
    PROVE  /\ \A p \in Hash : ring'[p] = IF ring[p] = n THEN NoNode ELSE ring[p]
           /\ Points' = {p \in Points : ring[p] # n}
           /\ nodes' = nodes \ {n}
           /\ ring' \in [Hash -> Node \cup {NoNode}]
           /\ hash' = hash
<1>1. \A p \in Hash : ring'[p] = IF ring[p] = n THEN NoNode ELSE ring[p]
  BY DEF RemoveNode
<1>2. n # NoNode
  BY HashRingAssumption
<1>3. Points' = {p \in Points : ring[p] # n}
  BY <1>1, <1>2 DEF Points
<1>4. ring' \in [Hash -> Node \cup {NoNode}]
  BY DEF RemoveNode, TypeOK
<1> QED
  BY <1>1, <1>3, <1>4 DEF RemoveNode

(* Every variable always holds a value of its type, and every point of the *)
(* ring belongs to a member that has a virtual node there.                 *)
THEOREM TypeInvariant == Spec => []TypeOK
<1>1. Init => TypeOK
  BY HashRingAssumption DEF Init, TypeOK, Points
<1>2. TypeOK /\ [Next]_vars => TypeOK'
  <2>1. ASSUME TypeOK, NEW n \in Node, AddNode(n) PROVE TypeOK'
    <3>1. \A p \in Points' : ring'[p] \in nodes' /\ p \in VirtualPoints(ring'[p])
      BY <2>1, AddNodeRing DEF TypeOK, Points
    <3>2. \A m : VirtualPoints(m)' = VirtualPoints(m)
      BY <2>1, AddNodeRing DEF VirtualPoints
    <3>3. nodes' \in SUBSET Node
      BY <2>1 DEF AddNode, TypeOK
    <3> QED
      BY <2>1, <3>1, <3>2, <3>3, AddNodeRing DEF TypeOK
  <2>2. ASSUME TypeOK, NEW n \in Node, RemoveNode(n) PROVE TypeOK'
    <3>1. \A p \in Points' : ring'[p] \in nodes' /\ p \in VirtualPoints(ring'[p])
      BY <2>2, RemoveNodeRing DEF TypeOK, Points
    <3>2. \A m : VirtualPoints(m)' = VirtualPoints(m)
      BY <2>2, RemoveNodeRing DEF VirtualPoints
    <3>3. nodes' \in SUBSET Node
      BY <2>2 DEF RemoveNode, TypeOK
    <3> QED
      BY <2>2, <3>1, <3>2, <3>3, RemoveNodeRing DEF TypeOK
  <2>3. TypeOK /\ UNCHANGED vars => TypeOK'
    BY DEF vars, TypeOK, Points, VirtualPoints
  <2> QED
    BY <2>1, <2>2, <2>3 DEF Next
<1> QED
  BY <1>1, <1>2, PTL DEF Spec

(* Without collisions the ring is determined by the members, whatever the  *)
(* order in which they joined and left.                                    *)
THEOREM RingDependsOnMembersOnly == Spec => []RingIsMembership
<1>1. Init => RingIsMembership
  BY HashRingAssumption DEF Init, RingIsMembership
<1>2. TypeOK /\ RingIsMembership /\ [Next]_vars => RingIsMembership'
  <2> SUFFICES ASSUME TypeOK, RingIsMembership, [Next]_vars, NoCollision',
                      NEW p \in Hash, NEW m \in Node
               PROVE  ring'[p] = m <=> m \in nodes' /\ p \in VirtualPoints(m)'
    BY DEF RingIsMembership
  <2>1. hash' = hash
    BY DEF Next, AddNode, RemoveNode, vars
  <2>2. \A k : VirtualPoints(k)' = VirtualPoints(k)
    BY <2>1 DEF VirtualPoints
  <2>3. NoCollision
    BY <2>2 DEF NoCollision
  <2>4. ring[p] = m <=> m \in nodes /\ p \in VirtualPoints(m)
    BY <2>3 DEF RingIsMembership
  <2>5. ASSUME NEW n \in Node, AddNode(n)
        PROVE  ring'[p] = m <=> m \in nodes' /\ p \in VirtualPoints(m)
    <3>1. ring'[p] = (IF p \in VirtualPoints(n) THEN n ELSE ring[p]) /\ nodes' = nodes \cup {n}
      BY <2>5, AddNodeRing
    <3>2. m # n => ~(p \in VirtualPoints(m) /\ p \in VirtualPoints(n))
      BY <2>3 DEF NoCollision
    <3> QED
      BY <2>4, <3>1, <3>2
  <2>6. ASSUME NEW n \in Node, RemoveNode(n)
        PROVE  ring'[p] = m <=> m \in nodes' /\ p \in VirtualPoints(m)
    <3>1. ring'[p] = (IF ring[p] = n THEN NoNode ELSE ring[p]) /\ nodes' = nodes \ {n}
      BY <2>6, RemoveNodeRing
    <3>2. m # NoNode
      BY HashRingAssumption
    <3> QED
      BY <2>4, <3>1, <3>2
  <2>7. UNCHANGED vars => (ring'[p] = m <=> m \in nodes' /\ p \in VirtualPoints(m))
    BY <2>4 DEF vars
  <2> QED
    BY <2>2, <2>5, <2>6, <2>7 DEF Next
<1> QED
  BY <1>1, <1>2, TypeInvariant, PTL DEF Spec

(* A join moves a key to the new node or leaves it where it is.            *)
THEOREM JoinMovesLittle == Spec => JoinMovesKeysToJoiner
<1>1. ASSUME TypeOK, NEW n \in Node, AddNode(n), NEW h \in Hash
      PROVE  GetNode(h)' = GetNode(h) \/ GetNode(h)' = n
  <2> DEFINE l == LowerBound(h)'
  <2>1. /\ \A p \in Hash : ring'[p] = IF p \in VirtualPoints(n) THEN n ELSE ring[p]
        /\ Points' = Points \cup (VirtualPoints(n) \cap Hash)
    BY <1>1, AddNodeRing
  <2>2. Points' \in SUBSET Hash /\ Points \in SUBSET Points'
    BY <2>1 DEF Points
  <2>3. CASE Points' = {}
    BY <2>2, <2>3 DEF GetNode
  <2>4. CASE Points' # {}
    <3>1. GetNode(h)' = ring'[l] /\ l = Ceiling(Points', h)
      BY <2>4 DEF GetNode, LowerBound
    <3>2. l \in Points'
      BY <2>2, <2>4, <3>1, <1>1, HashIsNat, CeilingFacts
    <3> HIDE DEF l
    <3>3. CASE l \in VirtualPoints(n)
      BY <2>1, <2>2, <3>1, <3>2, <3>3
    <3>4. CASE l \notin VirtualPoints(n)
      <4>1. l \in Points /\ ring'[l] = ring[l]
        BY <2>1, <2>2, <3>2, <3>4
      <4>2. Ceiling(Points, h) = l
        BY <1>1, <2>2, <3>1, <4>1, CeilingOfSubset
      <4>3. GetNode(h) = ring[l]
        BY <4>1, <4>2 DEF GetNode, LowerBound
      <4> QED
        BY <3>1, <4>1, <4>3
    <3> QED
      BY <3>3, <3>4
  <2> QED
    BY <2>3, <2>4
<1>2. TypeOK => [\A n \in Node :
                    AddNode(n) => \A h \in Hash :
                        GetNode(h)' = GetNode(h) \/ GetNode(h)' = n]_vars
  BY <1>1
<1> QED
  BY <1>2, TypeInvariant, PTL DEF JoinMovesKeysToJoiner

(* A leave moves no key of a node that stays.                              *)
THEOREM LeaveMovesLittle == Spec => LeaveMovesOwnKeysOnly
<1>1. ASSUME TypeOK, NEW n \in Node, RemoveNode(n), NEW h \in Hash, GetNode(h) # n
      PROVE  GetNode(h)' = GetNode(h)
  <2> DEFINE l == LowerBound(h)
  <2>1. /\ \A p \in Hash : ring'[p] = IF ring[p] = n THEN NoNode ELSE ring[p]
        /\ Points' = {p \in Points : ring[p] # n}
    BY <1>1, RemoveNodeRing
  <2>2. Points \in SUBSET Hash /\ Points' \in SUBSET Points
    BY <2>1 DEF Points
  <2>3. CASE Points = {}
    BY <2>2, <2>3 DEF GetNode
  <2>4. CASE Points # {}
    <3>1. GetNode(h) = ring[l] /\ l = Ceiling(Points, h)
      BY <2>4 DEF GetNode, LowerBound
    <3>2. l \in Points
      BY <2>2, <2>4, <3>1, <1>1, HashIsNat, CeilingFacts
    <3> HIDE DEF l
    <3>3. l \in Points' /\ ring'[l] = ring[l]
      BY <1>1, <2>1, <2>2, <3>1, <3>2
    <3>4. Ceiling(Points', h) = l
      BY <1>1, <2>2, <3>1, <3>3, CeilingOfSubset
    <3>5. GetNode(h)' = ring'[l]
      BY <3>3, <3>4 DEF GetNode, LowerBound
    <3> QED
      BY <3>1, <3>3, <3>5
  <2> QED
    BY <2>3, <2>4
<1>2. TypeOK => [\A n \in Node :
                    RemoveNode(n) => \A h \in Hash :
                        GetNode(h) # n => GetNode(h)' = GetNode(h)]_vars
  BY <1>1
<1> QED
  BY <1>2, TypeInvariant, PTL DEF LeaveMovesOwnKeysOnly

-----------------------------------------------------------------------------
(* Distances on the ring. *)
LEMMA DistanceFacts ==
    ASSUME NEW h \in Hash, NEW p \in Hash
    PROVE  /\ Distance(h, p) \in 0 .. MaxHash
           /\ \A q \in Hash : Distance(h, p) = Distance(h, q) => p = q
  BY HashRingAssumption DEF Distance, Hash

(* The first point from h on is the nearest. *)
LEMMA StartIsNearest ==
    ASSUME NEW S \in SUBSET Hash, S # {}, NEW h \in Hash
    PROVE  /\ Ceiling(S, h) \in S
           /\ \A x \in S : Distance(h, Ceiling(S, h)) <= Distance(h, x)
<1> DEFINE c == Ceiling(S, h)
<1>1. /\ c \in S
      /\ c >= h => \A q \in S : q >= h => c <= q
      /\ c < h => \A q \in S : q < h /\ c <= q
  BY HashIsNat, CeilingFacts
<1> HIDE DEF c
<1>2. ASSUME NEW x \in S PROVE Distance(h, c) <= Distance(h, x)
  BY <1>1, HashRingAssumption DEF Distance, Hash
<1> QED
  BY <1>1, <1>2 DEF c

(* The point after p is the next in the order of distance from h, or p is  *)
(* the last in that order and the point after it the first.                *)
LEMMA NextIsNearest ==
    ASSUME NEW S \in SUBSET Hash, NEW p \in S, NEW h \in Hash
    PROVE  /\ Ceiling(S, p + 1) \in S
           /\ \/ /\ Distance(h, p) < Distance(h, Ceiling(S, p + 1))
                 /\ \A x \in S : \/ Distance(h, x) <= Distance(h, p)
                                 \/ Distance(h, Ceiling(S, p + 1)) <= Distance(h, x)
              \/ \A x \in S : /\ Distance(h, x) <= Distance(h, p)
                              /\ Distance(h, Ceiling(S, p + 1)) <= Distance(h, x)
<1> DEFINE c == Ceiling(S, p + 1)
<1>0. p + 1 \in Nat /\ S # {}
  BY HashIsNat
<1>1. /\ c \in S
      /\ c >= p + 1 => \A q \in S : q >= p + 1 => c <= q
      /\ c < p + 1 => \A q \in S : q < p + 1 /\ c <= q
  BY <1>0, CeilingFacts
<1> HIDE DEF c
<1>2. c \in Hash /\ p \in Hash /\ h \in Hash /\ S \subseteq Hash
  BY <1>1
<1> DEFINE Later == /\ Distance(h, p) < Distance(h, c)
                    /\ \A x \in S : \/ Distance(h, x) <= Distance(h, p)
                                    \/ Distance(h, c) <= Distance(h, x)
           Around == \A x \in S : /\ Distance(h, x) <= Distance(h, p)
                                  /\ Distance(h, c) <= Distance(h, x)
<1>3. CASE p >= h /\ c >= p + 1
  <2>1. Later
    BY <1>1, <1>2, <1>3, HashRingAssumption DEF Distance, Hash
  <2> QED
    BY <1>1, <2>1 DEF c
<1>4. CASE p >= h /\ c < p + 1 /\ c >= h
  <2>1. Around
    BY <1>1, <1>2, <1>4, HashRingAssumption DEF Distance, Hash
  <2> QED
    BY <1>1, <2>1 DEF c
<1>5. CASE p >= h /\ c < p + 1 /\ c < h
  <2>1. Later
    BY <1>1, <1>2, <1>5, HashRingAssumption DEF Distance, Hash
  <2> QED
    BY <1>1, <2>1 DEF c
<1>6. CASE p < h /\ c >= p + 1 /\ c < h
  <2>1. Later
    BY <1>1, <1>2, <1>6, HashRingAssumption DEF Distance, Hash
  <2> QED
    BY <1>1, <2>1 DEF c
<1>7. CASE p < h /\ c >= p + 1 /\ c >= h
  <2>1. Around
    BY <1>1, <1>2, <1>7, HashRingAssumption DEF Distance, Hash
  <2> QED
    BY <1>1, <2>1 DEF c
<1>8. CASE p < h /\ c < p + 1
  <2>1. Around
    BY <1>1, <1>2, <1>8, HashRingAssumption DEF Distance, Hash
  <2> QED
    BY <1>1, <2>1 DEF c
<1>9. p \in Nat /\ c \in Nat /\ h \in Nat
  BY <1>2, HashIsNat
<1> QED
  BY <1>3, <1>4, <1>5, <1>6, <1>7, <1>8, <1>9

(* So the loop of getNodes goes further from h until it is at its start. *)
LEMMA ClockwiseFacts ==
    ASSUME NEW h \in Hash, NEW p \in Points
    PROVE  /\ Points \in SUBSET Hash
           /\ LowerBound(h) \in Points
           /\ \A x \in Points : Distance(h, LowerBound(h)) <= Distance(h, x)
           /\ Clockwise(p) \in Points
           /\ Clockwise(p) = LowerBound(h) =>
                  \A x \in Points : Distance(h, x) <= Distance(h, p)
           /\ Clockwise(p) # LowerBound(h) =>
                  /\ Distance(h, p) < Distance(h, Clockwise(p))
                  /\ \A x \in Points : \/ Distance(h, x) <= Distance(h, p)
                                       \/ Distance(h, Clockwise(p)) <= Distance(h, x)
<1> DEFINE s == LowerBound(h)
           c == Clockwise(p)
<1>1. Points \in SUBSET Hash /\ Points # {} /\ p \in Hash
  BY DEF Points
<1>2. s \in Points /\ \A x \in Points : Distance(h, s) <= Distance(h, x)
  BY <1>1, StartIsNearest DEF LowerBound
<1>3. /\ c \in Points
      /\ \/ /\ Distance(h, p) < Distance(h, c)
            /\ \A x \in Points : \/ Distance(h, x) <= Distance(h, p)
                                 \/ Distance(h, c) <= Distance(h, x)
         \/ \A x \in Points : /\ Distance(h, x) <= Distance(h, p)
                              /\ Distance(h, c) <= Distance(h, x)
  BY <1>1, NextIsNearest DEF Clockwise
<1> HIDE DEF s, c
<1>4. \A x \in Points : Distance(h, x) \in Nat
  BY <1>1, DistanceFacts
<1>5. CASE c = s
  <2>1. \A x \in Points : Distance(h, x) <= Distance(h, p)
    BY <1>2, <1>3, <1>4, <1>5
  <2> QED
    BY <1>1, <1>2, <1>3, <1>5, <2>1 DEF s, c
<1>6. CASE c # s
  <2>1. Distance(h, c) # Distance(h, s)
    BY <1>1, <1>2, <1>3, <1>6, DistanceFacts
  <2>2. Distance(h, s) < Distance(h, c)
    BY <1>2, <1>3, <1>4, <2>1
  <2>3. /\ Distance(h, p) < Distance(h, c)
        /\ \A x \in Points : \/ Distance(h, x) <= Distance(h, p)
                             \/ Distance(h, c) <= Distance(h, x)
    BY <1>2, <1>3, <1>4, <2>2
  <2> QED
    BY <1>1, <1>2, <1>3, <1>6, <2>3 DEF s, c
<1> QED
  BY <1>5, <1>6

-----------------------------------------------------------------------------
(* Induction up to N, by the least number that is not in S. *)
LEMMA IntervalInduction ==
    ASSUME NEW N \in Nat, NEW S, 0 \in S, \A i \in 0 .. N - 1 : i \in S => i + 1 \in S
    PROVE  \A i \in 0 .. N : i \in S
<1> DEFINE T == {i \in 0 .. N : i \notin S}
<1> SUFFICES ASSUME T # {} PROVE FALSE
  OBVIOUS
<1>1. T \subseteq Nat
  OBVIOUS
<1>2. PICK p \in T : \A q \in T : ~(<<q, p>> \in OpToRel(<, Nat))
  BY <1>1, NatLessThanWellFounded, WFMin
<1>3. p \in 0 .. N /\ p \notin S /\ p # 0
  BY <1>2
<1>4. p - 1 \in 0 .. N - 1 /\ (p - 1) + 1 = p
  BY <1>3
<1>5. p - 1 \in T
  BY <1>3, <1>4
<1>6. <<p - 1, p>> \in OpToRel(<, Nat)
  BY <1>3 DEF OpToRel
<1> QED
  BY <1>2, <1>5, <1>6

LEMMA VisitTyped ==
    ASSUME NEW T, NEW r \in Seq(T), NEW n \in T
    PROVE  Visit(r, n) \in Seq(T)
  BY DEF Visit

(* The function that getNodes computes, and its defining equation. *)
WalkFrom(walk, h, count, p, r) ==
    IF Len(r) >= count \/ Len(r) >= Cardinality(nodes)
    THEN r
    ELSE IF Clockwise(p) = LowerBound(h)
         THEN Visit(r, ring[p])
         ELSE walk[Clockwise(p)][Visit(r, ring[p])]

Walk(h, count) ==
    CHOOSE walk : walk = [p \in Points |-> [r \in Seq(Node) |-> WalkFrom(walk, h, count, p, r)]]

LEMMA WalkEquation ==
    ASSUME TypeOK, NEW h \in Hash, NEW count, NEW p0 \in Points, NEW r0 \in Seq(Node)
    PROVE  Walk(h, count)[p0][r0] = WalkFrom(Walk(h, count), h, count, p0, r0)
<1> DEFINE N == MaxHash + 1
           Far(n) == {p \in Points : Distance(h, p) >= N - n}
           Step(f, p, r) == WalkFrom(f, h, count, p, r)
           Good == {n \in 0 .. N :
                      \E g \in [Far(n) -> [Seq(Node) -> Seq(Node)]] :
                          \A p \in Far(n), r \in Seq(Node) : g[p][r] = Step(g, p, r)}
<1>0. N \in Nat /\ 0 \in 0 .. N /\ N \in 0 .. N
  BY HashRingAssumption
<1>1. ASSUME NEW p \in Points, NEW r \in Seq(Node) PROVE Visit(r, ring[p]) \in Seq(Node)
  <2>1. ring[p] \in Node
    BY DEF TypeOK, Points
  <2> QED
    BY <2>1, VisitTyped
<1>2. ASSUME NEW p \in Points
      PROVE  /\ Distance(h, p) \in 0 .. MaxHash /\ Clockwise(p) \in Points
             /\ Clockwise(p) # LowerBound(h) => Distance(h, p) < Distance(h, Clockwise(p))
             /\ Distance(h, Clockwise(p)) \in 0 .. MaxHash
  <2>1. Points \subseteq Hash
    BY DEF Points
  <2> QED
    BY <2>1, ClockwiseFacts, DistanceFacts
<1>3. 0 \in Good
  <2>1. Far(0) = {}
    <3>1. ASSUME NEW p \in Points PROVE ~(Distance(h, p) >= N - 0)
      BY <1>2, HashRingAssumption
    <3> QED
      BY <3>1
  <2> DEFINE g == [p \in {} |-> [r \in Seq(Node) |-> r]]
  <2>2. g \in [Far(0) -> [Seq(Node) -> Seq(Node)]]
    BY <2>1
  <2> HIDE DEF Far, g, Step
  <2>3. \A p \in Far(0), r \in Seq(Node) : g[p][r] = Step(g, p, r)
    BY <2>1
  <2> QED
    BY <1>0, <2>2, <2>3
<1>4. ASSUME NEW n \in 0 .. N - 1, n \in Good PROVE n + 1 \in Good
  <2>1. PICK g \in [Far(n) -> [Seq(Node) -> Seq(Node)]] :
            \A p \in Far(n), r \in Seq(Node) : g[p][r] = Step(g, p, r)
    BY <1>4
  <2> DEFINE k == [p \in Far(n + 1) |-> [r \in Seq(Node) |-> Step(g, p, r)]]
  <2>2. n \in Nat /\ n + 1 \in 0 .. N
    BY <1>0
  <2>3. ASSUME NEW p \in Far(n + 1), Clockwise(p) # LowerBound(h)
        PROVE  Clockwise(p) \in Far(n)
    BY <1>0, <1>2, <2>2, <2>3
  <2>4. Far(n) \subseteq Far(n + 1) /\ Far(n + 1) \subseteq Points
    <3>1. ASSUME NEW p \in Points, Distance(h, p) >= N - n
          PROVE  Distance(h, p) >= N - (n + 1)
      <4>1. Distance(h, p) \in 0 .. MaxHash
        BY <1>2
      <4> QED
        BY <1>0, <2>2, <3>1, <4>1
    <3> QED
      BY <3>1
  <2> HIDE DEF Far
  <2>5. ASSUME NEW p \in Far(n + 1), NEW r \in Seq(Node) PROVE Step(g, p, r) \in Seq(Node)
    <3>1. Visit(r, ring[p]) \in Seq(Node)
      BY <1>1, <2>4
    <3>2. Clockwise(p) # LowerBound(h) => g[Clockwise(p)][Visit(r, ring[p])] \in Seq(Node)
      BY <2>3, <3>1
    <3> QED
      BY <3>1, <3>2 DEF WalkFrom
  <2>6. k \in [Far(n + 1) -> [Seq(Node) -> Seq(Node)]]
    <3> HIDE DEF Step
    <3> QED
      BY <2>5
  <2>7. ASSUME NEW p \in Far(n + 1), NEW r \in Seq(Node) PROVE k[p][r] = Step(k, p, r)
    <3>1. k[p][r] = Step(g, p, r)
      <4> HIDE DEF Step
      <4> QED
        OBVIOUS
    <3>2. ASSUME Clockwise(p) # LowerBound(h)
          PROVE  k[Clockwise(p)][Visit(r, ring[p])] = g[Clockwise(p)][Visit(r, ring[p])]
      <4>1. Clockwise(p) \in Far(n) /\ Clockwise(p) \in Far(n + 1) /\ Visit(r, ring[p]) \in Seq(Node)
        BY <1>1, <2>3, <2>4, <3>2
      <4> HIDE DEF Step
      <4>2. k[Clockwise(p)][Visit(r, ring[p])] = Step(g, Clockwise(p), Visit(r, ring[p]))
        BY <4>1
      <4> QED
        BY <2>1, <4>1, <4>2
    <3> HIDE DEF k
    <3> QED
      BY <3>1, <3>2 DEF WalkFrom
  <2> HIDE DEF k, Step
  <2> QED
    BY <2>2, <2>6, <2>7
<1>5. N \in Good
  <2> HIDE DEF Good, N
  <2>1. \A i \in 0 .. N : i \in Good
    BY <1>0, <1>3, <1>4, IntervalInduction
  <2> QED
    BY <1>0, <2>1
<1>6. Far(N) = Points
  BY <1>0, <1>2
<1>7. PICK g \in [Points -> [Seq(Node) -> Seq(Node)]] :
          \A p \in Points, r \in Seq(Node) : g[p][r] = Step(g, p, r)
  <2> HIDE DEF Far, Step
  <2> QED
    BY <1>5, <1>6
<1> DEFINE Body(f) == [p \in Points |-> [r \in Seq(Node) |-> Step(f, p, r)]]
<1>8. g = Body(g)
  <2> HIDE DEF Step
  <2> QED
    BY <1>7
<1>9. Walk(h, count) = CHOOSE f : f = Body(f)
  BY DEF Walk
<1>10. Walk(h, count) = Body(Walk(h, count))
  <2> HIDE DEF Body
  <2> QED
    BY <1>8, <1>9
<1> DEFINE w == Walk(h, count)
<1>11. w = Body(w)
  BY <1>10
<1> HIDE DEF w, Step
<1>12. w[p0] = [r \in Seq(Node) |-> Step(w, p0, r)]
  BY <1>11
<1>13. w[p0][r0] = Step(w, p0, r0)
  BY <1>12
<1> QED
  BY <1>13 DEF w, Step

LEMMA GetNodesByWalk ==
    ASSUME NEW h, NEW count
    PROVE  GetNodes(h, count) = IF Points = {} \/ count = 0 THEN <<>>
                                ELSE Walk(h, count)[LowerBound(h)][<<>>]
  BY DEF GetNodes, Walk, WalkFrom

-----------------------------------------------------------------------------
(* What orders the nodes is a strict order. *)
LEMMA NearerIsStrict ==
    ASSUME NEW r, NEW h \in Hash, NEW m, NEW n, Nearer(r, h, m, n)
    PROVE  m # n /\ ~Nearer(r, h, n, m)
<1>1. PICK p \in PointsOf(r, m) : \A q \in PointsOf(r, n) : Distance(h, p) < Distance(h, q)
  BY DEF Nearer
<1>2. \A x \in PointsOf(r, m) \cup PointsOf(r, n) : Distance(h, x) \in Nat
  BY DistanceFacts DEF PointsOf
<1>3. m # n
  BY <1>1, <1>2
<1>4. ASSUME NEW q \in PointsOf(r, n),
             \A x \in PointsOf(r, m) : Distance(h, q) < Distance(h, x)
      PROVE  FALSE
  BY <1>1, <1>2, <1>4
<1> QED
  BY <1>3, <1>4 DEF Nearer

(* A list in clockwise order names no node twice. *)
LEMMA ClockwiseIsInjective ==
    ASSUME NEW r, NEW h \in Hash, NEW s \in Seq(Node),
           \A i, j \in 1 .. Len(s) : i < j => Nearer(r, h, s[i], s[j]),
           NEW i \in 1 .. Len(s), NEW j \in 1 .. Len(s), i # j
    PROVE  s[i] # s[j]
<1>1. i < j \/ j < i
  OBVIOUS
<1> QED
  BY <1>1, NearerIsStrict

(* A list without repetitions that is as long as nodes has all of them. *)
LEMMA FullList ==
    ASSUME NEW S, IsFiniteSet(S), NEW s \in Seq(S),
           \A i, j \in 1 .. Len(s) : i # j => s[i] # s[j]
    PROVE  /\ Cardinality(S) \in Nat
           /\ Len(s) <= Cardinality(S)
           /\ Len(s) = Cardinality(S) => \A n \in S : \E i \in 1 .. Len(s) : s[i] = n
<1> DEFINE D == 1 .. Len(s)
<1>1. s \in Injection(D, S)
  BY DEF Injection, IsInjective
<1>2. Len(s) \in Nat /\ Cardinality(D) = Len(s)
  <2>1. 1 \in Int /\ Len(s) \in Int /\ Len(s) \in Nat
    OBVIOUS
  <2>2. Cardinality(1 .. Len(s)) = IF 1 > Len(s) THEN 0 ELSE Len(s) - 1 + 1
    BY <2>1, FS_Interval
  <2> QED
    BY <2>1, <2>2
<1>3. Cardinality(S) \in Nat
  BY FS_CardinalityType
<1>4. Cardinality(D) <= Cardinality(S) /\ (Cardinality(D) = Cardinality(S) <=> s \in Surjection(D, S))
  <2> HIDE DEF D
  <2> QED
    BY <1>1, FS_Injection
<1>5. s \in Surjection(D, S) => \A n \in S : \E i \in D : s[i] = n
  BY DEF Surjection
<1> QED
  BY <1>2, <1>3, <1>4, <1>5

(* What holds whenever getNodes looks at point p with result r: every node *)
(* with a point nearer than p is found, and no other.                      *)
LoopInv(h, count, p, r) ==
    /\ r \in Seq(nodes)
    /\ Len(r) <= count
    /\ \A i, j \in 1 .. Len(r) : i < j => Nearer(ring, h, r[i], r[j])
    /\ \A x \in Points : Distance(h, x) < Distance(h, p) =>
          \E i \in 1 .. Len(r) : r[i] = ring[x]
    /\ \A i \in 1 .. Len(r) :
          \E x \in PointsOf(ring, r[i]) : Distance(h, x) < Distance(h, p)

RingInv == TypeOK /\ IsFiniteSet(nodes)

LEMMA RingFacts ==
    ASSUME TypeOK
    PROVE  /\ \A p \in Points : p \in Hash /\ ring[p] \in nodes /\ ring[p] \in Node
           /\ \A n \in Node : PointsOf(ring, n) = {p \in Points : ring[p] = n}
           /\ nodes \subseteq Node
  BY HashRingAssumption DEF TypeOK, Points, PointsOf

(* The loop ends with the nodes it was asked for: it has count of them. *)
LEMMA EndsWithCount ==
    ASSUME RingInv, NEW h \in Hash, NEW count \in Nat, NEW p \in Points, NEW r,
           LoopInv(h, count, p, r), Len(r) >= count
    PROVE  IsClockwise(ring, h, count, r)
<1>1. /\ r \in Seq(nodes) /\ Len(r) = count /\ TypeOK
      /\ \A i \in 1 .. Len(r) :
            \E x \in PointsOf(ring, r[i]) : Distance(h, x) < Distance(h, p)
  BY DEF LoopInv, RingInv
<1>2. ASSUME NEW n \in Node, ~\E i \in 1 .. Len(r) : r[i] = n, NEW i \in 1 .. Len(r)
      PROVE  Nearer(ring, h, r[i], n)
  <2>1. PICK x \in PointsOf(ring, r[i]) : Distance(h, x) < Distance(h, p)
    BY <1>1
  <2>2. ASSUME NEW q \in PointsOf(ring, n) PROVE Distance(h, x) < Distance(h, q)
    <3>1. q \in Points /\ ring[q] = n
      BY <1>1, RingFacts
    <3>2. ~(Distance(h, q) < Distance(h, p))
      BY <1>2, <3>1 DEF LoopInv
    <3>3. Distance(h, x) \in Nat /\ Distance(h, q) \in Nat /\ Distance(h, p) \in Nat
      BY <1>1, <3>1, RingFacts, DistanceFacts DEF PointsOf
    <3> QED
      BY <2>1, <3>2, <3>3
  <2> QED
    BY <2>1, <2>2 DEF Nearer
<1> QED
  BY <1>1, <1>2 DEF LoopInv, IsClockwise

(* The loop ends with all nodes. *)
LEMMA EndsWithAll ==
    ASSUME RingInv, NEW h \in Hash, NEW count \in Nat, NEW r \in Seq(nodes),
           Len(r) <= count,
           \A i, j \in 1 .. Len(r) : i < j => Nearer(ring, h, r[i], r[j]),
           \A i \in 1 .. Len(r) : PointsOf(ring, r[i]) # {},
           \A x \in Points : \E i \in 1 .. Len(r) : r[i] = ring[x]
    PROVE  IsClockwise(ring, h, count, r)
<1>1. ASSUME NEW n \in Node, PointsOf(ring, n) # {} PROVE \E i \in 1 .. Len(r) : r[i] = n
  <2>1. PICK x \in Points : ring[x] = n
    BY <1>1, RingFacts DEF RingInv
  <2> QED
    BY <2>1
<1> QED
  BY <1>1 DEF IsClockwise

(* Visiting p keeps the list in order. *)
LEMMA VisitKeepsOrder ==
    ASSUME RingInv, NEW h \in Hash, NEW count \in Nat, NEW p \in Points, NEW r,
           LoopInv(h, count, p, r), ~(Len(r) >= count), NEW v, v = Visit(r, ring[p])
    PROVE  /\ v \in Seq(nodes) /\ Len(v) <= count
           /\ \A i, j \in 1 .. Len(v) : i < j => Nearer(ring, h, v[i], v[j])
           /\ \A x \in Points : Distance(h, x) <= Distance(h, p) =>
                 \E i \in 1 .. Len(v) : v[i] = ring[x]
           /\ \A i \in 1 .. Len(v) :
                 \E x \in PointsOf(ring, v[i]) : Distance(h, x) <= Distance(h, p)
<1> DEFINE n == ring[p]
<1>1. /\ n \in nodes /\ p \in PointsOf(ring, n) /\ p \in Hash /\ n \in Node
      /\ \A x \in Points : Distance(h, x) \in Nat
      /\ \A m : \A x \in PointsOf(ring, m) : Distance(h, x) \in Nat
  BY RingFacts, DistanceFacts DEF RingInv, PointsOf
<1>2. r \in Seq(nodes)
  BY DEF LoopInv
<1>3. /\ v \in Seq(nodes)
      /\ Len(v) \in {Len(r), Len(r) + 1}
      /\ \A i \in 1 .. Len(r) : v[i] = r[i]
      /\ \E i \in 1 .. Len(v) : v[i] = n
      /\ Len(v) = Len(r) + 1 => v[Len(r) + 1] = n /\ \A i \in 1 .. Len(r) : r[i] # n
  <2>1. v = Visit(r, n) /\ n \in nodes
    BY <1>1
  <2> HIDE DEF n
  <2>2. CASE \E i \in 1 .. Len(r) : r[i] = n
    <3>1. v = r /\ Len(r) # Len(r) + 1
      BY <1>2, <2>1, <2>2 DEF Visit
    <3> QED
      BY <1>2, <2>2, <3>1
  <2>3. CASE ~\E i \in 1 .. Len(r) : r[i] = n
    <3>1. v = Append(r, n)
      BY <2>1, <2>3 DEF Visit
    <3>2. /\ v \in Seq(nodes) /\ Len(v) = Len(r) + 1 /\ v[Len(r) + 1] = n
          /\ \A i \in 1 .. Len(r) : v[i] = r[i]
      BY <1>2, <2>1, <3>1
    <3>3. Len(r) + 1 \in 1 .. Len(v)
      BY <1>2, <3>2
    <3> QED
      BY <2>3, <3>2, <3>3
  <2> QED
    BY <2>2, <2>3
<1> HIDE DEF n
<1>4. Len(r) \in Nat /\ Len(v) \in Nat /\ Len(v) <= count
  BY <1>2, <1>3
<1>5. \A i \in 1 .. Len(v) : i \in 1 .. Len(r) \/ (i = Len(r) + 1 /\ Len(v) = Len(r) + 1)
  BY <1>3, <1>4
<1>6. ASSUME NEW i \in 1 .. Len(v)
      PROVE  \E x \in PointsOf(ring, v[i]) : Distance(h, x) <= Distance(h, p)
  <2>1. CASE i \in 1 .. Len(r)
    <3>1. PICK x \in PointsOf(ring, r[i]) : Distance(h, x) < Distance(h, p)
      BY <2>1 DEF LoopInv
    <3>2. Distance(h, x) <= Distance(h, p)
      BY <1>1, <3>1
    <3> QED
      BY <1>3, <2>1, <3>1, <3>2
  <2>2. CASE i = Len(r) + 1 /\ Len(v) = Len(r) + 1
    <3>1. v[i] = n /\ Distance(h, p) <= Distance(h, p)
      BY <1>1, <1>3, <2>2
    <3> QED
      BY <1>1, <3>1
  <2> QED
    BY <1>5, <2>1, <2>2
<1>7. ASSUME NEW x \in Points, Distance(h, x) <= Distance(h, p)
      PROVE  \E i \in 1 .. Len(v) : v[i] = ring[x]
  <2>1. CASE Distance(h, x) < Distance(h, p)
    <3>1. PICK i \in 1 .. Len(r) : r[i] = ring[x]
      BY <2>1 DEF LoopInv
    <3>2. i \in 1 .. Len(v) /\ v[i] = r[i]
      BY <1>3, <1>4
    <3> QED
      BY <3>1, <3>2
  <2>2. CASE Distance(h, x) = Distance(h, p)
    <3>1. x = p
      BY <1>1, <2>2, RingFacts, DistanceFacts DEF RingInv
    <3> QED
      BY <1>3, <3>1 DEF n
  <2> QED
    BY <1>1, <1>7, <2>1, <2>2
<1>8. ASSUME NEW i \in 1 .. Len(v), NEW j \in 1 .. Len(v), i < j
      PROVE  Nearer(ring, h, v[i], v[j])
  <2>1. i \in 1 .. Len(r) /\ v[i] = r[i]
    BY <1>3, <1>4, <1>5, <1>8
  <2>2. CASE j \in 1 .. Len(r)
    BY <1>3, <1>8, <2>1, <2>2 DEF LoopInv
  <2>3. CASE j = Len(r) + 1 /\ Len(v) = Len(r) + 1
    <3>1. v[j] = n /\ \A k \in 1 .. Len(r) : r[k] # n
      BY <1>3, <2>3
    <3>2. PICK x \in PointsOf(ring, r[i]) : Distance(h, x) < Distance(h, p)
      BY <2>1 DEF LoopInv
    <3>3. ASSUME NEW q \in PointsOf(ring, n) PROVE Distance(h, x) < Distance(h, q)
      <4>1. q \in Points /\ ring[q] = n
        BY <1>1, RingFacts DEF RingInv
      <4>2. ~(Distance(h, q) < Distance(h, p))
        BY <3>1, <4>1 DEF LoopInv
      <4> QED
        BY <1>1, <3>2, <4>1, <4>2
    <3> QED
      BY <2>1, <3>1, <3>2, <3>3 DEF Nearer
  <2> QED
    BY <1>5, <2>2, <2>3
<1> QED
  BY <1>3, <1>4, <1>6, <1>7, <1>8

(* From point p and result r on, the loop finds the rest of the list. *)
LEMMA WalkIsClockwise ==
    ASSUME RingInv, NEW h \in Hash, NEW count \in Nat, NEW p0 \in Points, NEW r0,
           LoopInv(h, count, p0, r0)
    PROVE  /\ Walk(h, count)[p0][r0] \in Seq(nodes)
           /\ IsClockwise(ring, h, count, Walk(h, count)[p0][r0])
<1> DEFINE N == MaxHash + 1
           w == Walk(h, count)
           Right(s) == s \in Seq(nodes) /\ IsClockwise(ring, h, count, s)
           Good == {n \in 0 .. N : \A p \in Points, r \in Seq(Node) :
                      Distance(h, p) >= N - n /\ LoopInv(h, count, p, r) => Right(w[p][r])}
<1>0. N \in Nat /\ 0 \in 0 .. N /\ N \in 0 .. N
  BY HashRingAssumption
<1>1. ASSUME NEW p \in Points
      PROVE  /\ Distance(h, p) \in 0 .. MaxHash /\ Clockwise(p) \in Points
             /\ Distance(h, p) \in Nat
  <2>1. Points \subseteq Hash
    BY DEF Points
  <2>2. Distance(h, p) \in 0 .. MaxHash
    BY <2>1, DistanceFacts
  <2>3. Distance(h, p) \in Nat
    BY <2>2, HashRingAssumption
  <2> QED
    BY <2>2, <2>3, ClockwiseFacts
<1>2. ASSUME NEW p \in Points, NEW r \in Seq(Node)
      PROVE  w[p][r] = WalkFrom(w, h, count, p, r)
  BY WalkEquation DEF RingInv
<1> HIDE DEF w
<1>3. nodes \subseteq Node /\ \A s \in Seq(nodes) : s \in Seq(Node)
  BY DEF RingInv, TypeOK
<1>4. 0 \in Good
  <2>1. ASSUME NEW p \in Points PROVE ~(Distance(h, p) >= N - 0)
    BY <1>1, HashRingAssumption
  <2> QED
    BY <1>0, <2>1
<1>5. ASSUME NEW n \in 0 .. N - 1, n \in Good PROVE n + 1 \in Good
  <2>1. ASSUME NEW p \in Points, NEW r \in Seq(Node), Distance(h, p) >= N - (n + 1),
               LoopInv(h, count, p, r)
        PROVE  Right(w[p][r])
    <3>1. /\ r \in Seq(nodes) /\ Len(r) \in Nat /\ Len(r) <= count
          /\ \A i, j \in 1 .. Len(r) : i < j => Nearer(ring, h, r[i], r[j])
          /\ \A i \in 1 .. Len(r) : PointsOf(ring, r[i]) # {}
      BY <2>1 DEF LoopInv
    <3>2. CASE Len(r) >= count
      <4>1. w[p][r] = r
        BY <1>2, <3>2 DEF WalkFrom
      <4>2. IsClockwise(ring, h, count, r)
        BY <2>1, <3>2, EndsWithCount
      <4> QED
        BY <3>1, <4>1, <4>2
    <3>3. CASE Len(r) >= Cardinality(nodes)
      <4>1. w[p][r] = r
        BY <1>2, <3>3 DEF WalkFrom
      <4>2. \A i, j \in 1 .. Len(r) : i # j => r[i] # r[j]
        BY <3>1, ClockwiseIsInjective
      <4>3. \A m \in nodes : \E i \in 1 .. Len(r) : r[i] = m
        <5>1. /\ Cardinality(nodes) \in Nat /\ Len(r) <= Cardinality(nodes)
              /\ Len(r) = Cardinality(nodes) =>
                     \A m \in nodes : \E i \in 1 .. Len(r) : r[i] = m
          BY <3>1, <4>2, FullList DEF RingInv
        <5>2. Len(r) = Cardinality(nodes)
          BY <3>1, <3>3, <5>1
        <5> QED
          BY <5>1, <5>2
      <4>4. \A x \in Points : \E i \in 1 .. Len(r) : r[i] = ring[x]
        BY <4>3, RingFacts DEF RingInv
      <4>5. IsClockwise(ring, h, count, r)
        BY <3>1, <4>4, EndsWithAll
      <4> QED
        BY <3>1, <4>1, <4>5
    <3>4. CASE ~(Len(r) >= count) /\ ~(Len(r) >= Cardinality(nodes))
      <4>1. PICK v : v = Visit(r, ring[p])
        OBVIOUS
      <4>2. /\ v \in Seq(nodes) /\ Len(v) <= count
            /\ \A i, j \in 1 .. Len(v) : i < j => Nearer(ring, h, v[i], v[j])
            /\ \A x \in Points : Distance(h, x) <= Distance(h, p) =>
                  \E i \in 1 .. Len(v) : v[i] = ring[x]
            /\ \A i \in 1 .. Len(v) :
                  \E x \in PointsOf(ring, v[i]) : Distance(h, x) <= Distance(h, p)
        BY <2>1, <3>4, <4>1, VisitKeepsOrder
      <4>3. CASE Clockwise(p) = LowerBound(h)
        <5>1. w[p][r] = v
          BY <1>2, <3>4, <4>1, <4>3 DEF WalkFrom
        <5>2. \A x \in Points : Distance(h, x) <= Distance(h, p)
          BY <4>3, ClockwiseFacts
        <5>3. IsClockwise(ring, h, count, v)
          BY <4>2, <5>2, EndsWithAll
        <5> QED
          BY <4>2, <5>1, <5>3
      <4>4. CASE Clockwise(p) # LowerBound(h)
        <5>1. PICK q \in Points : q = Clockwise(p)
          BY <1>1
        <5>2. w[p][r] = w[q][v]
          BY <1>2, <3>4, <4>1, <4>4, <5>1 DEF WalkFrom
        <5>3. /\ Distance(h, p) < Distance(h, q)
              /\ \A x \in Points : \/ Distance(h, x) <= Distance(h, p)
                                   \/ Distance(h, q) <= Distance(h, x)
          BY <4>4, <5>1, ClockwiseFacts
        <5>4. Distance(h, p) \in Nat /\ Distance(h, q) \in Nat /\ n \in Nat
          BY <1>1
        <5>5. Distance(h, q) >= N - n
          BY <1>0, <2>1, <5>3, <5>4
        <5>6. ASSUME NEW x \in Points, Distance(h, x) < Distance(h, q)
              PROVE  \E i \in 1 .. Len(v) : v[i] = ring[x]
          <6>1. Distance(h, x) \in Nat
            BY <1>1
          <6>2. Distance(h, x) <= Distance(h, p)
            BY <5>3, <5>4, <5>6, <6>1
          <6> QED
            BY <4>2, <6>2
        <5>7. ASSUME NEW i \in 1 .. Len(v)
              PROVE  \E x \in PointsOf(ring, v[i]) : Distance(h, x) < Distance(h, q)
          <6>1. PICK x \in PointsOf(ring, v[i]) : Distance(h, x) <= Distance(h, p)
            BY <4>2
          <6>2. Distance(h, x) \in Nat
            BY DistanceFacts DEF PointsOf
          <6> QED
            BY <5>3, <5>4, <6>1, <6>2
        <5>8. LoopInv(h, count, q, v)
          BY <4>2, <5>6, <5>7 DEF LoopInv
        <5>9. v \in Seq(Node)
          BY <1>3, <4>2
        <5> HIDE DEF Right
        <5> QED
          BY <1>5, <5>2, <5>5, <5>8, <5>9
      <4> QED
        BY <4>3, <4>4
    <3> QED
      BY <3>2, <3>3, <3>4
  <2>2. n + 1 \in 0 .. N
    BY <1>0
  <2> HIDE DEF Right
  <2> QED
    BY <2>1, <2>2
<1>6. N \in Good
  <2> HIDE DEF Good, N
  <2>1. \A i \in 0 .. N : i \in Good
    BY <1>0, <1>4, <1>5, IntervalInduction
  <2> QED
    BY <1>0, <2>1
<1>7. Distance(h, p0) >= N - N /\ r0 \in Seq(Node)
  <2>1. Distance(h, p0) \in Nat /\ r0 \in Seq(nodes)
    BY <1>1 DEF LoopInv
  <2> QED
    BY <1>0, <1>3, <2>1
<1>8. Right(w[p0][r0])
  <2> HIDE DEF Right
  <2> QED
    BY <1>6, <1>7
<1> QED
  BY <1>8 DEF w

(* getNodes is right for every count. *)
GetNodesAre(h, count) ==
    \E r, s : /\ r = ring /\ s = GetNodes(h, count) /\ s \in Seq(nodes)
              /\ IsClockwise(r, h, count, s)

GetNodesRight == \A h \in Hash, count \in Nat : GetNodesAre(h, count)

LEMMA GetNodesFacts == ASSUME RingInv PROVE GetNodesRight
<1> SUFFICES ASSUME NEW h \in Hash, NEW count \in Nat
             PROVE  /\ GetNodes(h, count) \in Seq(nodes)
                    /\ IsClockwise(ring, h, count, GetNodes(h, count))
  BY DEF GetNodesRight, GetNodesAre
<1>0. /\ <<>> \in Seq(nodes) /\ Len(<<>>) = 0
      /\ \A i \in 1 .. Len(<<>>) : FALSE
  OBVIOUS
<1>1. CASE Points = {}
  <2>1. GetNodes(h, count) = <<>>
    BY <1>1, GetNodesByWalk
  <2>2. \A n \in Node : PointsOf(ring, n) = {}
    BY <1>1, RingFacts DEF RingInv
  <2>3. IsClockwise(ring, h, count, <<>>)
    BY <1>0, <2>2 DEF IsClockwise
  <2> QED
    BY <1>0, <2>1, <2>3
<1>2. CASE count = 0
  <2>1. GetNodes(h, count) = <<>>
    BY <1>2, GetNodesByWalk
  <2>2. IsClockwise(ring, h, count, <<>>)
    BY <1>0, <1>2 DEF IsClockwise
  <2> QED
    BY <1>0, <2>1, <2>2
<1>3. CASE Points # {} /\ count # 0
  <2>1. PICK p \in Points : p = LowerBound(h)
    BY <1>3, ClockwiseFacts
  <2>2. \A x \in Points : Distance(h, p) <= Distance(h, x) /\ Distance(h, x) \in Nat
    BY <2>1, ClockwiseFacts, DistanceFacts DEF Points
  <2>3. \A x \in Points : ~(Distance(h, x) < Distance(h, p))
    BY <2>2
  <2>4. LoopInv(h, count, p, <<>>)
    BY <1>0, <2>3 DEF LoopInv
  <2>5. GetNodes(h, count) = Walk(h, count)[p][<<>>]
    BY <1>3, <2>1, GetNodesByWalk
  <2> QED
    BY <2>4, <2>5, WalkIsClockwise
<1> QED
  BY <1>1, <1>2, <1>3

LEMMA RingInvariance == Spec => []RingInv
<1>1. Init => IsFiniteSet(nodes)
  BY FS_EmptySet DEF Init
<1>2. IsFiniteSet(nodes) /\ [Next]_vars => IsFiniteSet(nodes')
  BY FS_AddElement, FS_RemoveElement DEF Next, AddNode, RemoveNode, vars
<1>3. IsFiniteSet(nodes)' <=> IsFiniteSet(nodes')
  OBVIOUS
<1> QED
  BY <1>1, <1>2, <1>3, TypeInvariant, PTL DEF Spec, RingInv

(* getNodes walks the ring clockwise: for every hash and count it gives    *)
(* the nearest nodes in order, each once, and no fewer than there are.     *)
THEOREM GetNodesInOrder == Spec => []GetNodesIsClockwiseOrder
<1>1. RingInv => GetNodesIsClockwiseOrder
  <2> SUFFICES ASSUME RingInv PROVE GetNodesIsClockwiseOrder
    OBVIOUS
  <2>1. Cardinality(nodes) \in Nat
    BY FS_CardinalityType DEF RingInv
  <2>2. Counts \subseteq Nat
    BY <2>1 DEF Counts
  <2> QED
    BY <2>2, GetNodesFacts DEF GetNodesRight, GetNodesAre, GetNodesIsClockwiseOrder
<1> QED
  BY <1>1, RingInvariance, PTL

-----------------------------------------------------------------------------
(* A ring, a place and a count determine the list. *)
LEMMA ClockwiseIsUnique ==
    ASSUME NEW r, NEW h \in Hash, NEW count \in Nat, NEW s \in Seq(Node), NEW t \in Seq(Node),
           IsClockwise(r, h, count, s), IsClockwise(r, h, count, t)
    PROVE  s = t
<1>0. Len(s) \in Nat /\ Len(t) \in Nat
  OBVIOUS
<1>1. ASSUME NEW u \in Seq(Node), NEW v \in Seq(Node), NEW k \in Nat \ {0},
             IsClockwise(r, h, count, u), IsClockwise(r, h, count, v), k \in 1 .. Len(u),
             \A i \in 1 .. k - 1 : i \in 1 .. Len(v) /\ v[i] = u[i]
      PROVE  k \in 1 .. Len(v) /\ (v[k] = u[k] \/ Nearer(r, h, v[k], u[k]))
  <2>0. Len(u) \in Nat /\ Len(v) \in Nat /\ u[k] \in Node /\ PointsOf(r, u[k]) # {}
    BY <1>1 DEF IsClockwise
  <2>1. CASE \E i \in 1 .. Len(v) : v[i] = u[k]
    <3>1. PICK i \in 1 .. Len(v) : v[i] = u[k]
      BY <2>1
    <3>2. ~(i \in 1 .. k - 1)
      <4> SUFFICES ASSUME i \in 1 .. k - 1 PROVE FALSE
        OBVIOUS
      <4>1. i \in 1 .. Len(u) /\ i # k /\ u[i] = u[k]
        BY <1>1, <2>0, <3>1
      <4> QED
        BY <1>1, <4>1, ClockwiseIsInjective DEF IsClockwise
    <3>3. k <= i /\ k \in 1 .. Len(v)
      BY <1>1, <2>0, <3>2
    <3>4. CASE k = i
      BY <3>1, <3>3, <3>4
    <3>5. CASE k < i
      BY <1>1, <3>1, <3>3, <3>5 DEF IsClockwise
    <3> QED
      BY <2>0, <3>3, <3>4, <3>5
  <2>2. CASE ~\E i \in 1 .. Len(v) : v[i] = u[k]
    <3>1. Len(v) = count /\ \A i \in 1 .. Len(v) : Nearer(r, h, v[i], u[k])
      BY <1>1, <2>0, <2>2 DEF IsClockwise
    <3>2. Len(u) <= count
      BY <1>1 DEF IsClockwise
    <3>3. k \in 1 .. Len(v)
      BY <1>1, <2>0, <3>1, <3>2
    <3> QED
      BY <3>1, <3>3
  <2> QED
    BY <2>1, <2>2
<1>2. ASSUME NEW k \in Nat \ {0},
             \A i \in 1 .. k - 1 : i \in 1 .. Len(s) <=> i \in 1 .. Len(t),
             \A i \in 1 .. k - 1 : i \in 1 .. Len(s) => s[i] = t[i]
      PROVE  /\ k \in 1 .. Len(s) <=> k \in 1 .. Len(t)
             /\ k \in 1 .. Len(s) => s[k] = t[k]
  <2>1. ASSUME k \in 1 .. Len(s)
        PROVE  k \in 1 .. Len(t) /\ (t[k] = s[k] \/ Nearer(r, h, t[k], s[k]))
    <3>1. \A i \in 1 .. k - 1 : i \in 1 .. Len(s)
      BY <1>0, <2>1
    <3>2. \A i \in 1 .. k - 1 : i \in 1 .. Len(t) /\ t[i] = s[i]
      BY <1>2, <3>1
    <3> QED
      BY <1>1, <2>1, <3>2
  <2>2. ASSUME k \in 1 .. Len(t)
        PROVE  k \in 1 .. Len(s) /\ (s[k] = t[k] \/ Nearer(r, h, s[k], t[k]))
    <3>1. \A i \in 1 .. k - 1 : i \in 1 .. Len(t)
      BY <1>0, <2>2
    <3>2. \A i \in 1 .. k - 1 : i \in 1 .. Len(s) /\ s[i] = t[i]
      BY <1>2, <3>1
    <3> QED
      BY <1>1, <2>2, <3>2
  <2> QED
    BY <2>1, <2>2, NearerIsStrict
<1> DEFINE M == Len(s) + Len(t)
           Equal == {n \in 0 .. M : \A k \in 1 .. n : /\ k \in 1 .. Len(s) <=> k \in 1 .. Len(t)
                                                      /\ k \in 1 .. Len(s) => s[k] = t[k]}
<1>3. 0 \in Equal
  BY <1>0
<1>4. ASSUME NEW n \in 0 .. M - 1, n \in Equal PROVE n + 1 \in Equal
  <2>1. n \in Nat /\ n + 1 \in Nat \ {0} /\ n + 1 \in 0 .. M /\ (n + 1) - 1 = n
    BY <1>0
  <2>2. /\ n + 1 \in 1 .. Len(s) <=> n + 1 \in 1 .. Len(t)
        /\ n + 1 \in 1 .. Len(s) => s[n + 1] = t[n + 1]
    <3>1. /\ \A i \in 1 .. (n + 1) - 1 : i \in 1 .. Len(s) <=> i \in 1 .. Len(t)
          /\ \A i \in 1 .. (n + 1) - 1 : i \in 1 .. Len(s) => s[i] = t[i]
      BY <1>4, <2>1
    <3> QED
      BY <1>2, <2>1, <3>1
  <2>3. \A k \in 1 .. n + 1 : k \in 1 .. n \/ k = n + 1
    BY <2>1
  <2> QED
    BY <1>4, <2>1, <2>2, <2>3
<1>5. M \in Equal
  <2>1. M \in Nat /\ M \in 0 .. M
    BY <1>0
  <2> HIDE DEF M, Equal
  <2> QED
    BY <1>3, <1>4, <2>1, IntervalInduction
<1>6. ASSUME NEW k \in 1 .. M
      PROVE  /\ k \in 1 .. Len(s) <=> k \in 1 .. Len(t)
             /\ k \in 1 .. Len(s) => s[k] = t[k]
  BY <1>5
<1>7. Len(s) <= Len(t) /\ Len(t) <= Len(s)
  <2>1. ASSUME Len(s) > 0 PROVE Len(s) \in 1 .. M /\ Len(s) \in 1 .. Len(s)
    BY <1>0, <2>1
  <2>2. ASSUME Len(t) > 0 PROVE Len(t) \in 1 .. M /\ Len(t) \in 1 .. Len(t)
    BY <1>0, <2>2
  <2>3. Len(s) > 0 => Len(s) \in 1 .. Len(t)
    BY <1>6, <2>1
  <2>4. Len(t) > 0 => Len(t) \in 1 .. Len(s)
    BY <1>6, <2>2
  <2> QED
    BY <1>0, <2>3, <2>4
<1>8. Len(s) = Len(t) /\ \A k \in 1 .. Len(s) : s[k] = t[k]
  <2>1. \A k \in 1 .. Len(s) : k \in 1 .. M
    BY <1>0
  <2> QED
    BY <1>0, <1>6, <1>7, <2>1
<1> QED
  BY <1>8

LEMMA FirstOfFacts ==
    ASSUME NEW s \in Seq(Node), NEW count \in Nat
    PROVE  /\ FirstOf(s, count) \in Seq(Node)
           /\ Len(FirstOf(s, count)) = IF count < Len(s) THEN count ELSE Len(s)
           /\ \A i \in 1 .. Len(FirstOf(s, count)) :
                 i \in 1 .. Len(s) /\ FirstOf(s, count)[i] = s[i]
<1> DEFINE m == IF count < Len(s) THEN count ELSE Len(s)
<1>1. m \in 0 .. Len(s) /\ Len(s) \in Nat
  OBVIOUS
<1> HIDE DEF m
<1>2. /\ SubSeq(s, 1, m) \in Seq(Node) /\ Len(SubSeq(s, 1, m)) = m
      /\ \A i \in 1 .. m : SubSeq(s, 1, m)[i] = s[i]
  BY <1>1
<1>3. \A i \in 1 .. m : i \in 1 .. Len(s)
  BY <1>1
<1> QED
  BY <1>2, <1>3 DEF FirstOf, m

(* The front of a list is the list for a smaller count; and a list of all  *)
(* nodes is the list for a larger one.                                     *)
LEMMA FirstOfIsClockwise ==
    ASSUME NEW r, NEW h \in Hash, NEW c \in Nat, NEW s \in Seq(Node),
           IsClockwise(r, h, c, s), NEW count \in Nat,
           count <= c \/ \A n \in Node : PointsOf(r, n) # {} => \E i \in 1 .. Len(s) : s[i] = n
    PROVE  IsClockwise(r, h, count, FirstOf(s, count))
<1> DEFINE f == FirstOf(s, count)
<1>1. /\ f \in Seq(Node)
      /\ Len(f) = IF count < Len(s) THEN count ELSE Len(s)
      /\ \A i \in 1 .. Len(f) : i \in 1 .. Len(s) /\ f[i] = s[i]
  BY FirstOfFacts
<1> HIDE DEF f
<1>2. Len(f) \in Nat /\ Len(s) \in Nat /\ Len(f) <= count
  BY <1>1
<1>3. \A i \in 1 .. Len(f) : PointsOf(r, f[i]) # {}
  BY <1>1 DEF IsClockwise
<1>4. \A i, j \in 1 .. Len(f) : i < j => Nearer(r, h, f[i], f[j])
  BY <1>1 DEF IsClockwise
<1>5. ASSUME NEW n \in Node, PointsOf(r, n) # {}, ~\E i \in 1 .. Len(f) : f[i] = n
      PROVE  Len(f) = count /\ \A i \in 1 .. Len(f) : Nearer(r, h, f[i], n)
  <2>1. CASE \E j \in 1 .. Len(s) : s[j] = n
    <3>1. PICK j \in 1 .. Len(s) : s[j] = n
      BY <2>1
    <3>2. ~(j <= Len(f))
      BY <1>1, <1>2, <1>5, <3>1
    <3>3. Len(f) = count
      BY <1>1, <1>2, <3>2
    <3>4. ASSUME NEW i \in 1 .. Len(f) PROVE Nearer(r, h, f[i], n)
      <4>1. i \in 1 .. Len(s) /\ f[i] = s[i] /\ i < j
        BY <1>1, <1>2, <3>2
      <4> QED
        BY <3>1, <4>1 DEF IsClockwise
    <3> QED
      BY <3>3, <3>4
  <2>2. CASE ~\E j \in 1 .. Len(s) : s[j] = n
    <3>1. count <= c /\ Len(s) = c /\ \A i \in 1 .. Len(s) : Nearer(r, h, s[i], n)
      BY <1>5, <2>2 DEF IsClockwise
    <3>2. Len(f) = count
      BY <1>1, <1>2, <3>1
    <3> QED
      BY <1>1, <3>1, <3>2
  <2> QED
    BY <2>1, <2>2
<1>6. IsClockwise(r, h, count, f)
  BY <1>2, <1>3, <1>4, <1>5 DEF IsClockwise
<1> QED
  BY <1>6 DEF f

-----------------------------------------------------------------------------
(* getNode and getNodes agree on the one list of every key. *)
THEOREM OneListPerKey == Spec => []ReplicasBeginAtPrimary
<1>1. ASSUME RingInv, NEW h \in Hash, NEW all, all = GetNodes(h, Cardinality(nodes))
      PROVE  /\ GetNode(h) = IF all = <<>> THEN NoNode ELSE all[1]
             /\ \A count \in Counts : GetNodes(h, count) = FirstOf(all, count)
  <2>0. /\ TypeOK /\ GetNodesRight /\ Cardinality(nodes) \in Nat /\ Counts \subseteq Nat
        /\ nodes \subseteq Node /\ \A s \in Seq(nodes) : s \in Seq(Node)
    BY <1>1, GetNodesFacts, FS_CardinalityType, RingFacts DEF RingInv, Counts
  <2>1. all \in Seq(nodes) /\ all \in Seq(Node) /\ IsClockwise(ring, h, Cardinality(nodes), all)
    BY <1>1, <2>0 DEF GetNodesRight, GetNodesAre
  <2>2. ASSUME NEW n \in Node, PointsOf(ring, n) # {}
        PROVE  \E i \in 1 .. Len(all) : all[i] = n
    <3> SUFFICES ASSUME ~\E i \in 1 .. Len(all) : all[i] = n PROVE FALSE
      OBVIOUS
    <3>1. Len(all) = Cardinality(nodes)
      BY <2>1, <2>2 DEF IsClockwise
    <3>2. \A i, j \in 1 .. Len(all) : i # j => all[i] # all[j]
      BY <2>1, ClockwiseIsInjective DEF IsClockwise
    <3>3. \A m \in nodes : \E i \in 1 .. Len(all) : all[i] = m
      BY <1>1, <2>1, <3>1, <3>2, FullList DEF RingInv
    <3>4. n \in nodes
      BY <2>0, <2>2, RingFacts
    <3> QED
      BY <3>3, <3>4
  <2>3. ASSUME NEW count \in Counts PROVE GetNodes(h, count) = FirstOf(all, count)
    <3>1. count \in Nat
      BY <2>0
    <3>2. GetNodes(h, count) \in Seq(Node) /\ IsClockwise(ring, h, count, GetNodes(h, count))
      BY <1>1, <2>0, <3>1 DEF GetNodesRight, GetNodesAre
    <3>3. FirstOf(all, count) \in Seq(Node)
      BY <2>1, <3>1, FirstOfFacts
    <3>4. IsClockwise(ring, h, count, FirstOf(all, count))
      BY <1>1, <2>0, <2>1, <2>2, <3>1, FirstOfIsClockwise
    <3> QED
      BY <1>1, <3>1, <3>2, <3>3, <3>4, ClockwiseIsUnique
  <2>4. CASE Points = {}
    <3>1. all = <<>>
      BY <1>1, <2>4, GetNodesByWalk
    <3> QED
      BY <2>3, <2>4, <3>1 DEF GetNode
  <2>5. CASE Points # {}
    <3>1. PICK p \in Points : p = LowerBound(h)
      BY <1>1, <2>5, ClockwiseFacts
    <3>2. p \in Hash /\ ring[p] \in Node /\ p \in PointsOf(ring, ring[p])
      BY <2>0, RingFacts
    <3>3. PICK i \in 1 .. Len(all) : all[i] = ring[p]
      BY <2>2, <3>2
    <3>4. 1 \in 1 .. Len(all) /\ all # <<>>
      BY <2>1, <3>3
    <3>5. i = 1
      <4> SUFFICES ASSUME i # 1 PROVE FALSE
        OBVIOUS
      <4>1. 1 < i
        BY <2>1, <3>3
      <4>2. Nearer(ring, h, all[1], ring[p])
        BY <2>1, <3>3, <3>4, <4>1 DEF IsClockwise
      <4>3. PICK x \in PointsOf(ring, all[1]) : Distance(h, x) < Distance(h, p)
        BY <3>2, <4>2 DEF Nearer
      <4>4. x \in Points
        BY <2>0, <2>1, <3>4, RingFacts
      <4>5. Distance(h, p) <= Distance(h, x)
        BY <1>1, <3>1, <4>4, ClockwiseFacts
      <4>6. Distance(h, p) \in Nat /\ Distance(h, x) \in Nat
        BY <1>1, <3>2, DistanceFacts DEF PointsOf
      <4> QED
        BY <4>3, <4>5, <4>6
    <3>6. GetNode(h) = ring[p]
      BY <2>5, <3>1 DEF GetNode
    <3> QED
      BY <2>3, <3>3, <3>4, <3>5, <3>6
  <2> QED
    BY <2>4, <2>5
<1>2. RingInv => ReplicasBeginAtPrimary
  BY <1>1 DEF ReplicasBeginAtPrimary
<1> QED
  BY <1>2, RingInvariance, PTL

(* A ring without the points of n has the same lists without n. *)
LEMMA WithoutIsClockwise ==
    ASSUME NEW r, NEW q, NEW n \in Node,
           \A p \in Hash : q[p] = IF r[p] = n THEN NoNode ELSE r[p],
           NEW h \in Hash, NEW count \in Nat, NEW s \in Seq(Node),
           IsClockwise(r, h, count + 1, s)
    PROVE  /\ FirstOf(Without(s, n), count) \in Seq(Node)
           /\ IsClockwise(q, h, count, FirstOf(Without(s, n), count))
<1>0. Len(s) \in Nat /\ n # NoNode /\ Len(s) <= count + 1
  BY HashRingAssumption DEF IsClockwise
<1>1. PointsOf(q, n) = {} /\ \A m \in Node : m # n => PointsOf(q, m) = PointsOf(r, m)
  BY <1>0, HashRingAssumption DEF PointsOf
<1>2. \A l, m \in Node : l # n /\ m # n => (Nearer(q, h, l, m) <=> Nearer(r, h, l, m))
  BY <1>1 DEF Nearer
<1>3. CASE ~\E i \in 1 .. Len(s) : s[i] = n
  <2>1. Without(s, n) = s
    BY <1>3 DEF Without
  <2>2. \A i \in 1 .. Len(s) : s[i] \in Node /\ s[i] # n
    BY <1>3
  <2>3. IsClockwise(q, h, count + 1, s)
    BY <1>1, <1>2, <2>2 DEF IsClockwise
  <2>4. count <= count + 1 /\ count + 1 \in Nat
    OBVIOUS
  <2> QED
    BY <2>1, <2>3, <2>4, FirstOfFacts, FirstOfIsClockwise
<1>4. CASE \E i \in 1 .. Len(s) : s[i] = n
  <2>1. PICK k \in 1 .. Len(s) :
            s[k] = n /\ Without(s, n) = [i \in 1 .. Len(s) - 1 |->
                                            IF i < k THEN s[i] ELSE s[i + 1]]
    <3> DEFINE c == CHOOSE i \in 1 .. Len(s) : s[i] = n
    <3>1. c \in 1 .. Len(s) /\ s[c] = n
      BY <1>4
    <3>2. Without(s, n) = [i \in 1 .. Len(s) - 1 |-> IF i < c THEN s[i] ELSE s[i + 1]]
      BY <1>4 DEF Without
    <3> HIDE DEF c
    <3> QED
      BY <3>1, <3>2
  <2>2. PICK w : w = Without(s, n)
    OBVIOUS
  <2> DEFINE at(i) == IF i < k THEN i ELSE i + 1
  <2>3. /\ w \in Seq(Node) /\ Len(w) = Len(s) - 1
        /\ \A i \in 1 .. Len(w) : at(i) \in 1 .. Len(s) /\ at(i) # k /\ w[i] = s[at(i)]
    <3>1. \A i \in 1 .. Len(s) - 1 : at(i) \in 1 .. Len(s) /\ at(i) # k
      BY <1>0
    <3>2. w = [i \in 1 .. Len(s) - 1 |-> s[at(i)]]
      BY <2>1, <2>2
    <3>3. Len(s) - 1 \in Nat
      BY <1>0, <2>1
    <3> HIDE DEF at
    <3> QED
      BY <3>1, <3>2, <3>3
  <2>4. \A i, j \in 1 .. Len(w) : i < j => at(i) < at(j)
    BY <1>0, <2>3
  <2>5. ASSUME NEW i \in 1 .. Len(s), i # k PROVE \E j \in 1 .. Len(w) : w[j] = s[i]
    <3>1. CASE i < k
      <4>1. i \in 1 .. Len(w) /\ at(i) = i
        BY <1>0, <2>3, <3>1
      <4> QED
        BY <2>3, <4>1
    <3>2. CASE i > k
      <4>1. i - 1 \in 1 .. Len(w) /\ at(i - 1) = i
        BY <1>0, <2>3, <3>2
      <4> QED
        BY <2>3, <4>1
    <3> QED
      BY <1>0, <2>5, <3>1, <3>2
  <2>6. \A i \in 1 .. Len(s) : i # k => s[i] # n
    BY <2>1, ClockwiseIsInjective DEF IsClockwise
  <2> HIDE DEF at
  <2>7. \A i \in 1 .. Len(w) : w[i] \in Node /\ w[i] # n
    BY <2>3, <2>6
  <2>8. \A i \in 1 .. Len(w) : PointsOf(q, w[i]) # {}
    <3>1. \A i \in 1 .. Len(w) : PointsOf(r, w[i]) # {}
      BY <2>3 DEF IsClockwise
    <3> QED
      BY <1>1, <2>7, <3>1
  <2>9. \A i, j \in 1 .. Len(w) : i < j => Nearer(q, h, w[i], w[j])
    <3>1. \A i, j \in 1 .. Len(w) : i < j => Nearer(r, h, w[i], w[j])
      BY <2>3, <2>4 DEF IsClockwise
    <3> QED
      BY <1>2, <2>7, <3>1
  <2>10. ASSUME NEW m \in Node, PointsOf(q, m) # {}, ~\E i \in 1 .. Len(w) : w[i] = m
         PROVE  Len(w) = count /\ \A i \in 1 .. Len(w) : Nearer(q, h, w[i], m)
    <3>1. m # n /\ PointsOf(r, m) # {}
      BY <1>1, <2>10
    <3>2. ~\E i \in 1 .. Len(s) : s[i] = m
      BY <2>1, <2>5, <2>10, <3>1
    <3>3. Len(s) = count + 1 /\ \A i \in 1 .. Len(s) : Nearer(r, h, s[i], m)
      BY <3>1, <3>2 DEF IsClockwise
    <3>4. Len(w) = count
      BY <1>0, <2>3, <3>3
    <3>5. \A i \in 1 .. Len(w) : Nearer(r, h, w[i], m)
      BY <2>3, <3>3
    <3> QED
      BY <1>2, <2>7, <3>1, <3>4, <3>5
  <2>11. Len(w) <= count /\ count <= count
    BY <1>0, <2>3
  <2>12. IsClockwise(q, h, count, w)
    BY <2>8, <2>9, <2>10, <2>11 DEF IsClockwise
  <2> QED
    BY <2>2, <2>3, <2>11, <2>12, FirstOfFacts, FirstOfIsClockwise
<1> QED
  BY <1>3, <1>4

LEMMA ClockwiseIsConstant ==
    ASSUME NEW r, NEW h, NEW count, NEW s
    PROVE  IsClockwise(r, h, count, s)' = IsClockwise(r, h, count, s)
  BY DEF IsClockwise, Nearer, PointsOf, Distance, Hash

LEMMA CountsAreNat == ASSUME RingInv PROVE Counts \subseteq Nat /\ nodes \subseteq Node
  BY FS_CardinalityType DEF RingInv, TypeOK, Counts

(* When a node leaves, the replicas that stay keep their order, and the    *)
(* next node on the ring takes the free place.                             *)
THEOREM LeaveKeepsOrder == Spec => LeaveKeepsReplicaOrder
<1>1. ASSUME RingInv, GetNodesRight, RingInv', GetNodesRight', NEW n \in Node, RemoveNode(n),
             NEW h \in Hash, NEW count \in Counts
      PROVE  GetNodes(h, count)' = FirstOf(Without(GetNodes(h, count + 1), n), count)
  <2>1. \A p \in Hash : ring'[p] = IF ring[p] = n THEN NoNode ELSE ring[p]
    BY <1>1, RemoveNodeRing DEF RingInv
  <2>2. count \in Nat /\ count + 1 \in Nat /\ nodes \subseteq Node /\ nodes' \subseteq Node
    BY <1>1, CountsAreNat DEF RingInv, TypeOK
  <2>3. PICK s : s = GetNodes(h, count + 1)
    OBVIOUS
  <2>4. PICK t : t = GetNodes(h, count)'
    OBVIOUS
  <2>5. s \in Seq(Node) /\ IsClockwise(ring, h, count + 1, s)
    BY <1>1, <2>2, <2>3 DEF GetNodesRight, GetNodesAre
  <2>6. t \in Seq(Node) /\ IsClockwise(ring', h, count, t)
    <3>1. GetNodesAre(h, count)'
      BY <1>1, <2>2 DEF GetNodesRight
    <3>2. PICK q, u : /\ q = ring' /\ u = GetNodes(h, count)' /\ u \in Seq(nodes')
                      /\ IsClockwise(q, h, count, u)'
      BY <3>1 DEF GetNodesAre
    <3> QED
      BY <1>1, <2>2, <2>4, <3>2, ClockwiseIsConstant
  <2>7. /\ FirstOf(Without(s, n), count) \in Seq(Node)
        /\ IsClockwise(ring', h, count, FirstOf(Without(s, n), count))
    BY <1>1, <2>1, <2>2, <2>5, WithoutIsClockwise
  <2>8. t = FirstOf(Without(s, n), count)
    BY <1>1, <2>2, <2>6, <2>7, ClockwiseIsUnique
  <2> QED
    BY <2>3, <2>4, <2>8
<1>2. RingInv /\ GetNodesRight /\ RingInv' /\ GetNodesRight' =>
        [\A n \in Node :
            RemoveNode(n) => \A h \in Hash, count \in Counts :
                GetNodes(h, count)' =
                    FirstOf(Without(GetNodes(h, count + 1), n), count)]_vars
  BY <1>1
<1>3. RingInv => GetNodesRight
  BY GetNodesFacts
<1> QED
  BY <1>2, <1>3, RingInvariance, PTL DEF LeaveKeepsReplicaOrder

(* Without collisions, a node that joins takes its place among the         *)
(* replicas of a key, and the other replicas keep their order.             *)
THEOREM JoinKeepsOrder == Spec => JoinKeepsReplicaOrder
<1>1. ASSUME RingInv, GetNodesRight, RingInv', GetNodesRight', NEW n \in Node,
             NoCollision, n \notin nodes, AddNode(n),
             NEW h \in Hash, NEW count \in Counts
      PROVE  GetNodes(h, count) = FirstOf(Without(GetNodes(h, count + 1)', n), count)
  <2>0. TypeOK /\ count \in Nat /\ count + 1 \in Nat /\ nodes \subseteq Node /\ nodes' \subseteq Node
    BY <1>1, CountsAreNat DEF RingInv, TypeOK
  <2>1. ASSUME NEW p \in Hash PROVE ring[p] = IF ring'[p] = n THEN NoNode ELSE ring'[p]
    <3>1. ring'[p] = IF p \in VirtualPoints(n) THEN n ELSE ring[p]
      BY <1>1, <2>0, AddNodeRing
    <3>2. ring[p] # NoNode => /\ ring[p] \in nodes /\ ring[p] \in Node
                              /\ p \in VirtualPoints(ring[p])
      BY <2>0 DEF TypeOK, Points
    <3>3. p \in VirtualPoints(n) => ring[p] = NoNode
      BY <1>1, <3>2 DEF NoCollision
    <3> QED
      BY <1>1, <3>1, <3>2, <3>3, HashRingAssumption
  <2>3. PICK s : s = GetNodes(h, count + 1)'
    OBVIOUS
  <2>4. PICK t : t = GetNodes(h, count)
    OBVIOUS
  <2>5. s \in Seq(Node) /\ IsClockwise(ring', h, count + 1, s)
    <3>1. GetNodesAre(h, count + 1)'
      BY <1>1, <2>0 DEF GetNodesRight
    <3>2. PICK q, u : /\ q = ring' /\ u = GetNodes(h, count + 1)' /\ u \in Seq(nodes')
                      /\ IsClockwise(q, h, count + 1, u)'
      BY <3>1 DEF GetNodesAre
    <3> QED
      BY <1>1, <2>0, <2>3, <3>2, ClockwiseIsConstant
  <2>6. t \in Seq(Node) /\ IsClockwise(ring, h, count, t)
    BY <1>1, <2>0, <2>4 DEF GetNodesRight, GetNodesAre
  <2>7. /\ FirstOf(Without(s, n), count) \in Seq(Node)
        /\ IsClockwise(ring, h, count, FirstOf(Without(s, n), count))
    BY <1>1, <2>0, <2>1, <2>5, WithoutIsClockwise
  <2>8. t = FirstOf(Without(s, n), count)
    BY <1>1, <2>0, <2>6, <2>7, ClockwiseIsUnique
  <2> QED
    BY <2>3, <2>4, <2>8
<1>2. RingInv /\ GetNodesRight /\ RingInv' /\ GetNodesRight' =>
        [\A n \in Node :
            NoCollision /\ n \notin nodes /\ AddNode(n) =>
                \A h \in Hash, count \in Counts :
                    GetNodes(h, count) =
                        FirstOf(Without(GetNodes(h, count + 1)', n), count)]_vars
  BY <1>1
<1>3. RingInv => GetNodesRight
  BY GetNodesFacts
<1> QED
  BY <1>2, <1>3, RingInvariance, PTL DEF JoinKeepsReplicaOrder
=============================================================================
