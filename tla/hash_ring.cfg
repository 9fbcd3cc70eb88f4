SPECIFICATION Spec
CONSTANTS
    Node = {n1, n2, n3}
    NoNode = NoNode
    MaxHash = 4
    VNodes = 2
SYMMETRY MCSymmetry
INVARIANTS
    TypeOK
    RingIsMembership
    GetNodesIsClockwiseOrder
    ReplicasBeginAtPrimary
PROPERTIES
    JoinMovesKeysToJoiner
    LeaveMovesOwnKeysOnly
    LeaveKeepsReplicaOrder
    JoinKeepsReplicaOrder
