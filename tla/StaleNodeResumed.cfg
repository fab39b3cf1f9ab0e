SPECIFICATION Spec
CONSTANTS
    Node <- DiamondNode
    Edge <- DiamondEdge
    NodeType <- DiamondType
    JoinMode <- DiamondJoin
    RoutingMode <- DiamondRouting
    Condition <- DiamondCondition
    Priority <- DiamondPriority
    KeyOrder <- DiamondOrder
    Policy <- DiamondPolicy
    MaxIterations = 2
    MaxLate = 0
INVARIANTS
    OnlyNewestIsLive
\* a run that has ended takes no further step
CHECK_DEADLOCK FALSE
