SPECIFICATION CoreFairSpec
CONSTANTS
    Node <- DiamondNode
    Edge <- DiamondEdge
    NodeType <- DiamondType
    JoinMode <- DiamondJoin
    RoutingMode <- DiamondRouting
    Condition <- DiamondCondition
    Priority <- DiamondPriority
    KeyOrder <- DiamondOrder
    Policy <- DiamondPolicy
    MaxIterations = 3
    MaxLate = 1
INVARIANTS
    IterationsAreClosed
    OnlyNewestIsLive

    
\* a run that has ended takes no further step
CHECK_DEADLOCK FALSE
