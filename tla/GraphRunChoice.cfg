SPECIFICATION Spec
CONSTANTS
    Node <- ChoiceNode
    Edge <- ChoiceEdge
    NodeType <- ChoiceType
    JoinMode <- ChoiceJoin
    RoutingMode <- ChoiceRouting
    Condition <- ChoiceCondition
    Priority <- ChoicePriority
    KeyOrder <- ChoiceOrder
    Policy <- ChoicePolicy
    MaxIterations = 2
    MaxLate = 1
INVARIANTS
    DecisionIsKept
    ChoiceIsExclusive
    DependencyIsEarned
\* a run that has ended takes no further step
CHECK_DEADLOCK FALSE
