SPECIFICATION Spec
CONSTANTS
    Node <- RaceNode
    Edge <- RaceEdge
    NodeType <- RaceType
    JoinMode <- RaceJoin
    RoutingMode <- RaceRouting
    Condition <- RaceCondition
    Priority <- RacePriority
    KeyOrder <- RaceOrder
    Policy <- RacePolicy
    MaxIterations = 2
    MaxLate = 1
INVARIANTS
    AllJoinMeetsSources
    RaceIsRevoked
    PendingStillHasSource
    ActiveRunHasActor
    CompletedRunIsClosed
PROPERTIES
    RunOutcomeIsFinal
    ClosedNodeStaysClosed
\* a run that has ended takes no further step
CHECK_DEADLOCK FALSE
