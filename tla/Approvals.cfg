SPECIFICATION Spec
CONSTANTS
    Approval = {i1}
    Users = {u1, u2}
    StepLists <- MCStepLists
    Requests = {r1, r2}
    MaxIteration = 2
SYMMETRY Symmetry
INVARIANTS TypeOK OpenHasPending PendingIsCurrent ApprovedMeansAgreed 
PROPERTIES ClosedNodeFrozen
