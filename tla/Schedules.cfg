SPECIFICATION Spec
CONSTANTS
    s1 = s1
    s2 = s2
    T = T
    U = U
    D = D
    r1 = r1
    Schedules <- MCSchedules
    TemplateIds <- MCTemplateIds
    TemplateOf <- MCTemplateOf
    Departments <- MCDepartments
    ScopeOf <- MCScopeOf
    Requests <- MCRequests
    MaxActive = 2
CHECK_DEADLOCK FALSE
INVARIANTS
    OneRunPerDepartment
PROPERTIES
    DueIsServed
