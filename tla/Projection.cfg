SPECIFICATION FairSpec
CONSTANTS
    a = a
    b = b
    s = s
    t = t
    o = o
    Streams <- MCStreams
    Subjects <- MCSubjects
    Operators <- MCOperators
    Events <- MCEvents
    StreamOf <- MCStreamOf
    SubjectOf <- MCSubjectOf
    BatchSize = 1
\* when every row has been read only the script still has something to do
CHECK_DEADLOCK FALSE
INVARIANTS
    NothingPassedOver
    ItemIsCurrent
PROPERTIES
    TimelineCatchesUp
