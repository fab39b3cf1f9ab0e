CONSTANTS
    work = work
    ann = ann
    ben = ben
    adm = adm
    r1 = r1
    r2 = r2
    Tasks = {work}
    Users = {ann, ben, adm}
    Managers = {adm}
    Admins = {adm}
    Fallback = {adm}
    Requests = {r1, r2}
    MaxVersions = 2
    KindsOf <- AnyKind
    CreatorOf <- Creators
SPECIFICATION Spec
SYMMETRY Swaps
INVARIANT DoneMeansNodeClosed
INVARIANT ManualRunFollowsTask
INVARIANT ReviewerIsNotAuthor
INVARIANT AcceptedIsLatest
PROPERTY StandaloneDoneIsFinal
CHECK_DEADLOCK FALSE
