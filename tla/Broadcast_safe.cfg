SPECIFICATION Spec
CONSTANTS
    Users = {u1, u2}
    Requests = {h1, h2}
    None = None
    Day = 2
    ThreeDays = 3
    Week = 4
    TrialTime = 5
    PlanTime = 5
    MaxRows = 2
    DailyCap = 1
    MaxNow = 4
    MaxDrafts = 2
    MaxTrouble = 1
SYMMETRY MCSymmetry
INVARIANTS
    TypeOK
    SentOnceAndApproved
    CrowdingIsOldDrafts
    SegmentsAreDisjoint
    LossesAreFaults
PROPERTY RefinesDraftLifecycle
CHECK_DEADLOCK FALSE
