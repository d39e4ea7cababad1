SPECIFICATION Spec
CONSTANTS
    u1 = u1
    Users <- MCUsers
    UserOf <- MCUserOf
    Payments = {p1, p2}
    Webhooks = {w1, w2}
    Sentinels = {s1}
    Events = {"paid", "cancelled", "failed", "refunded"}
    Hooks = {}
    BatchLimit = 1
    MaxFaults = 2
    MaxDeliveries = 3
SYMMETRY MCSymmetry
INVARIANTS
    TypeOK
    GrantsBounded
    CheckpointRecoverable
    AckedPaidIsFinal
    CalledMeansProvisioned
PROPERTY RefinesLifecycle
CHECK_DEADLOCK FALSE
