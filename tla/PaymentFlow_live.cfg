SPECIFICATION FairSpec
CONSTANTS
    u1 = u1
    Users <- MCUsers
    UserOf <- MCUserOf
    Payments = {p1, p2}
    Webhooks = {w1, w2}
    Sentinels = {s1}
    Events = {"paid"}
    Hooks = {}
    BatchLimit = 1
    MaxFaults = 2
    MaxDeliveries = 2
PROPERTY StuckEventuallyPaid
CHECK_DEADLOCK FALSE
