SPECIFICATION Spec
CONSTANTS
    u1 = u1
    Users <- MCUsers
    UserOf <- MCUserOf
    Payments = {p1}
    Webhooks = {w1}
    Sentinels = {}
    Events = {"paid"}
    Hooks = {}
    BatchLimit = 1
    MaxFaults = 1
    MaxDeliveries = 2
INVARIANT GrantedAtMostOnce
CHECK_DEADLOCK FALSE
