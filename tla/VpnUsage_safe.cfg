SPECIFICATION Spec
CONSTANTS
    u1 = u1
    u2 = u2
    Users <- MCUsers
    UserOf <- MCUserOf
    Servers <- MCServers
    Kinds <- MCKinds
    NewServer <- MCNewServer
    Agents <- MCAgents
    Devices = {d1, d2}
    Requests = {h1, h2}
    Plans = {1}
    PlanTime = 2
    Window = 1
    Capacity = 2
    Baselined = {1}
    DefaultCountry = "DE"
    MaxNow = 2
    MaxCalls = 3
    MaxFaults = 1
SYMMETRY Symmetry
INVARIANTS
    TypeOK
    OverLimitIsExplained
    LossHasACause
    AccessFollowsSubscription
    ConfigIsComplete
    RoutesAgree
CHECK_DEADLOCK FALSE
