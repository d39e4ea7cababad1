SPECIFICATION Spec
CONSTANTS
    Users = {u1}
    SameId = {}
    PlanDays = {2}
    TrialDays = {1}
    BonusDays = {1}
    ChannelDays = 3
    Handlers = {h1, h2}
    MaxCalls = 2
    MaxTime = 0
PROPERTY PurchaseUpserts
CHECK_DEADLOCK FALSE
