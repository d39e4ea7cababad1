SPECIFICATION Spec
CONSTANTS
    Users = {u1}
    SameId = {u1}
    PlanDays = {2}
    TrialDays = {1}
    BonusDays = {1}
    ChannelDays = 3
    Handlers = {h1, h2, h3}
    MaxCalls = 4
    MaxTime = 2
INVARIANTS
    TypeOK
    OnlyPurchasesDeadlock
PROPERTIES
    RefinesLedger
    PendingWithoutLive
CHECK_DEADLOCK FALSE
