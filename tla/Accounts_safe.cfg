SPECIFICATION Spec
CONSTANTS
    People = {t1, a1}
    Root = a1
    Refs = {r1}
    Campaigns = {c1, c2}
    Handlers = {h1, h2}
    None = None
    MaxRequests = 3
    MaxPromos = 2
    MaxPays = 2
    MaxFaults = 1
SYMMETRY MCSymmetry
INVARIANTS
    TypeOK
    NewcomersAreServed
    PromoFollowsItsPayment
PROPERTIES
    FirstTouch
    AdminsKeepTheirRole
CHECK_DEADLOCK FALSE
