SPECIFICATION Spec
CONSTANTS
    Users = {u1}
    Offers = {o1, o2}
    Sold = {o1}
    Providers = {"telegram_stars", "wata", "platega"}
    Callers = {c1}
    Webhooks = {w1, w2}
    MaxPayments = 2
    None = None
    MaxLinks = 2
    MaxTxs = 2
    MaxKey = 2
    MaxFaults = 1
SYMMETRY MCSymmetry
INVARIANTS
    TypeOK
    PaidWasCharged
    HeldLinksAreKnown
    AckedChargeIsHonoured
PROPERTY CurrentKeyIsAccepted
CHECK_DEADLOCK FALSE
