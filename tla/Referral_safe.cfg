SPECIFICATION Spec
CONSTANTS
    ann = ann
    bob = bob
    cat = cat
    pay1 = pay1
    pay2 = pay2
    None = None
    Users <- MC_Users
    Partners = {bob}
    Payments = {pay1, pay2}
    UserOf <- MC_UserOf
    CampaignOf <- MC_CampaignOf
    Share <- MC_Share
    Amounts = {1, 3}
    Handlers = {h1, h2}
    MaxCalls = 4
    MaxFaults = 1
SYMMETRY Symmetry
INVARIANTS
    TypeOK
    MoneyIsBacked
    StrandedByFailures
    OneInviterRewarded
CHECK_DEADLOCK FALSE
