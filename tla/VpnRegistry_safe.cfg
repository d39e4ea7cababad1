SPECIFICATION Spec
CONSTANTS
    b1 = b1
    b2 = b2
    Users = {u1}
    Servers = {s1, s2}
    Uuids = {x1, x2}
    SubsOf <- MCTwoSubs
    Handlers = {h1, h2}
    Cron = {c1}
    Startup = {}
    None = None
    MaxFaults = 1
SYMMETRY MCSymmetry
INVARIANTS
    TypeOK
    NoForeignAccount
