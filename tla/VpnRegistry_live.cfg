SPECIFICATION FairSpec
CONSTANTS
    b1 = b1
    b2 = b2
    Users = {u1}
    Servers = {s1, s2}
    Uuids = {x1, x2}
    SubsOf <- MCOneSub
    Handlers = {h1}
    Cron = {c1}
    Startup = {g1}
    None = None
    MaxFaults = 1
PROPERTY RowsReachServers
