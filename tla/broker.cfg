SPECIFICATION FairSpec
CONSTANTS
    s1 = s1
    c1 = c1
    c2 = c2
    Sets = {s1}
    Exclusive = {s1}
    Clusters = {c1, c2}
    MaxFins = 2
    Lagging = {"set", c1}
    Events = {"apiError", "annotations"}
INVARIANTS TypeOK BrokerHasKeeper
PROPERTIES BrokerLifeSpec AddonsGoFirst SetsDeletable BrokerRises UninstallCompletes
CHECK_DEADLOCK FALSE
