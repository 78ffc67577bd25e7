SPECIFICATION FairSpec
CONSTANTS
    Sites <- MCSites
    Claims = {{"platform", "region"}, {"vendor", "platform", "infraID", "region"}}
    NattPorts = {"4500", "4501"}
    MaxGateways = 2
    MaxChanges = 1
    Outage = {"on"}
INVARIANTS TypeOK PortsFitNetwork
PROPERTIES PreparedIsTrue CloudOutlivesSubmariner CloudFollowsConfig CloudCleared
CHECK_DEADLOCK FALSE
