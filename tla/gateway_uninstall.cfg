SPECIFICATION FairSpec
CONSTANTS
    NoPort = NoPort
    NoConfig = NoConfig
    n1 = n1
    n2 = n2
    n3 = n3
    Nodes = {n1, n2}
    Ports = {4500}
    Wants = {1}
    Lagging = {n1, "submariner"}
    Events = {"apiError", "users", "hub"}
PROPERTIES GatewaysOutliveSubmariner UninstallUnlabels
