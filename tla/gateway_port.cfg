SPECIFICATION FairSpec
CONSTANTS
    NoPort = NoPort
    NoConfig = NoConfig
    n1 = n1
    n2 = n2
    n3 = n3
    Nodes = {n1}
    Ports = {4500, 4501}
    Wants = {1}
    Lagging = {}
    Events = {}
PROPERTY PortsFollowConfig
