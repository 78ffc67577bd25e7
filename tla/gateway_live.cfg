SPECIFICATION FairSpec
CONSTANTS
    NoPort = NoPort
    NoConfig = NoConfig
    n1 = n1
    n2 = n2
    n3 = n3
    Nodes = {n1, n2, n3}
    Ports = {4500}
    Wants = {0, 1, 2}
    Lagging = {}
    Events = {"apiError", "churn"}
INVARIANT TypeOK
PROPERTIES NeverTooMany GatewaysConverge
