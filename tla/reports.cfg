SPECIFICATION FairSpec
CONSTANTS
    n1 = n1
    n2 = n2
    g1 = g1
    Nodes = {n1, n2}
    Workers = {n1}
    Gateways = {g1}
    Teams = {{"deployment", "connections"}, {"gateways", "version"}, {"gateways", "broker"}}
    Moving = {n1, n2, "subscription", "operator", "submariner", "broker"}
    MaxChanges = 2
    Outage = {"on"}
INVARIANTS TypeOK QuietMeansCurrent
PROPERTIES NoLostReport ReportsSettle
