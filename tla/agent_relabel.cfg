SPECIFICATION Spec
CONSTANTS
    NoSet = NoSet
    NoCluster = NoCluster
    c1 = c1
    c2 = c2
    s1 = s1
    s2 = s2
    Clusters = {c1}
    Sets = {s1, s2}
    Labels = {s1, s2, NoSet}
    Lagging = {}
    Events = {"apiError", "timeout"}
INVARIANT TypeOK
PROPERTIES LayeredSpec OperatorOutlivesCR CleanRemoval
