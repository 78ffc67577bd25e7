SPECIFICATION Spec
CONSTANTS
    NoSet = NoSet
    NoCluster = NoCluster
    c1 = c1
    c2 = c2
    s1 = s1
    s2 = s2
    Clusters = {c1}
    Sets = {s1}
    Labels = {s1}
    Lagging = {}
    Events = {"apiError"}
INVARIANT NoOrphanRoleBinding
