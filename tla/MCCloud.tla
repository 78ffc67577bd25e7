-------------------------------- MODULE MCCloud --------------------------------
(* A small instance of CloudPrepare for TLC: a cluster of each platform,    *)
(* with and without OVN-Kubernetes, and one that has no provider.          *)
EXTENDS CloudPrepare

Cluster(platform, vendor, cni, ocp) ==
    [platform |-> platform, vendor |-> vendor, cni |-> cni, ocp |-> ocp]

MCSites == {Cluster("AWS", "OpenShift", "OpenShiftSDN", "4.10"),
            Cluster("GCP", "OpenShift", "OVNKubernetes", "4.11"),
            Cluster("Azure", "OpenShift", "OVNKubernetes", "4.10"),
            Cluster("OpenStack", "OpenShift", "OVNKubernetes", "4.10"),
            Cluster("AWS", "ROSA", "OVNKubernetes", "4.11")}

=============================================================================
