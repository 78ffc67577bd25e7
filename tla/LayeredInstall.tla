--------------------------- MODULE LayeredInstall ---------------------------
(***************************************************************************)
(* What the hub's agent controller promises about one installation: it is  *)
(* built in layers, and taken down in the opposite order.                  *)
(*   1  the finalizer on the ManagedClusterAddOn                           *)
(*   2  a credential (ServiceAccount) in a broker namespace                *)
(*   3  the Submariner CR on the cluster (its ManifestWork)                *)
(* So whatever the moment, a failure or a restart leaves an installation   *)
(* whose remains are still reachable by the next sync.                     *)
(***************************************************************************)
EXTENDS Naturals

CONSTANT Clusters
VARIABLE held   \* the layers that each cluster holds

Layer == 1..3

Init == held = [c \in Clusters |-> {}]

Push(c, l) == /\ 1..(l - 1) \subseteq held[c]
              /\ held' = [held EXCEPT ![c] = @ \cup {l}]

Pop(c, l) == /\ held[c] \subseteq 1..l
             /\ held' = [held EXCEPT ![c] = @ \ {l}]

Next == \E c \in Clusters, l \in Layer : Push(c, l) \/ Pop(c, l)

Spec == Init /\ [][Next]_held

=============================================================================
