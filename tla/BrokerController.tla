--------------------------- MODULE BrokerController ---------------------------
(***************************************************************************)
(* The hub's submarinerBrokerController (pkg/hub/submarinerbroker): for    *)
(* each ManagedClusterSet it adds a finalizer and an annotation to the     *)
(* set, creates the broker namespace with a Role, the IPsec PSK Secret and *)
(* a certificate signer, and takes them down when the set, or the whole    *)
(* Submariner add-on (its ClusterManagementAddOn), is deleted.             *)
(*                                                                         *)
(* One worker runs the syncs, one API call after the other. Users create,  *)
(* annotate and delete sets, install and uninstall in between; Kubernetes  *)
(* takes its time to empty a deleted namespace; calls fail and the process *)
(* restarts. Sets, add-ons and the ClusterManagementAddOn are read from    *)
(* informers' caches; a set is updated on a fresh copy.                    *)
(***************************************************************************)
EXTENDS FiniteSets, Naturals

CONSTANTS
    Sets,       \* names of ManagedClusterSets
    Exclusive,  \* those with the selector type ExclusiveClusterSetLabel
    Clusters,   \* managed clusters, which have an add-on or not
    MaxFins,    \* bound: copies of the finalizer on one set
    Lagging,    \* what an informer may show late: "set" for the sets, and the
                \* clusters with such an add-on (the cma it always may)
    Events      \* optional environment events of this instance

ASSUME BrokerAssumption ==
    /\ Exclusive \subseteq Sets
    /\ MaxFins \in Nat \ {0}
    /\ Lagging \subseteq Clusters \cup {"set"}
    /\ Events \subseteq {"apiError", "annotations"}

VARIABLES
    cma,        \* the ClusterManagementAddOn: it has the add-on's finalizer
    cmaCache,   \* its informer's copy
    addon,      \* the ManagedClusterAddOn of each cluster
    addonCache, \* whether their informer has it as owned, or a former one
    owed,       \* history: the add-ons it had as owned when the uninstall was
                \* asked for, as long as they are there
    set,        \* the ManagedClusterSets in the hub's API server
    setCache,   \* the set informer's copy
    ns,         \* the broker namespaces and what is in them
    signer,     \* sets whose certificate signer runs, in memory
    ctl,        \* where the worker is in a sync, and the sync's variables
    outage      \* API calls may fail, and the process may restart

views == <<cmaCache, addonCache, owed>>
hub   == <<cma, addon, views, outage>>
vars  == <<set, setCache, ns, signer, ctl, hub>>

-----------------------------------------------------------------------------
SetState == [st : {"none", "live", "deleting"}, ann : {"", "brokerNS"}, fins : 0..MaxFins]
NoSet    == [st |-> "none", ann |-> "", fins |-> 0]
NewSet   == [st |-> "live", ann |-> "", fins |-> 0]

NsState  == [st : {"none", "active", "terminating"}, has : SUBSET {"role", "psk"}]
NoNs     == [st |-> "none", has |-> {}]

(* on: the set, if any, that the sync works on; of: whether for this set or *)
(* for all; todo: the add-ons, or then the sets, that it has yet to visit; *)
(* err: what ApplyManifests or DeleteFromManifests will return.            *)
Steps == {"idle", "namespace", "role", "psk", "signer", "addons", "visit",
          "delete_namespace", "delete_role", "release"}
Control == [pc : Steps, on : SUBSET Sets, of : {"set", "all"},
            todo : SUBSET (Sets \cup Clusters), err : {"nil", "error"}]
Idle == [pc |-> "idle", on |-> {}, of |-> "set", todo |-> {}, err |-> "nil"]

Init ==
    /\ cma = "live" /\ cmaCache = cma
    /\ addon = [c \in Clusters |-> "none"]
    /\ addonCache = [c \in Clusters |-> "no"] /\ owed = {}
    /\ set = [s \in Sets |-> NoSet] /\ setCache = set
    /\ ns = [s \in Sets |-> NoNs]
    /\ signer = {}
    /\ ctl = Idle
    /\ outage = ("apiError" \in Events)

SetLister == IF "set" \in Lagging THEN setCache ELSE set
At(step)  == ctl.pc = step
On(s)     == ctl.on = {s}
Return    == ctl' = Idle
Goto(step) == ctl' = [ctl EXCEPT !.pc = step]

(* The add-ons that the lister has and that the ClusterManagementAddOn      *)
(* controls (metav1.IsControlledBy).                                       *)
Owned == {c \in Clusters :
             IF c \in Lagging THEN addonCache[c] # "no" ELSE addon[c] # "none"}

Fails(step) ==
    /\ outage
    /\ ctl' = [ctl EXCEPT !.pc = step, !.err = "error"]

-----------------------------------------------------------------------------
(* Some definitions below come after a variant that no operator uses: the   *)
(* same code with one fault in it (DeployUnclaimed, DeployOnce,            *)
(* CleanUpAtOnce, DeleteNamespaceOnce, WithoutOneFinalizer,                *)
(* DeleteAddonsOnce). README.md says which property each of these breaks.  *)

-----------------------------------------------------------------------------
(* sync and reconcileManagedClusterSet: a live set is claimed in one sync, *)
(* and its broker deployed in the next ones.                               *)

Live(s)    == cmaCache = "live" /\ SetLister[s].st = "live" /\ s \in Exclusive
Claimed(s) == SetLister[s].fins > 0 /\ SetLister[s].ann = "brokerNS"

(* Update works on a fresh copy: it appends a finalizer even if there is   *)
(* one; the API server takes no new one on a set that is being deleted.    *)
Claim(s) ==
    /\ At("idle") /\ Live(s) /\ ~Claimed(s)
    /\ set[s].st = "live" \/ (set[s].st = "deleting" /\ set[s].fins > 0)
    /\ set[s].fins < MaxFins
    /\ set' = [set EXCEPT ![s].ann = "brokerNS", ![s].fins = @ + 1]
    /\ UNCHANGED <<setCache, ns, signer, ctl, hub>>

DeployUnclaimed(s) ==
    /\ At("idle") /\ Live(s)
    /\ ctl' = [Idle EXCEPT !.pc = "namespace", !.on = {s}]
    /\ UNCHANGED <<set, setCache, ns, signer, hub>>

DeployOnce(s) ==
    /\ At("idle") /\ Live(s) /\ Claimed(s) /\ ns[s].st = "none"
    /\ ctl' = [Idle EXCEPT !.pc = "namespace", !.on = {s}]
    /\ UNCHANGED <<set, setCache, ns, signer, hub>>

Deploy(s) ==
    /\ At("idle") /\ Live(s) /\ Claimed(s)
    /\ ctl' = [Idle EXCEPT !.pc = "namespace", !.on = {s}]
    /\ UNCHANGED <<set, setCache, ns, signer, hub>>

(* ApplyManifests: the namespace, then, also after a failure, the Role. A  *)
(* namespace that is being terminated is there, but takes nothing new.     *)
ApplyNamespace(s) ==
    /\ At("namespace") /\ On(s)
    /\ \/ Goto("role") /\ ns' = IF ns[s].st = "none"
                                THEN [ns EXCEPT ![s].st = "active"] ELSE ns
       \/ Fails("role") /\ UNCHANGED ns
    /\ UNCHANGED <<set, setCache, signer, hub>>

ApplyRole(s) ==
    /\ At("role") /\ On(s)
    /\ \/ /\ ns[s].st = "active" \/ "role" \in ns[s].has
          /\ ns' = [ns EXCEPT ![s].has = @ \cup {"role"}]
          /\ IF ctl.err # "nil" THEN Return ELSE Goto("psk")
       \/ /\ outage \/ (ns[s].st # "active" /\ "role" \notin ns[s].has)
          /\ Return /\ UNCHANGED ns
    /\ UNCHANGED <<set, setCache, signer, hub>>

CreateIPSecPSKSecret(s) ==
    /\ At("psk") /\ On(s)
    /\ \/ /\ ns[s].st = "active" \/ "psk" \in ns[s].has
          /\ ns' = [ns EXCEPT ![s].has = @ \cup {"psk"}]
          /\ Goto("signer")
       \/ /\ outage \/ (ns[s].st # "active" /\ "psk" \notin ns[s].has)
          /\ Return /\ UNCHANGED ns
    /\ UNCHANGED <<set, setCache, signer, hub>>

SetupCertificateManagement(s) ==
    /\ At("signer") /\ On(s)
    /\ \/ signer' = signer \cup {s}
       \/ (outage \/ ns[s].st # "active") /\ UNCHANGED signer
    /\ Return
    /\ UNCHANGED <<set, setCache, ns, hub>>

-----------------------------------------------------------------------------
(* doClusterSetCleanup: DeleteFromManifests deletes the Role also when the *)
(* namespace could not be deleted; then the finalizer comes off. A set     *)
(* without the annotation is left as it is.                                *)

CleanUpAtOnce(s) ==
    /\ At("idle") /\ cmaCache = "live" /\ s \in Exclusive
    /\ SetLister[s].st = "deleting" /\ SetLister[s].ann # ""
    /\ ctl' = [Idle EXCEPT !.pc = "release", !.on = {s}]
    /\ UNCHANGED <<set, setCache, ns, signer, hub>>

CleanUp(s) ==
    /\ At("idle") /\ cmaCache = "live" /\ s \in Exclusive
    /\ SetLister[s].st = "deleting" /\ SetLister[s].ann # ""
    /\ ctl' = [Idle EXCEPT !.pc = "delete_namespace", !.on = {s}]
    /\ signer' = signer \ {s}
    /\ UNCHANGED <<set, setCache, ns, hub>>

DeleteNamespaceOnce(s) ==
    /\ At("delete_namespace") /\ On(s)
    /\ \/ /\ ns[s].st # "none" /\ Goto("delete_role")
          /\ ns' = [ns EXCEPT ![s].st = "terminating"]
       \/ /\ outage \/ ns[s].st = "none"
          /\ ctl' = [ctl EXCEPT !.pc = "delete_role", !.err = "error"]
          /\ UNCHANGED ns
    /\ UNCHANGED <<set, setCache, signer, hub>>

DeleteNamespace(s) ==
    /\ At("delete_namespace") /\ On(s)
    /\ \/ Goto("delete_role") /\ ns' = IF ns[s].st = "active"
               THEN [ns EXCEPT ![s].st = "terminating"] ELSE ns
       \/ Fails("delete_role") /\ UNCHANGED ns
    /\ UNCHANGED <<set, setCache, signer, hub>>

DeleteRole(s) ==
    /\ At("delete_role") /\ On(s)
    /\ \/ /\ ns' = [ns EXCEPT ![s].has = @ \ {"role"}]
          /\ IF ctl.err # "nil" THEN Return ELSE Goto("release")
       \/ outage /\ Return /\ UNCHANGED ns
    /\ UNCHANGED <<set, setCache, signer, hub>>

(* finalizer.Remove takes every copy of the finalizer off; a set that is   *)
(* being deleted goes with its last finalizer.                             *)
WithoutOneFinalizer(x) ==
    IF x.st = "deleting" /\ x.fins <= 1 THEN NoSet
    ELSE [x EXCEPT !.fins = @ - 1]

WithoutFinalizer(x) ==
    IF x.st = "deleting" THEN NoSet ELSE [x EXCEPT !.fins = 0]

NextSet == IF ctl.of = "all" THEN ctl' = [ctl EXCEPT !.pc = "visit", !.on = {}] ELSE Return

Release(s) ==
    /\ At("release") /\ On(s)
    /\ \/ set' = [set EXCEPT ![s] = WithoutFinalizer(@)] /\ NextSet
       \/ outage /\ Return /\ UNCHANGED set
    /\ UNCHANGED <<setCache, ns, signer, hub>>

-----------------------------------------------------------------------------
(* doAllClusterSetCleanup: first the add-ons, then, in a later sync, the   *)
(* brokers of all sets, and at last the ClusterManagementAddOn's finalizer *)

DeleteAddonsOnce ==
    /\ At("idle") /\ cmaCache = "deleting"
    /\ \A c \in Owned : addon[c] = "deleting"
    /\ ctl' = [Idle EXCEPT !.pc = "visit", !.of = "all",
                           !.todo = {s \in Sets : SetLister[s].ann # ""}]
    /\ UNCHANGED <<set, setCache, ns, signer, hub>>

DeleteAllBrokers ==
    /\ At("idle") /\ cmaCache = "deleting" /\ Owned = {}
    /\ ctl' = [Idle EXCEPT !.pc = "visit", !.of = "all",
                           !.todo = {s \in Sets : SetLister[s].ann # ""}]
    /\ UNCHANGED <<set, setCache, ns, signer, hub>>

DeleteAddons ==
    /\ At("idle") /\ cmaCache = "deleting" /\ Owned # {}
    /\ ctl' = [Idle EXCEPT !.pc = "addons", !.of = "all", !.todo = Owned]
    /\ UNCHANGED <<set, setCache, ns, signer, hub>>

(* An add-on that has gone since the list was read is an error.            *)
DeleteOwnedAddon(c) ==
    /\ At("addons") /\ c \in ctl.todo
    /\ \/ /\ addon[c] # "none"
          /\ addon' = [addon EXCEPT ![c] = "deleting"]
          /\ IF ctl.todo = {c} THEN Return
             ELSE ctl' = [ctl EXCEPT !.todo = @ \ {c}]
       \/ /\ outage \/ addon[c] = "none"
          /\ Return /\ UNCHANGED addon
    /\ UNCHANGED <<set, setCache, ns, signer, cma, views, outage>>

Visit(s) ==
    /\ At("visit") /\ s \in ctl.todo
    /\ ctl' = [ctl EXCEPT !.pc = "delete_namespace", !.on = {s}, !.todo = @ \ {s}]
    /\ signer' = signer \ {s}
    /\ UNCHANGED <<set, setCache, ns, hub>>

ReleaseAll ==
    /\ At("visit") /\ ctl.todo = {}
    /\ \/ cma' = "gone"
       \/ outage /\ UNCHANGED cma
    /\ Return
    /\ UNCHANGED <<set, setCache, ns, signer, addon, views, outage>>

Restart ==
    /\ outage
    /\ Return /\ signer' = {} /\ setCache' = set /\ cmaCache' = cma
    /\ addonCache' = [c \in Clusters |-> IF addonCache[c] = "owned" THEN "owned" ELSE "no"]
    /\ UNCHANGED <<set, ns, cma, addon, owed, outage>>

-----------------------------------------------------------------------------
(* The environment: users and the add-on manager. Submariner is installed  *)
(* only once, and no add-on is created once its uninstall is asked for.    *)

CreateSet(s) ==
    /\ set[s].st = "none" /\ set' = [set EXCEPT ![s] = NewSet]
    /\ UNCHANGED <<setCache, ns, signer, ctl, hub>>

DeleteSet(s) ==
    /\ set[s].st = "live"
    /\ set' = [set EXCEPT ![s] = IF @.fins = 0 THEN NoSet
                                  ELSE [@ EXCEPT !.st = "deleting"]]
    /\ UNCHANGED <<setCache, ns, signer, ctl, hub>>

RemoveAnnotation(s) ==
    /\ "annotations" \in Events
    /\ set[s].st = "live" /\ set[s].ann # "" /\ set[s].fins < MaxFins
    /\ set' = [set EXCEPT ![s].ann = ""]
    /\ UNCHANGED <<setCache, ns, signer, ctl, hub>>

CreateAddon(c) ==
    /\ cma = "live" /\ addon[c] = "none"
    /\ addon' = [addon EXCEPT ![c] = "live"]
    /\ UNCHANGED <<set, setCache, ns, signer, ctl, cma, views, outage>>

DeleteAddon(c) ==
    /\ addon[c] = "live"
    /\ addon' = [addon EXCEPT ![c] = "deleting"]
    /\ UNCHANGED <<set, setCache, ns, signer, ctl, cma, views, outage>>

AddonGone(c) ==
    /\ addon[c] = "deleting"
    /\ addon' = [addon EXCEPT ![c] = "none"] /\ owed' = owed \ {c}
    /\ addonCache' = [addonCache EXCEPT ![c] = IF @ = "owned" THEN "former" ELSE @]
    /\ UNCHANGED <<set, setCache, ns, signer, ctl, cma, cmaCache, outage>>

(* The add-on manager makes the ClusterManagementAddOn the owner of an      *)
(* add-on, sooner or later, and the informer tells of it after that; it    *)
(* tells of the end of one add-on before the next one.                     *)
ObserveOwner(c) ==
    /\ c \in Lagging /\ addonCache[c] = "no" /\ addon[c] # "none"
    /\ addonCache' = [addonCache EXCEPT ![c] = "owned"]
    /\ UNCHANGED <<set, setCache, ns, signer, ctl, cma, cmaCache, addon, owed, outage>>

ObserveEnd(c) ==
    /\ addonCache[c] = "former"
    /\ addonCache' = [addonCache EXCEPT ![c] = "no"]
    /\ UNCHANGED <<set, setCache, ns, signer, ctl, cma, cmaCache, addon, owed, outage>>

KnownOwned(c) ==
    IF c \in Lagging THEN addonCache[c] = "owned" ELSE addon[c] # "none"

DeleteCMA ==
    /\ cma = "live" /\ cma' = "deleting"
    /\ owed' = {c \in Clusters : KnownOwned(c)}
    /\ UNCHANGED <<set, setCache, ns, signer, ctl, addon, cmaCache, addonCache, outage>>

ObserveCMA ==
    /\ cmaCache # cma /\ cmaCache' = cma
    /\ UNCHANGED <<set, setCache, ns, signer, ctl, cma, addon, addonCache, owed, outage>>

(* Kubernetes empties a namespace before it goes.                          *)
Terminate(s) ==
    /\ ns[s].st = "terminating"
    /\ \/ \E x \in ns[s].has : ns' = [ns EXCEPT ![s].has = @ \ {x}]
       \/ ns[s].has = {} /\ ns' = [ns EXCEPT ![s] = NoNs]
    /\ UNCHANGED <<set, setCache, signer, ctl, hub>>

ObserveSet(s) ==
    /\ "set" \in Lagging /\ setCache[s] # set[s]
    /\ setCache' = [setCache EXCEPT ![s] = set[s]]
    /\ UNCHANGED <<set, ns, signer, ctl, hub>>

OutageEnds ==
    /\ outage /\ outage' = FALSE
    /\ UNCHANGED <<set, setCache, ns, signer, ctl, cma, addon, views>>

-----------------------------------------------------------------------------
Work ==
    \/ \E s \in Sets :
          \/ ApplyNamespace(s) \/ ApplyRole(s) \/ CreateIPSecPSKSecret(s)
          \/ SetupCertificateManagement(s)
          \/ DeleteNamespace(s) \/ DeleteRole(s) \/ Release(s) \/ Visit(s)
    \/ \E c \in Clusters : DeleteOwnedAddon(c)
    \/ ReleaseAll

SyncSet(s) == Claim(s) \/ Deploy(s) \/ CleanUp(s)
SyncAll    == DeleteAddons \/ DeleteAllBrokers

Users ==
    \/ \E s \in Sets : CreateSet(s) \/ DeleteSet(s) \/ RemoveAnnotation(s)
    \/ \E c \in Clusters : CreateAddon(c) \/ DeleteAddon(c)
    \/ DeleteCMA

Cluster ==
    \/ \E s \in Sets : Terminate(s) \/ ObserveSet(s)
    \/ \E c \in Clusters : AddonGone(c) \/ ObserveOwner(c) \/ ObserveEnd(c)
    \/ ObserveCMA \/ OutageEnds

Next == Work \/ (\E s \in Sets : SyncSet(s)) \/ SyncAll \/ Restart \/ Users \/ Cluster

Spec == Init /\ [][Next]_vars

(* The worker takes its keys off a queue in order, and the informers put    *)
(* each of them back every ten minutes (hub/manager.go).                   *)
Fairness ==
    /\ WF_vars(Work) /\ SF_vars(SyncAll)
    /\ \A s \in Sets : SF_vars(SyncSet(s)) /\ WF_vars(Terminate(s))
                       /\ WF_vars(ObserveSet(s))
    /\ \A c \in Clusters : WF_vars(AddonGone(c)) /\ WF_vars(ObserveEnd(c))
    /\ WF_vars(ObserveCMA) /\ WF_vars(OutageEnds)

FairSpec == Spec /\ Fairness

-----------------------------------------------------------------------------
(* Properties                                                              *)

TypeOK ==
    /\ cma \in {"live", "deleting", "gone"} /\ cmaCache \in {"live", "deleting", "gone"}
    /\ addonCache \in [Clusters -> {"no", "owned", "former"}] /\ owed \subseteq Clusters
    /\ addon \in [Clusters -> {"none", "live", "deleting"}]
    /\ set \in [Sets -> SetState] /\ setCache \in [Sets -> SetState]
    /\ ns \in [Sets -> NsState]
    /\ signer \subseteq Sets
    /\ ctl \in Control
    /\ outage \in BOOLEAN

(* A broker, or a certificate signer for one, exists only while its set    *)
(* carries the finalizer: a set that is deleted, by itself or with the     *)
(* whole add-on, is not let go before its broker was deleted               *)
(* (controller.go:187-211 before 214-223, and 260-269).                    *)
BrokerHasKeeper ==
    \A s \in Sets : ns[s].st = "active" \/ s \in signer => set[s].fins > 0

(* The same as a protocol: claim, bring up, take down, let go.             *)
Life == INSTANCE BrokerLife
            WITH claimed <- {s \in Sets : set[s].fins > 0},
                 up <- {s \in Sets : ns[s].st = "active" \/ s \in signer}
BrokerLifeSpec == Life!LifeSpec

(* Uninstalling the whole add-on deletes no broker while an add-on that the *)
(* informer had as owned when the uninstall was asked for is still there,  *)
(* however long the agents take to go and whatever the caches show late.   *)
(* An add-on that is adopted, or seen to be, only later is not waited for  *)
(* (controller.go:131, 275-297).                                           *)
AddonsGoFirst ==
    [][(ctl.of = "all" /\ \E s \in Sets : ns[s].st = "active" /\ ns'[s].st # "active")
       => owed = {}]_vars

(* A set that is deleted while Submariner is installed goes, whatever call *)
(* of its clean-up fails first (controller.go:179-183, 252-270).           *)
SetsDeletable ==
    \A s \in Sets :
       (set[s].st = "deleting" /\ set[s].ann # "" /\ cma = "live")
          ~> (set[s].st # "deleting" \/ cma # "live")

(* A set gets a complete broker in the end, also after one of the same     *)
(* name that Kubernetes was still emptying (controller.go:185-223).        *)
Complete(s) == ns[s] = [st |-> "active", has |-> {"role", "psk"}] /\ s \in signer
BrokerRises ==
    \A s \in Exclusive :
       (set[s].st = "live" /\ cma = "live")
          ~> (Complete(s) \/ set[s].st # "live" \/ cma # "live")

(* Deleting the ClusterManagementAddOn comes to an end (controller.go:272).*)
UninstallCompletes == cma = "deleting" ~> cma = "gone"

=============================================================================
