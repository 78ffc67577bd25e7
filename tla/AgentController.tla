--------------------------- MODULE AgentController ---------------------------
(***************************************************************************)
(* The hub's submarinerAgentController (pkg/hub/submarineragent): one      *)
(* worker that, for each managed cluster, installs Submariner by two       *)
(* ManifestWorks (operator, then Submariner CR) and a broker credential,   *)
(* and uninstalls it in the opposite order behind a finalizer on the       *)
(* ManagedClusterAddOn.                                                    *)
(*                                                                         *)
(* A sync is not atomic: every call to the API server is a step of its     *)
(* own, and users, the klusterlet, the spoke's Submariner and the hub's    *)
(* broker controller act between two of them. Reads of an informer cache   *)
(* are in-memory; runs of such reads between two API calls are one step.   *)
(*                                                                         *)
(* Broker namespaces are named by their cluster set. Manifest contents,    *)
(* SubmarinerConfig, backup labels, events and logs are abstracted away.   *)
(***************************************************************************)
EXTENDS Naturals

CONSTANTS
    Clusters,   \* managed clusters (the queue keys)
    Sets,       \* names of ManagedClusterSets, and of their broker namespaces
    NoSet,      \* a ManagedCluster without the cluster set label
    NoCluster,  \* no ManagedCluster object (also: no key)
    Labels,     \* what the users of this instance may do to a ManagedCluster
    Lagging,    \* informer caches that may trail the API server
    Events      \* optional environment events of this instance

ASSUME ConstAssumption ==
    /\ NoSet \notin Sets /\ NoCluster \notin Sets /\ NoSet # NoCluster
    /\ NoCluster \notin Clusters
    /\ Labels \subseteq Sets \cup {NoSet, NoCluster}
    /\ Lagging \subseteq {"addon", "cluster", "work"}
    /\ Events \subseteq 
          {"apiError", "recovery", "timeout", "setDeletion"}

VARIABLES
    \* objects in the hub's API server
    addon,        \* ManagedClusterAddOn of each cluster
    cond,         \* its SubmarinerBrokerConfigApplied condition
    label,        \* ManagedCluster and its cluster set label
    clusterSets,  \* ManagedClusterSets that exist
    brokerNs,     \* broker namespaces (with role and PSK) that exist
    broker,       \* broker namespaces that hold the Broker object
    globalnet,    \* broker namespaces that hold the globalnet ConfigMap
    opWork,       \* ManifestWork submariner-operator
    crWork,       \* ManifestWork submariner-resource, and the set it points to
    sa, rb,       \* broker namespaces with its ServiceAccount, RoleBinding
    secret, token,\* ... with its token Secret, with the token filled in
    resources,    \* ... with the cluster's Endpoints, Clusters, ServiceImports
    \* informer caches
    addonCache, labelCache, workCache,
    \* the worker: where it is in a sync, and that sync's local variables
    ctl,
    outage        \* API calls may fail, and the process may restart

objects == <<addon, cond, label, clusterSets, brokerNs, broker, globalnet>>
works   == <<opWork, crWork>>
creds   == <<sa, rb, secret, token>>
caches  == <<addonCache, labelCache, workCache, outage>>
vars    == <<objects, works, creds, resources, caches, ctl>>

-----------------------------------------------------------------------------
NoAddon == [st |-> "absent", fin |-> FALSE]
NoWork  == [st |-> "none", set |-> NoSet]
Idle    == [pc |-> "idle", key |-> NoCluster, set |-> NoSet, ns |-> NoSet,
            failed |-> FALSE, gaveUp |-> FALSE]

AddonState == [st : {"absent", "live", "deleting"}, fin : BOOLEAN]
WorkState  == {"none", "live", "deleting", "overdue"}
CrWork     == [st : WorkState, set : Sets \cup {NoSet}]
Label      == Sets \cup {NoSet, NoCluster}

DeploySteps  == {"applySA", "applyRB", "globalnet", "status", "brokerInfo",
                 "applyOp", "applyCR"}
CleanUpSteps == {"deleteCR", "deleteOp", "deleteResources", "listSA",
                 "deleteSecret", "deleteSA", "deleteRB", "checkGlobal",
                 "deleteGlobalnet", "deleteBroker", "removeFinalizer"}
Control == [pc : {"idle", "addFinalizer"} \cup DeploySteps \cup CleanUpSteps,
            key : Clusters \cup {NoCluster}, set : Sets \cup {NoSet},
            ns : Sets \cup {NoSet}, failed : BOOLEAN, gaveUp : BOOLEAN]

Init ==
    /\ addon = [c \in Clusters |-> NoAddon]
    /\ cond = [c \in Clusters |-> "none"]
    /\ label \in [Clusters -> Labels]
    /\ clusterSets = Sets /\ brokerNs = Sets
    /\ broker = {} /\ globalnet = {}
    /\ opWork = [c \in Clusters |-> "none"]
    /\ crWork = [c \in Clusters |-> NoWork]
    /\ sa = [c \in Clusters |-> {}] /\ rb = sa /\ secret = sa /\ token = sa
    /\ resources = sa
    /\ addonCache = addon /\ labelCache = [c \in Clusters |-> NoCluster]
    /\ workCache = [c \in Clusters |-> "none"]
    /\ ctl = Idle
    /\ outage = ("apiError" \in Events)

(* What the listers return: a cache outside Lagging is always up to date. *)
AddonLister(c) == IF "addon" \in Lagging THEN addonCache[c] ELSE addon[c]
LabelLister(c) == IF "cluster" \in Lagging THEN labelCache[c] ELSE label[c]
CrWorkLister(c) ==
    IF "work" \in Lagging
    THEN IF workCache[c] = "deleting" /\ crWork[c].st = "overdue"
         THEN "overdue" ELSE workCache[c]  \* elapsed time is read off the clock
    ELSE crWork[c].st

At(step)   == ctl.pc = step
Goto(step) == ctl' = [ctl EXCEPT !.pc = step]
Return     == ctl' = Idle

-----------------------------------------------------------------------------
(* Some definitions below come after a variant that no operator uses: the   *)
(* same code with one fault in it (OperatorAtOnce, NeverGivesUp,           *)
(* FirstStatusOnly, KeepResources, KeepSecret, KeepOperator,               *)
(* DeleteErrorLost, AnyDeletedOfSet, FinalizerOnly). README.md says which  *)
(* property each of these faults breaks.                                   *)
(*                                                                         *)
(* sync and syncManagedCluster, up to the first API call. A key with no    *)
(* add-on, or with a live add-on and no ManagedCluster, is a no-op.        *)

CleanUpWanted(c) ==
    \/ AddonLister(c).st = "deleting"
    \/ /\ AddonLister(c).st = "live"
       /\ LabelLister(c) \in {NoSet} \cup (Sets \ clusterSets)

(* The set whose broker is cleaned: none unless the add-on is deleting.    *)
CleanUpSet(c) ==
    IF AddonLister(c).st = "deleting" /\ LabelLister(c) \in Sets
    THEN LabelLister(c) ELSE NoSet

DeployWanted(c) ==
    /\ AddonLister(c).st = "live"
    /\ LabelLister(c) \in clusterSets

(* What to do first, by the state of the Submariner CR's ManifestWork.      *)
OperatorAtOnce ==
    [none |-> "deleteOp", live |-> "deleteOp", overdue |-> "deleteResources"]

CleanUpStart ==
    [none |-> "deleteOp", live |-> "deleteCR", overdue |-> "deleteResources"]

NeverGivesUp(c) ==
    /\ At("idle") /\ CleanUpWanted(c)
    /\ CrWorkLister(c) \notin {"deleting", "overdue"}
    /\ ctl' = [Idle EXCEPT !.pc = CleanUpStart[CrWorkLister(c)], !.key = c,
                           !.set = CleanUpSet(c)]
    /\ UNCHANGED <<objects, works, creds, resources, caches>>

SyncCleanUp(c) ==
    /\ At("idle") /\ CleanUpWanted(c)
    /\ CrWorkLister(c) # "deleting"  \* still deleting: re-queued
    /\ ctl' = [Idle EXCEPT !.pc = CleanUpStart[CrWorkLister(c)], !.key = c,
                           !.set = CleanUpSet(c),
                           !.gaveUp = CrWorkLister(c) = "overdue"]
    /\ UNCHANGED <<objects, works, creds, resources, caches>>

SyncDeploy(c) ==
    /\ At("idle") /\ DeployWanted(c)
    /\ ctl' = [Idle EXCEPT !.key = c, !.set = LabelLister(c),
                           !.pc = IF AddonLister(c).fin
                                  THEN "applySA" ELSE "addFinalizer"]
    /\ UNCHANGED <<objects, works, creds, resources, caches>>

(* finalizer.Add re-reads the add-on: a missing one is ignored, a deleting *)
(* one may not get new finalizers. It ends the sync in any case.           *)
AddFinalizer ==
    /\ At("addFinalizer")
    /\ addon' = IF addon[ctl.key].st = "live"
                THEN [addon EXCEPT ![ctl.key] = [st |-> "live", fin |-> TRUE]]
                ELSE addon
    /\ Return
    /\ UNCHANGED <<cond, label, clusterSets, brokerNs, broker, globalnet,
                   works, creds, resources, caches>>

-----------------------------------------------------------------------------
(* deploySubmarinerAgent                                                   *)

(* ApplyManifests goes on after a manifest that failed, then reports it.   *)
ApplySA ==
    /\ At("applySA") /\ ctl.set \in brokerNs
    /\ sa' = [sa EXCEPT ![ctl.key] = @ \cup {ctl.set}]
    /\ Goto("applyRB")
    /\ UNCHANGED <<objects, works, rb, secret, token, resources, caches>>

ApplySAFails ==
    /\ At("applySA")
    /\ ctl.set \notin brokerNs \/ outage
    /\ ctl' = [ctl EXCEPT !.pc = "applyRB", !.failed = TRUE]
    /\ UNCHANGED <<objects, works, creds, resources, caches>>

ApplyRB ==
    /\ At("applyRB") /\ ctl.set \in brokerNs
    /\ rb' = [rb EXCEPT ![ctl.key] = @ \cup {ctl.set}]
    /\ IF ctl.failed THEN Return ELSE Goto("globalnet")
    /\ UNCHANGED <<objects, works, sa, secret, token, resources, caches>>

ApplyRBFails ==  \* with the error of ApplyManifests, as every Fails below
    /\ At("applyRB") /\ ctl.set \notin brokerNs
    /\ Return
    /\ UNCHANGED <<objects, works, creds, resources, caches>>

(* createGNConfigMapIfNecessary, then addBackupLabel on the Broker.        *)
EnsureGlobalnet ==
    /\ At("globalnet") /\ ctl.set \in globalnet \cup broker
    /\ globalnet' = globalnet \cup {ctl.set}
    /\ Goto("status")
    /\ UNCHANGED <<addon, cond, label, clusterSets, brokerNs, broker,
                   works, creds, resources, caches>>

BrokerMissing ==
    /\ At("globalnet") /\ ctl.set \notin globalnet \cup broker
    /\ cond' = IF addon[ctl.key].st = "absent" THEN cond
               ELSE [cond EXCEPT ![ctl.key] = "missing"]
    /\ Return
    /\ UNCHANGED <<addon, label, clusterSets, brokerNs, broker, globalnet,
                   works, creds, resources, caches>>

FirstStatusOnly ==
    /\ At("status")
    /\ cond' = IF cond[ctl.key] # "none" THEN cond
               ELSE [cond EXCEPT ![ctl.key] = "applied"]
    /\ Goto("brokerInfo")
    /\ UNCHANGED <<addon, label, clusterSets, brokerNs, broker, globalnet,
                   works, creds, resources, caches>>

BrokerApplied ==
    /\ At("status")
    /\ cond' = IF addon[ctl.key].st = "absent" THEN cond
               ELSE [cond EXCEPT ![ctl.key] = "applied"]
    /\ Goto("brokerInfo")
    /\ UNCHANGED <<addon, label, clusterSets, brokerNs, broker, globalnet,
                   works, creds, resources, caches>>

StatusUpdateFails ==  \* logged and otherwise ignored
    /\ At("status") /\ outage
    /\ Goto("brokerInfo")
    /\ UNCHANGED <<objects, works, creds, resources, caches>>

(* brokerinfo.Get: all it needs is there, or it has to create the token    *)
(* Secret (which is then without data), or it fails.                       *)
HasInfo == ctl.set \in globalnet \cap brokerNs \cap sa[ctl.key]

GetBrokerInfo ==
    /\ At("brokerInfo") /\ HasInfo /\ ctl.set \in token[ctl.key]
    /\ Goto("applyOp")
    /\ UNCHANGED <<objects, works, creds, resources, caches>>

CreateTokenSecret ==
    /\ At("brokerInfo") /\ HasInfo /\ ctl.set \notin secret[ctl.key]
    /\ secret' = [secret EXCEPT ![ctl.key] = @ \cup {ctl.set}]
    /\ Return
    /\ UNCHANGED <<objects, works, sa, rb, token, resources, caches>>

GetBrokerInfoFails ==
    /\ At("brokerInfo")
    /\ ~HasInfo \/ ctl.set \in secret[ctl.key] \ token[ctl.key]
    /\ Return
    /\ UNCHANGED <<objects, works, creds, resources, caches>>

(* manifestwork.Apply creates the work, or updates the spec of the one     *)
(* that exists even if that one is being deleted.                          *)
Applied(st) == IF st = "none" THEN "live" ELSE st

ApplyOpWork ==
    /\ At("applyOp")
    /\ opWork' = [opWork EXCEPT ![ctl.key] = Applied(@)]
    /\ Goto("applyCR")
    /\ UNCHANGED <<objects, crWork, creds, resources, caches>>

ApplyCrWork ==
    /\ At("applyCR")
    /\ crWork' = [crWork EXCEPT ![ctl.key] =
                     [st |-> Applied(@.st), set |-> ctl.set]]
    /\ Return
    /\ UNCHANGED <<objects, opWork, creds, resources, caches>>

-----------------------------------------------------------------------------
(* cleanUpSubmarinerAgent                                                  *)

(* A work the klusterlet has put its finalizer on stays until that is off. *)
DeleteCrWork ==
    /\ At("deleteCR")
    /\ \E w \in {NoWork, [st |-> "deleting", set |-> crWork[ctl.key].set]} :
          crWork' = IF crWork[ctl.key].st = "live"
                    THEN [crWork EXCEPT ![ctl.key] = w] ELSE crWork
    /\ Return
    /\ UNCHANGED <<objects, opWork, creds, resources, caches>>

KeepOperator ==
    /\ At("deleteOp") /\ Goto("deleteResources")
    /\ UNCHANGED <<objects, opWork, crWork, creds, resources, caches>>

DeleteOpWork ==
    /\ At("deleteOp")
    /\ \E st \in {"deleting", "none"} :
          opWork' = IF opWork[ctl.key] # "live" THEN opWork
                    ELSE [opWork EXCEPT ![ctl.key] = st]
    /\ Goto("deleteResources")
    /\ UNCHANGED <<objects, crWork, creds, resources, caches>>

KeepResources ==
    /\ At("deleteResources")
    /\ Goto("listSA")
    /\ UNCHANGED <<objects, works, creds, resources, caches>>

DeleteResources ==
    /\ At("deleteResources")
    /\ resources' = [resources EXCEPT ![ctl.key] = @ \ {ctl.set}]
    /\ Goto("listSA")
    /\ UNCHANGED <<objects, works, creds, caches>>

(* removeClusterRBACFiles: by label, in all namespaces. Two ServiceAccounts *)
(* are an error, none means there is nothing to remove.                    *)
ListNoSA ==
    /\ At("listSA") /\ sa[ctl.key] = {}
    /\ Goto("checkGlobal")
    /\ UNCHANGED <<objects, works, creds, resources, caches>>

ListOneSA ==
    /\ At("listSA")
    /\ \E s \in Sets : /\ sa[ctl.key] = {s}
                       /\ ctl' = [ctl EXCEPT !.pc = "deleteSecret", !.ns = s]
    /\ UNCHANGED <<objects, works, creds, resources, caches>>

ListManySAs ==
    /\ At("listSA")
    /\ \E s, t \in sa[ctl.key] : s # t
    /\ Return
    /\ UNCHANGED <<objects, works, creds, resources, caches>>

KeepSecret ==
    /\ At("deleteSecret")
    /\ Goto("deleteSA")
    /\ UNCHANGED <<objects, works, creds, resources, caches>>

DeleteSecret ==
    /\ At("deleteSecret")
    /\ secret' = [secret EXCEPT ![ctl.key] = @ \ {ctl.ns}]
    /\ token' = [token EXCEPT ![ctl.key] = @ \ {ctl.ns}]
    /\ Goto("deleteSA")
    /\ UNCHANGED <<objects, works, sa, rb, resources, caches>>

(* DeleteFromManifests also goes on after an error and then reports it.    *)
DeleteSA ==
    /\ At("deleteSA")
    /\ sa' = [sa EXCEPT ![ctl.key] = @ \ {ctl.ns}]
    /\ Goto("deleteRB")
    /\ UNCHANGED <<objects, works, rb, secret, token, resources, caches>>

DeleteSAFails ==
    /\ At("deleteSA") /\ outage
    /\ ctl' = [ctl EXCEPT !.pc = "deleteRB", !.failed = TRUE]
    /\ UNCHANGED <<objects, works, creds, resources, caches>>

DeleteErrorLost ==
    /\ At("deleteRB")
    /\ rb' = [rb EXCEPT ![ctl.key] = @ \ {ctl.ns}]
    /\ Goto("checkGlobal")
    /\ UNCHANGED <<objects, works, sa, secret, token, resources, caches>>

DeleteRB ==
    /\ At("deleteRB")
    /\ rb' = [rb EXCEPT ![ctl.key] = @ \ {ctl.ns}]
    /\ IF ctl.failed THEN Return ELSE Goto("checkGlobal")
    /\ UNCHANGED <<objects, works, sa, secret, token, resources, caches>>

(* deleteGlobalBrokerResourcesIfNecessary: keep them if any add-on of the  *)
(* set, as the listers have it, is not being deleted.                      *)
Members(s) == {c \in Clusters : LabelLister(c) = s}

AnyDeletedOfSet(s) == \E c \in Members(s) : AddonLister(c).st # "live"

LastOfSet(s) == \A c \in Members(s) : AddonLister(c).st # "live"

CheckGlobal ==
    /\ At("checkGlobal")
    /\ IF ctl.set \in Sets /\ LastOfSet(ctl.set)
       THEN Goto("deleteGlobalnet") ELSE Goto("removeFinalizer")
    /\ UNCHANGED <<objects, works, creds, resources, caches>>

DeleteGlobalnet ==
    /\ At("deleteGlobalnet")
    /\ globalnet' = globalnet \ {ctl.set}
    /\ Goto("deleteBroker")
    /\ UNCHANGED <<addon, cond, label, clusterSets, brokerNs, broker,
                   works, creds, resources, caches>>

DeleteBroker ==
    /\ At("deleteBroker")
    /\ broker' = broker \ {ctl.set}
    /\ Goto("removeFinalizer")
    /\ UNCHANGED <<addon, cond, label, clusterSets, brokerNs, globalnet,
                   works, creds, resources, caches>>

(* finalizer.Remove leaves alone an add-on that, in the cache, has none.   *)
FinalizerOnly(a) == [st |-> a.st, fin |-> FALSE]

WithoutFinalizer(a) ==
    IF a.st = "deleting" THEN NoAddon ELSE [st |-> a.st, fin |-> FALSE]

RemoveFinalizer ==
    /\ At("removeFinalizer")
    /\ IF AddonLister(ctl.key).fin
       THEN /\ addon' = [addon EXCEPT ![ctl.key] = WithoutFinalizer(@)]
            /\ cond' = IF addon'[ctl.key].st = "absent"
                       THEN [cond EXCEPT ![ctl.key] = "none"] ELSE cond
       ELSE UNCHANGED <<addon, cond>>
    /\ Return
    /\ UNCHANGED <<label, clusterSets, brokerNs, broker, globalnet,
                   works, creds, resources, caches>>

(* Any API call of a sync may fail, and the process may restart: either    *)
(* way the sync ends here and the key is processed again later.            *)
Abort ==
    /\ outage /\ ~At("idle")
    /\ Return
    /\ UNCHANGED <<objects, works, creds, resources, caches>>

-----------------------------------------------------------------------------
(* The environment                                                         *)

CreateAddon(c) ==
    /\ addon[c].st = "absent"
    /\ addon' = [addon EXCEPT ![c] = [st |-> "live", fin |-> FALSE]]
    /\ UNCHANGED <<cond, label, clusterSets, brokerNs, broker, globalnet,
                   works, creds, resources, caches, ctl>>

DeleteAddon(c) ==
    /\ addon[c].st = "live"
    /\ addon' = [addon EXCEPT ![c] = 
                   IF @.fin THEN [st |-> "deleting", fin |-> TRUE] ELSE NoAddon]
    /\ cond' = IF addon[c].fin THEN cond ELSE [cond EXCEPT ![c] = "none"]
    /\ UNCHANGED <<label, clusterSets, brokerNs, broker, globalnet,
                   works, creds, resources, caches, ctl>>

(* Users label the ManagedCluster, or remove it.                           *)
SetLabel(c) ==
    /\ \E l \in Labels \ {label[c]} : label' = [label EXCEPT ![c] = l]
    /\ UNCHANGED <<addon, cond, clusterSets, brokerNs, broker, globalnet,
                   works, creds, resources, caches, ctl>>

CreateBroker(s) ==
    /\ s \in brokerNs \ broker
    /\ broker' = broker \cup {s}
    /\ UNCHANGED <<addon, cond, label, clusterSets, brokerNs, globalnet,
                   works, creds, resources, caches, ctl>>

DeleteSet(s) ==
    /\ "setDeletion" \in Events /\ s \in clusterSets
    /\ clusterSets' = clusterSets \ {s}
    /\ UNCHANGED <<addon, cond, label, brokerNs, broker, globalnet,
                   works, creds, resources, caches, ctl>>

CreateSet(s) ==
    /\ s \in Sets \ (clusterSets \cup brokerNs)
    /\ clusterSets' = clusterSets \cup {s}
    /\ UNCHANGED <<addon, cond, label, brokerNs, broker, globalnet,
                   works, creds, resources, caches, ctl>>

(* The hub's broker controller follows the cluster sets. The namespace of a *)
(* set that is deleted goes before the set does, or, since a namespace     *)
(* takes time to terminate, after it; with the ClusterManagementAddOn, it  *)
(* goes although the set stays.                                            *)
CreateBrokerNs(s) ==
    /\ s \in clusterSets \ brokerNs
    /\ brokerNs' = brokerNs \cup {s}
    /\ UNCHANGED <<addon, cond, label, clusterSets, broker, globalnet,
                   works, creds, resources, caches, ctl>>

DeleteBrokerNs(s) ==
    /\ s \in brokerNs
    /\ "setDeletion" \in Events \/ s \notin clusterSets
    /\ brokerNs' = brokerNs \ {s}
    /\ broker' = broker \ {s} /\ globalnet' = globalnet \ {s}
    /\ sa' = [c \in Clusters |-> sa[c] \ {s}]
    /\ rb' = [c \in Clusters |-> rb[c] \ {s}]
    /\ secret' = [c \in Clusters |-> secret[c] \ {s}]
    /\ token' = [c \in Clusters |-> token[c] \ {s}]
    /\ resources' = [c \in Clusters |-> resources[c] \ {s}]
    /\ UNCHANGED <<addon, cond, label, clusterSets, works, caches, ctl>>

(* Kubernetes fills in a service account token.                            *)
FillToken(c) ==
    /\ \E s \in (secret[c] \cap sa[c]) \ token[c] :
          token' = [token EXCEPT ![c] = @ \cup {s}]
    /\ UNCHANGED <<objects, works, sa, rb, secret, resources, caches, ctl>>

(* The klusterlet has removed what a deleted work had installed.           *)
OpWorkGone(c) ==
    /\ opWork[c] = "deleting"
    /\ opWork' = [opWork EXCEPT ![c] = "none"]
    /\ UNCHANGED <<objects, crWork, creds, resources, caches, ctl>>

CrWorkGone(c) ==
    /\ crWork[c].st \in {"deleting", "overdue"}
    /\ crWork' = [crWork EXCEPT ![c] = NoWork]
    /\ UNCHANGED <<objects, opWork, creds, resources, caches, ctl>>

(* ManifestWorkDeletionTimeout passes.                                     *)
CrWorkOverdue(c) ==
    /\ "timeout" \in Events /\ crWork[c].st = "deleting"
    /\ crWork' = [crWork EXCEPT ![c] = [st |-> "overdue", set |-> @.set]]
    /\ UNCHANGED <<objects, opWork, creds, resources, caches, ctl>>

(* Submariner on the cluster exports to the broker its CR names while its  *)
(* credential there is good.                                               *)
Export(c) ==
    /\ crWork[c].st # "none"
    /\ crWork[c].set \in (sa[c] \cap rb[c] \cap token[c]) \ resources[c]
    /\ resources' = [resources EXCEPT ![c] = @ \cup {crWork[c].set}]
    /\ UNCHANGED <<objects, works, creds, caches, ctl>>

ObserveAddon(c) ==
    /\ "addon" \in Lagging /\ addonCache[c] # addon[c]
    /\ addonCache' = [addonCache EXCEPT ![c] = addon[c]]
    /\ UNCHANGED <<objects, works, creds, resources, labelCache, workCache,
                   outage, ctl>>

ObserveCluster(c) ==
    /\ "cluster" \in Lagging /\ labelCache[c] # label[c]
    /\ labelCache' = [labelCache EXCEPT ![c] = label[c]]
    /\ UNCHANGED <<objects, works, creds, resources, addonCache, workCache,
                   outage, ctl>>

Observed(st) == IF st = "overdue" THEN "deleting" ELSE st

ObserveWork(c) ==
    /\ "work" \in Lagging /\ workCache[c] # Observed(crWork[c].st)
    /\ workCache' = [workCache EXCEPT ![c] = Observed(crWork[c].st)]
    /\ UNCHANGED <<objects, works, creds, resources, addonCache, labelCache,
                   outage, ctl>>

OutageEnds ==
    /\ "recovery" \in Events /\ outage /\ outage' = FALSE
    /\ UNCHANGED <<objects, works, creds, resources, addonCache, labelCache,
                   workCache, ctl>>

-----------------------------------------------------------------------------
Sync(c) == SyncCleanUp(c) \/ SyncDeploy(c)

Deploy ==
    \/ AddFinalizer
    \/ ApplySA \/ ApplySAFails \/ ApplyRB \/ ApplyRBFails
    \/ EnsureGlobalnet \/ BrokerMissing \/ BrokerApplied \/ StatusUpdateFails
    \/ GetBrokerInfo \/ CreateTokenSecret \/ GetBrokerInfoFails
    \/ ApplyOpWork \/ ApplyCrWork

CleanUp ==
    \/ DeleteCrWork \/ DeleteOpWork \/ DeleteResources
    \/ ListNoSA \/ ListOneSA \/ ListManySAs
    \/ DeleteSecret \/ DeleteSA \/ DeleteSAFails \/ DeleteRB
    \/ CheckGlobal \/ DeleteGlobalnet \/ DeleteBroker \/ RemoveFinalizer

User ==
    \/ \E c \in Clusters : CreateAddon(c) \/ DeleteAddon(c) \/ SetLabel(c)
    \/ \E s \in Sets : CreateBroker(s) \/ DeleteSet(s) \/ CreateSet(s)

Platform ==
    \/ \E s \in Sets : CreateBrokerNs(s) \/ DeleteBrokerNs(s)
    \/ \E c \in Clusters :
          \/ FillToken(c) \/ OpWorkGone(c) \/ CrWorkGone(c) \/ CrWorkOverdue(c)
          \/ Export(c)
          \/ ObserveAddon(c) \/ ObserveCluster(c) \/ ObserveWork(c)
    \/ OutageEnds

Next == \/ \E c \in Clusters : Sync(c)
        \/ Deploy \/ CleanUp \/ Abort \/ User \/ Platform

Spec == Init /\ [][Next]_vars

(* Every key is processed again and again: its errors are re-queued and    *)
(* the informers re-send every object each ten minutes. The worker does    *)
(* not stop in the middle of a sync. API outages end; Kubernetes, the      *)
(* klusterlet, the clock and the watches make progress. A deleted CR work  *)
(* need not go away, and users need not do anything.                       *)
Fairness ==
    /\ \A c \in Clusters :
          /\ SF_vars(Sync(c))
          /\ WF_vars(FillToken(c)) /\ WF_vars(OpWorkGone(c))
          /\ WF_vars(CrWorkOverdue(c))
          /\ WF_vars(ObserveAddon(c)) /\ WF_vars(ObserveCluster(c))
          /\ WF_vars(ObserveWork(c))
    /\ \A s \in Sets :
          /\ WF_vars(CreateBrokerNs(s))
          /\ WF_vars(s \notin clusterSets /\ DeleteBrokerNs(s))
    /\ WF_vars(Deploy \/ CleanUp)
    /\ WF_vars(OutageEnds)

FairSpec == Spec /\ Fairness

-----------------------------------------------------------------------------
(* Properties                                                              *)

(* Types of the state; an add-on that is being deleted is kept by our      *)
(* finalizer, one that is gone has none (finalizer.Add / finalizer.Remove).*)
DataOK ==
    /\ addon \in [Clusters -> AddonState]
    /\ \A c \in Clusters : /\ addon[c].st = "deleting" => addon[c].fin
                           /\ addon[c].st = "absent" => ~addon[c].fin
    /\ cond \in [Clusters -> {"none", "missing", "applied"}]
    /\ label \in [Clusters -> Label]
    /\ clusterSets \subseteq Sets /\ brokerNs \subseteq Sets
    /\ broker \subseteq brokerNs /\ globalnet \subseteq brokerNs
    /\ opWork \in [Clusters -> {"none", "live", "deleting"}]
    /\ crWork \in [Clusters -> CrWork]
    /\ sa \in [Clusters -> SUBSET Sets] /\ rb \in [Clusters -> SUBSET Sets]
    /\ secret \in [Clusters -> SUBSET Sets]
    /\ token \in [Clusters -> SUBSET Sets]
    /\ resources \in [Clusters -> SUBSET Sets]
    /\ addonCache \in [Clusters -> AddonState]
    /\ labelCache \in [Clusters -> Label]
    /\ workCache \in [Clusters -> {"none", "live", "deleting"}]
    /\ outage \in BOOLEAN

ControlOK == ctl \in Control /\ (At("idle") \/ ctl.key \in Clusters)

TypeOK == DataOK /\ ControlOK

(* syncManagedCluster, deploySubmarinerAgent, cleanUpSubmarinerAgent: the   *)
(* installation of each cluster is built in layers and taken down in the   *)
(* opposite order, as LayeredInstall specifies. A CR work that is overdue  *)
(* no longer counts: the controller has stopped waiting for it.            *)
Holds(c, l) ==
    \/ l = 1 /\ addon[c].fin
    \/ l = 2 /\ sa[c] # {}
    \/ l = 3 /\ crWork[c].st \in {"live", "deleting"}

Layers == [c \in Clusters |-> {l \in 1..3 : Holds(c, l)}]

Layered == INSTANCE LayeredInstall WITH held <- Layers

LayeredSpec == Layered!Spec

(* cleanUpSubmarinerAgent: the operator is taken away only when the        *)
(* Submariner CR, whose removal it performs, is gone from the cluster.     *)
OperatorOutlivesCR ==
    [][\A c \in Clusters :
          opWork[c] = "live" /\ opWork'[c] # "live" => crWork[c].st = "none"]_vars

(* cleanUpSubmarinerAgent: when the finalizer comes off, the cluster has   *)
(* no credential left in any broker namespace and no live CR work; unless  *)
(* the wait for the CR work was given up, neither work is left.            *)
CleanRemoval ==
    [][\A c \in Clusters : addon[c].fin /\ ~addon'[c].fin =>
          /\ sa[c] = {} /\ secret[c] = {}
          /\ crWork[c].st # "live"
          /\ ctl.gaveUp \/ (crWork[c].st = "none" /\ opWork[c] # "live")]_vars

(* A cluster whose installation in set s nobody has begun to take down.    *)
Installed(c, s) ==
    /\ addon[c].st = "live" /\ label[c] = s
    /\ crWork[c].st = "live" /\ crWork[c].set = s

KeepsBroker ==
    \A s \in Sets, c \in Clusters :
       Installed(c, s) /\ s \in brokerNs' =>
          /\ s \in broker => s \in broker'
          /\ s \in globalnet => s \in globalnet'

(* deleteGlobalBrokerResourcesIfNecessary: uninstalling one cluster never  *)
(* takes the Broker or the globalnet ConfigMap from under another cluster  *)
(* that is installed in the set and whose add-on nobody deleted. A cluster *)
(* that is relabelled into the set meanwhile is not installed in it yet.   *)
BrokerKept == [][KeepsBroker]_vars

(* cleanUpSubmarinerAgent: as long as the wait for the CR work is not given *)
(* up and the cluster keeps its set, nothing that it exported to the broker *)
(* of a set that exists, and no token of it, outlives its installation,    *)
(* whatever calls failed.                                                  *)
NoLeftovers ==
    \A c \in Clusters :
       (resources[c] \cup secret[c]) \cap clusterSets # {} => addon[c].fin

(* removeClusterRBACFiles: nor does its RoleBinding, which is found by the *)
(* ServiceAccount alone. ApplyManifests and DeleteFromManifests go on to   *)
(* the RoleBinding after an error, so that it may be there without one.    *)
NoOrphanRoleBinding ==
    \A c \in Clusters : rb[c] # {} => addon[c].fin

(* A deleted add-on eventually goes away, even when the klusterlet never   *)
(* finishes deleting the CR work.                                          *)
UninstallCompletes ==
    \A c \in Clusters : addon[c].st = "deleting" ~> addon[c].st = "absent"

(* If from some point on the add-on exists, its cluster is in a set that   *)
(* exists and the set has a Broker, both works get deployed, pointing to   *)
(* that set's broker, with a credential there, and the status says so.     *)
Wanted(c, s) == /\ addon[c].st = "live" /\ label[c] = s
                /\ s \in clusterSets /\ s \in broker

InstallConverges ==
    \A c \in Clusters, s \in Sets :
        <>[]Wanted(c, s) /\ []<>(crWork[c].st # "overdue") =>
            <>[](/\ opWork[c] = "live" /\ crWork[c] = [st |-> "live", set |-> s]
                 /\ s \in sa[c] \cap rb[c] \cap token[c]
                 /\ cond[c] = "applied")

(* deleteManifestWork: when the add-on is gone, so is the operator work, or *)
(* it is at least being deleted.                                           *)
NoOrphanOperator ==
    \A c \in Clusters : addon[c].st = "absent" => opWork[c] # "live"

-----------------------------------------------------------------------------
(* The inductive invariants behind LayeredSpec, OperatorOutlivesCR and      *)
(* CleanRemoval: what the worker knows at each step of a sync and no other *)
(* actor can make false before the sync is over.                           *)

AfterCredential ==
    {"checkGlobal", "deleteGlobalnet", "deleteBroker", "removeFinalizer"}

CredentialInv ==
    /\ \A c \in Clusters : secret[c] \subseteq sa[c]
    /\ At("deleteSecret") \/ At("deleteSA") => sa[ctl.key] \subseteq {ctl.ns}
    /\ At("deleteSA") => secret[ctl.key] = {}
    /\ At("deleteRB") => ctl.failed \/ sa[ctl.key] = {}
    /\ ctl.pc \in AfterCredential => sa[ctl.key] = {}

(* if the work cache is fresh *)
WorksInv ==
    /\ At("deleteOp") => ~ctl.gaveUp /\ crWork[ctl.key].st = "none"
    /\ ctl.pc \in CleanUpSteps \ {"deleteCR", "deleteOp"} =>
          \/ ctl.gaveUp /\ crWork[ctl.key].st \in {"overdue", "none"}
          \/ crWork[ctl.key].st = "none" /\ opWork[ctl.key] # "live"

(* if the add-on cache is fresh *)
FinalizerInv ==
    /\ \A c \in Clusters : sa[c] # {} => addon[c].fin
    /\ ctl.pc \in DeploySteps => addon[ctl.key].fin

(* if no cluster set is deleted *)
CrWorkInv ==
    /\ clusterSets = Sets /\ brokerNs = Sets
    /\ \A c \in Clusters : crWork[c].st \in {"live", "deleting"} => sa[c] # {}
    /\ \/ ctl.pc \in DeploySteps \ {"applySA", "applyRB"}
       \/ At("applyRB") /\ ~ctl.failed
       => sa[ctl.key] # {}

=============================================================================
