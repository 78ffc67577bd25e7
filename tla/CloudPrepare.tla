----------------------------- MODULE CloudPrepare -----------------------------
(***************************************************************************)
(* How the spoke's submarinerConfigController prepares the cloud of a      *)
(* managed cluster for Submariner, and cleans it up (pkg/cloud and         *)
(* pkg/spoke/submarineragent/config_controller.go): it deploys gateway     *)
(* machines, opens their ports to the public and the port of the cluster's *)
(* own traffic, if the cluster's network needs that, through the provider  *)
(* of the cluster's platform, and reports in the SubmarinerConfig.         *)
(*                                                                         *)
(* What the cluster is, the hub writes into the status of the              *)
(* SubmarinerConfig; its network type the spoke adds to the same record.   *)
(* The choice and the labelling of gateway nodes where there is no         *)
(* provider are one step here; GatewayConfig models them.                  *)
(***************************************************************************)
EXTENDS Naturals

CONSTANTS
    Sites,       \* the clusters: platform, vendor, cni and OCP version
    Claims,      \* the sets of claims that a cluster may have reported
    NattPorts,   \* IPsec NAT-T ports that a user may configure
    MaxGateways, \* bound: gateways that a user may ask for
    MaxChanges,  \* bound: how often users, nodes and the add-on's end interfere
    Outage       \* whether calls may fail and the process restart: {} or {"on"}

Platforms == {"AWS", "GCP", "Azure", "OpenStack", "other"}
Vendors   == {"OpenShift", "ROSA", "ARO", "ROKS", "other"}
Cnis      == {"OVNKubernetes", "OpenShiftSDN"}
AllClaims == {"vendor", "platform", "region", "infraID"}
Keys      == {"aws_access_key_id", "aws_secret_access_key", "osServiceAccount.json",
              "osServicePrincipal.json", "clouds.yaml", "cloud"}

ASSUME CloudAssumption ==
    /\ Sites \subseteq [platform : Platforms, vendor : Vendors, cni : Cnis,
                        ocp : {"4.10", "4.11"}]
    /\ Claims \subseteq SUBSET AllClaims /\ NattPorts # {}
    /\ MaxGateways \in Nat \ {0} /\ MaxChanges \in Nat
    /\ Outage \in {{}, {"on"}}

VARIABLES
    site,        \* the managed cluster; it never changes
    config,      \* the SubmarinerConfig's spec and skip annotation
    creds,       \* the keys in the Secret that the config names, {} without one
    info,        \* the claims in the ManagedClusterInfo of the config's status
    net,         \* its NetworkType in the hub's API server
    netSeen,     \* the same in the spoke's cached copy of the config
    cloud,       \* gateway machines and open ports in the cloud
    labelled,    \* how many worker nodes are labelled as gateways
    prepared,    \* the condition SubmarinerClusterEnvironmentPrepared
    gwCond,      \* the condition SubmarinerGatewaysLabeled
    lastKnown,   \* lastKnownConfig, in memory
    submariner,  \* whether the Submariner CR is present on the cluster
    crCache,     \* the CR informer's copy, "former" if of one that has gone
    known,       \* history: the informer had the CR when the add-on was deleted
    addon,       \* the ManagedClusterAddOn
    ctl,         \* where the worker is in a sync, and the sync's variables
    outage,      \* calls may fail, and the process may restart
    changes      \* how often users, nodes and the add-on's end have interfered

status == <<info, net, netSeen, prepared, gwCond>>
hub    == <<submariner, crCache, known, addon>>
users  == <<config, creds, hub, changes>>
vars   == <<site, users, status, cloud, labelled, lastKnown, ctl, outage>>

-----------------------------------------------------------------------------
SpecState == [gws : 0..MaxGateways, natt : NattPorts]
Config    == [st : {"live", "none"}, gws : 0..MaxGateways, natt : NattPorts,
              skip : {"no", "yes"}]
NoSpec    == [gws |-> 0, natt |-> ""]
SpecOf(c) == [gws |-> c.gws, natt |-> c.natt]

Cloud   == [gws : 0..MaxGateways, public : SUBSET NattPorts, internal : {"closed", "open"}]
NoCloud == [gws |-> 0, public |-> {}, internal |-> "closed"]

Steps   == {"idle", "network", "version", "get", "deploy", "open", "prepared",
            "gateways", "ensure", "get_cleanup", "cleanup", "close", "remove_all",
            "cleaned"}
(* cfg, info, net: the copy of the config that the sync works with; err:   *)
(* what the preparation, or the clean-up, will return.                     *)
Control == [pc : Steps, cfg : Config, info : SUBSET AllClaims, net : Cnis \cup {""},
            err : {"nil", "error"}]

FirstConfig == [st |-> "live", gws |-> 1, natt |-> CHOOSE p \in NattPorts : TRUE,
                skip |-> "no"]
Idle        == [pc |-> "idle", cfg |-> FirstConfig, info |-> {}, net |-> "", err |-> "nil"]

At(step)   == ctl.pc = step
Goto(step) == ctl' = [ctl EXCEPT !.pc = step]
Return     == ctl' = Idle
Begin(step) == ctl' = [pc |-> step, cfg |-> config, info |-> info, net |-> netSeen,
                       err |-> "nil"]
Failed(step) == ctl' = [ctl EXCEPT !.pc = step, !.err = "error"]

-----------------------------------------------------------------------------
(* The cloud providers: what each needs to be created. Its client takes    *)
(* the credentials from the Secret; it fails without its keys, and, when   *)
(* GetProvider may fail, also because they are not accepted.               *)

AwsClient(secret)   == {"aws_access_key_id", "aws_secret_access_key"} \subseteq secret
GcpClient(secret)   == "osServiceAccount.json" \in secret
AzureClient(secret) == "osServicePrincipal.json" \in secret
RhosClient(secret)  == {"clouds.yaml", "cloud"} \subseteq secret

GatewaysWanted == ctl.cfg.gws >= 1

AwsProvider ==
    {"region", "infraID"} \subseteq ctl.info /\ GatewaysWanted /\ AwsClient(creds)
GcpProvider   == "infraID" \in ctl.info /\ GatewaysWanted /\ GcpClient(creds)
AzureProvider == "infraID" \in ctl.info /\ GatewaysWanted /\ AzureClient(creds)
RhosProvider  == "infraID" \in ctl.info /\ GatewaysWanted /\ RhosClient(creds)

Created ==
    CASE site.platform = "AWS"       -> AwsProvider
      [] site.platform = "GCP"       -> GcpProvider
      [] site.platform = "Azure"     -> AzureProvider
      [] site.platform = "OpenStack" -> RhosProvider
      [] OTHER                       -> FALSE

(* Get: whether there is a provider for this cluster, none, or an error.   *)
VendorIn(claims) == IF "vendor" \in claims THEN site.vendor ELSE ""
Vendor           == VendorIn(ctl.info)

ProviderFound ==
    /\ ctl.cfg.skip = "no" /\ Vendor = "OpenShift"
    /\ site.platform # "other"
UnsupportedVendor ==
    ctl.cfg.skip = "no" /\ Vendor \notin {"OpenShift", "ROSA", "ARO", "ROKS"}

-----------------------------------------------------------------------------
(* A sync of a live add-on: sync, syncConfig.                              *)

NeedsGatewayReconciliation == config.gws >= 1 /\ labelled # config.gws
SkipSyncingUnchangedConfig == lastKnown = SpecOf(config)

(* Faulty: it looks at the gateways only.                                  *)
SyncIfUnlabelled ==
    /\ At("idle") /\ addon = "live" /\ config.st = "live" /\ "platform" \in info
    /\ NeedsGatewayReconciliation
    /\ Begin(IF VendorIn(info) = "OpenShift" THEN "network" ELSE "get")
    /\ UNCHANGED <<site, users, status, cloud, labelled, lastKnown, outage>>

SyncConfig ==
    /\ At("idle") /\ addon = "live" /\ config.st = "live" /\ "platform" \in info
    /\ NeedsGatewayReconciliation \/ ~SkipSyncingUnchangedConfig
    /\ Begin(IF VendorIn(info) = "OpenShift" THEN "network" ELSE "get")
    /\ UNCHANGED <<site, users, status, cloud, labelled, lastKnown, outage>>

(* A config that was deleted meanwhile has no status to update.            *)
Writes(field, value) == field' = IF config.st = "live" THEN value ELSE field

(* setNetworkTypeIfAbsent changes the cached object before it writes, so   *)
(* that after a failed write the next sync takes the type for present. It  *)
(* writes the whole ManagedClusterInfo, with the claims of its own copy.   *)
SetNetworkTypeIfAbsent ==
    /\ At("network")
    /\ \/ ctl.net # "" /\ Goto("version") /\ UNCHANGED <<info, net, netSeen>>
       \/ /\ ctl.net = "" /\ netSeen' = site.cni
          /\ \/ /\ ctl' = [ctl EXCEPT !.pc = "version", !.net = site.cni]
                /\ Writes(info, ctl.info) /\ Writes(net, site.cni)
             \/ outage /\ Return /\ UNCHANGED <<info, net>>
       \/ ctl.net = "" /\ outage /\ Return /\ UNCHANGED <<info, net, netSeen>>
    /\ UNCHANGED <<site, users, prepared, gwCond, cloud, labelled, lastKnown, outage>>

(* Faulty: it goes on whatever the version.                                *)
IgnoreVersion ==
    /\ At("version") /\ Goto("get")
    /\ UNCHANGED <<site, users, status, cloud, labelled, lastKnown, outage>>

ValidateOCPVersion ==
    /\ At("version")
    /\ IF site.ocp = "4.10" /\ ctl.net = "OVNKubernetes" THEN Return ELSE Goto("get")
    /\ UNCHANGED <<site, users, status, cloud, labelled, lastKnown, outage>>

-----------------------------------------------------------------------------
(* prepareForSubmariner. The cloud's APIs are external: how a deployment    *)
(* that changes the ports treats the old ones, and what a failed one       *)
(* leaves behind, is left open.                                            *)

GetProvider ==
    /\ At("get")
    /\ IF ProviderFound
       THEN \/ Created /\ Goto("deploy")
            \/ (~Created \/ outage) /\ Failed("prepared")
       ELSE IF UnsupportedVendor THEN Failed("prepared") ELSE Goto("prepared")
    /\ UNCHANGED <<site, users, status, cloud, labelled, lastKnown, outage>>

Larger(m, n) == IF m > n THEN m ELSE n
PublicPorts  == {{ctl.cfg.natt}, {ctl.cfg.natt} \cup cloud.public}

(* Faulty: a retry deploys new machines next to those of the first try.    *)
DeployAgain ==
    /\ At("deploy")
    /\ \/ /\ \E ports \in PublicPorts :
                cloud' = [cloud EXCEPT !.gws = @ + ctl.cfg.gws, !.public = ports]
          /\ Goto(IF ctl.net = "OVNKubernetes" THEN "prepared" ELSE "open")
       \/ outage /\ Failed("prepared") /\ UNCHANGED cloud
    /\ UNCHANGED <<site, users, status, labelled, lastKnown, outage>>

DeployGateways ==
    /\ At("deploy")
    /\ \/ /\ \E ports \in PublicPorts :
                cloud' = [cloud EXCEPT !.gws = Larger(@, ctl.cfg.gws), !.public = ports]
          /\ Goto(IF ctl.net = "OVNKubernetes" THEN "prepared" ELSE "open")
       \/ /\ outage /\ Failed("prepared")
          /\ \E n \in cloud.gws..Larger(cloud.gws, ctl.cfg.gws),
                ports \in PublicPorts \cup {cloud.public} :
                cloud' = [cloud EXCEPT !.gws = n, !.public = ports]
    /\ UNCHANGED <<site, users, status, labelled, lastKnown, outage>>

OpenPorts ==
    /\ At("open")
    /\ \/ cloud' = [cloud EXCEPT !.internal = "open"] /\ Goto("prepared")
       \/ outage /\ Failed("prepared") /\ UNCHANGED cloud
    /\ UNCHANGED <<site, users, status, labelled, lastKnown, outage>>

(* Faulty: a failure is reported as a success.                             *)
ReportAnyway ==
    /\ At("prepared")
    /\ Writes(prepared, "True")
    /\ Goto(IF ProviderFound THEN "gateways" ELSE "ensure")
    /\ UNCHANGED <<site, users, info, net, netSeen, gwCond, cloud, labelled, lastKnown, outage>>

(* The outcome is reported first; only a success goes on to the gateways.  *)
ReportPrepared ==
    /\ At("prepared")
    /\ \/ /\ Writes(prepared, IF ctl.err = "nil" THEN "True" ELSE "False")
          /\ IF ctl.err # "nil" THEN Return
             ELSE Goto(IF ProviderFound THEN "gateways" ELSE "ensure")
       \/ outage /\ Return /\ UNCHANGED prepared
    /\ UNCHANGED <<site, users, info, net, netSeen, gwCond, cloud, labelled, lastKnown, outage>>

(* updateSubmarinerConfigStatus remembers the config if this changed the    *)
(* condition, and to True.                                                 *)
GwCond == [status : {"", "True", "False"}, have : 0..MaxGateways,
           want : 0..MaxGateways]
Report(condition) ==
    /\ Writes(gwCond, condition)
    /\ lastKnown' = IF config.st = "live" /\ gwCond # condition /\ condition.status = "True"
                    THEN SpecOf(ctl.cfg) ELSE lastKnown

UpdateGatewayStatus ==
    /\ At("gateways") /\ Return
    /\ \/ Report([status |-> IF labelled = ctl.cfg.gws THEN "True" ELSE "False",
                  have |-> labelled, want |-> ctl.cfg.gws])
       \/ outage /\ UNCHANGED <<gwCond, lastKnown>>
    /\ UNCHANGED <<site, users, info, net, netSeen, prepared, cloud, labelled, outage>>

(* Without a provider the controller labels the nodes itself.              *)
EnsureGateways ==
    /\ At("ensure") /\ Return
    /\ \/ /\ GatewaysWanted /\ labelled' = ctl.cfg.gws
          /\ Report([status |-> "True", have |-> ctl.cfg.gws, want |-> ctl.cfg.gws])
       \/ /\ ~GatewaysWanted \/ outage
          /\ Report([status |-> "False", have |-> labelled, want |-> ctl.cfg.gws])
          /\ UNCHANGED labelled
    /\ UNCHANGED <<site, users, info, net, netSeen, prepared, cloud, outage>>

-----------------------------------------------------------------------------
IsSubmarinerCRPresent == crCache # "absent"

(* Faulty: it does not wait for the CR, or cleans up only a remembered one. *)
CleanUpAtOnce ==
    /\ At("idle") /\ addon = "deleting" /\ config.st = "live" /\ "platform" \in info
    /\ Begin("get_cleanup")
    /\ UNCHANGED <<site, users, status, cloud, labelled, lastKnown, outage>>

CleanUpIfKnown ==
    /\ At("idle") /\ addon = "deleting" /\ config.st = "live" /\ "platform" \in info
    /\ ~IsSubmarinerCRPresent /\ lastKnown = SpecOf(config)
    /\ Begin("get_cleanup")
    /\ UNCHANGED <<site, users, status, cloud, labelled, lastKnown, outage>>

(* cleanupClusterEnvironment, once the add-on is being deleted and the      *)
(* lister has no Submariner CR.                                            *)
SyncCleanUp ==
    /\ At("idle") /\ addon = "deleting" /\ config.st = "live" /\ "platform" \in info
    /\ ~IsSubmarinerCRPresent
    /\ Begin("get_cleanup")
    /\ UNCHANGED <<site, users, status, cloud, labelled, lastKnown, outage>>

GetProviderForCleanUp ==
    /\ At("get_cleanup")
    /\ IF ProviderFound
       THEN \/ Created /\ Goto("cleanup")
            \/ (~Created \/ outage) /\ Failed("cleaned")
       ELSE Goto("remove_all")
    /\ UNCHANGED <<site, users, status, cloud, labelled, lastKnown, outage>>

CleanUpGateways ==
    /\ At("cleanup")
    /\ \/ cloud' = [cloud EXCEPT !.gws = 0, !.public = {}] /\ Goto("close")
       \/ /\ outage /\ Failed("cleaned")
          /\ \E n \in 0..cloud.gws : cloud' = [cloud EXCEPT !.gws = n]
    /\ UNCHANGED <<site, users, status, labelled, lastKnown, outage>>

ClosePorts ==
    /\ At("close")
    /\ \/ cloud' = [cloud EXCEPT !.internal = "closed"] /\ Goto("cleaned")
       \/ outage /\ Failed("cleaned") /\ UNCHANGED cloud
    /\ UNCHANGED <<site, users, status, labelled, lastKnown, outage>>

RemoveAllGateways ==
    /\ At("remove_all")
    /\ \/ labelled' = 0 /\ Goto("cleaned")
       \/ outage /\ Failed("cleaned") /\ UNCHANGED labelled
    /\ UNCHANGED <<site, users, status, cloud, lastKnown, outage>>

ReportCleanUp ==
    /\ At("cleaned") /\ Return
    /\ \/ Report([status |-> "False", have |-> 0, want |-> 0])
       \/ outage /\ UNCHANGED <<gwCond, lastKnown>>
    /\ UNCHANGED <<site, users, info, net, netSeen, prepared, cloud, labelled, outage>>

Restart ==
    /\ outage
    /\ Return /\ lastKnown' = NoSpec /\ netSeen' = net
    /\ UNCHANGED <<site, users, info, net, prepared, gwCond, cloud, labelled, outage>>

-----------------------------------------------------------------------------
(* The hub: updateSubmarinerConfigStatus writes the whole                  *)
(* ManagedClusterInfo, with the NetworkType of its own cached copy, which  *)
(* may not be there yet. Each of its writes reaches the spoke's cache.     *)

HubWritesInfo ==
    /\ config.st = "live"
    /\ \E claims \in Claims, type \in {"", net} :
          /\ info \subseteq claims /\ <<claims, type>> # <<info, net>>
          /\ (claims = info => changes < MaxChanges)
          /\ changes' = IF claims = info THEN changes + 1 ELSE changes
          /\ info' = claims /\ net' = type
    /\ UNCHANGED <<site, config, creds, hub, netSeen, prepared, gwCond,
                   cloud, labelled, lastKnown, ctl, outage>>

ObserveConfig ==
    /\ netSeen # net /\ netSeen' = net
    /\ UNCHANGED <<site, users, info, net, prepared, gwCond, cloud, labelled, lastKnown,
                   ctl, outage>>

(* Users, nodes and the other controllers.                                 *)
(* A user changes one field of the config at a time.                       *)
Edited ==
    {[config EXCEPT !.gws = n] : n \in 0..MaxGateways}
       \cup {[config EXCEPT !.natt = p] : p \in NattPorts}
       \cup {[config EXCEPT !.skip = s] : s \in {"no", "yes"}}

EditConfig ==
    /\ config.st = "live" /\ changes < MaxChanges
    /\ config' \in Edited \ {config}
    /\ changes' = changes + 1
    /\ UNCHANGED <<site, creds, hub, status, cloud, labelled, lastKnown,
                   ctl, outage>>

DeleteConfig ==
    /\ config.st = "live" /\ changes < MaxChanges
    /\ config' = [config EXCEPT !.st = "none"]
    /\ info' = {} /\ net' = "" /\ netSeen' = ""
    /\ prepared' = "" /\ gwCond' = [status |-> "", have |-> 0, want |-> 0]
    /\ changes' = changes + 1
    /\ UNCHANGED <<site, creds, hub, cloud, labelled, lastKnown, ctl, outage>>

ChangeCredentials ==
    /\ changes < MaxChanges
    /\ creds' = IF creds = {} THEN Keys ELSE {}
    /\ changes' = changes + 1
    /\ UNCHANGED <<site, config, hub, status, cloud, labelled, lastKnown,
                   ctl, outage>>

(* The machines of the cloud become labelled nodes, and leave with it.     *)
NodeJoins ==
    /\ labelled < cloud.gws /\ labelled' = labelled + 1
    /\ UNCHANGED <<site, users, status, cloud, lastKnown, ctl, outage>>

NodeLeaves ==
    /\ labelled > 0 /\ changes < MaxChanges
    /\ labelled' = labelled - 1 /\ changes' = changes + 1
    /\ UNCHANGED <<site, config, creds, hub, status, cloud, lastKnown,
                   ctl, outage>>

(* The klusterlet applies the CR's manifest work when it comes to it, also  *)
(* after the add-on's deletion was asked for. The informer tells of the    *)
(* end of one CR before the next one.                                      *)
SubmarinerComes ==
    /\ submariner = "absent" /\ submariner' = "present"
    /\ UNCHANGED <<site, config, creds, crCache, known, addon, changes, status, cloud,
                   labelled, lastKnown, ctl, outage>>

SubmarinerGoes ==
    /\ submariner = "present" /\ submariner' = "absent" /\ known' = FALSE
    /\ crCache' = IF crCache = "present" THEN "former" ELSE crCache
    /\ UNCHANGED <<site, config, creds, addon, changes, status, cloud, labelled,
                   lastKnown, ctl, outage>>

ObserveSubmariner ==
    /\ \/ crCache = "former" /\ crCache' = "absent"
       \/ crCache = "absent" /\ submariner = "present" /\ crCache' = "present"
    /\ UNCHANGED <<site, config, creds, submariner, known, addon, changes, status, cloud,
                   labelled, lastKnown, ctl, outage>>

DeleteAddon ==
    /\ addon = "live" /\ addon' = "deleting" /\ known' = (crCache = "present")
    /\ UNCHANGED <<site, config, creds, submariner, crCache, changes, status, cloud,
                   labelled, lastKnown, ctl, outage>>

(* The hub lets the add-on go without waiting for the spoke.               *)
AddonGone ==
    /\ addon = "deleting" /\ addon' = "gone"
    /\ changes < MaxChanges /\ changes' = changes + 1
    /\ UNCHANGED <<site, config, creds, submariner, crCache, known, status, cloud,
                   labelled, lastKnown, ctl, outage>>

OutageEnds ==
    /\ outage /\ outage' = FALSE
    /\ UNCHANGED <<site, users, status, cloud, labelled, lastKnown, ctl>>

-----------------------------------------------------------------------------
Init ==
    /\ site \in Sites
    /\ config = FirstConfig /\ creds = Keys /\ info = {}
    /\ net = "" /\ netSeen = ""
    /\ cloud = NoCloud /\ labelled = 0
    /\ prepared = "" /\ gwCond = [status |-> "", have |-> 0, want |-> 0]
    /\ lastKnown = NoSpec
    /\ submariner = "absent" /\ crCache = "absent" /\ known = FALSE /\ addon = "live"
    /\ ctl = Idle
    /\ outage = (Outage # {}) /\ changes = 0

Work ==
    \/ SetNetworkTypeIfAbsent \/ ValidateOCPVersion \/ GetProvider
    \/ DeployGateways \/ OpenPorts \/ ReportPrepared
    \/ UpdateGatewayStatus \/ EnsureGateways
    \/ GetProviderForCleanUp \/ CleanUpGateways \/ ClosePorts
    \/ RemoveAllGateways \/ ReportCleanUp

Environment ==
    \/ HubWritesInfo \/ ObserveConfig
    \/ EditConfig \/ DeleteConfig \/ ChangeCredentials
    \/ NodeJoins \/ NodeLeaves
    \/ SubmarinerComes \/ SubmarinerGoes \/ ObserveSubmariner
    \/ DeleteAddon \/ AddonGone \/ OutageEnds

Next == SyncConfig \/ SyncCleanUp \/ Work \/ Restart \/ Environment

Spec == Init /\ [][Next]_vars

(* One worker; a failed sync is retried, and every ten minutes the         *)
(* informers queue the config anew.                                        *)
Fairness ==
    /\ WF_vars(Work) /\ WF_vars(SyncConfig) /\ WF_vars(SyncCleanUp)
    /\ WF_vars(ObserveConfig) /\ WF_vars(ObserveSubmariner)
    /\ WF_vars(NodeJoins) /\ WF_vars(OutageEnds)

FairSpec == Spec /\ Fairness

-----------------------------------------------------------------------------
(* Properties                                                              *)

TypeOK ==
    /\ site \in Sites
    /\ config \in Config /\ creds \subseteq Keys /\ info \subseteq AllClaims
    /\ net \in {"", site.cni} /\ netSeen \in {"", site.cni}
    /\ cloud \in Cloud /\ labelled \in 0..MaxGateways
    /\ prepared \in {"", "True", "False"} /\ gwCond \in GwCond
    /\ lastKnown \in SpecState \cup {NoSpec}
    /\ submariner \in {"present", "absent"}
    /\ crCache \in {"present", "absent", "former"} /\ known \in BOOLEAN
    /\ addon \in {"live", "deleting", "gone"}
    /\ ctl \in Control
    /\ outage \in BOOLEAN /\ changes \in 0..MaxChanges

(* The port for traffic between the nodes is opened only in a network that *)
(* needs it, and nothing is deployed where OVN-Kubernetes is too old for   *)
(* Submariner, however the network type comes and goes in the status and   *)
(* in the cached copy (aws.go:138, config_controller.go:681-763).          *)
PortsFitNetwork ==
    site.cni = "OVNKubernetes" =>
       /\ cloud.internal = "closed"
       /\ site.ocp = "4.10" => cloud = NoCloud

(* The condition turns True, and the config is remembered as the one to    *)
(* skip, only when the cloud has all that this config asks for, if there   *)
(* is a provider (config_controller.go:298-325, 377-379).                  *)
Fits(spec) ==
    /\ cloud.gws >= spec.gws /\ spec.natt \in cloud.public
    /\ site.cni # "OVNKubernetes" => cloud.internal = "open"
PreparedIsTrue ==
    [][(prepared' = "True" /\ prepared # "True") \/ lastKnown' \notin {lastKnown, NoSpec}
       => Fits(ctl.cfg) \/ ~ProviderFound]_vars

(* Gateways and ports are not taken away while a Submariner CR is there     *)
(* that the CR informer had when the uninstall was asked for, whatever it  *)
(* sees late and whatever other CRs come. A CR that comes, or is seen,     *)
(* only after that is not waited for (config_controller.go:189-204).       *)
CloudOutlivesSubmariner ==
    [][cloud'.gws < cloud.gws \/ (cloud.internal = "open" /\ cloud'.internal = "closed")
       => ~known]_vars

(* A cloud that can be prepared is, in the end, for the config that is     *)
(* asked for, unless it is the one remembered (config_controller.go:231).  *)
Preparable ==
    /\ addon = "live" /\ config.st = "live" /\ config.skip = "no" /\ config.gws >= 1
    /\ site.vendor = "OpenShift" /\ site.platform # "other"
    /\ info = AllClaims /\ creds = Keys
    /\ ~(site.cni = "OVNKubernetes" /\ site.ocp = "4.10")
CloudFollowsConfig ==
    <>[]Preparable => <>[](Fits(config) \/ SkipSyncingUnchangedConfig)

(* The clean-up comes to an end as long as the add-on is there and there   *)
(* is what it takes to create the provider (config_controller.go:189-226). *)
CanClean ==
    /\ addon = "deleting" /\ submariner = "absent"
    /\ config.st = "live" /\ config.skip = "no" /\ config.gws >= 1
    /\ info = AllClaims /\ creds = Keys
    /\ site.vendor = "OpenShift" /\ site.platform # "other"
CloudCleared == <>[]CanClean => <>[](cloud = NoCloud)

=============================================================================
