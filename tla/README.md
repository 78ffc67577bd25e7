# submariner-addon in TLA+

Specifications, TLC configurations and TLAPS proofs for the controllers of
submariner-addon: the add-on of Open Cluster Management that installs
Submariner on managed clusters and connects them through a broker on the hub.
Paths below are relative to `src/`.

## 1. The system

### Components, their state and their operations

| component | code | state it keeps | operations |
|---|---|---|---|
| submarinerAgentController (hub) | `pkg/hub/submarineragent/controller.go` | none in memory; per cluster: the finalizer and conditions of the ManagedClusterAddOn, ServiceAccount, RoleBinding and token Secret in the broker namespace, ManifestWorks `submariner-operator` and `submariner-resource`; per set: globalnet ConfigMap, Broker | deploy, clean up, tell the spoke what its cluster is |
| SubmarinerBrokerInfo (hub) | `pkg/hub/submarinerbrokerinfo/brokerinfo.go` | token Secret, global CIDR in the ConfigMap | collect what a cluster needs to reach its broker; name brokers |
| submarinerBrokerController (hub) | `pkg/hub/submarinerbroker/controller.go` | finalizer and annotation of each ManagedClusterSet, its broker namespace, role and PSK; certificate signers in memory | claim a set, deploy its broker, clean up one set or, with the ClusterManagementAddOn, all |
| Broker CRDs controller (hub) | `pkg/hub/submarinerbroker/brokerCRDsController.go` | CRDs of the broker | re-apply |
| AddOn agent (hub) | `pkg/hub/submarineraddonagent/agent.go` | the agent's manifests, its registration | render, approve |
| submarinerConfigController (spoke) | `pkg/spoke/submarineragent/config_controller.go` | `lastKnownConfig` in memory; gateway labels, port labels and annotations of nodes; status of the SubmarinerConfig | find the network type, validate the version, prepare the cloud, keep the number of gateways, clean up |
| gateways, deployment and connections status controllers (spoke) | `pkg/spoke/submarineragent/{gateways,deployment,connections}_controller.go` | conditions of the ManagedClusterAddOn | report |
| cloud providers (spoke) | `pkg/cloud` | machines and ports in the cloud | prepare, clean up |
| shared helpers | `pkg/resource`, `pkg/manifestwork`, `pkg/addon`, `pkg/apis/submarinerconfig/update_status.go` | none | apply or delete lists of manifests, write a status with retry |

Each controller has one worker and a work queue with one entry per key
(`Run(ctx, 1)` in `pkg/hub/manager.go:210` and `pkg/spoke/agent.go:193`). They
never call each other. All interaction goes through objects of the two API
servers, read through informer caches and written by calls that can fail one by
one:

    user ──► ManagedClusterAddOn, label, ManagedClusterSet, Broker, SubmarinerConfig
                 │
    hub:   broker controller ──► broker namespace ◄── agent controller ──► ManifestWorks
                                       ▲                  │ status of the       │
                                       │                  ▼ SubmarinerConfig    │
    spoke: Submariner (exports) ───────┘       config controller    klusterlet ◄┘
           config controller ──► node labels, cloud, SubmarinerConfig status
           status and config controllers, and the hub ──► ManagedClusterAddOn status

### What is hard

* A sync is a sequence of up to a dozen API calls. Any of them may fail, the
  process may restart between two of them, and other actors act in between.
* Install and uninstall of one cluster share the broker namespace with the other
  clusters of its set, and a cluster may change its set at any time. The broker
  goes with its set, or with the whole add-on, while clusters may still need it.
* Deleting a ManifestWork takes as long as the klusterlet needs, perhaps for
  ever; the controller stops waiting after two minutes.
* Decisions are taken on caches, and writes are made to the objects behind them;
  one function even changes the cached object.
* The token of a ServiceAccount is filled in later, by somebody else.
* Nodes are replaced and users put labels on them, without telling anybody.
* Five writers in two processes write the conditions of one add-on, and two write
  one record of the SubmarinerConfig.
* A cloud deployment takes minutes, during which config and credentials change,
  and may stop half-way.

`PROJECT.json` lists these at the lines where they bite, under `hazards`.

### What makes each component correct

* Agent controller: installs in layers and uninstalls in the opposite order, so
  that nothing is unreachable for the next sync; leaves nothing behind when its
  finalizer comes off; keeps what other clusters share; an uninstall ends, and a
  wanted installation is reached whatever failed before.
* Broker controller: a broker only between the claim and the release of its set;
  a complete one in the end; a set can be deleted; an uninstall of everything
  takes the brokers after the add-ons that need them, and ends.
* BrokerInfo: different sets have different namespaces, and their names are legal.
* Config controller and cloud providers: the number of gateways converges to the
  desired one and labelling does not overshoot it; the cloud is prepared for what
  the config asks and for the network there is; nothing is taken away while the
  Submariner CR is there, and nothing stays when it is gone; what is reported is
  true.
* Status writers: what they say becomes and stays true, and they do not undo each
  other's reports.

## 2. The plan

By importance, with what came of it:

| part | modules | state |
|---|---|---|
| A. Agent controller | `AgentController`, abstract specification `LayeredInstall`, `AgentControllerProofs`, `AgentFleetProofs`, instance `MCAgent` | checked, safety proved |
| B. Gateways without a provider | `GatewayConfig`, `GatewayConfigProofs`, instance `MCGateway` | checked, safety proved |
| C. Broker controller | `BrokerController`, abstract specification `BrokerLife`, `BrokerControllerProofs`, instance `MCBroker` | checked, safety proved |
| D. Cloud preparation, with hub and spoke writing one status | `CloudPrepare`, `CloudPrepareProofs`, instance `MCCloud` | checked, safety proved |
| E. Status reports, with their five writers | `StatusReports`, `StatusReportsProofs`, `QuietReportsProofs`, instance `MCReports` | checked, safety proved |
| F. Broker names | `BrokerNames`, compared by TLC in `MCBroker` | proved |
| G. Clean-ups of A, B and D over one add-on | - | not written; see section 10 |
| H. Registrations of the add-on agent | - | not written; see section 10 |

Parameters are CONSTANTS with named assumptions, one action is one API call, and
no module uses RECURSIVE, so each can be proved about where it stands. The
modules meet at what one of them leaves to its environment: broker namespaces
come and go in `AgentController` as they do in `BrokerController`; add-ons go in
`BrokerController` as they do in `AgentController`; the labelling that
`GatewayConfig` has in detail is one step in `CloudPrepare`; the condition that
`CloudPrepare` writes when it rejects a version is writer "version" of
`StatusReports`.

## 3. AgentController

### State and code

| variable | stands for |
|---|---|
| `addon`, `cond` | the ManagedClusterAddOn: absent, live or deleting, with or without our finalizer; its condition SubmarinerBrokerConfigApplied |
| `label` | the ManagedCluster and its cluster set label |
| `clusterSets`, `brokerNs`, `broker`, `globalnet` | the ManagedClusterSets, and which broker namespaces exist, hold the Broker, hold the globalnet ConfigMap |
| `opWork`, `crWork` | the two ManifestWorks; *overdue* is *deleting* for longer than `ManifestWorkDeletionTimeout` |
| `sa`, `rb`, `secret`, `token`, `resources` | per cluster: the broker namespaces with its ServiceAccount, RoleBinding, token Secret, filled-in token, exported Endpoints, Clusters and ServiceImports |
| `addonCache`, `labelCache`, `workCache` | informer caches; a cache not in `Lagging` equals the API server |
| `ctl` | the worker: the next call of its sync and the sync's local variables |
| `outage` | whether API calls may fail and the process may restart |

A broker namespace is named by its set, which is right as long as no two sets
share one: `BrokerNames` (section 7) says which do. One action
is one API call:

| actions | code |
|---|---|
| `SyncCleanUp`, `SyncDeploy` | `sync` and `syncManagedCluster` up to the first call, with all early returns; the choice among clean-up starts is `CleanUpStart` |
| `AddFinalizer` | `finalizer.Add`, which ends the sync |
| `ApplySA`, `ApplyRB` and `...Fails` | `applyClusterRBACFiles` through `ApplyManifests`, which goes on after an error |
| `EnsureGlobalnet`, `BrokerMissing` | `createGNConfigMapIfNecessary` |
| `BrokerApplied`, `StatusUpdateFails` | `updateManagedClusterAddOnStatus`, whose error is only logged |
| `GetBrokerInfo`, `CreateTokenSecret`, `GetBrokerInfoFails` | `brokerinfo.Get` |
| `ApplyOpWork`, `ApplyCrWork` | `manifestwork.Apply`, which updates also a work that is being deleted |
| `DeleteCrWork`, `DeleteOpWork` | `deleteManifestWork` |
| `DeleteResources` | `deleteClusterBrokerResources` |
| `ListNoSA`, `ListOneSA`, `ListManySAs`, `DeleteSecret`, `DeleteSA`, `DeleteSAFails`, `DeleteRB` | `removeClusterRBACFiles` through `DeleteFromManifests` |
| `CheckGlobal`, `DeleteGlobalnet`, `DeleteBroker` | `deleteGlobalBrokerResourcesIfNecessary` |
| `RemoveFinalizer` | `finalizer.Remove`; the last finalizer of a deleted add-on lets it go |
| `Abort` | every `return err` of an API call, and a restart of the process |

The environment consists of users (add-on, label, Broker, sets), the broker
controller (`CreateBrokerNs`, `DeleteBrokerNs`), the klusterlet (`OpWorkGone`,
`CrWorkGone`), the clock (`CrWorkOverdue`), Kubernetes (`FillToken`), Submariner
on the cluster (`Export`) and the watches (`Observe...`).

Abstracted: contents of manifests, backup labels, placement, events. What the hub
writes into the SubmarinerConfig is in `CloudPrepare`. A partial deletion of a
cluster's exported resources counts as none (the call returns an error, the next
sync repeats it). A namespace's contents go in one step.

### Properties

`LayeredInstall` says what an installation of a cluster looks like from outside:
three layers - finalizer, credential, Submariner CR - pushed in this order and
popped in the opposite one. It has no controller, no failure and no steps in
between. `LayeredSpec` instantiates it with `held` replaced by the layers that
the API server holds (`Layers`). This is the reason why a failed sync can be
repeated: whatever the moment, every layer still has the ones below it.

`OperatorOutlivesCR` (the operator, which removes the CR, goes last),
`CleanRemoval` (when the finalizer comes off there is no credential in any set),
`NoLeftovers` (in every state, not only at that step, and also exported
resources), `BrokerKept` (other clusters that are installed in the set keep what
they share; not one that users relabel into it at that moment),
`UninstallCompletes` and `InstallConverges` (liveness).

### Fairness

`Sync(c)` is strongly fair: an error re-queues the key, informers re-send all
objects every ten minutes (`manager.go:135-146`), and the one worker takes keys
in turn, so a key that needs work again and again gets its turn although another
key may occupy the worker in between. Started syncs go on
(`WF_vars(Deploy \/ CleanUp)`); with several actions enabled, a failure may be
chosen, until the outage is over. Kubernetes, the klusterlet's work on the
operator work, the clock, the watches and the broker controller are weakly fair.
The klusterlet need not finish deleting the CR work, and users need not do
anything. A namespace goes for certain only when its set is gone.

### Runs

| run | instance | shows |
|---|---|---|
| `agent_relabel` | 1 cluster, 2 sets, label any of both or none, failures, timeout; caches fresh (2.3 M states) | `TypeOK`, `LayeredSpec`, `OperatorOutlivesCR`, `CleanRemoval` |
| `agent_fleet` | 2 clusters (symmetric), 1 set, add-on and cluster caches lag, failures (476 k states) | `NoLeftovers`, `NoOrphanOperator`, `BrokerKept`, `LayeredSpec` |
| `agent_live` | 1 cluster, 1 set that may be deleted and come back, work cache lags, an outage that ends, timeout (170 k states) | `UninstallCompletes`, `InstallConverges` |
| `agent_overdue`, `agent_two_sets`, `agent_rolebinding` | smallest instances | the findings of section 8 |

Why these bounds suffice: one sync concerns one cluster, so properties of one
cluster need one; two are needed, and enough, where clusters meet, which is only
in `deleteGlobalBrokerResourcesIfNecessary`, a conjunction over the set's other
members one by one. Two sets give every kind of relabelling, and what the code
does with two ServiceAccounts it does with more. The proofs remove the bounds for
the safety properties of `agent_relabel` and `agent_fleet`. The optional events
are split among the runs to keep each one within minutes: a property is checked
with the events that can disturb it, and with caches lagging only where it
survives that: `OperatorOutlivesCR` does not survive a lagging work cache;
`LayeredSpec` survives lagging add-on and cluster caches in a fleet that stays in
one set (`agent_fleet`), and not where users relabel clusters (`agent_relabel`
therefore has fresh ones). `NoLeftovers` and `BrokerKept` are for clusters that
keep their set, and `NoOrphanOperator` holds where no wait for a CR work is given
up.

## 4. BrokerController

`set` and `setCache` are the ManagedClusterSets (state, annotation, copies of the
finalizer) and the informer's copy of them; `ns` the broker namespaces, *active*
or *terminating*, with what is in them; `signer` the certificate signers, which
live in memory; `cma` and `cmaCache` the ClusterManagementAddOn and the informer's
copy of it; `addon` the add-ons of the clusters; `ctl` the worker. The controller
knows the add-ons from their informer only and looks at nothing but whether the
ClusterManagementAddOn owns them: `addonCache` says whether the informer has a
cluster's add-on as *owned*, has none that is (*no*), or has one that has gone
(*former*). `ObserveOwner` is therefore two things in one: the add-on manager has
set the owner, and the informer has told of it. `owed` is a history variable for
`AddonsGoFirst`: the add-ons that the informer had as owned when the uninstall was
asked for, as long as they are there.

| actions | code |
|---|---|
| `Claim`, `Deploy` | `reconcileManagedClusterSet`: a sync that claims ends there; one that finds the set claimed deploys |
| `ApplyNamespace`, `ApplyRole`, `CreateIPSecPSKSecret`, `SetupCertificateManagement` | the calls of a deployment |
| `CleanUp`, `DeleteNamespace`, `DeleteRole`, `Release` | `doClusterSetCleanup` |
| `DeleteAddons`, `DeleteOwnedAddon`, `DeleteAllBrokers`, `Visit`, `ReleaseAll` | `doAllClusterSetCleanup` |
| `Restart` | the process stops, and with it the signers |

Users create, annotate and delete sets and add-ons and delete the
ClusterManagementAddOn; the add-on manager adopts add-ons; Kubernetes takes its
time to empty a namespace; the watches lag (`ObserveSet`, `ObserveCMA`,
`ObserveOwner`, `ObserveEnd`).

`BrokerLife` is what the hub promises about a broker: claimed before it rises,
down before its set is let go. `BrokerLifeSpec` shows that the controller
implements it; `BrokerHasKeeper` is the invariant behind it. `AddonsGoFirst`: an
uninstall of everything takes no broker while an add-on is there that the informer
had as owned when the uninstall was asked for. The code waits for no more than
that: one that is adopted later, or that the informer shows late, is not waited
for (section 8). `SetsDeletable`, `BrokerRises`,
`UninstallCompletes` are the liveness properties.

Fairness: as in section 3. The environment only has to empty namespaces, deliver
watch events and let deleted add-ons go; the outage ends. No add-on has to be
adopted (`ObserveOwner` is not fair).

Run `broker`: 1 exclusive set, 2 clusters, failures, restarts, annotations that
users remove, caches that lag of the set, of the ClusterManagementAddOn and of
the add-on of one of the clusters; at most 2 copies of the finalizer (150 k
states). Sets do not interact but in `doAllClusterSetCleanup`, which visits them
one after the other; two clusters let one add-on be gone while the other is
still to be deleted; two copies of the finalizer tell "all are removed" from
"one is removed". The proofs have any number. Deadlock is not checked: when the
ClusterManagementAddOn is gone and the users are done nothing is left to do.

## 5. CloudPrepare

The config controller with a cloud provider. `site` is the cluster: platform,
vendor, network (CNI) and whether its OCP version is too old for
OVN-Kubernetes. `config` and `creds` are the SubmarinerConfig and its Secret;
`info`, `net`, `prepared`, `gwCond` the parts of its status; `netSeen` the
network type in the informer's copy; `cloud` the machines and ports; `labelled`
the gateway nodes; `submariner` whether the CR is on the cluster, `crCache` what
the CR informer has (*absent*, *present*, or *former*: one that has gone), and
`known` a history variable: the informer had the CR when the add-on was deleted,
and that CR is still there; `lastKnown` the config in memory; `ctl` the worker,
with the copy of the config that its sync began with.

| actions | code |
|---|---|
| `SyncConfig`, `SyncCleanUp` | `sync` and `syncConfig` up to the first call |
| `SetNetworkTypeIfAbsent`, `ValidateOCPVersion` | the functions of these names |
| `GetProvider`, `GetProviderForCleanUp` | `providerFactory.Get`, with what each provider and its client need (`AwsProvider`, `AwsClient`, ...) |
| `DeployGateways`, `OpenPorts` | `PrepareSubmarinerClusterEnv` of the providers |
| `CleanUpGateways`, `ClosePorts` | `CleanUpSubmarinerClusterEnv` |
| `ReportPrepared`, `UpdateGatewayStatus`, `ReportCleanUp` | the status updates, with the rule for `lastKnownConfig` |
| `EnsureGateways`, `RemoveAllGateways` | the labelling that `GatewayConfig` has in detail |
| `HubWritesInfo` | `updateSubmarinerConfigStatus` of the hub's agent controller |
| `ObserveConfig`, `Restart` | the informer, the process |

What the cloud-prepare library does within a step is external: a failed
deployment may leave any part of it done, and a deployment with another port may
keep the old one or not; it never takes machines away. The klusterlet may apply
the CR, and remove it, at any time, also after the add-on's deletion was asked
for, and the informer tells of it when it likes (`SubmarinerComes`,
`SubmarinerGoes`, `ObserveSubmariner`).

`PortsFitNetwork` is about the race of section 8 for the network type: whatever
the hub, the cache and failed writes do to it, no port is opened that the network
must not have, and nothing is deployed where the version is too old.
`PreparedIsTrue`: the condition turns True, and a config is remembered as done,
only when the cloud has it. `CloudOutlivesSubmariner`: nothing is taken away while
a CR is there that the informer had when the add-on was deleted; of a CR that
comes, or is seen, only after that the code knows nothing when it decides
(section 8). `CloudFollowsConfig` and `CloudCleared` are liveness
properties; the first one exempts a config equal to the remembered one, because
of the disagreement about `lastKnownConfig`, and the second one holds as long as
the add-on lasts.

Fairness: the worker goes on, failed syncs are re-queued, the informer resyncs
every ten minutes, watches make progress, machines of the cloud become nodes, the
outage ends. The hub and the users need not do anything.

Run `cloud`: five clusters - AWS without OVN-Kubernetes, GCP with it, Azure and
OpenStack with it on a version that is too old, and one on ROSA, which has no
provider - up to 2 gateways, 2 ports, one interference by users or nodes, or the
add-on going while the spoke still cleans up (879 k states); claims arrive in
two portions, first without the vendor. One interference is enough for every
interruption of a sync by an edit, a deletion of the config, a loss of
credentials or of a node; two of them in a row are covered by the proofs for the
safety properties. Deadlock is not checked: after the add-on, nothing may be
left to do.

## 6. StatusReports

Five writers of the add-on's conditions: `gateways`, `version`, `deployment`,
`connections` on the cluster and `broker` on the hub. `object` is the state of
everything they look at (Subscription, Deployments, DaemonSets, nodes, the
Submariner CR and its gateways, RouteAgents, the Broker) as the caches have it;
`cond` the conditions, each the set of its findings; `queued` the writers with a
key in their queue; `ctl` their syncs; `stale` those whose copy of the add-on has
an old resource version; `team` the writers that run.

`Sync` and `Read` go through the objects of `Reads(w)` one at a time, collecting
what the check functions find; `Get`, `Put`, `Conflict` and `PutFails` are
`addon.UpdateStatus` with its retry on conflict and a write whose answer may be
lost; `Fail`, `Done` say when a key returns to the queue (the hub's writer only
logs that it could not write, but returns an error as long as the Broker is
missing: `Retried`); `Handlers(o)` says whose event a change is, and that of the
Broker is nobody's; `Resync`, `Restart`,
`ListEndpoints` are the informers and processes.

`NoLostReport`: a writer changes its own condition only, although each writes the
whole status. `QuietMeansCurrent`: when a writer has nothing queued, its
condition is about the objects as they are, however reads, changes, failures and
restarts were interleaved (nodes that are not workers, RouteAgents and the Broker
excepted, being nobody's event; and the OCP version, whose writer is silent once
it is supported). `ReportsSettle`: those come right with the next resync,
and so does a condition that the OCP version writer had taken over.

Fairness: each worker takes its keys or is given them by a resync; the
RouteAgents are listed; the outage ends.

Run `reports`: teams of two writers - the two that read most objects, the two that
share a condition, and one of each process - 2 nodes (one of them a worker), 1
gateway, at most 2 changes of the objects named in `Moving` or of the add-on
(466 k states). Writers meet only in the status, where each write is one step
against one other copy, so pairs show what can happen; two changes are enough for
one before and one after a read. The first team has one representative of the
Deployments moving and no DaemonSet, all being read and queued alike.

## 7. GatewayConfig and BrokerNames

### GatewayConfig

The config controller on platforms that no provider prepares. `node` is the
spoke's nodes (present, gateway label, annotation "labelled by Submariner", port
label), `nodeCache` the informer's copy, `config` the SubmarinerConfig's number
of gateways and NAT-T port, `cond` the condition SubmarinerGatewaysLabeled with
the names it reports, `lastKnown` the cached last good config, `ctl` the worker.
`submariner`, `crCache` and `known` are those of `CloudPrepare`. Each node's cache
and that of the CR may lag by itself (`Lagging`). The add-on and the config are
also read from caches; a sync reads each of them once, so that an old copy of
them amounts to an edit or a deletion that comes later, which the model has.

`SyncConfig` and `SyncCleanUp` are `sync` and `syncConfig` up to the first call;
`Prepare` is `prepareForSubmariner`; `InvalidInput`, `KeepGateways`,
`AddGateways`, `RemoveGateways` are the branches of `ensureGateways`;
`findGatewaysWithZone` may return any workers, as many as needed: the zone label is
empty here, so that all nodes fall into the zone `unknown`, and their order is that
of the cache; `LabelNode` and `UnlabelNode` are
`labelNode` and `unlabelNode`, each with the retry of `updateNode` on a fresh
node; `UpdateNodeFails` is an update that fails while the others go on; `Report`
is `updateSubmarinerConfigStatus`, with the rule for `lastKnownConfig`; `Abort`
and `Restart` end a sync early. Nodes, users, the hub, the klusterlet and the
watches are the environment. The OCP version is taken for supported;
`validateOCPVersion` is in `CloudPrepare`.

| run | instance | shows |
|---|---|---|
| `gateway_live` | 3 nodes that leave and join, 0 to 2 gateways wanted, failures, restarts (152 k states) | `TypeOK`, `NeverTooMany`, `GatewaysConverge` |
| `gateway_uninstall` | 2 nodes, 1 gateway wanted, users who label nodes, caches of one node and of the CR that lag, failures, a CR that comes and goes at any time, uninstall by the hub (560 k states) | `GatewaysOutliveSubmariner`, `UninstallUnlabels` |
| `gateway_port` | 1 node, 2 ports | a finding |

Three nodes give more and fewer candidates than needed, and additions and removals
of one and of two. `GatewaysOutliveSubmariner` is about a CR that the informer had
when the add-on was deleted, as `CloudOutlivesSubmariner` in section 5; one node
with an old copy and one with a fresh one is every kind of node there is.
`NeverTooMany` needs a fresh node cache: with a stale one, a second sync may label
one node too many, and the next sync removes it again. Fairness: the worker does
not stop (each change of a node or the config queues the one key, and there is a
resync every ten minutes, `agent.go:146-155`), watches make progress, outages end.
Users and nodes need not do anything. The convergence properties therefore begin
with "if from some point on", and in `gateway_live` every such premise is met by
behaviours in which nodes stop moving.

### BrokerNames

`GenerateBrokerName` as an operator on sequences of letters. The theorems say
when the other modules may name a broker by its set. A name of more than 56
characters loses its first five; two sets share a broker exactly when what is kept
of their names is the same (`BrokersShared`). So a set whose name has at most 51
characters shares its broker with no other, however long the other's name is
(`ShortNamesApart`); one of 52 to 56 characters shares it with every set whose name
is the same with five characters in front (`PrefixedNamesShare`). The other modules
are about sets that share none. The result fits a namespace exactly up to 61
characters (`BrokerNameFits`). `MCBroker` lets TLC compare the operator with these
statements for the lengths 1 to 63.

## 8. Where code and documents disagree

These are runs that TLC must find violated:

* `agent_overdue`: after the two-minute wait for the CR work the clean-up removes
  everything but the operator's ManifestWork, which then stays for ever.
* `agent_two_sets`: changing a cluster's set, as the docs show with
  `--overwrite`, leaves two ServiceAccounts; from then on the add-on cannot be
  deleted.
* `agent_rolebinding`: a deploy whose ServiceAccount call fails goes on to the
  RoleBinding (`resource/manifest.go:44-61`); if the add-on is deleted before a
  retry succeeds, the clean-up, which looks for ServiceAccounts only
  (`controller.go:592-603`), does not find the RoleBinding and lets the add-on go.
  A clean-up that is interrupted between the two deletions ends in the same way.
* `gateway_port`: a NAT-T port that is changed and changed back is not restored on
  the gateways, because `lastKnownConfig` is remembered only when the condition
  changed.

The following were met while modelling; the models have them as the code does,
and the properties are stated around them:

* `hub/submarineragent/controller.go:513` says "NetworkType is set by spoke
  cluster, make sure we don't reset it", but takes it from a cached copy: it is
  reset when that copy is old (`HubWritesInfo`), and as long as the config is
  unchanged the spoke does not set it again. Conversely the spoke writes the
  whole ManagedClusterInfo from its copy.
* `config_controller.go:696` changes the object in the informer's cache before it
  writes: after a failed write the type is taken for present.
* `lastKnownConfig` is not forgotten when a later config fails: A, then B failing,
  then A again skips A, in the cloud as on the nodes. The skip annotation is not
  compared either: removing it prepares nothing until a restart.
* `cloud/aws/aws.go:152` and its siblings say "after the SubmarinerConfig was
  deleted"; without a config the controller returns at once
  (`config_controller.go:175-178`), so the cloud is cleaned only before.
* A clean-up creates the provider as a preparation does: an invalid number of
  gateways, or a Secret that is gone, blocks it; and the skip annotation, put on
  after the preparation, leaves the cloud as it is.
* `config_controller.go:190-192` says "Wait for the Submariner CR to be completely
  deleted". Whether there is one is read from the informer's cache (l. 196,
  765-772), and the klusterlet may apply the CR work after the add-on's deletion
  was asked for, until the hub has deleted that work: a CR that the cache does not
  show yet, or that comes after the look, is not waited for. The models reach both;
  `GatewaysOutliveSubmariner` and `CloudOutlivesSubmariner` are about a CR that the
  cache had when the add-on was deleted.
* Nothing makes the hub wait for the spoke's clean-up
  (`config_controller.go:189`, a TODO); condition EnvironmentPrepared stays True
  after it.
* Add-ons that the ClusterManagementAddOn does not own are neither deleted nor
  waited for, although `submarinerbroker/controller.go:299` logs "All
  ManagedClusterAddOns deleted". Nor are those that are adopted, or that the cache
  (l. 275) shows, only after the uninstall looked: their agents may find the broker
  gone. The model reaches this (`ObserveOwner` may come at any time, or never);
  `AddonsGoFirst` is about the add-ons that the cache had as owned when the
  uninstall was asked for.
* A set name of 52 characters or more may share its broker with another set
  (section 7): its ServiceAccounts, role and PSK, and the namespace that the
  clean-up of either deletes.
* A set keeps its finalizer for good when the ClusterManagementAddOn is gone
  (l. 131-134) or the annotation was taken off (l. 256-258). The annotation's
  value is used as the namespace to clean up, also when a user changed it. An
  uninstall of everything looks at the cached sets (l. 301): one that was claimed
  a moment ago has no annotation there, is passed over, and keeps its finalizer.
  `CleanUninstall` (section 9) says that nothing else makes it forget a set;
  `controller_test.go:252-265` expects that it forgets none.
* The names in the condition SubmarinerGatewaysLabeled are only the new gateways
  after an addition (`config_controller.go:424`), and lack the user's after a
  removal (l. 573).
* The condition about gateway nodes has two writers who mean different things by
  it (`gateways_controller.go:73`, `validateOCPVersion`); conditions remain when
  the Subscription or the Submariner CR has gone; one controller looks for the
  gateway label, the other for its value `true`.
* RouteAgents are nobody's event, and their informer is the one that no
  controller waits for at the start.
* `brokerinfo.go:289` takes the scheme off the API server's URL as a set of characters,
  so that a host name without a port that ends with one of h, p, s, t loses it.
* `hub/manager.go:98` finds the container by name and takes the image of the first
  one.

## 9. Proofs

For all values of the constants that satisfy the assumptions of the module:

| module | theorem | says | extra assumption |
|---|---|---|---|
| `AgentControllerProofs` | `TypeCorrect` | `Spec => []TypeOK` | |
| | `CredentialCorrect` | `Spec => []CredentialInv` | |
| | `WorksCorrect` | `Spec => []WorksInv` | the work cache is fresh |
| | `OperatorOutlives` | `Spec => OperatorOutlivesCR` | the work cache is fresh |
| | `RemovalIsClean` | `Spec => CleanRemoval` | the work cache is fresh |
| | `ImplementsLayeredInstall` | `Spec => LayeredSpec` | work and add-on caches fresh, no set deleted |
| | `OperatorGoes` | `Spec => []NoOrphanOperator` | work and add-on caches fresh, no wait is given up |
| | `RoleBindingGoes` | `Spec => []NoOrphanRoleBinding` | the add-on cache is fresh, no call fails, no set deleted |
| `AgentFleetProofs` | `NothingIsLeft` | `Spec => []NoLeftovers` | a fleet in one set (below) |
| | `OthersKeepBroker` | `Spec => BrokerKept` | a fleet in one set (below) |
| | `FleetIsLayered` | `Spec => LayeredSpec` | a fleet in one set (below) |
| | `FleetOperatorGoes` | `Spec => []NoOrphanOperator` | a fleet in one set (below) |
| `BrokerControllerProofs` | `BrokerTypeCorrect` | `Spec => []TypeOK` | |
| | `KeptBroker` | `Spec => []BrokerHasKeeper` | |
| | `ImplementsBrokerLife` | `Spec => BrokerLifeSpec` | |
| | `AddonsBeforeBrokers` | `Spec => AddonsGoFirst` | |
| | `CleanUninstall` | `Spec => []UninstallIsClean` | the set cache is fresh (not in `Lagging`), nobody removes an annotation |
| `GatewayConfigProofs` | `GatewayTypeCorrect` | `Spec => []TypeOK` | |
| | `UninstallWaits` | `Spec => GatewaysOutliveSubmariner` | |
| | `NeverMoreThanWanted` | `Spec => NeverTooMany` | the node cache is fresh, users label no node |
| `StatusReportsProofs` | `ReportTypesCorrect` | `Spec => []TypeOK` | |
| | `NoReportIsLost` | `Spec => NoLostReport` | |
| `QuietReportsProofs` | `QuietReportsAreCurrent` | `Spec => []QuietMeansCurrent` | |
| `CloudPrepareProofs` | `PrepareAlways` | `Spec => []PrepareInv` | |
| | `CloudTypeCorrect` | `Spec => []TypeOK` | |
| | `PortsAlwaysFit` | `Spec => []PortsFitNetwork` | |
| | `ReportsAreTrue` | `Spec => PreparedIsTrue` | |
| | `CleanUpComesLast` | `Spec => CloudOutlivesSubmariner` | |
| `BrokerNames` | `BrokerNameFits`, `BrokersShared` | what `GenerateBrokerName` returns, and when it is the same | |
| | `ShortNamesApart` | a name shares its broker with no other, of whatever length | it has at most 51 characters |
| | `PrefixedNamesShare` | five more characters in front give the same broker | the name has 52 to 56 characters |

**The agent controller.** None of the properties is inductive: they speak of the
step that takes something away, and that step's guard is a place in a sync, not a
fact about the API server. The invariants say what the worker *knows* at each
place: that after it has listed one ServiceAccount there is no other
(`CredentialInv`), that after it found the CR work gone or gave up on it the work
is gone or overdue (`WorksInv`), that a deploy has a finalizer (`FinalizerInv`),
and that a CR work or a deploy past the credential has a ServiceAccount
(`CrWorkInv`). Each is preserved because only the worker itself could falsify it:
nobody else creates ServiceAccounts or works, and an add-on with our finalizer
does not go away. The lemmas `...Step` prove this, one step per action. `...Moves`
lemmas list the actions that can change a layer at all; `RefinementStep` then
shows that each of them is a `Push` or `Pop` of `LayeredInstall`, and all others
are stutters (`LayersStay`). The assumptions on the caches are not for
convenience: without them the properties are false (section 3).

`NoOrphanOperator` and `NoOrphanRoleBinding` are what the code breaks in the runs
`agent_overdue` and `agent_rolebinding`. `OperatorGoes` and `RoleBindingGoes` say
in which circumstances it keeps them, and so what the cause of each finding is:
with fresh caches, an operator work is orphaned only by a wait that is given up, a
RoleBinding only by a call that fails, a restart or a set that is deleted.
The run `agent_rolebinding` shows the first of these, in a deploy.
`OperatorInv` puts every live operator work behind the finalizer, which no step
but the timeout undoes. `RoleBindingInv` gives every RoleBinding a ServiceAccount
by which the next clean-up finds it, but for the moment between the deletion of
the one and of the other. Its assumptions are strong, for the function does not
survive less.

**A fleet in one set.** `FleetAssumption` is the setting of the run `agent_fleet`
for any number of clusters: all of them are labelled with one set for as long as
they exist, no set is deleted, the work cache is fresh and no wait for a CR work
times out; add-on and cluster caches may be of any age. The last two conditions
are needed: a work cache that trails, or a wait given up, lets the clean-up go on
while the klusterlet still exports. `FleetInv` then says that what the worker
reads late is late on the safe side. A cached add-on that is live with the
finalizer still has it, and one that is cached as deleting can not be live with it
(`CachesKnow`); whatever there is of an installation is in that set and behind a
finalizer that the cache shows (`PartsKnown`); a clean-up runs only for a cluster
that is not kept, and has nothing left of it after `deleteResources`
(`CleanUpKnows`); and at `deleteGlobalnet` and `deleteBroker` no cluster of the
set is installed (`LastKnows`). Most steps only take parts away, which keeps all
of this at once (`ShrinkStep`); the others have a lemma each. `FleetInv` also
implies what the agent controller's proofs took from a fresh add-on cache
(`FleetFinalizers`), so that the refinement and `NoOrphanOperator` hold of a fleet
with old caches: the lemmas `RefinementStep` and `OperatorStep` are used again as
they are.

**The broker controller.** Sets come and go under one name, and the worker sees
them late. `KeeperInv` therefore relates what it sees to what there is: a set
seen live and claimed still has its finalizer (`KeeperSeen`), one seen being
deleted is not live and claimed again (`DeletionSeen`); so a deployment has a
keeper at each of its calls (`KeeperWhileDeploying`), and a clean-up that comes to
the finalizer has the broker behind it (`BrokerDownFirst`). The proof of
`KeeperStep` goes through the actions; `LifeStep` maps the four that raise
anything to the actions of `BrokerLife`, and `OthersLower` all others to
`TakeDown`. For `AddonsGoFirst`, `SeenInOrder` says that the worker sees the
ClusterManagementAddOn being deleted only after it is, and `OwedKnown` that an
add-on in `owed` is there and the informer still has it as owned; since `owed`
only shrinks once the uninstall was asked for, a sync that found none owned
goes on with `owed` empty until it ends.

`UninstallIsClean` (in the proof module, for no run checks it) is the opposite
end: once the ClusterManagementAddOn has gone no set has a broker, a signer or a
finalizer. `UninstallInv` says that a set with the finalizer has the annotation by
which the clean-up knows it (`HeldAnnotated`), and that a sync of the uninstall has
each such set before it or at hand (`NoneForgotten`), also when the clean-up of an
earlier one fails. Both assumptions are needed: section 8 has the case of a cache
that trails, and `HeldAnnotated` is what a user breaks who removes an annotation.

**The gateways.** `NeverTooMany` counts, and its count is not inductive while a
sync labels one node after the other. `RoomInv` strengthens it: the gateways
together with the nodes still to be labelled never outnumber the gateways wanted.
Nodes that leave make room (`RoomShrinks`), and labelling a node moves it from
one of the two to the other (`LabelsStepwise`). `SyncInv` supplies the rest: the
types, what each place of a sync knows, and that an uninstall which takes labels
has no CR behind it that was known when the add-on was deleted
(`UninstallAfter`): such a CR is in the informer until it goes (`known` implies
`crCache = "present"` where the CR's cache lags).

**The reports.** A writer puts back the whole status that it read. `CopyInv` says
that a copy which is not marked stale is the status, and a stale one is refused
with a conflict; so a write changes its writer's own conditions only (`CopyStep`).

`QuietMeansCurrent` speaks of a writer at rest; what makes it true is said of one
at work, and about the future of its sync. `PendingOf` says of a writer that is
not queued again: what its sync has found so far, together with what it would find
now in the objects it has yet to look at, is what is the case now. A read moves a
finding from the second part to the first (`ReadMoves`), the write makes it the
condition (`QuietOf`), and a change of an object either queues the writer
(`Announced`) or makes no difference to it (`Steady`, `FindsSame`). The objects
that are nobody's event are the reason why `QuietMeansCurrent` excepts two
findings. `LeftInv` keeps the list of a sync's objects in shape (the Submariner CR
comes last, since it decides whether globalnet is looked at after it),
`VersionInv` covers the condition that two writers share, and `AddonInv` an add-on
that was created again.

**The cloud.** `PrepareInv` says which step may be reached for which cluster
(`CheckedFirst`: past the version check the network type is known and supported),
what has been built by then (`BuiltSoFar`) and that a clean-up has behind it the
CR that was known (`CleansAfter`). That the network type in the sync's copy is the cluster's or
none (`OwnNetwork`), whoever wrote it, is what survives the race with the hub.

Only model-checked: the liveness properties and their fairness, which are out of
the prover's reach (`UninstallCompletes` of both controllers, `InstallConverges`,
`SetsDeletable`, `BrokerRises`, `GatewaysConverge`, `UninstallUnlabels`,
`ReportsSettle`, `CloudFollowsConfig`, `CloudCleared`). Every invariant and every
action property of a passing run is proved.

A caution for whoever extends the proofs: tlapm 1.4.5 translates two CASE
expressions with the same first arm into one term when they stand in one
obligation for Z3, which would let it prove what is false. The modules therefore
use IF where two such would meet, or state what an operator defined by CASE
amounts to once, as in lemma `Arms` of `QuietReportsProofs`.

## 10. Not modelled, and why

* Broker CRDs controller: one idempotent call for each of five CRDs, no state.
* AddOn agent: renders manifests and permissions for the addon-framework, which
  calls it; the framework is not part of the repository. Which registrations are
  approved is decided there too.
* Hub manager and spoke agent beyond what they fix for the models (workers,
  informers, resync periods): construction of clients and informers, the lease.
* The contents of manifests and ManifestWorks, what `brokerinfo.Get` computes for
  them, node placement, backup labels, metrics, events and logging: no control.
* Allocation of global CIDRs and the cloud-prepare steps: libraries outside the
  repository.
* A composition of the clean-ups on hub and spoke (part G): the code does not
  coordinate them, so that it would show what section 8 says already.
* A ClusterManagementAddOn that is installed again, and a set's annotation with
  another namespace.
* Generated clients, API types, command-line parsing.

## 11. Faults that the properties catch

Each property of a passing run is violated by at least one variant of the model
with a plausible fault, defined next to the action it replaces:

| module | fault | in place of | property |
|---|---|---|---|
| `AgentController` | `FinalizerOnly`: the last finalizer does not let the add-on go | `WithoutFinalizer` | `TypeOK` |
| | `DeleteErrorLost`: the error of a failed deletion is dropped | `DeleteRB` | `LayeredSpec` |
| | `OperatorAtOnce`: the operator goes before the CR | `CleanUpStart` | `OperatorOutlivesCR` |
| | `KeepSecret`: the token Secret is not deleted | `DeleteSecret` | `CleanRemoval` |
| | `AnyDeletedOfSet`: one deleted add-on is enough to drop the Broker | `LastOfSet` | `BrokerKept` |
| | `KeepResources`: exported resources are not deleted | `DeleteResources` | `NoLeftovers` |
| | `KeepOperator`: the operator work is not deleted | `DeleteOpWork` | `NoOrphanOperator` |
| | `NeverGivesUp`: no timeout | `SyncCleanUp` | `UninstallCompletes` |
| | `FirstStatusOnly`: the condition is written once | `BrokerApplied` | `InstallConverges` |
| `GatewayConfig` | `LabelBlindly`: a node that has left is written | `LabelNode` | `TypeOK` |
| | `IgnoreCurrent`: gateways that exist do not count | `Required` | `NeverTooMany` |
| | `SyncIfConfigChanged`: only a changed config is reconciled | `SyncConfig` | `GatewaysConverge` |
| | `CleanUpAtOnce`: no wait for the Submariner CR | `SyncCleanUp` | `GatewaysOutliveSubmariner` |
| | `CleanUpIfConfigChanged`: an unchanged config skips the clean-up | `SyncCleanUp` | `UninstallUnlabels` |
| `BrokerController` | `WithoutOneFinalizer`: only one copy of the finalizer is removed | `WithoutFinalizer` | `TypeOK` |
| | `DeployUnclaimed`: the broker is deployed without a claim | `Deploy` | `BrokerHasKeeper` |
| | `CleanUpAtOnce`: the set is let go with its broker up | `CleanUp` | `BrokerLifeSpec` |
| | `DeleteAddonsOnce`: add-ons being deleted are not waited for | `DeleteAllBrokers` | `AddonsGoFirst` |
| | `DeleteNamespaceOnce`: a namespace that has gone is an error | `DeleteNamespace` | `SetsDeletable`, `UninstallCompletes` |
| | `DeployOnce`: an interrupted deployment is not taken up | `Deploy` | `BrokerRises` |
| `StatusReports` | `PutUnseen`: a writer's own write outdates its next one | `Put` | `TypeOK` |
| | `PutBlindly`: a write without resource version | `Put` | `NoLostReport` |
| | `Forget`: a sync that failed is not re-queued | `Fail` | `QuietMeansCurrent` |
| | `ResyncOthers`: no resync for the connections | `Resync` | `ReportsSettle` |
| `CloudPrepare` | `DeployAgain`: a retry adds machines to those of the first try | `DeployGateways` | `TypeOK` |
| | `IgnoreVersion`: preparation goes on whatever the version | `ValidateOCPVersion` | `PortsFitNetwork` |
| | `ReportAnyway`: a failure is reported as a success | `ReportPrepared` | `PreparedIsTrue` |
| | `CleanUpAtOnce`: no wait for the Submariner CR | `SyncCleanUp` | `CloudOutlivesSubmariner` |
| | `SyncIfUnlabelled`: a changed config alone does nothing | `SyncConfig` | `CloudFollowsConfig` |
| | `CleanUpIfKnown`: a clean-up needs the config in memory | `SyncCleanUp` | `CloudCleared` |

## Running

    tlc -workers 2 -config agent_live.cfg MCAgent.tla
    tlapm AgentControllerProofs.tla

Each run ends within four minutes on two workers.
