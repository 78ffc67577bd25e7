----------------------------- MODULE StatusReports -----------------------------
(***************************************************************************)
(* The conditions of the submariner ManagedClusterAddOn and who writes     *)
(* them. On the managed cluster (pkg/spoke/submarineragent):               *)
(*                                                                         *)
(*   "gateways"     gatewaysStatusController: which nodes are gateways     *)
(*   "version"      validateOCPVersion of the config controller            *)
(*   "deployment"   deploymentStatusController: what is not running        *)
(*   "connections"  connectionsStatusController: what is not connected     *)
(*                                                                         *)
(* and on the hub "broker", updateManagedClusterAddOnStatus. Each looks at *)
(* objects in its informers' caches one after the other, then gets the     *)
(* add-on, changes its own conditions in the whole status and writes that  *)
(* back (addon.UpdateStatus), again if another writer was faster. The      *)
(* first two share a condition.                                            *)
(*                                                                         *)
(* The objects are modelled as the caches have them. A condition is the    *)
(* set of its findings; one without findings is good news.                 *)
(***************************************************************************)
EXTENDS FiniteSets, Naturals, Sequences

CONSTANTS
    Nodes,       \* nodes of the managed cluster
    Workers,     \* those with the worker label
    Gateways,    \* gateways in the status of the Submariner CR
    Teams,       \* the sets of writers that may run in one behaviour
    Moving,      \* the objects that may change
    MaxChanges,  \* bound: how often objects and the add-on change
    Outage       \* whether calls may fail and processes restart: {} or {"on"}

Writers == {"gateways", "version", "deployment", "connections", "broker"}
Types   == {"GatewayNodesLabeled", "AgentDegraded", "ConnectionDegraded",
            "RouteAgentConnectionDegraded", "BrokerCfgApplied"}

Deployments == {"operator", "lighthouse_agent", "lighthouse_coredns"}
DaemonSets  == {"gateway", "routeagent", "metricsproxy", "globalnet"}
Named       == Deployments \cup DaemonSets
                  \cup {"subscription", "submariner", "endpoints", "broker"}
Objects     == Named \cup Nodes \cup Gateways

ASSUME ReportsAssumption ==
    /\ Workers \subseteq Nodes /\ Workers # {}
    /\ Nodes \cap Gateways = {} /\ Named \cap (Nodes \cup Gateways) = {}
    /\ Teams \subseteq SUBSET Writers
    /\ Moving \subseteq Objects
    /\ MaxChanges \in Nat
    /\ Outage \in {{}, {"on"}}

(* A gateway is "passive", or active with the connections it names; the    *)
(* endpoints are those the RouteAgents reach, "unseen" before the informer *)
(* has listed them.                                                        *)
States(o) ==
    CASE o \in Deployments    -> {"none", "unavailable", "up"}
      [] o \in DaemonSets     -> {"none", "unscheduled", "unavailable", "up"}
      [] o \in Nodes          -> {"", "true", "other"}
      [] o \in Gateways       -> {"passive", "none", "connected", "unconnected"}
      [] o = "subscription"   -> {"none", "pending", "installed"}
      [] o = "submariner"     -> {"none", "plain", "globalCIDR"}
      [] o = "endpoints"      -> {"unseen", "none", "Connected", "error"}
      [] o = "broker"         -> {"none", "live"}

AllStates == UNION {States(o) : o \in Objects}
Findings  == (Objects \cup {"ocp"}) \X (AllStates \cup {"unsupported"})
Absent    == {<<"", "absent">>}   \* the condition is not there
NoConds   == [t \in Types |-> Absent]
Nothing   == [t \in Types |-> {}]

VARIABLES
    team,      \* the writers that run in this behaviour; it never changes
    object,    \* the state of each object, as the informers' caches have it
    ocp,       \* whether the cluster's OCP version supports OVN-Kubernetes
    addon,     \* the ManagedClusterAddOn
    cond,      \* its conditions
    queued,    \* the writers with a key in their queue
    ctl,       \* where each writer is in a sync, and the sync's variables
    stale,     \* the writers whose copy of the add-on is no longer current
    outage,    \* calls may fail, and processes restart
    changes    \* how often objects and the add-on have changed

world == <<object, ocp, changes>>
vars  == <<team, world, addon, cond, queued, ctl, stale, outage>>

-----------------------------------------------------------------------------
(* What each writer finds, one operator for each function of the code.     *)

Found(o, bad) == IF object[o] \in bad THEN {<<o, object[o]>>} ELSE {}

CheckCSV == Found("subscription", {"pending"})
CheckDeployment(d) == Found(d, {"none", "unavailable"})
CheckDeployments == UNION {CheckDeployment(d) : d \in Deployments}

CheckGatewayDaemonSet      == Found("gateway", {"none", "unscheduled", "unavailable"})
CheckRouteAgentDaemonSet   == Found("routeagent", {"none", "unavailable"})
CheckMetricsProxyDaemonSet == Found("metricsproxy", {"none", "unscheduled", "unavailable"})
CheckGlobalnetDaemonSet    == Found("globalnet", {"none", "unscheduled", "unavailable"})
CheckDaemonSets ==
    CheckGatewayDaemonSet \cup CheckRouteAgentDaemonSet \cup CheckMetricsProxyDaemonSet

GlobalnetWanted == object["submariner"] = "globalCIDR"
CheckOptionals  == IF GlobalnetWanted THEN CheckGlobalnetDaemonSet ELSE {}

GatewayNodes == UNION {Found(n, {"true"}) : n \in Nodes}

CheckSubmarinerConnections ==
    IF \A g \in Gateways : object[g] \in {"passive", "none"}
    THEN {<<"submariner", "none">>}
    ELSE UNION {Found(g, {"connected", "unconnected"}) : g \in Gateways}
CheckRouteAgentConnections == Found("endpoints", {"error"})

UnsupportedVersion == IF ocp = "supported" THEN {} ELSE {<<"ocp", "unsupported">>}

BrokerMissing == Found("broker", {"none"})

-----------------------------------------------------------------------------
(* A sync: the objects it looks at, in order, and the conditions it sets.  *)

Own(w) ==
    CASE w \in {"gateways", "version"} -> {"GatewayNodesLabeled"}
      [] w = "deployment"  -> {"AgentDegraded"}
      [] w = "connections" -> {"ConnectionDegraded", "RouteAgentConnectionDegraded"}
      [] w = "broker"      -> {"BrokerCfgApplied"}

Reads(w) ==
    CASE w = "gateways"    -> <<"nodes">>
      [] w = "version"     -> <<"ocp">>
      [] w = "deployment"  -> <<"subscription", "operator", "lighthouse_agent",
                                "lighthouse_coredns", "gateway", "routeagent",
                                "metricsproxy", "submariner">>
      [] w = "connections" -> <<"submariner", "endpoints">>
      [] w = "broker"      -> <<"broker">>

(* What a read finds, and for which condition.                             *)
Finds(w, o) ==
    CASE o = "nodes"        -> GatewayNodes
      [] o = "ocp"          -> UnsupportedVersion
      [] o = "subscription" -> CheckCSV
      [] o \in Deployments  -> CheckDeployment(o)
      [] o = "gateway"      -> CheckGatewayDaemonSet
      [] o = "routeagent"   -> CheckRouteAgentDaemonSet
      [] o = "metricsproxy" -> CheckMetricsProxyDaemonSet
      [] o = "globalnet"    -> CheckGlobalnetDaemonSet
      [] o = "submariner"   -> IF w = "connections" THEN CheckSubmarinerConnections ELSE {}
      [] o = "endpoints"    -> CheckRouteAgentConnections
      [] o = "broker"       -> BrokerMissing

For(w, o) ==
    CASE w # "connections" -> CHOOSE t \in Own(w) : TRUE
      [] w = "connections" /\ o = "submariner" -> "ConnectionDegraded"
      [] w = "connections" /\ o = "endpoints"  -> "RouteAgentConnectionDegraded"

(* Without its Subscription, or its Submariner CR, a sync has nothing to   *)
(* say; nor has validateOCPVersion about a version that is supported.      *)
Ends(w, o) ==
    \/ w = "deployment" /\ o = "subscription" /\ object[o] = "none"
    \/ w = "connections" /\ o = "submariner" /\ object[o] = "none"
    \/ w = "version" /\ UnsupportedVersion = {}

Idle   == [pc |-> "idle", left |-> <<>>, found |-> Nothing, base |-> NoConds]
At(w, step) == w \in team /\ ctl[w].pc = step

Finish(w, requeue) ==
    /\ ctl' = [ctl EXCEPT ![w] = Idle]
    /\ queued' = IF requeue THEN queued \cup {w} ELSE queued
    /\ stale' = stale \ {w}

(* An error puts the key back into the queue. The hub only logs that it    *)
(* could not write the status; but a missing Broker is an error of its     *)
(* sync, as is an unsupported version, also when it has been reported.     *)
Retried(w) ==
    w = "version" \/ (w = "broker" /\ ctl[w].found["BrokerCfgApplied"] # {})
Forget(w) == Finish(w, FALSE)
Fail(w) == Finish(w, w # "broker" \/ Retried(w))
Done(w) == Finish(w, Retried(w))

Sync(w) ==
    /\ At(w, "idle") /\ w \in queued
    /\ queued' = queued \ {w}
    /\ ctl' = [ctl EXCEPT ![w] = [Idle EXCEPT !.pc = "sync", !.left = Reads(w)]]
    /\ UNCHANGED <<team, world, addon, cond, stale, outage>>

Read(w) ==
    /\ At(w, "sync") /\ ctl[w].left # <<>>
    /\ LET o == Head(ctl[w].left) IN
       IF Ends(w, o) THEN Finish(w, FALSE)
       ELSE /\ ctl' = [ctl EXCEPT
                 ![w].left = IF w = "deployment" /\ o = "submariner" /\ GlobalnetWanted
                             THEN <<"globalnet">> ELSE Tail(@),
                 ![w].found[For(w, o)] = @ \cup Finds(w, o)]
            /\ UNCHANGED <<queued, stale>>
    /\ UNCHANGED <<team, world, addon, cond, outage>>

-----------------------------------------------------------------------------
(* addon.UpdateStatus. An add-on that is not there, and a status that is   *)
(* already right, need no update.                                          *)

WithConditions(w, status) ==
    [t \in Types |-> IF t \in Own(w) THEN ctl[w].found[t] ELSE status[t]]

Get(w) ==
    /\ At(w, "sync") /\ ctl[w].left = <<>>
    /\ \/ /\ addon = "none" \/ WithConditions(w, cond) = cond
          /\ Done(w)
       \/ /\ addon # "none" /\ WithConditions(w, cond) # cond
          /\ ctl' = [ctl EXCEPT ![w].pc = "put", ![w].base = cond]
          /\ UNCHANGED <<queued, stale>>
       \/ outage /\ Fail(w)
    /\ UNCHANGED <<team, world, addon, cond, outage>>

(* The write makes every other copy that was read before it stale. During  *)
(* an outage it may be lost, or only the answer to it.                     *)
Writing == {w \in team : ctl[w].pc = "put"}
Write(w) == cond' = WithConditions(w, ctl[w].base)

PutBlindly(w) ==
    /\ At(w, "put") /\ addon # "none"
    /\ Write(w) /\ Done(w)
    /\ UNCHANGED <<team, world, addon, outage>>

PutUnseen(w) ==
    /\ At(w, "put") /\ w \notin stale /\ addon # "none"
    /\ Write(w) /\ ctl' = [ctl EXCEPT ![w] = Idle]
    /\ stale' = Writing
    /\ UNCHANGED <<team, world, addon, queued, outage>>

Put(w) ==
    /\ At(w, "put") /\ w \notin stale /\ addon # "none"
    /\ Write(w) /\ ctl' = [ctl EXCEPT ![w] = Idle]
    /\ stale' = Writing \ {w}
    /\ queued' \in {IF failed THEN queued \cup {w} ELSE queued :
                      failed \in {Retried(w), Retried(w) \/ (outage /\ w # "broker")}}
    /\ UNCHANGED <<team, world, addon, outage>>

(* After a conflict it starts over with a new copy, a few times.           *)
Conflict(w) ==
    /\ At(w, "put") /\ w \in stale /\ addon # "none"
    /\ \/ /\ ctl' = [ctl EXCEPT ![w].pc = "sync", ![w].base = NoConds]
          /\ stale' = stale \ {w}
          /\ UNCHANGED queued
       \/ Fail(w)
    /\ UNCHANGED <<team, world, addon, cond, outage>>

PutFails(w) ==
    /\ At(w, "put") /\ (outage \/ addon = "none")
    /\ Fail(w)
    /\ UNCHANGED <<team, world, addon, cond, outage>>

-----------------------------------------------------------------------------
(* The informers: a change of an object, and every ten minutes each object *)
(* that exists, queues the writers that handle it. Nobody handles the      *)
(* RouteAgents, and on the hub nobody handles the Broker; of the nodes,    *)
(* only the workers are handled.                                           *)

GatewaysHandles(o)    == o \in Workers
DeploymentHandles(o)  == o \in Deployments \cup DaemonSets \cup Gateways
                                \cup {"subscription", "submariner"}
ConnectionsHandles(o) == o \in Gateways \cup {"submariner"}

Handlers(o) ==
    {w \in team : \/ w = "gateways" /\ GatewaysHandles(o)
                  \/ w = "deployment" /\ DeploymentHandles(o)
                  \/ w = "connections" /\ ConnectionsHandles(o)}

(* Only objects that a writer of the team looks at need to change.         *)
Looks(w) ==
    CASE w = "gateways"    -> Nodes
      [] w = "version"     -> {}
      [] w = "deployment"  -> Deployments \cup DaemonSets \cup {"subscription", "submariner"}
      [] w = "connections" -> Gateways \cup {"submariner", "endpoints"}
      [] w = "broker"      -> {"broker"}

Change(o) ==
    /\ o \in Moving /\ \E w \in team : o \in Looks(w)
    /\ changes < MaxChanges
    /\ o \in Gateways => object["submariner"] # "none"
    /\ \E x \in States(o) \ {object[o], "unseen"} : object' = [object EXCEPT ![o] = x]
    /\ queued' = queued \cup Handlers(o)
    /\ changes' = changes + 1
    /\ UNCHANGED <<team, ocp, addon, cond, ctl, stale, outage>>

ResyncOthers(w) ==
    /\ At(w, "idle") /\ w \notin queued /\ w # "connections"
    /\ queued' = queued \cup {w}
    /\ UNCHANGED <<team, world, addon, cond, ctl, stale, outage>>

Resync(w) ==
    /\ At(w, "idle") /\ w \notin queued
    /\ w = "connections" => object["submariner"] # "none"
    /\ queued' = queued \cup {w}
    /\ UNCHANGED <<team, world, addon, cond, ctl, stale, outage>>

UpgradeOCP ==
    /\ ocp = "unsupported" /\ ocp' = "supported"
    /\ queued' = queued \cup ({"version"} \cap team)
    /\ UNCHANGED <<team, object, changes, addon, cond, ctl, stale, outage>>

(* Only the config controller and the hub handle the add-on itself.        *)
DeleteAddon ==
    /\ addon = "live" /\ changes < MaxChanges
    /\ addon' = "none" /\ cond' = NoConds /\ stale' = Writing
    /\ queued' = queued \cup ({"version", "broker"} \cap team)
    /\ changes' = changes + 1
    /\ UNCHANGED <<team, object, ocp, ctl, outage>>

CreateAddon ==
    /\ addon = "none" /\ addon' = "live"
    /\ queued' = queued \cup ({"version", "broker"} \cap team)
    /\ UNCHANGED <<team, world, cond, ctl, stale, outage>>

(* The two processes. The informer of the RouteAgents is the only one that *)
(* no controller waits for when it starts.                                 *)
Restart(process) ==
    /\ outage
    /\ ctl' = [w \in Writers |-> IF w \in process THEN Idle ELSE ctl[w]]
    /\ queued' = queued \cup (process \cap team)
    /\ stale' = stale \ process
    /\ object' = IF "connections" \in process
                 THEN [object EXCEPT !["endpoints"] = "unseen"] ELSE object
    /\ UNCHANGED <<team, ocp, changes, addon, cond, outage>>

ListEndpoints ==
    /\ "connections" \in team /\ object["endpoints"] = "unseen"
    /\ \E x \in States("endpoints") \ {"unseen"} :
          object' = [object EXCEPT !["endpoints"] = x]
    /\ UNCHANGED <<team, ocp, changes, addon, cond, queued, ctl, stale, outage>>

OutageEnds ==
    /\ outage /\ outage' = FALSE
    /\ UNCHANGED <<team, world, addon, cond, queued, ctl, stale>>

-----------------------------------------------------------------------------
Healthy(o) ==
    CASE o \in Deployments \cup DaemonSets -> "up"
      [] o \in Nodes -> "true"
      [] o \in Gateways -> "connected"
      [] o = "subscription" -> "installed"
      [] o = "submariner" -> "globalCIDR"
      [] o = "endpoints" -> "unseen"
      [] o = "broker" -> "live"

Init ==
    /\ team \in Teams
    /\ object = [o \in Objects |-> Healthy(o)]
    /\ ocp \in {"supported"} \cup (IF "version" \in team THEN {"unsupported"} ELSE {})
    /\ addon = "live" /\ cond = NoConds
    /\ queued = team
    /\ ctl = [w \in Writers |-> Idle]
    /\ stale = {}
    /\ outage = (Outage # {})
    /\ changes = 0

Step(w) == Sync(w) \/ Read(w) \/ Get(w) \/ Put(w) \/ Conflict(w) \/ PutFails(w)

Spoke == Writers \ {"broker"}

Next ==
    \/ \E w \in Writers : Step(w) \/ Resync(w)
    \/ \E o \in Objects : Change(o)
    \/ UpgradeOCP \/ DeleteAddon \/ CreateAddon
    \/ Restart(Spoke) \/ Restart({"broker"})
    \/ ListEndpoints \/ OutageEnds

Spec == Init /\ [][Next]_vars

(* Each controller has one worker; all informers resync every ten minutes  *)
(* (spoke/agent.go, hub/manager.go).                                       *)
Fairness ==
    /\ \A w \in Writers : WF_vars(Step(w) \/ Resync(w))
    /\ WF_vars(ListEndpoints) /\ WF_vars(OutageEnds)

FairSpec == Spec /\ Fairness

-----------------------------------------------------------------------------
(* Properties                                                              *)

TypeOK ==
    /\ team \in Teams
    /\ \A o \in Objects : object[o] \in States(o)
    /\ ocp \in {"supported", "unsupported"}
    /\ addon \in {"live", "none"}
    /\ \A t \in Types : cond[t] = Absent \/ cond[t] \subseteq Findings
    /\ queued \subseteq team
    /\ \A w \in Writers : /\ ctl[w].pc \in {"idle", "sync", "put"}
                           /\ ctl[w].pc = "put" => ctl[w].left = <<>>
    /\ stale \subseteq Writing
    /\ outage \in BOOLEAN /\ changes \in 0..MaxChanges

(* What the condition would say if its writer looked at everything now.    *)
Current(t) ==
    CASE t = "GatewayNodesLabeled" -> GatewayNodes
      [] t = "AgentDegraded" ->
            CheckCSV \cup CheckDeployments \cup CheckDaemonSets \cup CheckOptionals
      [] t = "ConnectionDegraded" -> CheckSubmarinerConnections
      [] t = "RouteAgentConnectionDegraded" -> CheckRouteAgentConnections
      [] t = "BrokerCfgApplied" -> BrokerMissing

Speaks(w) ==
    CASE w = "deployment"  -> object["subscription"] # "none"
      [] w = "connections" -> object["submariner"] # "none"
      [] OTHER             -> w # "version"

(* No writer undoes what another one wrote in between: a step changes the  *)
(* conditions of one writer only, although each writes the whole status    *)
(* (addon/update_status.go:26-64).                                         *)
NoLostReport ==
    [][\/ addon' # addon
       \/ \E w \in Writers : \A t \in Types \ Own(w) : cond'[t] = cond[t]]_vars

(* As long as nothing is queued, the conditions are about the objects as   *)
(* the caches have them, however the reads of a sync, the changes of the   *)
(* objects, lost writes and restarts were interleaved. Nodes that are not  *)
(* workers, the RouteAgents and the Broker are nobody's event, so what is  *)
(* said of them may be late until a resync; the version is only spoken of  *)
(* while it is not supported (gateways_controller.go:67,                   *)
(* deployment_controller.go:85, connections_controller.go:66, hub          *)
(* controller.go:183-236).                                                 *)
Shown(t, findings) ==
    IF t = "GatewayNodesLabeled"
    THEN {f \in findings : f[1] \in Workers} ELSE findings
QuietMeansCurrent ==
    \A w \in team \ {"version", "broker"} :
       At(w, "idle") /\ w \notin queued /\ Speaks(w) =>
          \A t \in Own(w) \ {"RouteAgentConnectionDegraded"} :
             \/ cond[t] = Absent
             \/ t = "GatewayNodesLabeled" /\ cond[t] = {<<"ocp", "unsupported">>}
             \/ Shown(t, cond[t]) = Shown(t, Current(t))

(* When the changes end, every condition comes to say what is the case,    *)
(* also what no event announces, and that of a cluster whose OCP version   *)
(* was upgraded (spoke/agent.go:146-160: the resync periods).              *)
ReportsSettle ==
    <>[](ocp = "supported") =>
       <>[](addon = "live" => \A w \in team : Speaks(w) =>
                                \A t \in Own(w) : cond[t] = Current(t))

=============================================================================
