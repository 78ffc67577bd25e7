---------------------------- MODULE GatewayConfig ----------------------------
(***************************************************************************)
(* The spoke's submarinerConfigController (pkg/spoke/submarineragent), on  *)
(* platforms that no cloud provider prepares: it keeps as many worker      *)
(* nodes labelled as gateways as the SubmarinerConfig asks for, reports    *)
(* which ones in a condition of the SubmarinerConfig, and takes its labels *)
(* back when the add-on is uninstalled.                                    *)
(*                                                                         *)
(* A sync reads the node cache once to decide whether to work, once more   *)
(* to choose nodes, and then writes node by node. Nodes come and go, users *)
(* label nodes and edit the SubmarinerConfig, and the hub uninstalls, in   *)
(* between. An update of a node that another actor changed since the cache *)
(* last saw it is retried on the fresh node.                               *)
(*                                                                         *)
(* All nodes are workers; of a SubmarinerConfig's spec only the number of  *)
(* gateways and the NAT-T port are kept, the rest never changes.           *)
(***************************************************************************)
EXTENDS FiniteSets, Integers

CONSTANTS
    Nodes,     \* worker nodes
    Ports,     \* values of IPSecNATTPort
    Wants,     \* values of gateways that the users ask for
    NoPort,    \* a node without the port label
    NoConfig,  \* no lastKnownConfig
    Lagging,   \* what the informers may have an old copy of: nodes, "submariner"
    Events     \* optional environment events of this instance

Config == [gateways : Wants, port : Ports]

ASSUME ConstAssumption ==
    /\ IsFiniteSet(Nodes) /\ Wants \subseteq Nat
    /\ NoPort \notin Ports /\ NoConfig \notin Config
    /\ Lagging \subseteq Nodes \cup {"submariner"}
    /\ Events \subseteq {"apiError", "churn", "users", "hub"}

VARIABLES
    node,        \* worker nodes in the spoke's API server
    nodeCache,   \* the node informer's copy
    config,      \* spec of the SubmarinerConfig
    cond,        \* its condition SubmarinerGatewaysLabeled
    addon,       \* the ManagedClusterAddOn
    submariner,  \* whether a Submariner CR exists
    crCache,     \* the CR informer's copy, "former" if of one that has gone
    known,       \* history: the informer had the CR when the add-on was deleted
    lastKnown,   \* lastKnownConfig, in memory
    ctl,         \* where the worker is in a sync, and the sync's variables
    outage       \* API calls may fail, and the process may restart

env  == <<config, addon, submariner, crCache, known, outage>>
vars == <<node, nodeCache, cond, lastKnown, ctl, env>>

-----------------------------------------------------------------------------
NodeState == [up : BOOLEAN, gw : BOOLEAN, mark : BOOLEAN,
              port : Ports \cup {NoPort}]
Down  == [up |-> FALSE, gw |-> FALSE, mark |-> FALSE, port |-> NoPort]
Plain == [Down EXCEPT !.up = TRUE]

(* mark: the annotation submariner.io/random-gateway-node.                 *)

Condition == [st : {"none", "success", "insufficient", "invalid", "failure",
                    "deleted"},
              names : SUBSET Nodes]
Why(st) == [st |-> st, names |-> {}]

Idle == [pc |-> "idle", cfg |-> NoConfig, uninstall |-> FALSE,
         todo |-> {}, fresh |-> {}, names |-> {}, failed |-> FALSE]

Init ==
    /\ node = [n \in Nodes |-> Plain] /\ nodeCache = node
    /\ config \in Config
    /\ cond = Why("none")
    /\ addon = "live" /\ submariner = FALSE /\ crCache = "absent" /\ known = FALSE
    /\ lastKnown = NoConfig
    /\ ctl = Idle
    /\ outage = ("apiError" \in Events)

NodeLister == [n \in Nodes |-> IF n \in Lagging THEN nodeCache[n] ELSE node[n]]
Labelled(view) == {n \in Nodes : view[n].gw}

IsSubmarinerCRPresent ==
    IF "submariner" \in Lagging THEN crCache # "absent" ELSE submariner

At(step) == ctl.pc = step
Return   == ctl' = Idle

-----------------------------------------------------------------------------
(* Some definitions below come after a variant that no operator uses: the   *)
(* same code with one fault in it (SyncIfConfigChanged, CleanUpAtOnce,     *)
(* CleanUpIfConfigChanged, IgnoreCurrent, LabelBlindly). README.md says    *)
(* which property each of these faults breaks.                             *)

-----------------------------------------------------------------------------
(* sync and syncConfig, up to the first API call. The OCP version is taken *)
(* for supported; CloudPrepare has validateOCPVersion.                     *)

NeedsGatewayReconciliation ==
    config.gateways >= 1 /\ Cardinality(Labelled(NodeLister)) # config.gateways

SkipSyncingUnchangedConfig == lastKnown = config

SyncIfConfigChanged ==
    /\ At("idle") /\ addon = "live"
    /\ ~SkipSyncingUnchangedConfig
    /\ ctl' = [Idle EXCEPT !.pc = "prepare", !.cfg = config]
    /\ UNCHANGED <<node, nodeCache, cond, lastKnown, env>>

SyncConfig ==
    /\ At("idle") /\ addon = "live"
    /\ NeedsGatewayReconciliation \/ ~SkipSyncingUnchangedConfig
    /\ ctl' = [Idle EXCEPT !.pc = "prepare", !.cfg = config]
    /\ UNCHANGED <<node, nodeCache, cond, lastKnown, env>>

(* An add-on that is being deleted: clean up once the lister has no        *)
(* Submariner CR. removeAllGateways unlabels the gateways the lister has;  *)
(* one that it has without the annotation was labelled by a user, and is   *)
(* left alone.                                                             *)
OwnGateways(S) == {n \in S : NodeLister[n].mark}

CleanUpAtOnce ==
    /\ At("idle") /\ addon = "deleting"
    /\ ctl' = [Idle EXCEPT !.pc = "unlabel", !.uninstall = TRUE, !.cfg = config,
                           !.todo = OwnGateways(Labelled(NodeLister))]
    /\ UNCHANGED <<node, nodeCache, cond, lastKnown, env>>

CleanUpIfConfigChanged ==
    /\ At("idle") /\ addon = "deleting" /\ ~IsSubmarinerCRPresent
    /\ ~SkipSyncingUnchangedConfig
    /\ ctl' = [Idle EXCEPT !.pc = "unlabel", !.uninstall = TRUE, !.cfg = config,
                           !.todo = OwnGateways(Labelled(NodeLister))]
    /\ UNCHANGED <<node, nodeCache, cond, lastKnown, env>>

SyncCleanUp ==
    /\ At("idle") /\ addon = "deleting" /\ ~IsSubmarinerCRPresent
    /\ ctl' = [Idle EXCEPT !.pc = "unlabel", !.uninstall = TRUE, !.cfg = config,
                           !.todo = OwnGateways(Labelled(NodeLister))]
    /\ UNCHANGED <<node, nodeCache, cond, lastKnown, env>>

(* prepareForSubmariner without a provider: report that the environment is *)
(* prepared, then ensure the gateways.                                     *)
Prepare ==
    /\ At("prepare")
    /\ ctl' = [ctl EXCEPT !.pc = "ensure"]
    /\ UNCHANGED <<node, nodeCache, cond, lastKnown, env>>

-----------------------------------------------------------------------------
(* ensureGateways                                                          *)

Current  == Labelled(NodeLister)
IgnoreCurrent == ctl.cfg.gateways
Required == ctl.cfg.gateways - Cardinality(Current)

InvalidInput ==
    /\ At("ensure") /\ ctl.cfg.gateways < 1
    /\ ctl' = [ctl EXCEPT !.pc = "label"]
    /\ UNCHANGED <<node, nodeCache, cond, lastKnown, env>>

(* The number is right: see to it that the gateways are fully labelled.    *)
FullyLabelled(n) == NodeLister[n].gw /\ NodeLister[n].port = ctl.cfg.port

KeepGateways ==
    /\ At("ensure") /\ ctl.cfg.gateways >= 1 /\ Required = 0
    /\ ctl' = [ctl EXCEPT !.pc = "label", !.names = Current,
                          !.todo = {n \in Current : ~FullyLabelled(n)}]
    /\ UNCHANGED <<node, nodeCache, cond, lastKnown, env>>

(* findGatewaysWithZone: the zone label is the empty one, so that all       *)
(* workers are of one zone, and any of them may be taken.                  *)
Workers == {n \in Nodes : NodeLister[n].up /\ ~NodeLister[n].gw}

AddGateways ==
    /\ At("ensure") /\ ctl.cfg.gateways >= 1 /\ Required > 0
    /\ \E S \in SUBSET Workers :
          /\ IF Cardinality(Workers) < Required THEN S = {}
             ELSE Cardinality(S) = Required
          /\ ctl' = [ctl EXCEPT !.pc = "label",
                                !.todo = S, !.fresh = S, !.names = S]
    /\ UNCHANGED <<node, nodeCache, cond, lastKnown, env>>

RemoveGateways ==
    /\ At("ensure") /\ ctl.cfg.gateways >= 1 /\ Required < 0
    /\ \E S \in SUBSET Current :
          /\ Cardinality(S) = -Required
          /\ ctl' = [ctl EXCEPT !.pc = "unlabel", !.names = Current \ S,
                                !.todo = OwnGateways(S)]
    /\ UNCHANGED <<node, nodeCache, cond, lastKnown, env>>

(* labelNode writes to the fresh node, but adds the gateway label and the  *)
(* annotation if the node that the lister had was without (fresh).         *)
Gateway(n) ==
    IF n \in ctl.fresh
    THEN [node[n] EXCEPT !.gw = TRUE, !.mark = TRUE, !.port = ctl.cfg.port]
    ELSE [node[n] EXCEPT !.port = ctl.cfg.port]

LabelBlindly(n) ==
    /\ At("label") /\ n \in ctl.todo
    /\ node' = [node EXCEPT ![n] = Gateway(n)]
    /\ ctl' = [ctl EXCEPT !.todo = @ \ {n}]
    /\ UNCHANGED <<nodeCache, cond, lastKnown, env>>

LabelNode(n) ==
    /\ At("label") /\ n \in ctl.todo
    /\ node' = IF node[n].up THEN [node EXCEPT ![n] = Gateway(n)] ELSE node
    /\ ctl' = [ctl EXCEPT !.todo = @ \ {n}]
    /\ UNCHANGED <<nodeCache, cond, lastKnown, env>>

(* unlabelNode looks for the annotation on the fresh node as well.         *)
UnlabelNode(n) ==
    /\ At("unlabel") /\ n \in ctl.todo
    /\ node' = IF node[n].mark THEN [node EXCEPT ![n] = Plain] ELSE node
    /\ ctl' = [ctl EXCEPT !.todo = @ \ {n}]
    /\ UNCHANGED <<nodeCache, cond, lastKnown, env>>

(* A node that cannot be updated is an error in the end, but the others    *)
(* are still done. One that has left may be an error, or be ignored.       *)
UpdateNodeFails(n) ==
    /\ n \in ctl.todo
    /\ outage \/ ~node[n].up
    /\ ctl' = [ctl EXCEPT !.todo = @ \ {n}, !.failed = TRUE]
    /\ UNCHANGED <<node, nodeCache, cond, lastKnown, env>>

-----------------------------------------------------------------------------
(* updateSubmarinerConfigStatus; an error of the sync is returned after it *)
Outcome ==
    IF ctl.failed                THEN Why("failure")
    ELSE IF ctl.uninstall        THEN Why("deleted")
    ELSE IF ctl.cfg.gateways < 1 THEN Why("invalid")
    ELSE IF ctl.names = {}       THEN Why("insufficient")
    ELSE [st |-> "success", names |-> ctl.names]

Report ==
    /\ At("label") \/ At("unlabel")
    /\ ctl.todo = {}
    /\ cond' = Outcome
    /\ lastKnown' = IF Outcome # cond /\ Outcome.st = "success"
                    THEN ctl.cfg ELSE lastKnown
    /\ Return
    /\ UNCHANGED <<node, nodeCache, env>>

(* A call other than a node update fails: the sync ends.                   *)
Abort ==
    /\ outage
    /\ \/ At("prepare")
       \/ (At("label") \/ At("unlabel")) /\ ctl.todo = {}
    /\ Return
    /\ UNCHANGED <<node, nodeCache, cond, lastKnown, env>>

Restart ==
    /\ outage
    /\ Return /\ lastKnown' = NoConfig
    /\ UNCHANGED <<node, nodeCache, cond, env>>

-----------------------------------------------------------------------------
(* The environment                                                         *)

SetConfig ==
    /\ \E c \in Config \ {config} : config' = c
    /\ UNCHANGED <<node, nodeCache, cond, lastKnown, ctl,
                   addon, submariner, crCache, known, outage>>

NodeJoins(n) ==
    /\ "churn" \in Events /\ ~node[n].up
    /\ node' = [node EXCEPT ![n] = Plain]
    /\ UNCHANGED <<nodeCache, cond, lastKnown, ctl, env>>

NodeLeaves(n) ==
    /\ "churn" \in Events /\ node[n].up
    /\ node' = [node EXCEPT ![n] = Down]
    /\ UNCHANGED <<nodeCache, cond, lastKnown, ctl, env>>

UserTogglesLabel(n) ==
    /\ "users" \in Events /\ node[n].up
    /\ node' = [node EXCEPT ![n].gw = ~@]
    /\ UNCHANGED <<nodeCache, cond, lastKnown, ctl, env>>

ObserveNode(n) ==
    /\ n \in Lagging /\ nodeCache[n] # node[n]
    /\ nodeCache' = [nodeCache EXCEPT ![n] = node[n]]
    /\ UNCHANGED <<node, cond, lastKnown, ctl, env>>

(* The hub hands the CR to the klusterlet, which applies it when it comes  *)
(* to it, also after the add-on's deletion was asked for; and takes it     *)
(* away again, without telling when.                                       *)
SubmarinerComes ==
    /\ "hub" \in Events
    /\ ~submariner /\ submariner' = TRUE
    /\ UNCHANGED <<node, nodeCache, cond, lastKnown, ctl,
                   config, addon, crCache, known, outage>>

SubmarinerGoes ==
    /\ submariner /\ submariner' = FALSE /\ known' = FALSE
    /\ crCache' = IF crCache = "present" THEN "former" ELSE crCache
    /\ UNCHANGED <<node, nodeCache, cond, lastKnown, ctl, config, addon, outage>>

(* The informer tells of the end of one CR before the next one.            *)
ObserveSubmariner ==
    /\ "submariner" \in Lagging
    /\ \/ crCache = "former" /\ crCache' = "absent"
       \/ crCache = "absent" /\ submariner /\ crCache' = "present"
    /\ UNCHANGED <<node, nodeCache, cond, lastKnown, ctl,
                   config, addon, submariner, known, outage>>

HasCurrentCR ==
    IF "submariner" \in Lagging THEN crCache = "present" ELSE submariner

(* The hub drops the add-on without waiting for this controller.           *)
DeleteAddon ==
    /\ "hub" \in Events
    /\ addon = "live" /\ addon' = "deleting" /\ known' = HasCurrentCR
    /\ UNCHANGED <<node, nodeCache, cond, lastKnown, ctl,
                   config, submariner, crCache, outage>>

AddonGoes ==
    /\ addon = "deleting" /\ addon' = "absent"
    /\ UNCHANGED <<node, nodeCache, cond, lastKnown, ctl,
                   config, submariner, crCache, known, outage>>

OutageEnds ==
    /\ outage /\ outage' = FALSE
    /\ UNCHANGED <<node, nodeCache, cond, lastKnown, ctl,
                   config, addon, submariner, crCache, known>>

-----------------------------------------------------------------------------
Controller ==
    \/ SyncConfig \/ SyncCleanUp \/ Prepare
    \/ InvalidInput \/ KeepGateways \/ AddGateways \/ RemoveGateways
    \/ \E n \in Nodes : LabelNode(n) \/ UnlabelNode(n) \/ UpdateNodeFails(n)
    \/ Report \/ Abort

Hub == SubmarinerComes \/ DeleteAddon \/ SubmarinerGoes \/ AddonGoes

Cluster ==
    \/ \E n \in Nodes : \/ NodeJoins(n) \/ NodeLeaves(n) \/ UserTogglesLabel(n)
                        \/ ObserveNode(n)
    \/ ObserveSubmariner \/ OutageEnds

Next == Controller \/ Restart \/ SetConfig \/ Hub \/ Cluster

Spec == Init /\ [][Next]_vars

(* The one worker never stops: the informers re-send every object each ten *)
(* minutes, and each change of a node or of the SubmarinerConfig queues it *)
(* at once. Watches make progress and outages end. Nobody else has to act. *)
Fairness ==
    /\ WF_vars(Controller)
    /\ WF_vars(OutageEnds) /\ WF_vars(ObserveSubmariner)
    /\ \A n \in Nodes : WF_vars(ObserveNode(n))

FairSpec == Spec /\ Fairness

-----------------------------------------------------------------------------
(* Properties                                                              *)

(* Types; a node that has left holds nothing.                              *)
TypeOK ==
    /\ node \in [Nodes -> NodeState] /\ nodeCache \in [Nodes -> NodeState]
    /\ \A n \in Nodes : ~node[n].up => node[n] = Down
    /\ config \in Config /\ lastKnown \in Config \cup {NoConfig}
    /\ cond \in Condition
    /\ addon \in {"live", "deleting", "absent"} /\ submariner \in BOOLEAN
    /\ crCache \in {"absent", "present", "former"} /\ known \in BOOLEAN
    /\ outage \in BOOLEAN
    /\ ctl.pc \in {"idle", "prepare", "ensure", "label", "unlabel"}
    /\ ctl.cfg \in Config \cup {NoConfig} /\ (At("idle") <=> ctl.cfg = NoConfig)
    /\ ctl.uninstall \in BOOLEAN /\ ctl.failed \in BOOLEAN
    /\ ctl.todo \subseteq Nodes /\ ctl.names \subseteq Nodes
    /\ ctl.fresh \subseteq ctl.names

Gateways == Labelled(node)
Up == {n \in Nodes : node[n].up}

(* needsGatewayReconciliation and ensureGateways: once the add-on, the     *)
(* SubmarinerConfig and the set of nodes stay as they are, and there are   *)
(* enough nodes, the number of gateways becomes and stays the desired one, *)
(* whatever calls failed, nodes left or restarts happened before.          *)
GatewaysConverge ==
    \A U \in SUBSET Nodes : \A k \in 1..Cardinality(U) :
        <>[](addon = "live" /\ config.gateways = k /\ Up = U)
            => <>[](Cardinality(Gateways) = k)

(* addGateways: labelling never makes more gateways than were asked for,   *)
(* even when nodes leave and join while a sync labels them one by one.     *)
NeverTooMany ==
    [][Gateways' \ Gateways # {} =>
          Cardinality(Gateways') <= ctl.cfg.gateways]_vars

(* cleanupClusterEnvironment: a Submariner CR that the worker knew of when  *)
(* the uninstall was asked for keeps its gateways, on which its pods run,  *)
(* until it has gone, however late the informers of CR and nodes are and   *)
(* whatever other CRs come. One that the lister has not seen by then is    *)
(* not waited for, although config_controller.go:190-192 speaks of the CR. *)
GatewaysOutliveSubmariner ==
    [][ctl.uninstall /\ Gateways \ Gateways' # {} => ~known]_vars

(* removeAllGateways: while an uninstall lasts, no gateway label that      *)
(* Submariner put on a node stays there for ever.                          *)
UninstallUnlabels ==
    \A n \in Nodes :
        <>[](addon = "deleting" /\ ~submariner)
            => []<>~(node[n].gw /\ node[n].mark)

(* labelNode: once the SubmarinerConfig stays as it is, the gateways carry *)
(* its NAT-T port.                                                         *)
PortsFollowConfig ==
    \A c \in Config :
        <>[](addon = "live" /\ config = c)
            => <>[](\A n \in Gateways : node[n].port = c.port)

=============================================================================
