-------------------------- MODULE GatewayConfigProofs --------------------------
(***************************************************************************)
(* What holds of GatewayConfig for every set of nodes and every config,    *)
(* in the order of the argument:                                           *)
(*                                                                         *)
(*   1. the inductive invariant SyncInv, conjunct by conjunct;             *)
(*   2. it is inductive (ControlStep, NodesStep, WorldStep, UninstallStep, *)
(*      SyncInit);                                                         *)
(*   3. labelling keeps within the number asked for, if the node cache is  *)
(*      fresh (RoomShrinks, RoomStep, LabelsStepwise);                     *)
(*   4. the theorems.                                                      *)
(***************************************************************************)
EXTENDS GatewayConfig, FiniteSetTheorems, TLAPS

(* The worker: before it has chosen nodes it has none to write.            *)
Control == [pc : {"idle", "prepare", "ensure", "label", "unlabel"},
            cfg : Config \cup {NoConfig}, uninstall : BOOLEAN,
            todo : SUBSET Nodes, fresh : SUBSET Nodes, names : SUBSET Nodes,
            failed : BOOLEAN]

ControlOK ==
    /\ ctl \in Control
    /\ At("idle") <=> ctl.cfg = NoConfig
    /\ ctl.fresh \subseteq ctl.names
    /\ ctl.pc \in {"idle", "prepare", "ensure"} => ctl.todo = {} /\ ctl.fresh = {}

NodesOK ==
    /\ node \in [Nodes -> NodeState] /\ nodeCache \in [Nodes -> NodeState]
    /\ \A n \in Nodes : ~node[n].up => node[n] = Down

WorldOK ==
    /\ config \in Config /\ lastKnown \in Config \cup {NoConfig}
    /\ cond \in Condition
    /\ addon \in {"live", "deleting", "absent"} /\ submariner \in BOOLEAN
    /\ crCache \in {"absent", "present", "former"} /\ known \in BOOLEAN
    /\ outage \in BOOLEAN

(* The informer still has a CR that it had when the add-on was deleted, as  *)
(* long as that CR is there; an uninstall that has begun found none.       *)
UninstallAfter ==
    /\ known => HasCurrentCR
    /\ ctl.uninstall => addon # "live" /\ ~known

SyncInv == ControlOK /\ NodesOK /\ WorldOK /\ UninstallAfter

LEMMA InvTypes == SyncInv => TypeOK
  BY DEF SyncInv, ControlOK, NodesOK, WorldOK, TypeOK, Control

-----------------------------------------------------------------------------
(* Every action takes the worker from a well-formed point of a sync to     *)
(* another one: syncConfig, ensureGateways, updateSubmarinerConfigStatus.  *)
LEMMA ControlStep == SyncInv /\ [Next]_vars => ControlOK'
  <1> SUFFICES ASSUME SyncInv, [Next]_vars PROVE ControlOK'
    OBVIOUS
  <1>c. config \in Config /\ NoConfig \notin Config
    BY ConstAssumption DEF SyncInv, WorldOK, ConstAssumption
  <1>o. ControlOK
    BY DEF SyncInv
  <1>r. Return => ControlOK'
    BY DEF Return, ControlOK, Control, Idle, At
  <1> USE DEF ControlOK, Control, Idle, At
  <1>1. CASE SyncConfig
    BY <1>1, <1>c DEF SyncConfig
  <1>2. CASE SyncCleanUp
    <2>1. OwnGateways(Labelled(NodeLister)) \subseteq Nodes
      BY DEF OwnGateways, Labelled
    <2> QED BY <1>2, <1>c, <2>1 DEF SyncCleanUp
  <1>3. CASE Prepare
    BY <1>3, <1>o DEF Prepare
  <1>4. CASE InvalidInput
    BY <1>4, <1>o DEF InvalidInput
  <1>5. CASE KeepGateways
    <2>1. Current \subseteq Nodes
      BY DEF Current, Labelled
    <2> QED BY <1>5, <1>o, <2>1 DEF KeepGateways
  <1>6. CASE AddGateways
    <2>1. Workers \subseteq Nodes
      BY DEF Workers
    <2>2. PICK S \in SUBSET Workers :
             ctl' = [ctl EXCEPT !.pc = "label", !.todo = S, !.fresh = S, !.names = S]
      BY <1>6 DEF AddGateways
    <2>3. ctl.pc = "ensure" /\ S \subseteq Nodes
      BY <1>6, <2>1 DEF AddGateways
    <2> QED BY <1>o, <2>2, <2>3
  <1>7. CASE RemoveGateways
    <2>1. Current \subseteq Nodes
      BY DEF Current, Labelled
    <2>2. PICK S \in SUBSET Current :
             ctl' = [ctl EXCEPT !.pc = "unlabel", !.names = Current \ S,
                                !.todo = OwnGateways(S)]
      BY <1>7 DEF RemoveGateways
    <2>3. ctl.pc = "ensure" /\ OwnGateways(S) \subseteq Nodes /\ Current \ S \subseteq Nodes
      BY <1>7, <2>1 DEF RemoveGateways, OwnGateways
    <2> QED BY <1>o, <2>2, <2>3
  <1>8. ASSUME NEW n \in Nodes, LabelNode(n) \/ UnlabelNode(n) \/ UpdateNodeFails(n)
        PROVE  ControlOK'
    <2>1. ctl' = [ctl EXCEPT !.todo = @ \ {n}]
             \/ ctl' = [ctl EXCEPT !.todo = @ \ {n}, !.failed = TRUE]
      BY <1>8 DEF LabelNode, UnlabelNode, UpdateNodeFails
    <2> QED BY <2>1, <1>o
  <1>9. CASE Report \/ Abort \/ Restart
    BY <1>9, <1>r DEF Report, Abort, Restart
  <1>10. CASE SetConfig \/ Hub \/ Cluster \/ UNCHANGED vars
    <2>1. ctl' = ctl
      BY <1>10 DEF SetConfig, Hub, Cluster, vars, SubmarinerComes, DeleteAddon,
         SubmarinerGoes, AddonGoes, NodeJoins, NodeLeaves, UserTogglesLabel,
         ObserveNode, ObserveSubmariner, OutageEnds
    <2> QED BY <2>1, <1>o
  <1> QED
    BY <1>1, <1>2, <1>3, <1>4, <1>5, <1>6, <1>7, <1>8, <1>9, <1>10
       DEF Next, Controller

(* Nodes are written only while they are there, and a node that leaves      *)
(* takes its labels along: labelNode, unlabelNode.                         *)
LEMMA NodesStep == SyncInv /\ [Next]_vars => NodesOK'
  <1> SUFFICES ASSUME SyncInv, [Next]_vars PROVE NodesOK'
    OBVIOUS
  <1>o. NodesOK
    BY DEF SyncInv
  <1>p. Plain \in NodeState /\ Down \in NodeState /\ Plain.up
    BY DEF Plain, Down, NodeState
  <1>w. ASSUME NEW n \in Nodes, NEW x \in NodeState, ~x.up => x = Down,
               node' = [node EXCEPT ![n] = x], nodeCache' = nodeCache
        PROVE  NodesOK'
    BY <1>o, <1>w DEF NodesOK
  <1>1. ASSUME NEW n \in Nodes, LabelNode(n) PROVE NodesOK'
    <2>1. CASE ~node[n].up
      BY <1>1, <2>1, <1>o DEF LabelNode, NodesOK
    <2>2. CASE node[n].up
      <3>1. ctl.cfg \in Config
        BY <1>1 DEF LabelNode, SyncInv, ControlOK, Control, At
      <3>2. ctl.cfg.port \in Ports /\ node[n] \in NodeState
        BY <3>1, <1>o DEF Config, NodesOK
      <3>3. Gateway(n) \in NodeState /\ Gateway(n).up
        BY <3>2, <2>2 DEF Gateway, NodeState
      <3>4. node' = [node EXCEPT ![n] = Gateway(n)] /\ nodeCache' = nodeCache
        BY <1>1, <2>2 DEF LabelNode
      <3> HIDE DEF Gateway
      <3> QED BY <3>3, <3>4, <1>w
    <2> QED BY <2>1, <2>2
  <1>2. ASSUME NEW n \in Nodes, UnlabelNode(n) PROVE NodesOK'
    <2>1. CASE ~node[n].mark
      BY <1>2, <2>1, <1>o DEF UnlabelNode, NodesOK
    <2>2. CASE node[n].mark
      BY <1>2, <2>2, <1>p, <1>w DEF UnlabelNode
    <2> QED BY <2>1, <2>2
  <1>3. ASSUME NEW n \in Nodes, NodeJoins(n) \/ NodeLeaves(n) PROVE NodesOK'
    BY <1>3, <1>p, <1>w DEF NodeJoins, NodeLeaves
  <1>4. ASSUME NEW n \in Nodes, UserTogglesLabel(n) PROVE NodesOK'
    <2>1. node[n] \in NodeState /\ node[n].up
      BY <1>4, <1>o DEF NodesOK, UserTogglesLabel
    <2>2. [node[n] EXCEPT !.gw = ~@] \in NodeState /\ [node[n] EXCEPT !.gw = ~@].up
      BY <2>1 DEF NodeState
    <2>3. node' = [node EXCEPT ![n] = [node[n] EXCEPT !.gw = ~@]] /\ nodeCache' = nodeCache
      BY <1>4, <1>o DEF UserTogglesLabel, NodesOK
    <2> QED BY <2>2, <2>3, <1>w
  <1>5. ASSUME NEW n \in Nodes, ObserveNode(n) PROVE NodesOK'
    BY <1>5, <1>o DEF ObserveNode, NodesOK
  <1>6. CASE UNCHANGED <<node, nodeCache>>
    BY <1>6, <1>o DEF NodesOK
  <1>7. \/ UNCHANGED <<node, nodeCache>>
        \/ \E n \in Nodes : \/ LabelNode(n) \/ UnlabelNode(n) \/ ObserveNode(n)
                            \/ NodeJoins(n) \/ NodeLeaves(n) \/ UserTogglesLabel(n)
    BY DEF Next, Controller, Hub, Cluster, vars, SyncConfig, SyncCleanUp, Prepare,
       InvalidInput, KeepGateways, AddGateways, RemoveGateways, UpdateNodeFails,
       Report, Abort, Restart, SetConfig, SubmarinerComes, DeleteAddon,
       SubmarinerGoes, AddonGoes, ObserveSubmariner, OutageEnds
  <1> QED
    BY <1>1, <1>2, <1>3, <1>4, <1>5, <1>6, <1>7

-----------------------------------------------------------------------------
(* What the controller does to everything else.                            *)
LEMMA ControllerKeeps ==
    Controller \/ Restart => UNCHANGED env
  BY DEF Controller, Restart, SyncConfig, SyncCleanUp, Prepare,
     InvalidInput, KeepGateways, AddGateways, RemoveGateways, LabelNode,
     UnlabelNode, UpdateNodeFails, Report, Abort

(* The config, the condition and the hub's objects keep their types.       *)
LEMMA WorldStep == SyncInv /\ [Next]_vars => WorldOK'
  <1> SUFFICES ASSUME SyncInv, [Next]_vars PROVE WorldOK'
    OBVIOUS
  <1>o. WorldOK
    BY DEF SyncInv
  <1>1. CASE Report
    <2>1. ctl.names \subseteq Nodes /\ ctl.cfg \in Config \cup {NoConfig}
      BY DEF SyncInv, ControlOK, Control
    <2>2. Outcome \in Condition
      BY <2>1 DEF Outcome, Why, Condition
    <2>3. cond' \in Condition /\ lastKnown' \in Config \cup {NoConfig}
      <3> HIDE DEF Outcome
      <3> QED BY <1>1, <1>o, <2>1, <2>2 DEF Report, WorldOK
    <2> QED BY <1>1, <1>o, <2>3 DEF Report, WorldOK, env
  <1>2. CASE Restart
    BY <1>2, <1>o DEF Restart, WorldOK, env
  <1>3. CASE Controller /\ ~Report
    <2>1. UNCHANGED <<cond, lastKnown>>
      BY <1>3 DEF Controller, SyncConfig, SyncCleanUp, Prepare,
         InvalidInput, KeepGateways, AddGateways, RemoveGateways, LabelNode,
         UnlabelNode, UpdateNodeFails, Abort
    <2> QED BY <1>3, <1>o, <2>1, ControllerKeeps DEF WorldOK, env
  <1>4. CASE SetConfig
    BY <1>4, <1>o DEF SetConfig, WorldOK
  <1>5. CASE Hub
    BY <1>5, <1>o DEF Hub, SubmarinerComes, DeleteAddon, SubmarinerGoes,
       AddonGoes, HasCurrentCR, WorldOK
  <1>6. CASE Cluster
    BY <1>6, <1>o DEF Cluster, NodeJoins, NodeLeaves, UserTogglesLabel,
       ObserveNode, ObserveSubmariner, OutageEnds, WorldOK, env
  <1>7. CASE UNCHANGED vars
    BY <1>7, <1>o DEF vars, env, WorldOK
  <1> QED
    BY <1>1, <1>2, <1>3, <1>4, <1>5, <1>6, <1>7 DEF Next

(* Only a sync of a deleted add-on begins an uninstall, and it looks for   *)
(* the CR first; nothing but its end takes a known CR out of the cache.    *)
LEMMA UninstallStep == SyncInv /\ [Next]_vars => UninstallAfter'
  <1> SUFFICES ASSUME SyncInv, [Next]_vars PROVE UninstallAfter'
    OBVIOUS
  <1>o. UninstallAfter /\ ctl \in Control
    BY DEF SyncInv, ControlOK
  <1>1. CASE SyncCleanUp
    <2>1. HasCurrentCR => IsSubmarinerCRPresent
      BY DEF HasCurrentCR, IsSubmarinerCRPresent
    <2>2. ~known /\ addon = "deleting" /\ UNCHANGED <<addon, known>>
      BY <1>1, <1>o, <2>1 DEF SyncCleanUp, UninstallAfter, env
    <2> QED BY <2>2 DEF UninstallAfter
  <1>2. CASE (Controller \/ Restart) /\ ~SyncCleanUp
    <2>1. UNCHANGED <<addon, submariner, crCache, known>>
      BY <1>2, ControllerKeeps DEF env
    <2>2. (known => HasCurrentCR)'
      BY <1>o, <2>1 DEF UninstallAfter, HasCurrentCR
    <2>3. CASE SyncConfig \/ Report \/ Abort \/ Restart
      <3>1. SyncConfig => ~ctl'.uninstall
        BY DEF SyncConfig, Idle
      <3>2. Report \/ Abort \/ Restart => ctl' = Idle
        BY Zenon DEF Report, Abort, Restart, Return
      <3> QED BY <2>2, <2>3, <3>1, <3>2 DEF Idle, UninstallAfter
    <2>4. CASE AddGateways \/ RemoveGateways
      <3>1. ctl'.uninstall = ctl.uninstall
        BY <2>4, <1>o DEF AddGateways, RemoveGateways, Control
      <3> QED BY <1>o, <2>1, <2>2, <3>1 DEF UninstallAfter
    <2>5. CASE Prepare \/ InvalidInput \/ KeepGateways
               \/ \E n \in Nodes : LabelNode(n) \/ UnlabelNode(n) \/ UpdateNodeFails(n)
      <3>1. ctl'.uninstall = ctl.uninstall
        BY <2>5, <1>o DEF Prepare, InvalidInput, KeepGateways, LabelNode, UnlabelNode,
           UpdateNodeFails, Control
      <3> QED BY <1>o, <2>1, <2>2, <3>1 DEF UninstallAfter
    <2> QED BY <1>2, <2>3, <2>4, <2>5 DEF Controller
  <1>3. CASE SetConfig \/ Cluster \/ UNCHANGED vars
    <2>1. UNCHANGED <<ctl, addon, submariner, known>>
      BY <1>3 DEF SetConfig, Cluster, NodeJoins, NodeLeaves, UserTogglesLabel,
         ObserveNode, ObserveSubmariner, OutageEnds, vars, env
    <2>2. crCache' = crCache \/ ("submariner" \in Lagging /\ crCache # "present")
      BY <1>3 DEF SetConfig, Cluster, NodeJoins, NodeLeaves, UserTogglesLabel,
         ObserveNode, ObserveSubmariner, OutageEnds, vars, env
    <2> QED BY <1>o, <2>1, <2>2 DEF UninstallAfter, HasCurrentCR
  <1>4. CASE Hub
    <2>1. CASE SubmarinerComes \/ AddonGoes
      <3>1. UNCHANGED <<ctl, crCache, known>> /\ (submariner => submariner')
            /\ (addon # "live" => addon' # "live")
        BY <2>1 DEF SubmarinerComes, AddonGoes
      <3> QED BY <1>o, <3>1 DEF UninstallAfter, HasCurrentCR
    <2>2. CASE SubmarinerGoes
      BY <2>2, <1>o DEF SubmarinerGoes, UninstallAfter
    <2>3. CASE DeleteAddon
      BY <2>3, <1>o DEF DeleteAddon, UninstallAfter, HasCurrentCR
    <2> QED BY <1>4, <2>1, <2>2, <2>3 DEF Hub
  <1> QED
    BY <1>1, <1>2, <1>3, <1>4 DEF Next

LEMMA SyncInit == Init => SyncInv
  <1> SUFFICES ASSUME Init PROVE SyncInv
    OBVIOUS
  <1>1. Plain \in NodeState /\ Plain.up
    BY DEF Plain, Down, NodeState
  <1>2. NodesOK
    BY <1>1 DEF Init, NodesOK
  <1>3. ControlOK /\ UninstallAfter
    BY DEF Init, ControlOK, Control, Idle, At, UninstallAfter
  <1>4. outage \in BOOLEAN /\ cond \in Condition
    BY DEF Init, Why, Condition
  <1>5. WorldOK
    BY <1>4 DEF Init, WorldOK
  <1> QED BY <1>2, <1>3, <1>5 DEF SyncInv

LEMMA SyncStep == SyncInv /\ [Next]_vars => SyncInv'
  BY ControlStep, NodesStep, WorldStep, UninstallStep DEF SyncInv

LEMMA SyncCorrect == Spec => []SyncInv
  BY SyncInit, SyncStep, PTL DEF Spec

-----------------------------------------------------------------------------
(* The gateways there are, and those that a sync is still going to make.   *)
ToBeLabelled == ctl.todo \cap ctl.fresh
RoomInv ==
    ctl.pc = "label" /\ ctl.fresh # {}
       => Cardinality(Gateways \cup ToBeLabelled) <= ctl.cfg.gateways

(* As they become fewer, there is still room.                              *)
LEMMA RoomShrinks ==
    ASSUME ConstAssumption, SyncInv, RoomInv,
           ctl'.pc = "label" => ctl.pc = "label" /\ ctl'.fresh = ctl.fresh
                                 /\ ctl'.cfg = ctl.cfg,
           ctl'.pc = "label" => Gateways' \cup ToBeLabelled' \subseteq Gateways \cup ToBeLabelled
    PROVE  RoomInv'
  <1> SUFFICES ASSUME ctl'.pc = "label", ctl'.fresh # {}
               PROVE  Cardinality(Gateways' \cup ToBeLabelled') <= ctl'.cfg.gateways
    BY DEF RoomInv
  <1> DEFINE old == Gateways \cup ToBeLabelled
             new == Gateways' \cup ToBeLabelled'
  <1>1. old \subseteq Nodes
    BY DEF Gateways, Labelled, ToBeLabelled, SyncInv, ControlOK, Control
  <1>2. IsFiniteSet(old)
    BY <1>1, FS_Subset DEF ConstAssumption
  <1>3. new \subseteq old
    OBVIOUS
  <1>4. Cardinality(new) <= Cardinality(old) /\ IsFiniteSet(new)
    BY <1>2, <1>3, FS_Subset
  <1>5. Cardinality(new) \in Nat /\ Cardinality(old) \in Nat
    BY <1>2, <1>4, FS_CardinalityType
  <1>6. ctl.cfg \in Config
    BY DEF SyncInv, ControlOK, Control, At
  <1>7. ctl.cfg.gateways \in Nat
    BY <1>6 DEF Config, ConstAssumption
  <1>8. Cardinality(old) <= ctl.cfg.gateways
    BY DEF RoomInv
  <1> HIDE DEF old, new
  <1>9. Cardinality(new) <= ctl.cfg.gateways
    BY <1>4, <1>5, <1>7, <1>8
  <1> QED BY <1>9 DEF new

(* addGateways takes as many nodes as are missing; after that, no step of   *)
(* its own or of others makes more gateways.                               *)
LEMMA RoomStep ==
    ASSUME ConstAssumption, Lagging \cap Nodes = {}, "users" \notin Events,
           SyncInv, RoomInv, [Next]_vars
    PROVE  RoomInv'
  <1>o. ControlOK /\ NodesOK /\ ctl \in Control
    BY DEF SyncInv, ControlOK
  <1>f. \A n \in Nodes : NodeLister[n] = node[n]
    BY DEF NodeLister
  <1>1. CASE AddGateways
    <2>1. PICK S \in SUBSET Workers :
             /\ IF Cardinality(Workers) < Required THEN S = {}
                ELSE Cardinality(S) = Required
             /\ ctl' = [ctl EXCEPT !.pc = "label",
                                   !.todo = S, !.fresh = S, !.names = S]
      BY <1>1 DEF AddGateways
    <2>2. ctl'.fresh = S /\ ctl'.todo = S /\ ctl'.cfg = ctl.cfg /\ node' = node
      BY <2>1, <1>1, <1>o DEF Control, AddGateways
    <2>3. CASE S = {}
      BY <2>2, <2>3 DEF RoomInv
    <2>4. CASE S # {}
      <3>1. Cardinality(S) = ctl.cfg.gateways - Cardinality(Gateways)
        <4>1. Current = Gateways
          BY <1>f DEF Current, Gateways, Labelled
        <4> QED BY <2>1, <2>4, <4>1 DEF Required
      <3>2. S \subseteq Nodes /\ Gateways \subseteq Nodes /\ S \cap Gateways = {}
        BY <1>f, <2>1 DEF Workers, Gateways, Labelled
      <3>3. IsFiniteSet(S) /\ IsFiniteSet(Gateways)
        BY <3>2, FS_Subset DEF ConstAssumption
      <3>4. /\ Cardinality(S) \in Nat /\ Cardinality(Gateways) \in Nat
            /\ Cardinality(Gateways \cap S) = 0
        BY <3>2, <3>3, FS_CardinalityType, FS_EmptySet
      <3>5. Cardinality(Gateways \cup S) = Cardinality(Gateways) + Cardinality(S)
        <4>1. /\ IsFiniteSet(Gateways \cup S)
              /\ Cardinality(Gateways \cup S) = Cardinality(Gateways)
                    + Cardinality(S) - Cardinality(Gateways \cap S)
          BY <3>3, FS_Union
        <4> QED BY <3>4, <4>1
      <3>6. ctl.cfg \in Config
        BY <1>1, <1>o DEF AddGateways, ControlOK, Control, At
      <3>7. ctl.cfg.gateways \in Nat
        BY <3>6 DEF Config, ConstAssumption
      <3>8. Cardinality(Gateways \cup S) <= ctl.cfg.gateways
        BY <3>1, <3>4, <3>5, <3>7
      <3>9. (Gateways \cup ToBeLabelled)' = Gateways \cup S
        BY <2>2 DEF Gateways, Labelled, ToBeLabelled
      <3> QED BY <2>2, <3>8, <3>9 DEF RoomInv
    <2> QED BY <2>3, <2>4
  <1>2. CASE InvalidInput \/ KeepGateways
    <2>1. ctl'.fresh = {}
      BY <1>2, <1>o DEF InvalidInput, KeepGateways, ControlOK, Control, At
    <2> QED BY <2>1 DEF RoomInv
  <1>3. CASE SyncConfig \/ SyncCleanUp \/ Prepare \/ RemoveGateways \/ Report \/ Abort
              \/ Restart
    <2>1. CASE Report \/ Abort \/ Restart
      <3>1. ctl' = Idle
        BY <2>1, Zenon DEF Report, Abort, Restart, Return
      <3> QED BY <3>1 DEF Idle, RoomInv
    <2>2. SyncConfig \/ SyncCleanUp => ctl'.pc # "label"
      BY DEF SyncConfig, SyncCleanUp, Idle
    <2>3. Prepare \/ RemoveGateways => ctl'.pc # "label"
      BY <1>o DEF Prepare, RemoveGateways, Control
    <2> QED BY <1>3, <2>1, <2>2, <2>3 DEF RoomInv
  <1>4. ASSUME NEW n \in Nodes, LabelNode(n) PROVE RoomInv'
    <2>1. /\ ctl.pc = "label" /\ n \in ctl.todo
          /\ ctl' = [ctl EXCEPT !.todo = ctl.todo \ {n}]
      BY <1>4 DEF LabelNode, At
    <2>2. \A m \in Nodes : node'[m].gw => node[m].gw \/ (m = n /\ n \in ctl.fresh)
      <3>1. node' = node \/ node' = [node EXCEPT ![n] = Gateway(n)]
        BY <1>4 DEF LabelNode
      <3>2. n \in ctl.fresh \/ (node[n] \in NodeState => Gateway(n).gw = node[n].gw)
        BY DEF Gateway, NodeState
      <3> HIDE DEF Gateway
      <3> QED BY <3>1, <3>2, <1>o DEF NodesOK
    <2>3. ctl'.fresh = ctl.fresh /\ ctl'.todo = ctl.todo \ {n} /\ ctl'.cfg = ctl.cfg
      BY <2>1, <1>o DEF Control
    <2>4. Gateways' \cup ToBeLabelled' \subseteq Gateways \cup ToBeLabelled
      BY <2>1, <2>2, <2>3 DEF Gateways, Labelled, ToBeLabelled
    <2> QED BY <2>1, <2>3, <2>4, RoomShrinks
  <1>5. ASSUME NEW n \in Nodes, UnlabelNode(n) \/ UpdateNodeFails(n) PROVE RoomInv'
    <2>1. /\ ctl'.pc = ctl.pc /\ ctl'.fresh = ctl.fresh /\ ctl'.cfg = ctl.cfg
          /\ ctl'.todo = ctl.todo \ {n}
      BY <1>5, <1>o DEF UnlabelNode, UpdateNodeFails, Control
    <2>2. ctl.pc = "label" => node' = node
      BY <1>5 DEF UnlabelNode, UpdateNodeFails, At
    <2>3. ctl.pc = "label" => Gateways' \cup ToBeLabelled' \subseteq Gateways \cup ToBeLabelled
      BY <2>1, <2>2 DEF Gateways, Labelled, ToBeLabelled
    <2> QED BY <2>1, <2>3, RoomShrinks
  <1>6. CASE SetConfig \/ Hub \/ Cluster \/ UNCHANGED vars
    <2>1. ctl' = ctl
      BY <1>6 DEF SetConfig, Hub, Cluster, vars, SubmarinerComes, DeleteAddon,
         SubmarinerGoes, AddonGoes, NodeJoins, NodeLeaves, UserTogglesLabel,
         ObserveNode, ObserveSubmariner, OutageEnds
    <2>2. node' = node \/ \E n \in Nodes : NodeJoins(n) \/ NodeLeaves(n)
      BY <1>6 DEF SetConfig, Hub, Cluster, vars, SubmarinerComes, DeleteAddon,
         SubmarinerGoes, AddonGoes, UserTogglesLabel, ObserveNode, ObserveSubmariner, OutageEnds
    <2>3. \A m \in Nodes : node'[m].gw => node[m].gw
      BY <2>2, <1>o DEF NodesOK, NodeJoins, NodeLeaves, Plain, Down
    <2>4. Gateways' \cup ToBeLabelled' \subseteq Gateways \cup ToBeLabelled
      BY <2>1, <2>3 DEF Gateways, Labelled, ToBeLabelled
    <2> QED BY <2>1, <2>4, RoomShrinks
  <1> QED
    BY <1>1, <1>2, <1>3, <1>4, <1>5, <1>6 DEF Next, Controller

(* Only labelNode makes gateways: one, of those it was told to.            *)
LEMMA LabelsStepwise ==
    ASSUME "users" \notin Events, SyncInv, [Next]_vars, Gateways' \ Gateways # {}
    PROVE  ctl.pc = "label" /\ \E n \in ToBeLabelled : Gateways' \subseteq Gateways \cup {n}
  <1>o. NodesOK
    BY DEF SyncInv
  <1>1. PICK n \in Nodes : node' # node /\ (LabelNode(n) \/ UnlabelNode(n)
                              \/ NodeJoins(n) \/ NodeLeaves(n))
    <2>1. node' # node
      BY DEF Gateways, Labelled
    <2> QED BY <2>1 DEF Next, Controller, Hub, Cluster, vars, SyncConfig, SyncCleanUp,
         Prepare, InvalidInput, KeepGateways, AddGateways, RemoveGateways,
         UpdateNodeFails, Report, Abort, Restart, SetConfig, SubmarinerComes,
         DeleteAddon, SubmarinerGoes, AddonGoes, UserTogglesLabel, ObserveNode, ObserveSubmariner, OutageEnds
  <1>2. ~(UnlabelNode(n) \/ NodeJoins(n) \/ NodeLeaves(n))
    <2>1. UnlabelNode(n) \/ NodeJoins(n) \/ NodeLeaves(n)
             => \A m \in Nodes : node'[m].gw => node[m].gw
      BY <1>o DEF NodesOK, UnlabelNode, NodeJoins, NodeLeaves, Plain, Down
    <2> QED BY <2>1 DEF Gateways, Labelled
  <1>3. /\ ctl.pc = "label" /\ n \in ctl.todo
        /\ node' = [node EXCEPT ![n] = Gateway(n)]
    BY <1>1, <1>2 DEF LabelNode, At
  <1>4. Gateways' \subseteq Gateways \cup {n}
    BY <1>3, <1>o DEF Gateways, Labelled, NodesOK
  <1>5. n \in ctl.fresh
    <2>1. n \notin ctl.fresh => Gateway(n).gw = node[n].gw
      BY <1>o DEF Gateway, NodesOK, NodeState
    <2> HIDE DEF Gateway
    <2>2. n \notin ctl.fresh => \A m \in Nodes : node'[m].gw = node[m].gw
      BY <1>3, <1>o, <2>1 DEF NodesOK
    <2> QED BY <2>2 DEF Gateways, Labelled
  <1> QED BY <1>3, <1>4, <1>5 DEF ToBeLabelled

-----------------------------------------------------------------------------
(* Every reachable state is well-typed, and a node that has left holds      *)
(* neither label nor annotation (updateNode).                              *)
THEOREM GatewayTypeCorrect == Spec => []TypeOK
  BY InvTypes, SyncCorrect, PTL

(* cleanupClusterEnvironment takes no label while a Submariner CR is there  *)
(* that the CR informer had when the uninstall was asked for, whatever     *)
(* nodes, users, other CRs and stale caches do meanwhile.                  *)
THEOREM UninstallWaits == Spec => GatewaysOutliveSubmariner
  <1> DEFINE Waits == ctl.uninstall /\ Gateways \ Gateways' # {} => ~known
  <1>1. SyncInv => Waits
    BY DEF SyncInv, UninstallAfter
  <1>2. SyncInv /\ [Next]_vars => [Waits]_vars
    BY <1>1
  <1> QED
    BY <1>2, SyncCorrect, PTL DEF Spec, GatewaysOutliveSubmariner

(* With a fresh node cache, labelling never makes more gateways than asked  *)
(* for, however nodes come and go and syncs break off (addGateways).       *)
THEOREM NeverMoreThanWanted ==
    ASSUME Lagging \cap Nodes = {}, "users" \notin Events
    PROVE  Spec => NeverTooMany
  <1> DEFINE Fits == Gateways' \ Gateways # {} => Cardinality(Gateways') <= ctl.cfg.gateways
  <1>1. Init => RoomInv
    BY DEF Init, RoomInv, Idle
  <1>2. SyncInv /\ RoomInv /\ [Next]_vars => RoomInv'
    BY RoomStep, ConstAssumption
  <1>3. ASSUME SyncInv, RoomInv, [Next]_vars, Gateways' \ Gateways # {}
        PROVE  Cardinality(Gateways') <= ctl.cfg.gateways
    <2> DEFINE all == Gateways \cup ToBeLabelled
    <2>1. ctl.pc = "label" /\ Gateways' \subseteq all /\ ToBeLabelled # {}
      BY <1>3, LabelsStepwise
    <2>2. all \subseteq Nodes /\ ctl.fresh # {} /\ ctl.cfg \in Config
      BY <1>3, <2>1 DEF Gateways, Labelled, ToBeLabelled, SyncInv, ControlOK, Control, At
    <2>3. Cardinality(all) <= ctl.cfg.gateways
      BY <1>3, <2>1, <2>2 DEF RoomInv
    <2>4. IsFiniteSet(all)
      BY <2>2, ConstAssumption, FS_Subset DEF ConstAssumption
    <2> HIDE DEF all
    <2>5. Cardinality(Gateways') <= Cardinality(all) /\ IsFiniteSet(Gateways')
      BY <2>1, <2>4, FS_Subset
    <2>6. /\ Cardinality(Gateways') \in Nat /\ Cardinality(all) \in Nat
          /\ ctl.cfg.gateways \in Nat
      BY <2>2, <2>4, <2>5, FS_CardinalityType, ConstAssumption DEF Config, ConstAssumption
    <2> QED BY <2>3, <2>5, <2>6
  <1>4. SyncInv /\ RoomInv /\ [Next]_vars => [Fits]_vars
    BY <1>3
  <1> QED
    BY <1>1, <1>2, <1>4, SyncCorrect, PTL DEF Spec, NeverTooMany

=============================================================================
