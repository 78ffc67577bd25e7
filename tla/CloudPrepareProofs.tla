-------------------------- MODULE CloudPrepareProofs --------------------------
(***************************************************************************)
(* What holds of CloudPrepare for every set of sites, claims and ports and *)
(* every number of gateways and changes, in the order of the argument:     *)
(*                                                                         *)
(*   1. the inductive invariant PrepareInv, conjunct by conjunct;          *)
(*   2. type correctness is inductive (CtlMoves, Counters, TypeStep);      *)
(*   3. what a step makes of ctl, of the cloud and of the rest (CtlFields, *)
(*      CloudFields, EnvironmentKeeps, CloudKept, SiteKept);               *)
(*   4. the other conjuncts are inductive (NetworkStep, PortsStep,         *)
(*      BuildStep, CleanStep);                                             *)
(*   5. the theorems.                                                      *)
(***************************************************************************)
EXTENDS CloudPrepare, TLAPS

(* The network type is the cluster's own wherever it is known, and the     *)
(* version check lies between it and the provider.                         *)
OwnNetwork == ctl.net \in {"", site.cni}
NetworkKnown == ctl.net = site.cni /\ ctl.net # ""
NewEnough    == ~(site.ocp = "4.10" /\ site.cni = "OVNKubernetes")
CheckedFirst ==
    /\ ctl.pc = "version" => NetworkKnown
    /\ ctl.pc = "get" /\ ProviderFound => NetworkKnown /\ NewEnough
    /\ ctl.pc \in {"deploy", "open"} => ProviderFound /\ NetworkKnown /\ NewEnough
    /\ ctl.pc = "open" => site.cni # "OVNKubernetes"

(* What a sync that gets on has made of the cloud is still there.          *)
BuiltSoFar ==
    /\ ctl.pc = "open" => cloud.gws >= ctl.cfg.gws /\ ctl.cfg.natt \in cloud.public
    /\ (ctl.pc = "prepared" /\ ctl.err = "nil") \/ ctl.pc = "gateways"
          => Fits(ctl.cfg) \/ ~ProviderFound
    /\ ctl.pc = "ensure" => ~ProviderFound

(* A CR that the uninstall has to wait for is in the informer's cache; a    *)
(* clean-up that has begun has it behind it.                               *)
CleansAfter ==
    /\ known => crCache = "present"
    /\ ctl.pc \in {"get_cleanup", "cleanup", "close"} => ~known /\ addon # "live"

PrepareInv ==
    TypeOK /\ OwnNetwork /\ CheckedFirst /\ BuiltSoFar /\ CleansAfter /\ PortsFitNetwork

-----------------------------------------------------------------------------
(* From any point of a sync, the ways it goes on lead to another.          *)
LEMMA CtlMoves ==
    ASSUME TypeOK, CloudAssumption
    PROVE  /\ Idle \in Control
           /\ Return => ctl' \in Control
           /\ \A step \in Steps : Goto(step) => ctl' \in Control
           /\ \A step \in Steps : Failed(step) => ctl' \in Control
           /\ \A step \in Steps : Begin(step) => ctl' \in Control
           /\ FirstConfig \in Config
  <1>1. FirstConfig \in Config
    <2>1. (CHOOSE p \in NattPorts : TRUE) \in NattPorts
      BY CloudAssumption DEF CloudAssumption
    <2> QED
      BY <2>1, CloudAssumption DEF FirstConfig, Config, CloudAssumption
  <1>2. Idle \in Control
    BY <1>1 DEF Idle, Control, Steps, Cnis, AllClaims
  <1>3. \A step \in Steps : Goto(step) => ctl' \in Control
    BY DEF TypeOK, Goto, Control
  <1>4. \A step \in Steps : Failed(step) => ctl' \in Control
    BY DEF TypeOK, Failed, Control
  <1>5. ASSUME NEW step \in Steps, Begin(step) PROVE ctl' \in Control
    <2>1. site.cni \in Cnis
      BY DEF TypeOK, CloudAssumption
    <2>2. config \in Config /\ info \in SUBSET AllClaims /\ netSeen \in Cnis \cup {""}
      BY <2>1 DEF TypeOK
    <2> QED
      BY <2>2, <1>5 DEF Begin, Control
  <1> QED
    BY <1>1, <1>2, <1>3, <1>4, <1>5 DEF Return

(* What TypeOK says of the counters and of the records that hold them.      *)
LEMMA Counters ==
    ASSUME TypeOK, CloudAssumption
    PROVE  /\ MaxGateways \in Nat \ {0} /\ MaxChanges \in Nat
           /\ labelled \in 0..MaxGateways /\ changes \in 0..MaxChanges
           /\ cloud \in Cloud /\ config \in Config /\ ctl.cfg \in Config
           /\ gwCond \in GwCond /\ lastKnown \in SpecState \cup {NoSpec}
           /\ site.cni \in Cnis
  <1>1. ctl \in Control => ctl.cfg \in Config
    BY DEF Control
  <1>2. site \in Sites => site.cni \in Cnis
    BY DEF CloudAssumption
  <1> QED
    BY <1>1, <1>2 DEF TypeOK, CloudAssumption

(* What a report may remember.                                             *)
LEMMA ReportTypes ==
    ASSUME TypeOK, CloudAssumption
    PROVE  SpecOf(ctl.cfg) \in SpecState
  BY Counters DEF SpecOf, Config, SpecState

(* A step keeps the types.                                                 *)
LEMMA TypeStep ==
    ASSUME TypeOK, CloudAssumption, [Next]_vars
    PROVE  TypeOK'
  <1>1. CASE SyncConfig
    <2>1. ctl' \in Control
      BY <1>1, CtlMoves DEF SyncConfig, Steps
    <2> QED
      BY <1>1, <2>1 DEF TypeOK, SyncConfig, status, users, hub
  <1>2. CASE SyncCleanUp
    <2>1. ctl' \in Control
      BY <1>2, CtlMoves DEF SyncCleanUp, Steps
    <2> QED
      BY <1>2, <2>1 DEF TypeOK, SyncCleanUp, status, users, hub
  <1>3. CASE SetNetworkTypeIfAbsent
    <2>1. info' \subseteq AllClaims /\ net' \in {"", site.cni}
      BY <1>3 DEF TypeOK, SetNetworkTypeIfAbsent, Writes, Control
    <2>2. netSeen' \in {"", site.cni}
      BY <1>3 DEF TypeOK, SetNetworkTypeIfAbsent
    <2>3. [ctl EXCEPT !.pc = "version", !.net = site.cni] \in Control
      BY Counters DEF TypeOK, Control, Steps
    <2>4. ctl' \in Control
      BY <1>3, <2>3, CtlMoves DEF SetNetworkTypeIfAbsent, Steps
    <2> QED
      BY <1>3, <2>1, <2>2, <2>3, <2>4 DEF TypeOK, SetNetworkTypeIfAbsent, status, users, hub
  <1>4. CASE ValidateOCPVersion
    <2>1. ctl' \in Control
      BY <1>4, CtlMoves DEF ValidateOCPVersion, Steps
    <2> QED
      BY <1>4, <2>1 DEF TypeOK, ValidateOCPVersion, status, users, hub
  <1>5. CASE GetProvider
    <2>1. ctl' \in Control
      BY <1>5, CtlMoves DEF GetProvider, Steps
    <2> QED
      BY <1>5, <2>1 DEF TypeOK, GetProvider, status, users, hub
  <1>6. CASE DeployGateways
    <2>1. cloud.gws \in 0..MaxGateways /\ ctl.cfg.gws \in 0..MaxGateways
      BY Counters DEF Cloud, Config
    <2>2. Larger(cloud.gws, ctl.cfg.gws) \in 0..MaxGateways
      BY <2>1 DEF Larger
    <2>3. cloud.gws..Larger(cloud.gws, ctl.cfg.gws) \subseteq 0..MaxGateways
      BY <2>1, <2>2, Counters
    <2>4. PublicPorts \cup {cloud.public} \subseteq SUBSET NattPorts
      BY Counters DEF PublicPorts, Cloud, Config
    <2>5. \E n \in 0..MaxGateways, ports \in SUBSET NattPorts :
           cloud' = [cloud EXCEPT !.gws = n, !.public = ports]
      BY <1>6, <2>2, <2>3, <2>4 DEF DeployGateways
    <2>6. cloud' \in Cloud
      BY <2>5, Counters DEF Cloud
    <2>7. ctl' \in Control
      BY <1>6, CtlMoves DEF DeployGateways, Steps
    <2> QED
      BY <1>6, <2>1, <2>2, <2>3, <2>4, <2>5, <2>6, <2>7 DEF TypeOK, DeployGateways,
         status, users, hub
  <1>7. CASE OpenPorts
    <2>1. ctl' \in Control
      BY <1>7, CtlMoves DEF OpenPorts, Steps
    <2>2. cloud' \in Cloud
      BY <1>7, Counters DEF OpenPorts, Cloud
    <2> QED
      BY <1>7, <2>1, <2>2 DEF TypeOK, OpenPorts, status, users, hub
  <1>8. CASE ReportPrepared
    <2>1. ctl' \in Control
      BY <1>8, CtlMoves DEF ReportPrepared, Steps
    <2> QED
      BY <1>8, <2>1 DEF TypeOK, ReportPrepared, status, users, hub, Writes
  <1>9. CASE UpdateGatewayStatus
    <2>1. ctl.cfg.gws \in 0..MaxGateways
      BY Counters DEF Config
    <2> DEFINE c(s) == [status |-> s, have |-> labelled, want |-> ctl.cfg.gws]
    <2>2. c("True") \in GwCond /\ c("False") \in GwCond
      BY <2>1, Counters DEF GwCond
    <2>3. gwCond' \in {gwCond, c("True"), c("False")} /\ lastKnown' \in {lastKnown,
    SpecOf(ctl.cfg)}
      BY <1>9 DEF UpdateGatewayStatus, Report, Writes
    <2>4. gwCond' \in GwCond /\ lastKnown' \in SpecState \cup {NoSpec}
      <3> HIDE DEF c
      <3> QED
        BY <2>2, <2>3, Counters, ReportTypes
    <2>5. ctl' \in Control
      BY <1>9, CtlMoves DEF UpdateGatewayStatus
    <2> QED
      BY <1>9, <2>5, <2>4 DEF TypeOK, UpdateGatewayStatus, status, users, hub
  <1>10. CASE EnsureGateways
    <2>1. ctl.cfg.gws \in 0..MaxGateways
      BY Counters DEF Config
    <2> DEFINE yes == [status |-> "True", have |-> ctl.cfg.gws, want |-> ctl.cfg.gws]
               no  == [status |-> "False", have |-> labelled, want |-> ctl.cfg.gws]
    <2>2. yes \in GwCond /\ no \in GwCond
      BY <2>1, Counters DEF GwCond
    <2>3. gwCond' \in {gwCond, yes, no} /\ lastKnown' \in {lastKnown, SpecOf(ctl.cfg)}
      BY <1>10 DEF EnsureGateways, Report, Writes
    <2>4. gwCond' \in GwCond /\ lastKnown' \in SpecState \cup {NoSpec}
      <3> HIDE DEF yes, no
      <3> QED
        BY <2>2, <2>3, Counters, ReportTypes
    <2>5. labelled' \in 0..MaxGateways
      BY <1>10, <2>1, Counters DEF EnsureGateways
    <2>6. ctl' \in Control
      BY <1>10, CtlMoves DEF EnsureGateways
    <2> QED
      BY <1>10, <2>1, <2>2, <2>4, <2>5, <2>6 DEF TypeOK, EnsureGateways, status, users, hub
  <1>11. CASE GetProviderForCleanUp
    <2>1. ctl' \in Control
      BY <1>11, CtlMoves DEF GetProviderForCleanUp, Steps
    <2> QED
      BY <1>11, <2>1 DEF TypeOK, GetProviderForCleanUp, status, users, hub
  <1>12. CASE CleanUpGateways
    <2>1. cloud.gws \in 0..MaxGateways
      BY Counters DEF Cloud
    <2>2. \/ cloud' = [cloud EXCEPT !.gws = 0, !.public = {}]
          \/ \E n \in 0..cloud.gws : cloud' = [cloud EXCEPT !.gws = n]
      BY <1>12 DEF CleanUpGateways
    <2>3. 0 \in 0..MaxGateways /\ 0..cloud.gws \subseteq 0..MaxGateways
      BY <2>1, Counters
    <2>4. cloud' \in Cloud
      BY <2>2, <2>3, Counters DEF Cloud
    <2>5. ctl' \in Control
      BY <1>12, CtlMoves DEF CleanUpGateways, Steps
    <2> QED
      BY <1>12, <2>1, <2>2, <2>3, <2>4, <2>5 DEF TypeOK, CleanUpGateways, status, users, hub
  <1>13. CASE ClosePorts
    <2>1. ctl' \in Control
      BY <1>13, CtlMoves DEF ClosePorts, Steps
    <2>2. cloud' \in Cloud
      BY <1>13, Counters DEF ClosePorts, Cloud
    <2> QED
      BY <1>13, <2>1, <2>2 DEF TypeOK, ClosePorts, status, users, hub
  <1>14. CASE RemoveAllGateways
    <2>1. labelled' \in 0..MaxGateways
      BY <1>14, Counters DEF RemoveAllGateways
    <2>2. ctl' \in Control
      BY <1>14, CtlMoves DEF RemoveAllGateways, Steps
    <2> QED
      BY <1>14, <2>1, <2>2 DEF TypeOK, RemoveAllGateways, status, users, hub
  <1>15. CASE ReportCleanUp
    <2> DEFINE no == [status |-> "False", have |-> 0, want |-> 0]
    <2>1. 0 \in 0..MaxGateways
      BY Counters
    <2>2. no \in GwCond
      BY <2>1 DEF GwCond
    <2>3. gwCond' \in {gwCond, no} /\ lastKnown' \in {lastKnown, SpecOf(ctl.cfg)}
      BY <1>15 DEF ReportCleanUp, Report, Writes
    <2>4. gwCond' \in GwCond /\ lastKnown' \in SpecState \cup {NoSpec}
      <3> HIDE DEF no
      <3> QED
        BY <2>2, <2>3, Counters, ReportTypes
    <2>5. ctl' \in Control
      BY <1>15, CtlMoves DEF ReportCleanUp
    <2> QED
      BY <1>15, <2>4, <2>5 DEF TypeOK, ReportCleanUp, status, users, hub
  <1>16. CASE Restart
    <2>1. ctl' \in Control
      BY <1>16, CtlMoves DEF Restart, Steps
    <2> QED
      BY <1>16, <2>1 DEF TypeOK, Restart, status, users, hub
  <1>17. CASE HubWritesInfo
    <2>1. changes' = changes \/ (changes < MaxChanges /\ changes' = changes + 1)
      BY <1>17 DEF HubWritesInfo
    <2>2. changes' \in 0..MaxChanges
      BY <2>1, Counters
    <2>3. info' \subseteq AllClaims /\ net' \in {"", site.cni}
      BY <1>17, CloudAssumption DEF TypeOK, HubWritesInfo, CloudAssumption
    <2> QED
      BY <1>17, <2>1, <2>2, <2>3 DEF TypeOK, HubWritesInfo, status, users, hub
  <1>18. CASE ObserveConfig
    BY <1>18, CtlMoves DEF TypeOK, ObserveConfig, status, users, hub, Steps
  <1>19. CASE EditConfig
    <2>1. changes < MaxChanges /\ changes' = changes + 1
      BY <1>19 DEF EditConfig
    <2>2. changes' \in 0..MaxChanges
      BY <2>1, Counters
    <2>3. config' \in Config
      BY <1>19, Counters DEF EditConfig, Edited, Config
    <2> QED
      BY <1>19, <2>1, <2>2, <2>3 DEF TypeOK, EditConfig, status, users, hub
  <1>20. CASE DeleteConfig
    <2>1. changes < MaxChanges /\ changes' = changes + 1
      BY <1>20 DEF DeleteConfig
    <2>2. changes' \in 0..MaxChanges
      BY <2>1, Counters
    <2>3. config' = [config EXCEPT !.st = "none"]
      BY <1>20 DEF DeleteConfig
    <2>4. config' \in Config
      BY <2>3, Counters DEF Config
    <2>5. 0 \in 0..MaxGateways
      BY Counters
    <2>6. [status |-> "", have |-> 0, want |-> 0] \in GwCond
      BY <2>5 DEF GwCond
    <2>7. gwCond' \in GwCond
      BY <1>20, <2>6 DEF DeleteConfig
    <2> QED
      BY <1>20, <2>1, <2>2, <2>3, <2>4, <2>5, <2>7 DEF TypeOK, DeleteConfig, status, users, hub
  <1>21. CASE ChangeCredentials
    <2>1. changes < MaxChanges /\ changes' = changes + 1
      BY <1>21 DEF ChangeCredentials
    <2>2. changes' \in 0..MaxChanges
      BY <2>1, Counters
    <2>3. creds' \subseteq Keys
      BY <1>21 DEF TypeOK, ChangeCredentials
    <2> QED
      BY <1>21, <2>1, <2>2, <2>3 DEF TypeOK, ChangeCredentials, status, users, hub
  <1>22. CASE NodeJoins
    <2>1. labelled' \in 0..MaxGateways
      BY <1>22, Counters DEF NodeJoins, Cloud
    <2> QED
      BY <1>22, <2>1 DEF TypeOK, NodeJoins, status, users, hub
  <1>23. CASE NodeLeaves
    <2>1. changes < MaxChanges /\ changes' = changes + 1
      BY <1>23 DEF NodeLeaves
    <2>2. changes' \in 0..MaxChanges
      BY <2>1, Counters
    <2>3. labelled' \in 0..MaxGateways
      BY <1>23, Counters DEF NodeLeaves
    <2> QED
      BY <1>23, <2>1, <2>2, <2>3 DEF TypeOK, NodeLeaves, status, users, hub
  <1>24. CASE SubmarinerComes
    BY <1>24 DEF TypeOK, SubmarinerComes, status, users, hub
  <1>25. CASE SubmarinerGoes
    BY <1>25 DEF TypeOK, SubmarinerGoes, status, users, hub
  <1>26. CASE DeleteAddon
    BY <1>26 DEF TypeOK, DeleteAddon, status, users, hub
  <1>27. CASE AddonGone
    <2>1. changes < MaxChanges /\ changes' = changes + 1
      BY <1>27 DEF AddonGone
    <2>2. changes' \in 0..MaxChanges
      BY <2>1, Counters
    <2> QED
      BY <1>27, <2>1, <2>2 DEF TypeOK, AddonGone, status, users, hub
  <1>28. CASE OutageEnds
    BY <1>28 DEF TypeOK, OutageEnds, status, users, hub
  <1>30. CASE ObserveSubmariner
    BY <1>30 DEF TypeOK, ObserveSubmariner, status, users, hub
  <1>29. CASE UNCHANGED vars
    BY <1>29 DEF TypeOK, vars, status, users, hub
  <1> QED
    BY <1>1, <1>2, <1>3, <1>4, <1>5, <1>6, <1>7, <1>8, <1>9, <1>10, <1>11, <1>12, <1>13,
       <1>14, <1>15, <1>16, <1>17, <1>18, <1>19, <1>20, <1>21, <1>22, <1>23, <1>24,
       <1>25, <1>26, <1>27, <1>28, <1>29, <1>30 DEF Next, Work, Environment

(* What the steps of a sync make of ctl, its other fields being kept.       *)
LEMMA CtlFields ==
    ASSUME TypeOK, CloudAssumption
    PROVE  /\ Return => ctl'.pc = "idle" /\ ctl'.net = ""
           /\ \A step \in Steps : Goto(step) =>
                 /\ ctl'.pc = step /\ ctl'.err = ctl.err
                 /\ ctl'.cfg = ctl.cfg /\ ctl'.info = ctl.info /\ ctl'.net = ctl.net
           /\ \A step \in Steps : Failed(step) =>
                 /\ ctl'.pc = step /\ ctl'.err = "error"
                 /\ ctl'.cfg = ctl.cfg /\ ctl'.info = ctl.info /\ ctl'.net = ctl.net
           /\ \A step \in Steps : Begin(step) =>
                 /\ ctl'.pc = step /\ ctl'.info = info /\ ctl'.net = netSeen
  <1>1. ctl \in Control /\ site.cni # ""
    BY Counters DEF TypeOK, Cnis
  <1>2. Return => ctl'.pc = "idle" /\ ctl'.net = ""
    <2>1. Idle.pc = "idle" /\ Idle.net = ""
      BY DEF Idle
    <2> QED
      BY <2>1 DEF Return
  <1>3. ASSUME NEW step \in Steps, Goto(step)
        PROVE  /\ ctl'.pc = step /\ ctl'.err = ctl.err
               /\ ctl'.cfg = ctl.cfg /\ ctl'.info = ctl.info /\ ctl'.net = ctl.net
    BY <1>1, <1>3 DEF Control, Goto
  <1>4. ASSUME NEW step \in Steps, Failed(step)
        PROVE  /\ ctl'.pc = step /\ ctl'.err = "error"
               /\ ctl'.cfg = ctl.cfg /\ ctl'.info = ctl.info /\ ctl'.net = ctl.net
    BY <1>1, <1>4 DEF Control, Failed
  <1>5. ASSUME NEW step \in Steps, Begin(step)
        PROVE  ctl'.pc = step /\ ctl'.info = info /\ ctl'.net = netSeen
    BY <1>5 DEF Begin
  <1> QED
    BY <1>2, <1>3, <1>4, <1>5

(* The environment leaves the worker, the cloud and the site alone.         *)
LEMMA EnvironmentKeeps ==
    Environment \/ UNCHANGED vars
       => /\ ctl' = ctl /\ cloud' = cloud /\ site' = site /\ lastKnown' = lastKnown
          /\ prepared' \in {prepared, ""}
  BY DEF Environment, vars, status, users, hub, HubWritesInfo, ObserveConfig, EditConfig,
         DeleteConfig, ChangeCredentials, NodeJoins, NodeLeaves, SubmarinerComes,
         SubmarinerGoes, ObserveSubmariner, DeleteAddon, AddonGone, OutageEnds


(* The provider is reached with the cluster's own network type only.       *)
LEMMA NetworkStep ==
    ASSUME TypeOK, CloudAssumption, OwnNetwork, CheckedFirst, [Next]_vars
    PROVE  OwnNetwork' /\ CheckedFirst'
  <1> USE DEF ProviderFound, Vendor, VendorIn
  <1>1. netSeen \in {"", site.cni} /\ ctl \in Control /\ site.cni # ""
    BY Counters DEF TypeOK, Cnis
  <1>2. CASE SyncConfig
    BY <1>2, <1>1, CtlFields
       DEF OwnNetwork, CheckedFirst, NetworkKnown, NewEnough, SyncConfig, At, Steps,
          status, users, hub
  <1>3. CASE SyncCleanUp
    BY <1>3, <1>1, CtlFields
       DEF OwnNetwork, CheckedFirst, NetworkKnown, NewEnough, SyncCleanUp, At, Steps,
          status, users, hub
  <1>4. CASE SetNetworkTypeIfAbsent
    BY <1>4, <1>1, CtlFields
       DEF OwnNetwork, CheckedFirst, NetworkKnown, NewEnough, SetNetworkTypeIfAbsent, At,
          Steps, status, users, hub, Goto, Control
  <1>5. CASE ValidateOCPVersion
    BY <1>5, <1>1, CtlFields
       DEF OwnNetwork, CheckedFirst, NetworkKnown, NewEnough, ValidateOCPVersion, At,
          Steps, status, users, hub
  <1>6. CASE GetProvider
    BY <1>6, <1>1, CtlFields
       DEF OwnNetwork, CheckedFirst, NetworkKnown, NewEnough, GetProvider, At, Steps,
          status, users, hub
  <1>7. CASE DeployGateways
    BY <1>7, <1>1, CtlFields
       DEF OwnNetwork, CheckedFirst, NetworkKnown, NewEnough, DeployGateways, At, Steps,
          status, users, hub
  <1>8. CASE OpenPorts
    BY <1>8, <1>1, CtlFields
       DEF OwnNetwork, CheckedFirst, NetworkKnown, NewEnough, OpenPorts, At, Steps,
          status, users, hub
  <1>9. CASE ReportPrepared
    BY <1>9, <1>1, CtlFields
       DEF OwnNetwork, CheckedFirst, NetworkKnown, NewEnough, ReportPrepared, At, Steps,
          status, users, hub
  <1>10. CASE UpdateGatewayStatus
    BY <1>10, <1>1, CtlFields
       DEF OwnNetwork, CheckedFirst, NetworkKnown, NewEnough, UpdateGatewayStatus, At,
          Steps, status, users, hub
  <1>11. CASE EnsureGateways
    BY <1>11, <1>1, CtlFields
       DEF OwnNetwork, CheckedFirst, NetworkKnown, NewEnough, EnsureGateways, At, Steps,
          status, users, hub
  <1>12. CASE GetProviderForCleanUp
    BY <1>12, <1>1, CtlFields
       DEF OwnNetwork, CheckedFirst, NetworkKnown, NewEnough, GetProviderForCleanUp, At,
          Steps, status, users, hub
  <1>13. CASE CleanUpGateways
    BY <1>13, <1>1, CtlFields
       DEF OwnNetwork, CheckedFirst, NetworkKnown, NewEnough, CleanUpGateways, At, Steps,
          status, users, hub
  <1>14. CASE ClosePorts
    BY <1>14, <1>1, CtlFields
       DEF OwnNetwork, CheckedFirst, NetworkKnown, NewEnough, ClosePorts, At, Steps,
          status, users, hub
  <1>15. CASE RemoveAllGateways
    BY <1>15, <1>1, CtlFields
       DEF OwnNetwork, CheckedFirst, NetworkKnown, NewEnough, RemoveAllGateways, At,
          Steps, status, users, hub
  <1>16. CASE ReportCleanUp
    BY <1>16, <1>1, CtlFields
       DEF OwnNetwork, CheckedFirst, NetworkKnown, NewEnough, ReportCleanUp, At, Steps,
          status, users, hub
  <1>17. CASE Restart
    BY <1>17, <1>1, CtlFields
       DEF OwnNetwork, CheckedFirst, NetworkKnown, NewEnough, Restart, At, Steps, status,
          users, hub
  <1>18. CASE Environment \/ UNCHANGED vars
    BY <1>18, EnvironmentKeeps DEF OwnNetwork, CheckedFirst, NetworkKnown, NewEnough
  <1> QED
    BY <1>2, <1>3, <1>4, <1>5, <1>6, <1>7, <1>8, <1>9, <1>10, <1>11, <1>12, <1>13, <1>14,
       <1>15, <1>16, <1>17, <1>18 DEF Next, Work

(* What a step of the worker makes of the cloud.                           *)
LEMMA CloudFields ==
    ASSUME TypeOK, CloudAssumption
    PROVE  /\ DeployGateways =>
                 /\ cloud'.internal = cloud.internal
                 /\ cloud'.gws >= cloud.gws
                 /\ \/ (ctl'.pc = "prepared" /\ ctl'.err = "error")
                    \/ (cloud'.gws >= ctl.cfg.gws /\ ctl.cfg.natt \in cloud'.public)
           /\ OpenPorts =>
                 /\ cloud'.gws = cloud.gws /\ cloud'.public = cloud.public
                 /\ \/ ctl'.pc = "prepared" /\ ctl'.err = "error" /\ cloud' = cloud
                    \/ cloud'.internal = "open"
           /\ CleanUpGateways =>
                 /\ cloud'.internal = cloud.internal
                 /\ cloud = NoCloud => cloud' = NoCloud
           /\ ClosePorts =>
                 /\ cloud'.internal \in {cloud.internal, "closed"}
                 /\ cloud = NoCloud => cloud' = NoCloud
  <1>1. cloud \in Cloud /\ cloud.gws \in Nat /\ ctl.cfg.gws \in Nat
    BY Counters DEF Cloud, Config
  <1>2. ASSUME DeployGateways
        PROVE  /\ cloud'.internal = cloud.internal
               /\ cloud'.gws >= cloud.gws
               /\ \/ (ctl'.pc = "prepared" /\ ctl'.err = "error")
                  \/ (cloud'.gws >= ctl.cfg.gws /\ ctl.cfg.natt \in cloud'.public)
    <2>1. CASE \E ports \in PublicPorts :
                  cloud' = [cloud EXCEPT !.gws = Larger(cloud.gws, ctl.cfg.gws),
                  !.public = ports]
      <3>1. PICK ports \in PublicPorts :
              cloud' = [cloud EXCEPT !.gws = Larger(cloud.gws, ctl.cfg.gws),
              !.public = ports]
        BY <2>1
      <3>2. /\ cloud'.gws = Larger(cloud.gws, ctl.cfg.gws)
            /\ cloud'.public = ports /\ cloud'.internal = cloud.internal
        BY <3>1, <1>1 DEF Cloud
      <3>3. ctl.cfg.natt \in ports
        BY DEF PublicPorts
      <3>4. /\ Larger(cloud.gws, ctl.cfg.gws) >= cloud.gws
            /\ Larger(cloud.gws, ctl.cfg.gws) >= ctl.cfg.gws
        BY <1>1 DEF Larger
      <3> QED
        BY <3>2, <3>3, <3>4
    <2>2. CASE Failed("prepared")
               /\ \E n \in cloud.gws..Larger(cloud.gws, ctl.cfg.gws),
                     ports \in PublicPorts \cup {cloud.public} :
                     cloud' = [cloud EXCEPT !.gws = n, !.public = ports]
      <3>1. PICK n \in cloud.gws..Larger(cloud.gws, ctl.cfg.gws),
                 ports \in PublicPorts \cup {cloud.public} :
                 cloud' = [cloud EXCEPT !.gws = n, !.public = ports]
        BY <2>2
      <3>2. cloud'.gws = n /\ cloud'.internal = cloud.internal
        BY <3>1, <1>1 DEF Cloud
      <3>3. n >= cloud.gws
        BY <1>1 DEF Larger
      <3>4. ctl'.pc = "prepared" /\ ctl'.err = "error"
        BY <2>2, CtlFields DEF Steps
      <3> QED
        BY <3>2, <3>3, <3>4
    <2> QED
      BY <1>2, <2>1, <2>2 DEF DeployGateways
  <1>3. OpenPorts =>
          /\ cloud'.gws = cloud.gws /\ cloud'.public = cloud.public
          /\ \/ ctl'.pc = "prepared" /\ ctl'.err = "error" /\ cloud' = cloud
             \/ cloud'.internal = "open"
    BY <1>1, CtlFields DEF OpenPorts, Cloud, Steps
  <1>4. ASSUME CleanUpGateways
        PROVE  /\ cloud'.internal = cloud.internal
               /\ cloud = NoCloud => cloud' = NoCloud
    <2>1. CASE cloud' = [cloud EXCEPT !.gws = 0, !.public = {}]
      <3>1. cloud'.internal = cloud.internal
        BY <2>1, <1>1 DEF Cloud
      <3>2. cloud = NoCloud => cloud.gws = 0 /\ cloud.public = {}
        BY DEF NoCloud
      <3>3. cloud.gws = 0 /\ cloud.public = {} => cloud' = cloud
        BY <2>1, <1>1 DEF Cloud
      <3> QED
        BY <3>1, <3>2, <3>3
    <2>2. CASE \E n \in 0..cloud.gws : cloud' = [cloud EXCEPT !.gws = n]
      <3>1. PICK n \in 0..cloud.gws : cloud' = [cloud EXCEPT !.gws = n]
        BY <2>2
      <3>2. cloud = NoCloud => cloud.gws = 0
        BY DEF NoCloud
      <3>3. cloud.gws = 0 => cloud' = cloud
        BY <3>1, <1>1 DEF Cloud
      <3>4. cloud'.internal = cloud.internal
        BY <3>1, <1>1 DEF Cloud
      <3> QED
        BY <3>2, <3>3, <3>4
    <2> QED
      BY <1>4, <2>1, <2>2 DEF CleanUpGateways
  <1>5. ClosePorts =>
          /\ cloud'.internal \in {cloud.internal, "closed"}
          /\ cloud = NoCloud => cloud' = NoCloud
    BY <1>1 DEF ClosePorts, Cloud, NoCloud
  <1> QED
    BY <1>2, <1>3, <1>4, <1>5

(* Every other step leaves the cloud alone.                                *)
LEMMA CloudKept ==
    ASSUME Next \/ UNCHANGED vars,
           ~DeployGateways, ~OpenPorts, ~CleanUpGateways, ~ClosePorts
    PROVE  cloud' = cloud
  BY EnvironmentKeeps DEF Next, Work, SyncConfig, SyncCleanUp, SetNetworkTypeIfAbsent,
     ValidateOCPVersion, GetProvider, ReportPrepared, UpdateGatewayStatus,
     EnsureGateways, GetProviderForCleanUp, RemoveAllGateways, ReportCleanUp, Restart

(* A site stays what it is.                                                *)
LEMMA SiteKept ==
    ASSUME Next \/ UNCHANGED vars
    PROVE  site' = site
  BY EnvironmentKeeps DEF Next, Work, SyncConfig, SyncCleanUp, SetNetworkTypeIfAbsent,
     ValidateOCPVersion, GetProvider, DeployGateways, OpenPorts, ReportPrepared,
     UpdateGatewayStatus, EnsureGateways, GetProviderForCleanUp, CleanUpGateways,
     ClosePorts, RemoveAllGateways, ReportCleanUp, Restart

(* A step keeps the ports that fit the network.                            *)
LEMMA PortsStep ==
    ASSUME TypeOK, CloudAssumption, CheckedFirst, PortsFitNetwork, [Next]_vars
    PROVE  PortsFitNetwork'
  <1>1. site' = site
    BY SiteKept
  <1>2. CASE DeployGateways
    BY <1>1, <1>2, CloudFields
       DEF PortsFitNetwork, CheckedFirst, NewEnough, DeployGateways, At
  <1>3. CASE OpenPorts
    BY <1>1, <1>3, CloudFields DEF PortsFitNetwork, CheckedFirst, OpenPorts, At
  <1>4. CASE CleanUpGateways \/ ClosePorts
    BY <1>1, <1>4, CloudFields DEF PortsFitNetwork
  <1>5. CASE cloud' = cloud
    BY <1>1, <1>5 DEF PortsFitNetwork
  <1> QED
    BY <1>2, <1>3, <1>4, <1>5, CloudKept

(* A sync that gets on has built what it is to report.                     *)
LEMMA BuildStep ==
    ASSUME TypeOK, CloudAssumption, OwnNetwork, CheckedFirst, BuiltSoFar, [Next]_vars
    PROVE  BuiltSoFar'
  <1> USE DEF ProviderFound, Vendor, VendorIn
  <1>1. site' = site /\ cloud.gws \in Nat /\ ctl.cfg.gws \in Nat
    BY SiteKept, Counters DEF Cloud, Config
  <1>2. CASE SyncConfig
    BY <1>1, <1>2, CtlFields
       DEF BuiltSoFar, Fits, SyncConfig, At, Steps, status, users, hub
  <1>3. CASE SyncCleanUp
    BY <1>1, <1>3, CtlFields
       DEF BuiltSoFar, Fits, SyncCleanUp, At, Steps, status, users, hub
  <1>4. CASE SetNetworkTypeIfAbsent
    BY <1>1, <1>4, CtlFields
       DEF BuiltSoFar, Fits, SetNetworkTypeIfAbsent, At, Steps, status, users, hub, Goto,
          Control, TypeOK
  <1>5. CASE ValidateOCPVersion
    BY <1>1, <1>5, CtlFields
       DEF BuiltSoFar, Fits, ValidateOCPVersion, At, Steps, status, users, hub
  <1>6. CASE GetProvider
    BY <1>1, <1>6, CtlFields
       DEF BuiltSoFar, Fits, GetProvider, At, Steps, status, users, hub
  <1>7. CASE DeployGateways
    BY <1>1, <1>7, CloudFields, CtlFields
       DEF BuiltSoFar, Fits, DeployGateways, At, Steps, status, users, hub, CheckedFirst,
          NetworkKnown
  <1>8. CASE OpenPorts
    BY <1>1, <1>8, CloudFields, CtlFields
       DEF BuiltSoFar, Fits, OpenPorts, At, Steps, status, users, hub, CheckedFirst, NetworkKnown
  <1>9. CASE ReportPrepared
    BY <1>1, <1>9, CtlFields
       DEF BuiltSoFar, Fits, ReportPrepared, At, Steps, status, users, hub
  <1>10. CASE UpdateGatewayStatus
    BY <1>1, <1>10, CtlFields
       DEF BuiltSoFar, Fits, UpdateGatewayStatus, At, Steps, status, users, hub
  <1>11. CASE EnsureGateways
    BY <1>1, <1>11, CtlFields
       DEF BuiltSoFar, Fits, EnsureGateways, At, Steps, status, users, hub
  <1>12. CASE GetProviderForCleanUp
    BY <1>1, <1>12, CtlFields
       DEF BuiltSoFar, Fits, GetProviderForCleanUp, At, Steps, status, users, hub
  <1>13. CASE CleanUpGateways
    BY <1>1, <1>13, CtlFields
       DEF BuiltSoFar, Fits, CleanUpGateways, At, Steps, status, users, hub
  <1>14. CASE ClosePorts
    BY <1>1, <1>14, CtlFields
       DEF BuiltSoFar, Fits, ClosePorts, At, Steps, status, users, hub
  <1>15. CASE RemoveAllGateways
    BY <1>1, <1>15, CtlFields
       DEF BuiltSoFar, Fits, RemoveAllGateways, At, Steps, status, users, hub
  <1>16. CASE ReportCleanUp
    BY <1>1, <1>16, CtlFields
       DEF BuiltSoFar, Fits, ReportCleanUp, At, Steps, status, users, hub
  <1>17. CASE Restart
    BY <1>1, <1>17, CtlFields
       DEF BuiltSoFar, Fits, Restart, At, Steps, status, users, hub
  <1>18. CASE Environment \/ UNCHANGED vars
    BY <1>18, EnvironmentKeeps DEF BuiltSoFar, Fits
  <1> QED
    BY <1>2, <1>3, <1>4, <1>5, <1>6, <1>7, <1>8, <1>9, <1>10, <1>11, <1>12, <1>13, <1>14,
       <1>15, <1>16, <1>17, <1>18 DEF Next, Work

(* Nothing is cleaned up while the CR is, or comes to be, there.           *)
LEMMA CleanStep ==
    ASSUME TypeOK, CloudAssumption, CleansAfter, [Next]_vars
    PROVE  CleansAfter'
  <1>1. CASE SyncConfig
    BY <1>1, CtlFields DEF CleansAfter, SyncConfig, At, Steps, status, users, hub
  <1>2. CASE SyncCleanUp
    BY <1>2, CtlFields DEF CleansAfter, SyncCleanUp, IsSubmarinerCRPresent, At, Steps, status, users, hub
  <1>3. CASE SetNetworkTypeIfAbsent
    BY <1>3, CtlFields DEF CleansAfter, SetNetworkTypeIfAbsent, At, Steps, status, users, hub,
       Goto, Control, TypeOK
  <1>4. CASE ValidateOCPVersion
    BY <1>4, CtlFields DEF CleansAfter, ValidateOCPVersion, At, Steps, status, users, hub
  <1>5. CASE GetProvider
    BY <1>5, CtlFields DEF CleansAfter, GetProvider, At, Steps, status, users, hub
  <1>6. CASE DeployGateways
    BY <1>6, CtlFields DEF CleansAfter, DeployGateways, At, Steps, status, users, hub
  <1>7. CASE OpenPorts
    BY <1>7, CtlFields DEF CleansAfter, OpenPorts, At, Steps, status, users, hub
  <1>8. CASE ReportPrepared
    BY <1>8, CtlFields DEF CleansAfter, ReportPrepared, At, Steps, status, users, hub
  <1>9. CASE UpdateGatewayStatus
    BY <1>9, CtlFields DEF CleansAfter, UpdateGatewayStatus, At, Steps, status, users, hub
  <1>10. CASE EnsureGateways
    BY <1>10, CtlFields DEF CleansAfter, EnsureGateways, At, Steps, status, users, hub
  <1>11. CASE GetProviderForCleanUp
    BY <1>11, CtlFields DEF CleansAfter, GetProviderForCleanUp, At, Steps, status, users, hub
  <1>12. CASE CleanUpGateways
    BY <1>12, CtlFields DEF CleansAfter, CleanUpGateways, At, Steps, status, users, hub
  <1>13. CASE ClosePorts
    BY <1>13, CtlFields DEF CleansAfter, ClosePorts, At, Steps, status, users, hub
  <1>14. CASE RemoveAllGateways
    BY <1>14, CtlFields DEF CleansAfter, RemoveAllGateways, At, Steps, status, users, hub
  <1>15. CASE ReportCleanUp
    BY <1>15, CtlFields DEF CleansAfter, ReportCleanUp, At, Steps, status, users, hub
  <1>16. CASE Restart
    BY <1>16, CtlFields DEF CleansAfter, Restart, At, Steps, status, users, hub
  <1>17. CASE Environment
    <2>1. ctl' = ctl
      BY <1>17, EnvironmentKeeps
    <2>2. CASE SubmarinerComes
      BY <2>1, <2>2 DEF CleansAfter, SubmarinerComes
    <2>3. CASE SubmarinerGoes
      BY <2>1, <2>3 DEF CleansAfter, SubmarinerGoes
    <2>4. CASE ObserveSubmariner
      BY <2>1, <2>4 DEF CleansAfter, ObserveSubmariner
    <2>5. CASE DeleteAddon
      BY <2>1, <2>5 DEF CleansAfter, DeleteAddon
    <2>6. CASE AddonGone
      BY <2>1, <2>6 DEF CleansAfter, AddonGone
    <2>7. CASE UNCHANGED hub
      BY <2>1, <2>7 DEF CleansAfter, hub
    <2>8. HubWritesInfo \/ ObserveConfig \/ EditConfig \/ DeleteConfig \/ ChangeCredentials
             \/ NodeJoins \/ NodeLeaves \/ OutageEnds => UNCHANGED hub
      BY DEF HubWritesInfo, ObserveConfig, EditConfig, DeleteConfig, ChangeCredentials,
         NodeJoins, NodeLeaves, OutageEnds, users
    <2> QED
      BY <1>17, <2>2, <2>3, <2>4, <2>5, <2>6, <2>7, <2>8 DEF Environment
  <1>18. CASE UNCHANGED vars
    BY <1>18 DEF CleansAfter, vars, users, hub
  <1> QED
    BY <1>1, <1>2, <1>3, <1>4, <1>5, <1>6, <1>7, <1>8, <1>9, <1>10, <1>11, <1>12, <1>13,
       <1>14, <1>15, <1>16, <1>17, <1>18 DEF Next, Work

-----------------------------------------------------------------------------
(* The invariant holds at first, and a step keeps it.                      *)
LEMMA PrepareInit ==
    ASSUME CloudAssumption, Init
    PROVE  PrepareInv
  <1>1. Idle.pc = "idle" /\ Idle.net = ""
    BY DEF Idle
  <1>2. TypeOK
    <2>1. FirstConfig \in Config
      <3>1. (CHOOSE p \in NattPorts : TRUE) \in NattPorts
        BY DEF CloudAssumption
      <3> QED
        BY <3>1 DEF FirstConfig, Config, CloudAssumption
    <2>2. Idle \in Control
      BY <2>1 DEF Idle, Control, Steps, Cnis, AllClaims
    <2>3. 0 \in 0..MaxGateways /\ 0 \in 0..MaxChanges
      BY DEF CloudAssumption
    <2>4. NoCloud \in Cloud /\ [status |-> "", have |-> 0, want |-> 0] \in GwCond
      BY <2>3 DEF NoCloud, Cloud, GwCond
    <2> QED
      BY <2>1, <2>2, <2>3, <2>4 DEF Init, TypeOK
  <1>3. OwnNetwork /\ CheckedFirst /\ BuiltSoFar /\ CleansAfter
    BY <1>1 DEF Init, OwnNetwork, CheckedFirst, BuiltSoFar, CleansAfter
  <1>4. PortsFitNetwork
    BY DEF Init, PortsFitNetwork, NoCloud
  <1> QED
    BY <1>2, <1>3, <1>4 DEF PrepareInv

(* Every conjunct of the invariant follows from all of them before a step. *)
LEMMA PrepareStep ==
    ASSUME CloudAssumption, PrepareInv, [Next]_vars
    PROVE  PrepareInv'
  BY TypeStep, NetworkStep, PortsStep, BuildStep, CleanStep DEF PrepareInv

(* The inductive invariant.                                                *)
THEOREM PrepareAlways == Spec => []PrepareInv
  <1>1. Init => PrepareInv
    BY PrepareInit, CloudAssumption
  <1>2. PrepareInv /\ [Next]_vars => PrepareInv'
    BY PrepareStep, CloudAssumption
  <1> QED
    BY <1>1, <1>2, PTL DEF Spec

(* All the records of the add-on and the cloud are what they should be, and *)
(* a retried deployment never makes more gateways than a config asked for.  *)
THEOREM CloudTypeCorrect == Spec => []TypeOK
  <1>1. PrepareInv => TypeOK
    BY DEF PrepareInv
  <1> QED
    BY <1>1, PrepareAlways, PTL

(* The ports fit the cluster's network, for every site (aws.go:138,         *)
(* config_controller.go:681-763).                                          *)
THEOREM PortsAlwaysFit == Spec => []PortsFitNetwork
  <1>1. PrepareInv => PortsFitNetwork
    BY DEF PrepareInv
  <1> QED
    BY <1>1, PrepareAlways, PTL

(* What is reported, and remembered, has been done                         *)
(* (config_controller.go:298-325, 377-379).                                *)
THEOREM ReportsAreTrue == Spec => PreparedIsTrue
  <1> DEFINE True == (prepared' = "True" /\ prepared # "True")
                        \/ lastKnown' \notin {lastKnown, NoSpec}
                     => Fits(ctl.cfg) \/ ~ProviderFound
  <1>1. ASSUME PrepareInv, [Next]_vars PROVE True
    <2>1. CASE ReportPrepared
      BY <1>1, <2>1 DEF PrepareInv, BuiltSoFar, ReportPrepared, Writes, At
    <2>2. CASE UpdateGatewayStatus
      BY <1>1, <2>2 DEF PrepareInv, BuiltSoFar, UpdateGatewayStatus, At
    <2>3. CASE EnsureGateways
      BY <1>1, <2>3 DEF PrepareInv, BuiltSoFar, EnsureGateways, At
    <2>4. CASE ReportCleanUp
      BY <2>4 DEF ReportCleanUp, Report
    <2>5. CASE Restart
      BY <2>5 DEF Restart
    <2>6. CASE Environment \/ UNCHANGED vars
      BY <2>6, EnvironmentKeeps
    <2>7. CASE SyncConfig \/ SyncCleanUp \/ SetNetworkTypeIfAbsent \/ ValidateOCPVersion
               \/ GetProvider \/ DeployGateways \/ OpenPorts \/ GetProviderForCleanUp
               \/ CleanUpGateways \/ ClosePorts \/ RemoveAllGateways
      BY <2>7 DEF status, SyncConfig, SyncCleanUp, SetNetworkTypeIfAbsent,
         ValidateOCPVersion,
         GetProvider, DeployGateways, OpenPorts, GetProviderForCleanUp, CleanUpGateways,
         ClosePorts, RemoveAllGateways
    <2> QED
      BY <1>1, <2>1, <2>2, <2>3, <2>4, <2>5, <2>6, <2>7 DEF Next, Work
  <1>2. PrepareInv /\ [Next]_vars => [True]_vars
    BY <1>1
  <1> QED
    BY <1>2, PrepareAlways, PTL DEF Spec, PreparedIsTrue

(* Nothing is taken away from under a Submariner whose CR the informer had  *)
(* when the uninstall was asked for, however late it sees the rest and     *)
(* whatever CRs come later (config_controller.go:189-204, 765-772).        *)
THEOREM CleanUpComesLast == Spec => CloudOutlivesSubmariner
  <1> DEFINE Last == cloud'.gws < cloud.gws
                        \/ (cloud.internal = "open" /\ cloud'.internal = "closed")
                     => ~known
  <1>1. ASSUME PrepareInv, [Next]_vars PROVE Last
    <2>1. TypeOK /\ CleansAfter
      BY <1>1 DEF PrepareInv
    <2>2. cloud \in Cloud /\ cloud.gws \in Nat
      BY <2>1, CloudAssumption, Counters DEF Cloud
    <2>3. cloud'.gws \in Nat
      <3>1. TypeOK'
        BY <2>1, <1>1, CloudAssumption, TypeStep
      <3>2. cloud' \in Cloud /\ MaxGateways \in Nat
        BY <3>1, CloudAssumption DEF TypeOK, CloudAssumption
      <3> QED
        BY <3>2 DEF Cloud
    <2>4. CASE CleanUpGateways \/ ClosePorts
      BY <2>1, <2>4 DEF CleansAfter, CleanUpGateways, ClosePorts, At
    <2>5. CASE DeployGateways \/ OpenPorts
      BY <2>1, <2>2, <2>5, <2>3, CloudAssumption, CloudFields
    <2>6. CASE cloud' = cloud
      BY <2>2, <2>6
    <2> QED
      BY <1>1, <2>4, <2>5, <2>6, CloudKept
  <1>2. PrepareInv /\ [Next]_vars => [Last]_vars
    BY <1>1
  <1> QED
    BY <1>2, PrepareAlways, PTL DEF Spec, CloudOutlivesSubmariner

=============================================================================
