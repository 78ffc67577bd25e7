------------------------- MODULE BrokerControllerProofs -------------------------
(***************************************************************************)
(* What holds of BrokerController for every number of sets and clusters,   *)
(* in the order of the argument:                                           *)
(*                                                                         *)
(*   1. the inductive invariant KeeperInv, conjunct by conjunct;           *)
(*   2. what a step makes of ctl and of a set (ControlMoves, SetRecords,   *)
(*      ControlFields, SetFields);                                         *)
(*   3. the invariant is inductive (TypeStep, KeeperStep, KeeperInit);     *)
(*   4. how a step shows in BrokerLife (OthersLower, LifeStep);            *)
(*   5. add-ons before brokers in an uninstall (AddonsInv, AddonsStep,     *)
(*      BrokersLastStep);                                                  *)
(*   6. with a fresh set cache an uninstall forgets no set (UninstallInv,  *)
(*      UninstallStep);                                                    *)
(*   7. the theorems.                                                      *)
(***************************************************************************)
EXTENDS BrokerController, TLAPS

(* The worker deploys only for a claimed set, and lets a set go only after  *)
(* its broker. What it sees of a set may be old; but a set that it sees    *)
(* live and claimed still is claimed, since it alone takes finalizers off, *)
(* and only off a set that it has seen being deleted.                      *)
Deploying   == ctl.pc \in {"namespace", "role", "psk", "signer"}
TearingDown == ctl.pc \in {"delete_namespace", "delete_role", "release"}
Held(x)     == x.st = "live" /\ x.fins > 0

KeeperWhileDeploying ==
    Deploying => \A s \in ctl.on : set[s].fins > 0

(* What the sync sees live and claimed is claimed. After the uninstall of  *)
(* the whole add-on began, the finalizer also comes off live sets.         *)
KeeperSeen ==
    cmaCache = "live" => \A s \in Sets : Held(SetLister[s]) => set[s].fins > 0

(* What the sync sees being deleted is not live and claimed (any more, or  *)
(* yet again under the same name).                                         *)
DeletionSeen ==
    \A s \in Sets : SetLister[s].st = "deleting" => ~Held(set[s])

(* The clean-up of one set runs on a set that is being deleted.            *)
UnheldWhileCleaning ==
    TearingDown /\ ctl.of = "set"
       => \A s \in ctl.on : ~Held(set[s]) /\ ~Held(SetLister[s])

(* A clean-up that has come to the finalizer has the broker behind it.     *)
BrokerDownFirst ==
    TearingDown => \A s \in ctl.on :
       /\ s \notin signer
       /\ ctl.pc = "release" \/ (ctl.pc = "delete_role" /\ ctl.err = "nil")
          => ns[s].st # "active"

(* All brokers are taken down only when the whole add-on is uninstalled.   *)
AllOnlyOnUninstall == ctl.of = "all" => cmaCache # "live"

(* The cache never is ahead of the ClusterManagementAddOn, which goes only  *)
(* after a sync has seen it being deleted.                                 *)
SeenInOrder ==
    /\ cmaCache # "live" => cma # "live"
    /\ cma = "gone" => cmaCache # "live"
VisitsForAll       == ctl.pc = "visit" => ctl.of = "all"

AbsentUnheld == \A s \in Sets : set[s].st = "none" => set[s].fins = 0

KeeperParts ==
    /\ BrokerHasKeeper /\ AbsentUnheld /\ VisitsForAll
    /\ KeeperWhileDeploying /\ KeeperSeen /\ DeletionSeen
    /\ UnheldWhileCleaning /\ BrokerDownFirst /\ AllOnlyOnUninstall
KeeperInv == TypeOK /\ SeenInOrder /\ KeeperParts

-----------------------------------------------------------------------------
(* From any point of a sync, the ways it goes on lead to another.          *)
LEMMA ControlMoves ==
    ASSUME ctl \in Control
    PROVE  /\ Return => ctl' \in Control
           /\ NextSet => ctl' \in Control
           /\ \A step \in Steps : Goto(step) => ctl' \in Control
           /\ \A step \in Steps : Fails(step) => ctl' \in Control
  <1>1. Return => ctl' \in Control
    BY DEF Control, Steps, Return, Idle
  <1>2. NextSet => ctl' \in Control
    BY <1>1 DEF Control, Steps, NextSet
  <1>3. ASSUME NEW step \in Steps, Goto(step) PROVE ctl' \in Control
    BY <1>3 DEF Control, Goto
  <1>4. ASSUME NEW step \in Steps, Fails(step) PROVE ctl' \in Control
    BY <1>4 DEF Control, Fails
  <1> QED
    BY <1>1, <1>2, <1>3, <1>4

(* What the API server makes of a ManagedClusterSet is one.                *)
LEMMA SetRecords ==
    /\ NoSet \in SetState /\ NewSet \in SetState
    /\ \A x \in SetState :
          /\ [x EXCEPT !.fins = 0] \in SetState
          /\ [x EXCEPT !.st = "deleting"] \in SetState
          /\ x.fins < MaxFins
             => [x EXCEPT !.ann = "brokerNS", !.fins = @ + 1] \in SetState
  <1>1. MaxFins \in Nat /\ 0 \in 0..MaxFins
    BY BrokerAssumption
  <1>2. NoSet \in SetState
    BY <1>1 DEF NoSet, SetState
  <1>3. NewSet \in SetState
    BY <1>1 DEF NewSet, SetState
  <1>4. ASSUME NEW x \in SetState PROVE [x EXCEPT !.fins = 0] \in SetState
    BY <1>1 DEF SetState
  <1>5. ASSUME NEW x \in SetState PROVE [x EXCEPT !.st = "deleting"] \in SetState
    BY DEF SetState
  <1>6. ASSUME NEW x \in SetState, x.fins < MaxFins
        PROVE  [x EXCEPT !.ann = "brokerNS", !.fins = @ + 1] \in SetState
    <2>1. x.fins \in 0..MaxFins
      BY DEF SetState
    <2>2. x.fins + 1 \in 0..MaxFins
      BY <1>1, <1>6, <2>1
    <2> QED
      BY <2>2 DEF SetState
  <1> QED
    BY <1>2, <1>3, <1>4, <1>5, <1>6

(* Every action leaves a well-typed state behind.                          *)
LEMMA TypeStep == TypeOK /\ [Next]_vars => TypeOK'
  <1> SUFFICES ASSUME TypeOK, [Next]_vars PROVE TypeOK'
    OBVIOUS
  <1> USE DEF TypeOK, hub, views
  <1>1. ASSUME NEW s \in Sets, ApplyNamespace(s) PROVE TypeOK'
    <2>1. ctl' \in Control
      BY <1>1, ControlMoves DEF ApplyNamespace, Steps
    <2>2. ns' \in [Sets -> NsState]
      BY <1>1 DEF ApplyNamespace, NsState
    <2> QED
      BY <1>1, <2>1, <2>2 DEF ApplyNamespace
  <1>2. ASSUME NEW s \in Sets, ApplyRole(s) PROVE TypeOK'
    <2>1. ctl' \in Control
      BY <1>2, ControlMoves DEF ApplyRole, Steps
    <2>2. ns' \in [Sets -> NsState]
      BY <1>2 DEF ApplyRole, NsState
    <2> QED
      BY <1>2, <2>1, <2>2 DEF ApplyRole
  <1>3. ASSUME NEW s \in Sets, CreateIPSecPSKSecret(s) PROVE TypeOK'
    <2>1. ctl' \in Control
      BY <1>3, ControlMoves DEF CreateIPSecPSKSecret, Steps
    <2>2. ns' \in [Sets -> NsState]
      BY <1>3 DEF CreateIPSecPSKSecret, NsState
    <2> QED
      BY <1>3, <2>1, <2>2 DEF CreateIPSecPSKSecret
  <1>4. ASSUME NEW s \in Sets, SetupCertificateManagement(s) PROVE TypeOK'
    <2>1. ctl' \in Control
      BY <1>4, ControlMoves DEF SetupCertificateManagement
    <2> QED
      BY <1>4, <2>1 DEF SetupCertificateManagement
  <1>5. ASSUME NEW s \in Sets, DeleteNamespace(s) PROVE TypeOK'
    <2>1. ctl' \in Control
      BY <1>5, ControlMoves DEF DeleteNamespace, Steps
    <2>2. ns' \in [Sets -> NsState]
      BY <1>5 DEF DeleteNamespace, NsState
    <2> QED
      BY <1>5, <2>1, <2>2 DEF DeleteNamespace
  <1>6. ASSUME NEW s \in Sets, DeleteRole(s) PROVE TypeOK'
    <2>1. ctl' \in Control
      BY <1>6, ControlMoves DEF DeleteRole, Steps
    <2>2. ns' \in [Sets -> NsState]
      BY <1>6 DEF DeleteRole, NsState
    <2> QED
      BY <1>6, <2>1, <2>2 DEF DeleteRole
  <1>7. ASSUME NEW s \in Sets, Release(s) PROVE TypeOK'
    <2>1. ctl' \in Control
      BY <1>7, ControlMoves DEF Release
    <2>2. set' \in [Sets -> SetState]
      <3>1. set[s] \in SetState
        OBVIOUS
      <3>2. WithoutFinalizer(set[s]) \in SetState
        BY <3>1, SetRecords DEF WithoutFinalizer
      <3> QED
        BY <1>7, <3>2 DEF Release
    <2> QED
      BY <1>7, <2>1, <2>2 DEF Release
  <1>8. ASSUME NEW s \in Sets, Visit(s) PROVE TypeOK'
    <2>1. ctl' \in Control
      BY <1>8 DEF Visit, Control, Steps
    <2> QED
      BY <1>8, <2>1 DEF Visit
  <1>9. ASSUME NEW s \in Sets, Claim(s) PROVE TypeOK'
    <2>1. set' \in [Sets -> SetState]
      BY <1>9, SetRecords DEF Claim
    <2> QED
      BY <1>9, <2>1 DEF Claim
  <1>10. ASSUME NEW s \in Sets, Deploy(s) PROVE TypeOK'
    <2>1. ctl' \in Control
      BY <1>10 DEF Deploy, Control, Steps, Idle
    <2> QED
      BY <1>10, <2>1 DEF Deploy
  <1>11. ASSUME NEW s \in Sets, CleanUp(s) PROVE TypeOK'
    <2>1. ctl' \in Control
      BY <1>11 DEF CleanUp, Control, Steps, Idle
    <2> QED
      BY <1>11, <2>1 DEF CleanUp
  <1>12. ASSUME NEW s \in Sets, CreateSet(s) PROVE TypeOK'
    <2>1. set' \in [Sets -> SetState]
      BY <1>12, SetRecords DEF CreateSet
    <2> QED
      BY <1>12, <2>1 DEF CreateSet
  <1>13. ASSUME NEW s \in Sets, DeleteSet(s) PROVE TypeOK'
    <2>1. set' \in [Sets -> SetState]
      <3>1. set[s] \in SetState
        OBVIOUS
      <3>2. [set[s] EXCEPT !.st = "deleting"] \in SetState /\ NoSet \in SetState
        BY <3>1, SetRecords
      <3> QED
        BY <1>13, <3>2 DEF DeleteSet
    <2> QED
      BY <1>13, <2>1 DEF DeleteSet
  <1>14. ASSUME NEW s \in Sets, RemoveAnnotation(s) PROVE TypeOK'
    <2>1. set' \in [Sets -> SetState]
      <3>1. set[s] \in SetState
        OBVIOUS
      <3>2. [set[s] EXCEPT !.ann = ""] \in SetState
        BY <3>1 DEF SetState
      <3> QED
        BY <1>14, <3>2 DEF RemoveAnnotation
    <2> QED
      BY <1>14, <2>1 DEF RemoveAnnotation
  <1>15. ASSUME NEW s \in Sets, Terminate(s) PROVE TypeOK'
    <2>1. ns' \in [Sets -> NsState]
      BY <1>15 DEF Terminate, NsState, NoNs
    <2> QED
      BY <1>15, <2>1 DEF Terminate
  <1>16. ASSUME NEW s \in Sets, ObserveSet(s) PROVE TypeOK'
    BY <1>16 DEF ObserveSet
  <1>17. ASSUME NEW c \in Clusters, DeleteOwnedAddon(c) PROVE TypeOK'
    <2>1. ctl' \in Control
      BY <1>17, ControlMoves DEF DeleteOwnedAddon, Control, Steps
    <2>2. addon' \in [Clusters -> {"none", "live", "deleting"}]
      BY <1>17 DEF DeleteOwnedAddon
    <2> QED
      BY <1>17, <2>1, <2>2 DEF DeleteOwnedAddon
  <1>18. ASSUME NEW c \in Clusters, CreateAddon(c) PROVE TypeOK'
    <2>1. addon' \in [Clusters -> {"none", "live", "deleting"}]
      BY <1>18 DEF CreateAddon
    <2> QED
      BY <1>18, <2>1 DEF CreateAddon
  <1>19. ASSUME NEW c \in Clusters, ObserveOwner(c) \/ ObserveEnd(c) PROVE TypeOK'
    <2>1. addonCache' \in [Clusters -> {"no", "owned", "former"}]
      BY <1>19 DEF ObserveOwner, ObserveEnd
    <2> QED
      BY <1>19, <2>1 DEF ObserveOwner, ObserveEnd
  <1>20. ASSUME NEW c \in Clusters, DeleteAddon(c) PROVE TypeOK'
    <2>1. addon' \in [Clusters -> {"none", "live", "deleting"}]
      BY <1>20 DEF DeleteAddon
    <2> QED
      BY <1>20, <2>1 DEF DeleteAddon
  <1>21. ASSUME NEW c \in Clusters, AddonGone(c) PROVE TypeOK'
    <2>1. addon' \in [Clusters -> {"none", "live", "deleting"}]
      BY <1>21 DEF AddonGone
    <2>2. addonCache' \in [Clusters -> {"no", "owned", "former"}]
      BY <1>21 DEF AddonGone
    <2> QED
      BY <1>21, <2>1, <2>2 DEF AddonGone
  <1>22. CASE ReleaseAll
    <2>1. ctl' \in Control
      BY <1>22, ControlMoves DEF ReleaseAll
    <2> QED
      BY <1>22, <2>1 DEF ReleaseAll
  <1>23. CASE DeleteAddons
    <2>1. ctl' \in Control
      BY <1>23 DEF DeleteAddons, Owned, Control, Steps, Idle
    <2> QED
      BY <1>23, <2>1 DEF DeleteAddons
  <1>24. CASE DeleteAllBrokers
    <2>1. ctl' \in Control
      BY <1>24 DEF DeleteAllBrokers, Control, Steps, Idle
    <2> QED
      BY <1>24, <2>1 DEF DeleteAllBrokers
  <1>25. CASE Restart
    <2>1. ctl' \in Control
      BY <1>25, ControlMoves DEF Restart
    <2> QED
      BY <1>25, <2>1 DEF Restart
  <1>26. CASE DeleteCMA
    BY <1>26 DEF DeleteCMA
  <1>27. CASE OutageEnds
    BY <1>27 DEF OutageEnds
  <1>28. CASE UNCHANGED vars
    BY <1>28 DEF vars
  <1>29. CASE ObserveCMA
    BY <1>29 DEF ObserveCMA
  <1> QED
    BY <1>1, <1>2, <1>3, <1>4, <1>5, <1>6, <1>7, <1>8, <1>9, <1>10, <1>11,
       <1>12, <1>13, <1>14, <1>15, <1>16, <1>17, <1>18, <1>19, <1>20,
       <1>21, <1>22, <1>23, <1>24, <1>25, <1>26, <1>27, <1>28, <1>29
       DEF Next, Work, SyncSet, SyncAll, Users, Cluster

-----------------------------------------------------------------------------
(* What the steps of a sync do to ctl, field by field.                     *)
LEMMA ControlFields ==
    ASSUME ctl \in Control
    PROVE  /\ Return => /\ ctl'.pc = "idle" /\ ctl'.on = {}
                        /\ ctl'.of = "set" /\ ctl'.err = "nil"
           /\ NextSet => /\ ctl'.pc \in {"visit", "idle"} /\ ctl'.on = {}
                         /\ ctl'.of \in {ctl.of, "set"}
                         /\ ctl'.pc = "visit" => ctl'.of = "all"
           /\ \A step \in Steps : Goto(step) =>
                 /\ ctl'.pc = step /\ ctl'.on = ctl.on
                 /\ ctl'.of = ctl.of /\ ctl'.err = ctl.err
           /\ \A step \in Steps : Fails(step) =>
                 /\ ctl'.pc = step /\ ctl'.on = ctl.on
                 /\ ctl'.of = ctl.of /\ ctl'.err = "error"
           /\ {"role", "psk", "signer", "delete_role", "release"} \subseteq Steps
  <1>1. Return => /\ ctl'.pc = "idle" /\ ctl'.on = {}
                  /\ ctl'.of = "set" /\ ctl'.err = "nil"
    BY DEF Return, Idle
  <1>2. NextSet => /\ ctl'.pc \in {"visit", "idle"} /\ ctl'.on = {}
                   /\ ctl'.of \in {ctl.of, "set"}
                   /\ ctl'.pc = "visit" => ctl'.of = "all"
    BY <1>1 DEF NextSet, Control
  <1>3. ASSUME NEW step \in Steps, Goto(step)
        PROVE  /\ ctl'.pc = step /\ ctl'.on = ctl.on
               /\ ctl'.of = ctl.of /\ ctl'.err = ctl.err
    BY <1>3 DEF Goto, Control
  <1>4. ASSUME NEW step \in Steps, Fails(step)
        PROVE  /\ ctl'.pc = step /\ ctl'.on = ctl.on
               /\ ctl'.of = ctl.of /\ ctl'.err = "error"
    BY <1>4 DEF Fails, Control
  <1>5. {"role", "psk", "signer", "delete_role", "release"} \subseteq Steps
    BY DEF Steps
  <1> QED
    BY <1>1, <1>2, <1>3, <1>4, <1>5

(* What the API server keeps of a ManagedClusterSet that is changed.       *)
LEMMA SetFields ==
    ASSUME NEW x \in SetState
    PROVE  /\ [x EXCEPT !.ann = "brokerNS", !.fins = @ + 1].st = x.st
           /\ [x EXCEPT !.ann = "brokerNS", !.fins = @ + 1].fins > 0
           /\ WithoutFinalizer(x).st # "deleting" /\ WithoutFinalizer(x).fins = 0
           /\ x.st = "none" => WithoutFinalizer(x).st = "none"
  <1>1. x.fins \in 0..MaxFins /\ MaxFins \in Nat
    BY BrokerAssumption DEF SetState
  <1>2. [x EXCEPT !.ann = "brokerNS", !.fins = @ + 1].st = x.st
    BY DEF SetState
  <1>3. [x EXCEPT !.ann = "brokerNS", !.fins = @ + 1].fins = x.fins + 1
    BY DEF SetState
  <1>4. WithoutFinalizer(x).st # "deleting" /\ WithoutFinalizer(x).fins = 0
    BY DEF WithoutFinalizer, NoSet, SetState
  <1>5. x.st = "none" => WithoutFinalizer(x).st = "none"
    BY DEF WithoutFinalizer, NoSet, SetState
  <1> QED
    BY <1>1, <1>2, <1>3, <1>4, <1>5

(* Each action keeps every conjunct. Most change nothing that a conjunct   *)
(* speaks of; Claim and Release change a set, and where a conjunct about   *)
(* that set survives, it is by UnheldWhileCleaning (Release finds no held  *)
(* set) or because a claimed set is one more that has its finalizer.       *)
LEMMA KeeperStep == KeeperInv /\ [Next]_vars => KeeperParts'
  <1> SUFFICES ASSUME TypeOK, SeenInOrder, KeeperParts, [Next]_vars PROVE KeeperParts'
    BY DEF KeeperInv
  <1> USE DEF KeeperParts, TypeOK, hub, views
  <1>1. ASSUME NEW s \in Sets, ApplyNamespace(s) PROVE KeeperParts'
    <2>1. Goto("role") \/ Fails("role")
      BY <1>1 DEF ApplyNamespace
    <2>2. At("namespace") /\ ctl.on = {s}
      BY <1>1 DEF ApplyNamespace, On
    <2>3. \A r \in Sets : ns'[r].st = "active" => r = s \/ ns[r].st = "active"
      BY <1>1 DEF ApplyNamespace, NsState
    <2>4. UNCHANGED <<set, setCache, signer, cma, cmaCache>>
      BY <1>1 DEF ApplyNamespace
    <2>5. BrokerHasKeeper'
      BY <2>1, <2>2, <2>3, <2>4, ControlFields DEF BrokerHasKeeper, At,
         KeeperWhileDeploying, Deploying
    <2>6. KeeperWhileDeploying'
      BY <2>1, <2>2, <2>3, <2>4, ControlFields DEF KeeperWhileDeploying,
         Deploying, At
    <2>7. KeeperSeen'
      BY <2>1, <2>2, <2>3, <2>4, ControlFields DEF KeeperSeen, Held,
         SetLister, At
    <2>8. DeletionSeen'
      BY <2>1, <2>2, <2>3, <2>4, ControlFields DEF DeletionSeen, Held,
         SetLister, At
    <2>9. UnheldWhileCleaning'
      BY <2>1, <2>2, <2>3, <2>4, ControlFields DEF UnheldWhileCleaning,
         TearingDown, Held, SetLister, At
    <2>10. BrokerDownFirst'
      BY <2>1, <2>2, <2>3, <2>4, ControlFields DEF BrokerDownFirst,
         TearingDown, At
    <2>11. AllOnlyOnUninstall'
      BY <2>1, <2>2, <2>3, <2>4, ControlFields DEF AllOnlyOnUninstall, At
    <2>12. AbsentUnheld'
      BY <2>1, <2>2, <2>3, <2>4, ControlFields DEF AbsentUnheld, At
    <2>13. VisitsForAll'
      BY <2>1, <2>2, <2>3, <2>4, ControlFields DEF VisitsForAll, At
    <2> QED
      BY <2>5, <2>6, <2>7, <2>8, <2>9, <2>10, <2>11, <2>12, <2>13
  <1>2. ASSUME NEW s \in Sets, ApplyRole(s) PROVE KeeperParts'
    <2>1. Return \/ Goto("psk")
      BY <1>2 DEF ApplyRole
    <2>2. At("role")
      BY <1>2 DEF ApplyRole
    <2>3. \A r \in Sets : ns'[r].st = ns[r].st
      BY <1>2 DEF ApplyRole, NsState
    <2>4. UNCHANGED <<set, setCache, signer, cma, cmaCache>>
      BY <1>2 DEF ApplyRole
    <2>5. BrokerHasKeeper'
      BY <2>1, <2>2, <2>3, <2>4, ControlFields DEF BrokerHasKeeper, At
    <2>6. KeeperWhileDeploying'
      BY <2>1, <2>2, <2>3, <2>4, ControlFields DEF KeeperWhileDeploying,
         Deploying, At
    <2>7. KeeperSeen'
      BY <2>1, <2>2, <2>3, <2>4, ControlFields DEF KeeperSeen, Held,
         SetLister, At
    <2>8. DeletionSeen'
      BY <2>1, <2>2, <2>3, <2>4, ControlFields DEF DeletionSeen, Held,
         SetLister, At
    <2>9. UnheldWhileCleaning'
      BY <2>1, <2>2, <2>3, <2>4, ControlFields DEF UnheldWhileCleaning,
         TearingDown, Held, SetLister, At
    <2>10. BrokerDownFirst'
      BY <2>1, <2>2, <2>3, <2>4, ControlFields DEF BrokerDownFirst,
         TearingDown, At
    <2>11. AllOnlyOnUninstall'
      BY <2>1, <2>2, <2>3, <2>4, ControlFields DEF AllOnlyOnUninstall, At
    <2>12. AbsentUnheld'
      BY <2>1, <2>2, <2>3, <2>4, ControlFields DEF AbsentUnheld, At
    <2>13. VisitsForAll'
      BY <2>1, <2>2, <2>3, <2>4, ControlFields DEF VisitsForAll, At
    <2> QED
      BY <2>5, <2>6, <2>7, <2>8, <2>9, <2>10, <2>11, <2>12, <2>13
  <1>3. ASSUME NEW s \in Sets, CreateIPSecPSKSecret(s) PROVE KeeperParts'
    <2>1. Return \/ Goto("signer")
      BY <1>3 DEF CreateIPSecPSKSecret
    <2>2. At("psk")
      BY <1>3 DEF CreateIPSecPSKSecret
    <2>3. \A r \in Sets : ns'[r].st = ns[r].st
      BY <1>3 DEF CreateIPSecPSKSecret, NsState
    <2>4. UNCHANGED <<set, setCache, signer, cma, cmaCache>>
      BY <1>3 DEF CreateIPSecPSKSecret
    <2>5. BrokerHasKeeper'
      BY <2>1, <2>2, <2>3, <2>4, ControlFields DEF BrokerHasKeeper, At
    <2>6. KeeperWhileDeploying'
      BY <2>1, <2>2, <2>3, <2>4, ControlFields DEF KeeperWhileDeploying,
         Deploying, At
    <2>7. KeeperSeen'
      BY <2>1, <2>2, <2>3, <2>4, ControlFields DEF KeeperSeen, Held,
         SetLister, At
    <2>8. DeletionSeen'
      BY <2>1, <2>2, <2>3, <2>4, ControlFields DEF DeletionSeen, Held,
         SetLister, At
    <2>9. UnheldWhileCleaning'
      BY <2>1, <2>2, <2>3, <2>4, ControlFields DEF UnheldWhileCleaning,
         TearingDown, Held, SetLister, At
    <2>10. BrokerDownFirst'
      BY <2>1, <2>2, <2>3, <2>4, ControlFields DEF BrokerDownFirst,
         TearingDown, At
    <2>11. AllOnlyOnUninstall'
      BY <2>1, <2>2, <2>3, <2>4, ControlFields DEF AllOnlyOnUninstall, At
    <2>12. AbsentUnheld'
      BY <2>1, <2>2, <2>3, <2>4, ControlFields DEF AbsentUnheld, At
    <2>13. VisitsForAll'
      BY <2>1, <2>2, <2>3, <2>4, ControlFields DEF VisitsForAll, At
    <2> QED
      BY <2>5, <2>6, <2>7, <2>8, <2>9, <2>10, <2>11, <2>12, <2>13
  <1>4. ASSUME NEW s \in Sets, SetupCertificateManagement(s) PROVE KeeperParts'
    <2>1. Return
      BY <1>4 DEF SetupCertificateManagement
    <2>2. At("signer") /\ ctl.on = {s}
      BY <1>4 DEF SetupCertificateManagement, On
    <2>3. signer' \subseteq signer \cup {s}
      BY <1>4 DEF SetupCertificateManagement
    <2>4. UNCHANGED <<set, setCache, ns, cma, cmaCache>>
      BY <1>4 DEF SetupCertificateManagement
    <2>5. BrokerHasKeeper'
      BY <2>1, <2>2, <2>3, <2>4, ControlFields DEF BrokerHasKeeper, At,
         KeeperWhileDeploying, Deploying
    <2>6. KeeperWhileDeploying'
      BY <2>1, <2>2, <2>3, <2>4, ControlFields DEF KeeperWhileDeploying,
         Deploying, At
    <2>7. KeeperSeen'
      BY <2>1, <2>2, <2>3, <2>4, ControlFields DEF KeeperSeen, Held,
         SetLister, At
    <2>8. DeletionSeen'
      BY <2>1, <2>2, <2>3, <2>4, ControlFields DEF DeletionSeen, Held,
         SetLister, At
    <2>9. UnheldWhileCleaning'
      BY <2>1, <2>2, <2>3, <2>4, ControlFields DEF UnheldWhileCleaning,
         TearingDown, Held, SetLister, At
    <2>10. BrokerDownFirst'
      BY <2>1, <2>2, <2>3, <2>4, ControlFields DEF BrokerDownFirst,
         TearingDown, At
    <2>11. AllOnlyOnUninstall'
      BY <2>1, <2>2, <2>3, <2>4, ControlFields DEF AllOnlyOnUninstall, At
    <2>12. AbsentUnheld'
      BY <2>1, <2>2, <2>3, <2>4, ControlFields DEF AbsentUnheld, At
    <2>13. VisitsForAll'
      BY <2>1, <2>2, <2>3, <2>4, ControlFields DEF VisitsForAll, At
    <2> QED
      BY <2>5, <2>6, <2>7, <2>8, <2>9, <2>10, <2>11, <2>12, <2>13
  <1>5. ASSUME NEW s \in Sets, DeleteNamespace(s) PROVE KeeperParts'
    <2>1. \/ Goto("delete_role") /\ ns'[s].st # "active"
          \/ Fails("delete_role")
      BY <1>5 DEF DeleteNamespace, NsState
    <2>2. At("delete_namespace") /\ ctl.on = {s}
      BY <1>5 DEF DeleteNamespace, On
    <2>3. \A r \in Sets : ns'[r].st = "active" => ns[r].st = "active"
      BY <1>5 DEF DeleteNamespace, NsState
    <2>4. UNCHANGED <<set, setCache, signer, cma, cmaCache>>
      BY <1>5 DEF DeleteNamespace
    <2>5. BrokerHasKeeper'
      BY <2>1, <2>2, <2>3, <2>4, ControlFields DEF BrokerHasKeeper, At
    <2>6. KeeperWhileDeploying'
      BY <2>1, <2>2, <2>3, <2>4, ControlFields DEF KeeperWhileDeploying,
         Deploying, At
    <2>7. KeeperSeen'
      BY <2>1, <2>2, <2>3, <2>4, ControlFields DEF KeeperSeen, Held,
         SetLister, At
    <2>8. DeletionSeen'
      BY <2>1, <2>2, <2>3, <2>4, ControlFields DEF DeletionSeen, Held,
         SetLister, At
    <2>9. UnheldWhileCleaning'
      BY <2>1, <2>2, <2>3, <2>4, ControlFields DEF UnheldWhileCleaning,
         TearingDown, Held, SetLister, At
    <2>10. BrokerDownFirst'
      BY <2>1, <2>2, <2>3, <2>4, ControlFields DEF BrokerDownFirst,
         TearingDown, At
    <2>11. AllOnlyOnUninstall'
      BY <2>1, <2>2, <2>3, <2>4, ControlFields DEF AllOnlyOnUninstall, At
    <2>12. AbsentUnheld'
      BY <2>1, <2>2, <2>3, <2>4, ControlFields DEF AbsentUnheld, At
    <2>13. VisitsForAll'
      BY <2>1, <2>2, <2>3, <2>4, ControlFields DEF VisitsForAll, At
    <2> QED
      BY <2>5, <2>6, <2>7, <2>8, <2>9, <2>10, <2>11, <2>12, <2>13
  <1>6. ASSUME NEW s \in Sets, DeleteRole(s) PROVE KeeperParts'
    <2>1. \/ Return
          \/ Goto("release") /\ ctl.err = "nil"
      <3>1. CASE ctl.err = "nil"
        BY <1>6, <3>1 DEF DeleteRole
      <3>2. CASE ctl.err # "nil"
        <4>1. Return
          BY <1>6, <3>2, Zenon DEF DeleteRole
        <4> QED
          BY <4>1
      <3> QED
        BY <3>1, <3>2
    <2>2. At("delete_role")
      BY <1>6 DEF DeleteRole
    <2>3. \A r \in Sets : ns'[r].st = ns[r].st
      BY <1>6 DEF DeleteRole, NsState
    <2>4. UNCHANGED <<set, setCache, signer, cma, cmaCache>>
      BY <1>6 DEF DeleteRole
    <2>5. ctl.on \subseteq Sets
      BY <1>6 DEF Control
    <2>6. BrokerHasKeeper'
      BY <2>1, <2>2, <2>3, <2>4, <2>5, ControlFields DEF BrokerHasKeeper, At
    <2>7. KeeperWhileDeploying'
      BY <2>1, <2>2, <2>3, <2>4, <2>5, ControlFields DEF KeeperWhileDeploying,
         Deploying, At
    <2>8. KeeperSeen'
      BY <2>1, <2>2, <2>3, <2>4, <2>5, ControlFields DEF KeeperSeen, Held,
         SetLister, At
    <2>9. DeletionSeen'
      BY <2>1, <2>2, <2>3, <2>4, <2>5, ControlFields DEF DeletionSeen, Held,
         SetLister, At
    <2>10. UnheldWhileCleaning'
      BY <2>1, <2>2, <2>3, <2>4, <2>5, ControlFields DEF UnheldWhileCleaning,
         TearingDown, Held, SetLister, At
    <2>11. BrokerDownFirst'
      BY <2>1, <2>2, <2>3, <2>4, <2>5, ControlFields DEF BrokerDownFirst,
         TearingDown, At
    <2>12. AllOnlyOnUninstall'
      BY <2>1, <2>2, <2>3, <2>4, <2>5, ControlFields DEF AllOnlyOnUninstall,
         At
    <2>13. AbsentUnheld'
      BY <2>1, <2>2, <2>3, <2>4, <2>5, ControlFields DEF AbsentUnheld, At
    <2>14. VisitsForAll'
      BY <2>1, <2>2, <2>3, <2>4, <2>5, ControlFields DEF VisitsForAll, At
    <2> QED
      BY <2>6, <2>7, <2>8, <2>9, <2>10, <2>11, <2>12, <2>13, <2>14
  <1>7. ASSUME NEW s \in Sets, Release(s) PROVE KeeperParts'
    <2>1. Return \/ NextSet
      BY <1>7 DEF Release
    <2>2. At("release") /\ ctl.on = {s}
      BY <1>7 DEF Release, On
    <2>3. \A r \in Sets : r # s => set'[r] = set[r]
      BY <1>7 DEF Release
    <2>4. set'[s] = set[s] \/ set'[s] = WithoutFinalizer(set[s])
      BY <1>7 DEF Release
    <2>5. set'[s] = set[s] \/ (set'[s].fins = 0 /\ set'[s].st # "deleting")
      BY <1>7, <2>4, SetFields
    <2>6. UNCHANGED <<setCache, ns, signer, cma, cmaCache>>
      BY <1>7 DEF Release
    <2>7. ctl.on \subseteq Sets
      BY <1>7 DEF Control
    <2>8. BrokerHasKeeper'
      BY <2>1, <2>2, <2>3, <2>4, <2>5, <2>6, <2>7, ControlFields DEF
         BrokerHasKeeper, At, BrokerDownFirst, TearingDown, Held
    <2>9. KeeperWhileDeploying'
      BY <2>1, <2>2, <2>3, <2>4, <2>5, <2>6, <2>7, ControlFields DEF
         KeeperWhileDeploying, Deploying, At
    <2>10. KeeperSeen'
      <3> SUFFICES ASSUME cmaCache = "live", NEW r \in Sets, Held(SetLister[r])'
                   PROVE  set'[r].fins > 0
        BY <2>6 DEF KeeperSeen
      <3>1. CASE r # s \/ set'[s] = set[s]
        <4>1. set'[r] = set[r]
          BY <2>3, <3>1
        <4>2. Held(SetLister[r])
          BY <2>6, <4>1 DEF SetLister, Held
        <4> QED
          BY <4>1, <4>2 DEF KeeperSeen
      <3>2. CASE r = s /\ set'[s] # set[s]
        <4>1. ctl.of = "set"
          BY DEF AllOnlyOnUninstall, Control
        <4>2. ~Held(SetLister[s])
          BY <2>2, <4>1 DEF UnheldWhileCleaning, TearingDown, At
        <4>3. "set" \in Lagging => SetLister'[s] = SetLister[s]
          BY <2>6 DEF SetLister
        <4>4. "set" \notin Lagging => SetLister'[s] = set'[s]
          BY DEF SetLister
        <4> QED
          BY <2>5, <3>2, <4>2, <4>3, <4>4 DEF Held
      <3> QED
        BY <3>1, <3>2
    <2>11. DeletionSeen'
      BY <2>1, <2>2, <2>3, <2>4, <2>5, <2>6, <2>7, ControlFields DEF
         DeletionSeen, Held, SetLister, At
    <2>12. UnheldWhileCleaning'
      BY <2>1, <2>2, <2>3, <2>4, <2>5, <2>6, <2>7, ControlFields DEF
         UnheldWhileCleaning, TearingDown, Held, SetLister, At
    <2>13. BrokerDownFirst'
      BY <2>1, <2>2, <2>3, <2>4, <2>5, <2>6, <2>7, ControlFields DEF
         BrokerDownFirst, TearingDown, At
    <2>14. AllOnlyOnUninstall'
      BY <2>1, <2>2, <2>3, <2>4, <2>5, <2>6, <2>7, ControlFields DEF
         AllOnlyOnUninstall, At
    <2>15. AbsentUnheld'
      BY <2>1, <2>2, <2>3, <2>4, <2>5, <2>6, <2>7, ControlFields DEF
         AbsentUnheld, At
    <2>16. VisitsForAll'
      BY <2>1, <2>2, <2>3, <2>4, <2>5, <2>6, <2>7, ControlFields DEF
         VisitsForAll, At
    <2> QED
      BY <2>8, <2>9, <2>10, <2>11, <2>12, <2>13, <2>14, <2>15, <2>16
  <1>8. ASSUME NEW s \in Sets, Visit(s) PROVE KeeperParts'
    <2>1. ctl'.pc = "delete_namespace" /\ ctl'.on = {s} /\ ctl'.of = ctl.of
      BY <1>8 DEF Visit, Control
    <2>2. At("visit")
      BY <1>8 DEF Visit
    <2>3. signer' = signer \ {s}
      BY <1>8 DEF Visit
    <2>4. UNCHANGED <<set, setCache, ns, cma, cmaCache>>
      BY <1>8 DEF Visit
    <2>5. BrokerHasKeeper'
      BY <2>1, <2>2, <2>3, <2>4 DEF BrokerHasKeeper, At
    <2>6. KeeperWhileDeploying'
      BY <2>1, <2>2, <2>3, <2>4 DEF KeeperWhileDeploying, Deploying, At
    <2>7. KeeperSeen'
      BY <2>1, <2>2, <2>3, <2>4 DEF KeeperSeen, Held, SetLister, At
    <2>8. DeletionSeen'
      BY <2>1, <2>2, <2>3, <2>4 DEF DeletionSeen, Held, SetLister, At
    <2>9. UnheldWhileCleaning'
      BY <2>1, <2>2, <2>3, <2>4 DEF UnheldWhileCleaning, TearingDown, Held,
         SetLister, At, VisitsForAll
    <2>10. BrokerDownFirst'
      BY <2>1, <2>2, <2>3, <2>4 DEF BrokerDownFirst, TearingDown, At
    <2>11. AllOnlyOnUninstall'
      BY <2>1, <2>2, <2>3, <2>4 DEF AllOnlyOnUninstall, At
    <2>12. AbsentUnheld'
      BY <2>1, <2>2, <2>3, <2>4 DEF AbsentUnheld, At
    <2>13. VisitsForAll'
      BY <2>1, <2>2, <2>3, <2>4 DEF VisitsForAll, At
    <2> QED
      BY <2>5, <2>6, <2>7, <2>8, <2>9, <2>10, <2>11, <2>12, <2>13
  <1>9. ASSUME NEW s \in Sets, Claim(s) PROVE KeeperParts'
    <2>1. \A r \in Sets : r # s => set'[r] = set[r]
      BY <1>9 DEF Claim
    <2>2. set'[s] = [set[s] EXCEPT !.ann = "brokerNS", !.fins = @ + 1]
      BY <1>9 DEF Claim
    <2>3. set'[s].st = set[s].st /\ set'[s].fins > 0
      BY <1>9, <2>2, SetFields
    <2>4. At("idle") /\ SetLister[s].st = "live" /\ set[s].st # "none"
      BY <1>9 DEF Claim, Live
    <2>5. UNCHANGED <<setCache, ns, signer, ctl, cma, cmaCache>>
      BY <1>9 DEF Claim
    <2>6. ctl.on \subseteq Sets
      BY <1>9 DEF Control
    <2>7. BrokerHasKeeper'
      BY <2>1, <2>2, <2>3, <2>4, <2>5, <2>6 DEF BrokerHasKeeper, At
    <2>8. KeeperWhileDeploying'
      BY <2>1, <2>2, <2>3, <2>4, <2>5, <2>6 DEF KeeperWhileDeploying,
         Deploying, At
    <2>9. KeeperSeen'
      BY <2>1, <2>2, <2>3, <2>4, <2>5, <2>6 DEF KeeperSeen, Held, SetLister,
         At
    <2>10. DeletionSeen'
      BY <2>1, <2>2, <2>3, <2>4, <2>5, <2>6 DEF DeletionSeen, Held, SetLister,
         At
    <2>11. UnheldWhileCleaning'
      BY <2>1, <2>2, <2>3, <2>4, <2>5, <2>6 DEF UnheldWhileCleaning,
         TearingDown, Held, SetLister, At
    <2>12. BrokerDownFirst'
      BY <2>1, <2>2, <2>3, <2>4, <2>5, <2>6 DEF BrokerDownFirst, TearingDown,
         At
    <2>13. AllOnlyOnUninstall'
      BY <2>1, <2>2, <2>3, <2>4, <2>5, <2>6 DEF AllOnlyOnUninstall, At
    <2>14. AbsentUnheld'
      BY <2>1, <2>2, <2>3, <2>4, <2>5, <2>6 DEF AbsentUnheld, At
    <2>15. VisitsForAll'
      BY <2>1, <2>2, <2>3, <2>4, <2>5, <2>6 DEF VisitsForAll, At
    <2> QED
      BY <2>7, <2>8, <2>9, <2>10, <2>11, <2>12, <2>13, <2>14, <2>15
  <1>10. ASSUME NEW s \in Sets, Deploy(s) PROVE KeeperParts'
    BY <1>10 DEF Deploy, BrokerHasKeeper, KeeperWhileDeploying, KeeperSeen,
       DeletionSeen, UnheldWhileCleaning, BrokerDownFirst, AllOnlyOnUninstall,
       AbsentUnheld, VisitsForAll, Deploying, TearingDown, Held, SetLister,
       Idle, At, On, Return, Live, Claimed
  <1>11. ASSUME NEW s \in Sets, CleanUp(s) PROVE KeeperParts'
    BY <1>11 DEF CleanUp, BrokerHasKeeper, KeeperWhileDeploying, KeeperSeen,
       DeletionSeen, UnheldWhileCleaning, BrokerDownFirst, AllOnlyOnUninstall,
       AbsentUnheld, VisitsForAll, Deploying, TearingDown, Held, SetLister,
       Idle, At, On, Return
  <1>12. ASSUME NEW s \in Sets, CreateSet(s) PROVE KeeperParts'
    <2>1. \A r \in Sets : r # s => set'[r] = set[r]
      BY <1>12 DEF CreateSet
    <2>2. set'[s].st = "live" /\ set'[s].fins = 0
      BY <1>12 DEF CreateSet, NewSet
    <2>3. set[s].st = "none"
      BY <1>12 DEF CreateSet
    <2>4. UNCHANGED <<setCache, ns, signer, ctl, cma, cmaCache>>
      BY <1>12 DEF CreateSet
    <2>5. ctl.on \subseteq Sets
      BY <1>12 DEF Control
    <2>6. BrokerHasKeeper'
      BY <2>1, <2>2, <2>3, <2>4, <2>5 DEF BrokerHasKeeper, At, AbsentUnheld
    <2>7. KeeperWhileDeploying'
      BY <2>1, <2>2, <2>3, <2>4, <2>5 DEF KeeperWhileDeploying, Deploying, At,
         AbsentUnheld
    <2>8. KeeperSeen'
      BY <2>1, <2>2, <2>3, <2>4, <2>5 DEF KeeperSeen, Held, SetLister, At,
         AbsentUnheld
    <2>9. DeletionSeen'
      BY <2>1, <2>2, <2>3, <2>4, <2>5 DEF DeletionSeen, Held, SetLister, At
    <2>10. UnheldWhileCleaning'
      BY <2>1, <2>2, <2>3, <2>4, <2>5 DEF UnheldWhileCleaning, TearingDown,
         Held, SetLister, At
    <2>11. BrokerDownFirst'
      BY <2>1, <2>2, <2>3, <2>4, <2>5 DEF BrokerDownFirst, TearingDown, At
    <2>12. AllOnlyOnUninstall'
      BY <2>1, <2>2, <2>3, <2>4, <2>5 DEF AllOnlyOnUninstall, At
    <2>13. AbsentUnheld'
      BY <2>1, <2>2, <2>3, <2>4, <2>5 DEF AbsentUnheld, At
    <2>14. VisitsForAll'
      BY <2>1, <2>2, <2>3, <2>4, <2>5 DEF VisitsForAll, At
    <2> QED
      BY <2>6, <2>7, <2>8, <2>9, <2>10, <2>11, <2>12, <2>13, <2>14
  <1>13. ASSUME NEW s \in Sets, DeleteSet(s) PROVE KeeperParts'
    <2>1. \A r \in Sets : r # s => set'[r] = set[r]
      BY <1>13 DEF DeleteSet
    <2>2. set'[s].st = "none" => set'[s].fins = 0
      BY <1>13 DEF DeleteSet, NoSet, SetState
    <2>3. ~Held(set'[s]) /\ set'[s].fins = set[s].fins
      BY <1>13 DEF DeleteSet, Held, NoSet, SetState
    <2>4. UNCHANGED <<setCache, ns, signer, ctl, cma, cmaCache>>
      BY <1>13 DEF DeleteSet
    <2>5. ctl.on \subseteq Sets
      BY <1>13 DEF Control
    <2>6. BrokerHasKeeper'
      BY <2>1, <2>2, <2>3, <2>4, <2>5 DEF BrokerHasKeeper, At
    <2>7. KeeperWhileDeploying'
      BY <2>1, <2>2, <2>3, <2>4, <2>5 DEF KeeperWhileDeploying, Deploying, At
    <2>8. KeeperSeen'
      BY <2>1, <2>2, <2>3, <2>4, <2>5 DEF KeeperSeen, Held, SetLister, At
    <2>9. DeletionSeen'
      BY <2>1, <2>2, <2>3, <2>4, <2>5 DEF DeletionSeen, Held, SetLister, At
    <2>10. UnheldWhileCleaning'
      BY <2>1, <2>2, <2>3, <2>4, <2>5 DEF UnheldWhileCleaning, TearingDown,
         Held, SetLister, At
    <2>11. BrokerDownFirst'
      BY <2>1, <2>2, <2>3, <2>4, <2>5 DEF BrokerDownFirst, TearingDown, At
    <2>12. AllOnlyOnUninstall'
      BY <2>1, <2>2, <2>3, <2>4, <2>5 DEF AllOnlyOnUninstall, At
    <2>13. AbsentUnheld'
      BY <2>1, <2>2, <2>3, <2>4, <2>5 DEF AbsentUnheld, At
    <2>14. VisitsForAll'
      BY <2>1, <2>2, <2>3, <2>4, <2>5 DEF VisitsForAll, At
    <2> QED
      BY <2>6, <2>7, <2>8, <2>9, <2>10, <2>11, <2>12, <2>13, <2>14
  <1>14. ASSUME NEW s \in Sets, RemoveAnnotation(s) PROVE KeeperParts'
    <2>1. \A r \in Sets : r # s => set'[r] = set[r]
      BY <1>14 DEF RemoveAnnotation
    <2>2. set'[s].st = set[s].st /\ set'[s].fins = set[s].fins
      BY <1>14 DEF RemoveAnnotation, SetState
    <2>3. UNCHANGED <<setCache, ns, signer, ctl, cma, cmaCache>>
      BY <1>14 DEF RemoveAnnotation
    <2>4. ctl.on \subseteq Sets
      BY <1>14 DEF Control
    <2>5. BrokerHasKeeper'
      BY <2>1, <2>2, <2>3, <2>4 DEF BrokerHasKeeper, At
    <2>6. KeeperWhileDeploying'
      BY <2>1, <2>2, <2>3, <2>4 DEF KeeperWhileDeploying, Deploying, At
    <2>7. KeeperSeen'
      BY <2>1, <2>2, <2>3, <2>4 DEF KeeperSeen, Held, SetLister, At
    <2>8. DeletionSeen'
      BY <2>1, <2>2, <2>3, <2>4 DEF DeletionSeen, Held, SetLister, At
    <2>9. UnheldWhileCleaning'
      BY <2>1, <2>2, <2>3, <2>4 DEF UnheldWhileCleaning, TearingDown, Held,
         SetLister, At
    <2>10. BrokerDownFirst'
      BY <2>1, <2>2, <2>3, <2>4 DEF BrokerDownFirst, TearingDown, At
    <2>11. AllOnlyOnUninstall'
      BY <2>1, <2>2, <2>3, <2>4 DEF AllOnlyOnUninstall, At
    <2>12. AbsentUnheld'
      BY <2>1, <2>2, <2>3, <2>4 DEF AbsentUnheld, At
    <2>13. VisitsForAll'
      BY <2>1, <2>2, <2>3, <2>4 DEF VisitsForAll, At
    <2> QED
      BY <2>5, <2>6, <2>7, <2>8, <2>9, <2>10, <2>11, <2>12, <2>13
  <1>15. ASSUME NEW s \in Sets, Terminate(s) PROVE KeeperParts'
    <2>1. \A r \in Sets : ns'[r].st = "active" => ns[r].st = "active"
      BY <1>15 DEF Terminate, NsState, NoNs
    <2>2. UNCHANGED <<set, setCache, signer, ctl, cma, cmaCache>>
      BY <1>15 DEF Terminate
    <2>3. ctl.on \subseteq Sets
      BY <1>15 DEF Control
    <2>4. BrokerHasKeeper'
      BY <2>1, <2>2, <2>3 DEF BrokerHasKeeper, At
    <2>5. KeeperWhileDeploying'
      BY <2>1, <2>2, <2>3 DEF KeeperWhileDeploying, Deploying, At
    <2>6. KeeperSeen'
      BY <2>1, <2>2, <2>3 DEF KeeperSeen, Held, SetLister, At
    <2>7. DeletionSeen'
      BY <2>1, <2>2, <2>3 DEF DeletionSeen, Held, SetLister, At
    <2>8. UnheldWhileCleaning'
      BY <2>1, <2>2, <2>3 DEF UnheldWhileCleaning, TearingDown, Held,
         SetLister, At
    <2>9. BrokerDownFirst'
      BY <2>1, <2>2, <2>3 DEF BrokerDownFirst, TearingDown, At
    <2>10. AllOnlyOnUninstall'
      BY <2>1, <2>2, <2>3 DEF AllOnlyOnUninstall, At
    <2>11. AbsentUnheld'
      BY <2>1, <2>2, <2>3 DEF AbsentUnheld, At
    <2>12. VisitsForAll'
      BY <2>1, <2>2, <2>3 DEF VisitsForAll, At
    <2> QED
      BY <2>4, <2>5, <2>6, <2>7, <2>8, <2>9, <2>10, <2>11, <2>12
  <1>16. ASSUME NEW s \in Sets, ObserveSet(s) PROVE KeeperParts'
    BY <1>16 DEF ObserveSet, BrokerHasKeeper, KeeperWhileDeploying,
       KeeperSeen, DeletionSeen, UnheldWhileCleaning, BrokerDownFirst,
       AllOnlyOnUninstall, AbsentUnheld, VisitsForAll, Deploying, TearingDown,
       Held, SetLister, Idle, At, On, Return
  <1>17. ASSUME NEW c \in Clusters, DeleteOwnedAddon(c) PROVE KeeperParts'
    <2>1. Return \/ ctl' = [ctl EXCEPT !.todo = @ \ {c}]
      BY <1>17 DEF DeleteOwnedAddon
    <2>2. \/ Return
          \/ ctl'.pc = ctl.pc /\ ctl'.on = ctl.on /\ ctl'.of = ctl.of
      <3>1. ASSUME ctl' = [ctl EXCEPT !.todo = @ \ {c}]
            PROVE  ctl'.pc = ctl.pc /\ ctl'.on = ctl.on /\ ctl'.of = ctl.of
        BY <3>1 DEF Control
      <3>2. CASE Return
        BY <3>2
      <3> QED
        BY <2>1, <3>1, <3>2, Zenon
    <2>3. At("addons")
      BY <1>17 DEF DeleteOwnedAddon
    <2>4. UNCHANGED <<set, setCache, ns, signer, cma, cmaCache>>
      BY <1>17 DEF DeleteOwnedAddon
    <2>5. BrokerHasKeeper'
      BY <2>1, <2>2, <2>3, <2>4, ControlFields DEF BrokerHasKeeper, At
    <2>6. KeeperWhileDeploying'
      BY <2>1, <2>2, <2>3, <2>4, ControlFields DEF KeeperWhileDeploying,
         Deploying, At
    <2>7. KeeperSeen'
      BY <2>1, <2>2, <2>3, <2>4, ControlFields DEF KeeperSeen, Held,
         SetLister, At
    <2>8. DeletionSeen'
      BY <2>1, <2>2, <2>3, <2>4, ControlFields DEF DeletionSeen, Held,
         SetLister, At
    <2>9. UnheldWhileCleaning'
      BY <2>1, <2>2, <2>3, <2>4, ControlFields DEF UnheldWhileCleaning,
         TearingDown, Held, SetLister, At
    <2>10. BrokerDownFirst'
      BY <2>1, <2>2, <2>3, <2>4, ControlFields DEF BrokerDownFirst,
         TearingDown, At
    <2>11. AllOnlyOnUninstall'
      BY <2>1, <2>2, <2>3, <2>4, ControlFields DEF AllOnlyOnUninstall, At
    <2>12. AbsentUnheld'
      BY <2>1, <2>2, <2>3, <2>4, ControlFields DEF AbsentUnheld, At
    <2>13. VisitsForAll'
      BY <2>1, <2>2, <2>3, <2>4, ControlFields DEF VisitsForAll, At
    <2> QED
      BY <2>5, <2>6, <2>7, <2>8, <2>9, <2>10, <2>11, <2>12, <2>13
  <1>18. ASSUME NEW c \in Clusters, CreateAddon(c) PROVE KeeperParts'
    BY <1>18 DEF CreateAddon, BrokerHasKeeper, KeeperWhileDeploying,
       KeeperSeen, DeletionSeen, UnheldWhileCleaning, BrokerDownFirst,
       AllOnlyOnUninstall, AbsentUnheld, VisitsForAll, Deploying, TearingDown,
       Held, SetLister, Idle, At, On, Return
  <1>19. ASSUME NEW c \in Clusters, ObserveOwner(c) \/ ObserveEnd(c) PROVE KeeperParts'
    BY <1>19 DEF ObserveOwner, ObserveEnd, BrokerHasKeeper, KeeperWhileDeploying,
       KeeperSeen, DeletionSeen, UnheldWhileCleaning, BrokerDownFirst,
       AllOnlyOnUninstall, AbsentUnheld, VisitsForAll, Deploying, TearingDown,
       Held, SetLister, Idle, At, On, Return
  <1>20. ASSUME NEW c \in Clusters, DeleteAddon(c) PROVE KeeperParts'
    BY <1>20 DEF DeleteAddon, BrokerHasKeeper, KeeperWhileDeploying,
       KeeperSeen, DeletionSeen, UnheldWhileCleaning, BrokerDownFirst,
       AllOnlyOnUninstall, AbsentUnheld, VisitsForAll, Deploying, TearingDown,
       Held, SetLister, Idle, At, On, Return
  <1>21. ASSUME NEW c \in Clusters, AddonGone(c) PROVE KeeperParts'
    BY <1>21 DEF AddonGone, BrokerHasKeeper, KeeperWhileDeploying, KeeperSeen,
       DeletionSeen, UnheldWhileCleaning, BrokerDownFirst, AllOnlyOnUninstall,
       AbsentUnheld, VisitsForAll, Deploying, TearingDown, Held, SetLister,
       Idle, At, On, Return
  <1>22. CASE ReleaseAll
    BY <1>22 DEF ReleaseAll, BrokerHasKeeper, KeeperWhileDeploying,
       KeeperSeen, DeletionSeen, UnheldWhileCleaning, BrokerDownFirst,
       AllOnlyOnUninstall, AbsentUnheld, VisitsForAll, Deploying, TearingDown,
       Held, SetLister, Idle, At, On, Return
  <1>23. CASE DeleteAddons
    BY <1>23 DEF DeleteAddons, BrokerHasKeeper, KeeperWhileDeploying,
       KeeperSeen, DeletionSeen, UnheldWhileCleaning, BrokerDownFirst,
       AllOnlyOnUninstall, AbsentUnheld, VisitsForAll, Deploying, TearingDown,
       Held, SetLister, Idle, At, On, Return
  <1>24. CASE DeleteAllBrokers
    BY <1>24 DEF DeleteAllBrokers, BrokerHasKeeper, KeeperWhileDeploying,
       KeeperSeen, DeletionSeen, UnheldWhileCleaning, BrokerDownFirst,
       AllOnlyOnUninstall, AbsentUnheld, VisitsForAll, Deploying, TearingDown,
       Held, SetLister, Idle, At, On, Return
  <1>25. CASE Restart
    BY <1>25 DEF Restart, SeenInOrder, BrokerHasKeeper, KeeperWhileDeploying, KeeperSeen,
       DeletionSeen, UnheldWhileCleaning, BrokerDownFirst, AllOnlyOnUninstall,
       AbsentUnheld, VisitsForAll, Deploying, TearingDown, Held, SetLister,
       Idle, At, On, Return
  <1>26. CASE DeleteCMA
    BY <1>26 DEF DeleteCMA, BrokerHasKeeper, KeeperWhileDeploying, KeeperSeen,
       DeletionSeen, UnheldWhileCleaning, BrokerDownFirst, AllOnlyOnUninstall,
       AbsentUnheld, VisitsForAll, Deploying, TearingDown, Held, SetLister,
       Idle, At, On, Return
  <1>29. CASE ObserveCMA
    BY <1>29 DEF ObserveCMA, SeenInOrder, BrokerHasKeeper, KeeperWhileDeploying, KeeperSeen,
       DeletionSeen, UnheldWhileCleaning, BrokerDownFirst, AllOnlyOnUninstall,
       AbsentUnheld, VisitsForAll, Deploying, TearingDown, Held, SetLister,
       Idle, At, On, Return
  <1>27. CASE OutageEnds
    BY <1>27 DEF OutageEnds, BrokerHasKeeper, KeeperWhileDeploying,
       KeeperSeen, DeletionSeen, UnheldWhileCleaning, BrokerDownFirst,
       AllOnlyOnUninstall, AbsentUnheld, VisitsForAll, Deploying, TearingDown,
       Held, SetLister, Idle, At, On, Return
  <1>28. CASE UNCHANGED vars
    BY <1>28 DEF vars, BrokerHasKeeper, KeeperWhileDeploying, KeeperSeen,
       DeletionSeen, UnheldWhileCleaning, BrokerDownFirst, AllOnlyOnUninstall,
       AbsentUnheld, VisitsForAll, Deploying, TearingDown, Held, SetLister,
       Idle, At, On, Return
  <1> QED
    BY <1>1, <1>2, <1>3, <1>4, <1>5, <1>6, <1>7, <1>8, <1>9, <1>10, <1>11,
       <1>12, <1>13, <1>14, <1>15, <1>16, <1>17, <1>18, <1>19, <1>20,
       <1>21, <1>22, <1>23, <1>24, <1>25, <1>26, <1>27, <1>28, <1>29
       DEF Next, Work, SyncSet, SyncAll, Users, Cluster

(* A step keeps the order: only ReleaseAll lets the ClusterManagementAddOn  *)
(* go, in a sync that has seen it being deleted.                           *)
LEMMA OrderStep == KeeperInv /\ [Next]_vars => SeenInOrder'
  <1> SUFFICES ASSUME KeeperInv, [Next]_vars PROVE SeenInOrder'
    OBVIOUS
  <1> USE DEF hub, views
  <1>0. UNCHANGED <<cma, cmaCache>> => SeenInOrder'
    BY DEF KeeperInv, SeenInOrder
  <1>1. ASSUME NEW s \in Sets,
               \/ ApplyNamespace(s) \/ ApplyRole(s) \/ CreateIPSecPSKSecret(s)
               \/ SetupCertificateManagement(s) \/ DeleteNamespace(s) \/ DeleteRole(s)
               \/ Release(s) \/ Visit(s) \/ Claim(s) \/ Deploy(s) \/ CleanUp(s)
               \/ CreateSet(s) \/ DeleteSet(s) \/ RemoveAnnotation(s)
               \/ Terminate(s) \/ ObserveSet(s)
        PROVE  UNCHANGED <<cma, cmaCache>>
    BY <1>1 DEF ApplyNamespace, ApplyRole, CreateIPSecPSKSecret,
       SetupCertificateManagement, DeleteNamespace, DeleteRole, Release, Visit, Claim,
       Deploy, CleanUp, CreateSet, DeleteSet, RemoveAnnotation, Terminate, ObserveSet
  <1>2. ASSUME NEW c \in Clusters,
               \/ DeleteOwnedAddon(c) \/ CreateAddon(c) \/ DeleteAddon(c)
               \/ AddonGone(c) \/ ObserveOwner(c) \/ ObserveEnd(c)
        PROVE  UNCHANGED <<cma, cmaCache>>
    BY <1>2 DEF DeleteOwnedAddon, CreateAddon, DeleteAddon, AddonGone, ObserveOwner,
       ObserveEnd
  <1>3. CASE DeleteAddons \/ DeleteAllBrokers \/ OutageEnds \/ UNCHANGED vars
    BY <1>0, <1>3 DEF DeleteAddons, DeleteAllBrokers, OutageEnds, vars
  <1>4. CASE ReleaseAll
    <2>1. cmaCache # "live" /\ cmaCache' = cmaCache /\ cma' \in {cma, "gone"}
      BY <1>4 DEF ReleaseAll, At, KeeperInv, KeeperParts, VisitsForAll, AllOnlyOnUninstall
    <2> QED
      BY <2>1 DEF KeeperInv, SeenInOrder
  <1>5. CASE Restart \/ ObserveCMA
    BY <1>5 DEF Restart, ObserveCMA, SeenInOrder
  <1>6. CASE DeleteCMA
    BY <1>6 DEF DeleteCMA, SeenInOrder
  <1> QED
    BY <1>0, <1>1, <1>2, <1>3, <1>4, <1>5, <1>6
       DEF Next, Work, SyncSet, SyncAll, Users, Cluster

(* Initially there is no set, so nothing to keep.                          *)
LEMMA KeeperInit == Init => KeeperInv
  <1> SUFFICES ASSUME Init PROVE KeeperInv
    OBVIOUS
  <1>1. /\ ctl.pc = "idle" /\ ctl.on = {} /\ ctl.of = "set"
        /\ \A s \in Sets : /\ set[s].st = "none" /\ set[s].fins = 0
                           /\ setCache[s].st = "none" /\ ns[s].st = "none"
        /\ signer = {}
    BY DEF Init, Idle, NoSet, NoNs
  <1>2. NoSet \in SetState
    BY SetRecords
  <1>3. NoNs \in NsState
    BY DEF NoNs, NsState
  <1>4. Idle \in Control
    BY DEF Idle, Control, Steps
  <1>5. TypeOK
    BY <1>2, <1>3, <1>4 DEF Init, TypeOK
  <1>6. KeeperParts
    BY <1>1 DEF KeeperParts, BrokerHasKeeper, AbsentUnheld, VisitsForAll,
                KeeperWhileDeploying, KeeperSeen, DeletionSeen,
                UnheldWhileCleaning, BrokerDownFirst, AllOnlyOnUninstall,
                Deploying, TearingDown, Held, SetLister
  <1> QED
    BY <1>5, <1>6 DEF Init, KeeperInv, SeenInOrder

(* The finalizers stay as they are and no broker comes up.                 *)
Lowers ==
    /\ \A r \in Sets : set'[r].fins = set[r].fins
    /\ \A r \in Sets : ns'[r].st = "active" => ns[r].st = "active"
    /\ signer' \subseteq signer

(* Only four actions do anything else.                                     *)
LEMMA OthersLower ==
    KeeperInv /\ [Next]_vars
       => \/ Lowers
          \/ \E s \in Sets : \/ ApplyNamespace(s) \/ Claim(s)
                             \/ SetupCertificateManagement(s) \/ Release(s)
  <1> SUFFICES ASSUME KeeperInv, [Next]_vars,
                      ~ \E s \in Sets : \/ ApplyNamespace(s) \/ Claim(s)
                                        \/ SetupCertificateManagement(s)
                                        \/ Release(s)
               PROVE  Lowers
    OBVIOUS
  <1> USE DEF KeeperInv, TypeOK, hub, views, Lowers
  <1>1. ASSUME NEW s \in Sets, ApplyRole(s) PROVE Lowers
    BY <1>1 DEF ApplyRole, NsState
  <1>2. ASSUME NEW s \in Sets, CreateIPSecPSKSecret(s) PROVE Lowers
    BY <1>2 DEF CreateIPSecPSKSecret, NsState
  <1>3. ASSUME NEW s \in Sets, DeleteNamespace(s) PROVE Lowers
    BY <1>3 DEF DeleteNamespace, NsState
  <1>4. ASSUME NEW s \in Sets, DeleteRole(s) PROVE Lowers
    BY <1>4 DEF DeleteRole, NsState
  <1>5. ASSUME NEW s \in Sets, Visit(s) PROVE Lowers
    BY <1>5 DEF Visit
  <1>6. ASSUME NEW s \in Sets, CleanUp(s) PROVE Lowers
    BY <1>6 DEF CleanUp
  <1>7. ASSUME NEW s \in Sets, CreateSet(s) PROVE Lowers
    BY <1>7 DEF CreateSet, NewSet, NoSet, SetState, AbsentUnheld, KeeperParts
  <1>8. ASSUME NEW s \in Sets, DeleteSet(s) PROVE Lowers
    BY <1>8 DEF DeleteSet, NoSet, SetState, AbsentUnheld, KeeperParts
  <1>9. ASSUME NEW s \in Sets, RemoveAnnotation(s) PROVE Lowers
    BY <1>9 DEF RemoveAnnotation, SetState
  <1>10. ASSUME NEW s \in Sets, Terminate(s) PROVE Lowers
    BY <1>10 DEF Terminate, NsState, NoNs
  <1>11. ASSUME NEW s \in Sets, ObserveSet(s) PROVE Lowers
    BY <1>11 DEF ObserveSet
  <1>12. ASSUME NEW s \in Sets, Deploy(s) PROVE Lowers
    BY <1>12 DEF Deploy
  <1>13. ASSUME NEW c \in Clusters,
         \/ DeleteOwnedAddon(c) \/ CreateAddon(c) \/ DeleteAddon(c)
         \/ AddonGone(c) \/ ObserveOwner(c) \/ ObserveEnd(c)
        PROVE  Lowers
    BY <1>13 DEF DeleteOwnedAddon, CreateAddon, DeleteAddon, AddonGone, ObserveOwner,
       ObserveEnd
  <1>14. CASE ReleaseAll
    BY <1>14 DEF ReleaseAll
  <1>15. CASE DeleteAddons
    BY <1>15 DEF DeleteAddons
  <1>16. CASE DeleteAllBrokers
    BY <1>16 DEF DeleteAllBrokers
  <1>17. CASE Restart
    BY <1>17 DEF Restart
  <1>18. CASE DeleteCMA \/ ObserveCMA
    BY <1>18 DEF DeleteCMA, ObserveCMA
  <1>19. CASE OutageEnds
    BY <1>19 DEF OutageEnds
  <1>20. CASE UNCHANGED vars
    BY <1>20 DEF vars
  <1> QED
    BY <1>1, <1>2, <1>3, <1>4, <1>5, <1>6, <1>7, <1>8, <1>9, <1>10, <1>11,
       <1>12, <1>13, <1>14, <1>15, <1>16, <1>17, <1>18, <1>19, <1>20
       DEF Next, Work, SyncSet, SyncAll, Users, Cluster

(* Each step is one of BrokerLife, or none: what brings a broker up has a   *)
(* claimed set, and Release finds the broker down.                         *)
LEMMA LifeStep ==
    KeeperInv /\ [Next]_vars => [Life!LifeNext]_Life!lifeVars
  <1> DEFINE C == {s \in Sets : set[s].fins > 0}
             U == {s \in Sets : ns[s].st = "active" \/ s \in signer}
  <1> SUFFICES ASSUME KeeperInv, [Next]_vars
               PROVE  \/ U' \subseteq U /\ C' = C
                      \/ \E s \in Sets :
                            \/ C' = C \cup {s} /\ U' = U
                            \/ s \in C /\ U' = U \cup {s} /\ C' = C
                            \/ s \notin U /\ C' = C \ {s} /\ U' = U
    BY DEF Life!LifeNext, Life!lifeVars, Life!TakeDown, Life!Claim,
           Life!BringUp, Life!LetGo
  <1> USE DEF KeeperInv, KeeperParts, TypeOK
  <1>1. CASE Lowers
    BY <1>1 DEF Lowers
  <1>2. ASSUME NEW s \in Sets, ApplyNamespace(s)
        PROVE  C' = C /\ (U' = U \/ (s \in C /\ U' = U \cup {s}))
    <2>1. s \in C
      BY <1>2 DEF ApplyNamespace, At, On, KeeperWhileDeploying, Deploying
    <2>2. \A r \in Sets : ns'[r].st = "active" => r = s \/ ns[r].st = "active"
      BY <1>2 DEF ApplyNamespace, NsState
    <2>3. \A r \in Sets : ns[r].st = "active" => ns'[r].st = "active"
      BY <1>2 DEF ApplyNamespace, NsState
    <2>4. set' = set /\ signer' = signer
      BY <1>2 DEF ApplyNamespace
    <2>5. C' = C
      BY <2>4
    <2>6. ns'[s].st = "active" => U' = U \cup {s}
      BY <2>2, <2>3, <2>4
    <2>7. ns'[s].st # "active" => U' = U
      BY <2>2, <2>3, <2>4
    <2> HIDE DEF C, U
    <2> QED
      BY <2>1, <2>5, <2>6, <2>7
  <1>3. ASSUME NEW s \in Sets, SetupCertificateManagement(s)
        PROVE  C' = C /\ (U' = U \/ (s \in C /\ U' = U \cup {s}))
    <2>1. s \in C
      BY <1>3 DEF SetupCertificateManagement, At, On, KeeperWhileDeploying,
                  Deploying
    <2>2. /\ set' = set /\ ns' = ns
          /\ signer' = signer \/ signer' = signer \cup {s}
      BY <1>3 DEF SetupCertificateManagement
    <2>3. C' = C
      BY <2>2
    <2>4. U' = U \/ U' = U \cup {s}
      <3>1. CASE signer' = signer
        BY <2>2, <3>1
      <3>2. CASE signer' = signer \cup {s}
        BY <2>2, <3>2
      <3> QED
        BY <2>2, <3>1, <3>2
    <2> HIDE DEF C, U
    <2> QED
      BY <2>1, <2>3, <2>4
  <1>4. ASSUME NEW s \in Sets, Claim(s) PROVE C' = C \cup {s} /\ U' = U
    <2>1. set[s] \in SetState
      OBVIOUS
    <2>2. set'[s] = [set[s] EXCEPT !.ann = "brokerNS", !.fins = @ + 1]
      BY <1>4 DEF Claim
    <2>3. set'[s].fins > 0
      BY <2>1, <2>2, SetFields
    <2>4. \A r \in Sets : r # s => set'[r] = set[r]
      BY <1>4 DEF Claim
    <2>5. ns' = ns /\ signer' = signer
      BY <1>4 DEF Claim
    <2> QED
      BY <2>3, <2>4, <2>5
  <1>5. ASSUME NEW s \in Sets, Release(s)
        PROVE  U' = U /\ (C' = C \/ (s \notin U /\ C' = C \ {s}))
    <2>1. s \notin U
      BY <1>5 DEF Release, At, On, BrokerDownFirst, TearingDown
    <2>2. ns' = ns /\ signer' = signer
      BY <1>5 DEF Release
    <2>3. set' = set \/ set' = [set EXCEPT ![s] = WithoutFinalizer(@)]
      BY <1>5 DEF Release
    <2>4. set[s] \in SetState
      OBVIOUS
    <2>5. CASE set' = set
      <3>1. C' = C
        BY <2>5
      <3>2. U' = U
        BY <2>2
      <3> HIDE DEF C, U
      <3> QED
        BY <3>1, <3>2
    <2>6. CASE set' = [set EXCEPT ![s] = WithoutFinalizer(@)]
      <3>1. set'[s].fins = 0
        BY <2>4, <2>6, SetFields
      <3>2. \A r \in Sets : r # s => set'[r] = set[r]
        BY <2>6
      <3>3. C' = C \ {s}
        BY <3>1, <3>2
      <3>4. U' = U
        BY <2>2
      <3> QED
        BY <2>1, <3>3, <3>4
    <2> QED
      BY <2>3, <2>5, <2>6
  <1> HIDE DEF C, U
  <1> QED
    BY <1>1, <1>2, <1>3, <1>4, <1>5, OthersLower

-----------------------------------------------------------------------------
(* An add-on that the uninstall has to wait for is in the informer's cache  *)
(* as an owned one until it has gone, so that a sync that finds none there *)
(* has none to wait for; and there are no new ones after the sync began.   *)
OwedKnown   == \A c \in owed : KnownOwned(c)
BrokersLast == ctl.of = "all" /\ ctl.pc # "addons" => owed = {}
AddonsInv   == OwedKnown /\ BrokersLast

(* The add-ons stay, and the sync does not pass from them to the brokers.  *)
StaysPut ==
    /\ UNCHANGED <<addon, addonCache, owed>>
    /\ ctl'.of = "all" /\ ctl'.pc # "addons" => ctl.of = "all" /\ ctl.pc # "addons"

LEMMA AddonsStep == KeeperInv /\ AddonsInv /\ [Next]_vars => AddonsInv'
  <1> SUFFICES ASSUME KeeperInv, AddonsInv, [Next]_vars PROVE AddonsInv'
    OBVIOUS
  <1> USE DEF KeeperInv, TypeOK, hub, views
  <1>0. StaysPut => AddonsInv'
    BY DEF StaysPut, AddonsInv, OwedKnown, KnownOwned, BrokersLast
  <1>1. ASSUME NEW s \in Sets, ApplyNamespace(s) PROVE StaysPut
    BY <1>1, ControlFields DEF ApplyNamespace, At, StaysPut
  <1>2. ASSUME NEW s \in Sets, ApplyRole(s) PROVE StaysPut
    BY <1>2, ControlFields DEF ApplyRole, At, StaysPut
  <1>3. ASSUME NEW s \in Sets, CreateIPSecPSKSecret(s) PROVE StaysPut
    BY <1>3, ControlFields DEF CreateIPSecPSKSecret, At, StaysPut
  <1>4. ASSUME NEW s \in Sets, SetupCertificateManagement(s) PROVE StaysPut
    BY <1>4, ControlFields DEF SetupCertificateManagement, At, StaysPut
  <1>5. ASSUME NEW s \in Sets, DeleteNamespace(s) PROVE StaysPut
    BY <1>5, ControlFields DEF DeleteNamespace, At, StaysPut
  <1>6. ASSUME NEW s \in Sets, DeleteRole(s) PROVE StaysPut
    BY <1>6, ControlFields DEF DeleteRole, At, StaysPut
  <1>7. ASSUME NEW s \in Sets, Release(s) PROVE StaysPut
    BY <1>7, ControlFields DEF Release, At, StaysPut
  <1>8. ASSUME NEW s \in Sets, Visit(s) PROVE StaysPut
    BY <1>8 DEF Visit, At, StaysPut, Control
  <1>9. ASSUME NEW s \in Sets, Claim(s) PROVE StaysPut
    BY <1>9 DEF Claim, StaysPut
  <1>10. ASSUME NEW s \in Sets, Deploy(s) \/ CleanUp(s) PROVE StaysPut
    BY <1>10 DEF Deploy, CleanUp, Idle, StaysPut
  <1>11. ASSUME NEW s \in Sets,
               \/ CreateSet(s) \/ DeleteSet(s) \/ RemoveAnnotation(s)
               \/ Terminate(s) \/ ObserveSet(s)
        PROVE  StaysPut
    BY <1>11 DEF CreateSet, DeleteSet, RemoveAnnotation, Terminate, ObserveSet,
       StaysPut
  <1>12. CASE ReleaseAll
    <2>1. StaysPut
      BY <1>12, ControlFields DEF ReleaseAll, StaysPut
    <2> QED
      BY <1>0, <2>1
  <1>13. CASE DeleteAddons
    <2>1. StaysPut
      BY <1>13 DEF DeleteAddons, Idle, StaysPut
    <2> QED
      BY <1>0, <2>1
  <1>14. CASE DeleteAllBrokers
    <2>1. Owned = {} /\ UNCHANGED <<addon, addonCache, owed>>
      BY <1>14 DEF DeleteAllBrokers
    <2>2. \A c \in owed : c \in Owned
      BY DEF Owned, AddonsInv, OwedKnown, KnownOwned
    <2>3. owed = {}
      BY <2>1, <2>2
    <2> QED
      BY <2>1, <2>3 DEF AddonsInv, OwedKnown, BrokersLast
  <1>15. CASE Restart
    <2>1. /\ Return /\ UNCHANGED <<addon, owed>>
          /\ \A c \in Clusters : addonCache[c] = "owned" => addonCache'[c] = "owned"
      BY <1>15 DEF Restart
    <2>2. ctl'.of # "all"
      BY <2>1, ControlFields
    <2> QED
      BY <2>1, <2>2 DEF AddonsInv, OwedKnown, KnownOwned, BrokersLast
  <1>16. CASE OutageEnds \/ ObserveCMA \/ UNCHANGED vars
    <2>1. StaysPut
      BY <1>16 DEF OutageEnds, ObserveCMA, vars, StaysPut
    <2> QED
      BY <1>0, <2>1
  <1>17. ASSUME NEW c \in Clusters, DeleteOwnedAddon(c) PROVE AddonsInv'
    <2>1. At("addons")
      BY <1>17 DEF DeleteOwnedAddon
    <2>2. Return \/ ctl' = [ctl EXCEPT !.todo = @ \ {c}]
      BY <1>17 DEF DeleteOwnedAddon
    <2>3. ctl'.of = "all" => ctl'.pc = "addons"
      <3>1. CASE Return
        BY <3>1, ControlFields
      <3>2. CASE ctl' = [ctl EXCEPT !.todo = @ \ {c}]
        BY <2>1, <3>2 DEF At, Control
      <3> QED
        BY <2>2, <3>1, <3>2
    <2>4. /\ UNCHANGED <<addonCache, owed>>
          /\ \A d \in Clusters : addon[d] # "none" => addon'[d] # "none"
      BY <1>17 DEF DeleteOwnedAddon
    <2> QED
      BY <2>3, <2>4 DEF AddonsInv, OwedKnown, KnownOwned, BrokersLast
  <1>18. ASSUME NEW c \in Clusters, CreateAddon(c) \/ DeleteAddon(c) PROVE AddonsInv'
    <2>1. /\ UNCHANGED <<addonCache, owed, ctl>>
          /\ \A d \in Clusters : addon[d] # "none" => addon'[d] # "none"
      BY <1>18 DEF CreateAddon, DeleteAddon
    <2> QED
      BY <2>1 DEF AddonsInv, OwedKnown, KnownOwned, BrokersLast
  <1>19. ASSUME NEW c \in Clusters, ObserveOwner(c) \/ ObserveEnd(c) PROVE AddonsInv'
    <2>1. /\ UNCHANGED <<addon, owed, ctl>>
          /\ \A d \in Clusters : addonCache[d] = "owned" => addonCache'[d] = "owned"
      BY <1>19 DEF ObserveOwner, ObserveEnd
    <2> QED
      BY <2>1 DEF AddonsInv, OwedKnown, KnownOwned, BrokersLast
  <1>20. ASSUME NEW c \in Clusters, AddonGone(c) PROVE AddonsInv'
    <2>1. /\ owed' = owed \ {c} /\ ctl' = ctl
          /\ \A d \in Clusters \ {c} : addon'[d] = addon[d] /\ addonCache'[d] = addonCache[d]
      BY <1>20 DEF AddonGone
    <2> QED
      BY <2>1 DEF AddonsInv, OwedKnown, KnownOwned, BrokersLast
  <1>21. CASE DeleteCMA
    <2>1. /\ cma = "live" /\ owed' = {c \in Clusters : KnownOwned(c)}
          /\ UNCHANGED <<addon, addonCache, ctl>>
      BY <1>21 DEF DeleteCMA
    <2>2. ctl.of # "all"
      BY <2>1 DEF KeeperParts, AllOnlyOnUninstall, SeenInOrder
    <2> QED
      BY <2>1, <2>2 DEF AddonsInv, OwedKnown, KnownOwned, BrokersLast
  <1> QED
    BY <1>0, <1>1, <1>2, <1>3, <1>4, <1>5, <1>6, <1>7, <1>8, <1>9,
       <1>10, <1>11, <1>12, <1>13, <1>14, <1>15, <1>16, <1>17, <1>18,
       <1>19, <1>20, <1>21
       DEF Next, Work, SyncSet, SyncAll, Users, Cluster

(* Only DeleteNamespace takes an active broker namespace down; when it runs *)
(* for all sets, the sync is past the add-ons.                             *)
LEMMA BrokersLastStep ==
    KeeperInv /\ AddonsInv /\ [Next]_vars
       => ((ctl.of = "all" /\ \E s \in Sets : ns[s].st = "active" /\ ns'[s].st # "active")
              => owed = {})
  <1> SUFFICES ASSUME KeeperInv, AddonsInv, [Next]_vars, ctl.of = "all",
                      NEW s \in Sets, ns[s].st = "active", ns'[s].st # "active"
               PROVE  ctl.pc # "addons"
    BY DEF AddonsInv, BrokersLast
  <1> USE DEF KeeperInv, TypeOK, hub, views
  <1>1. ASSUME NEW r \in Sets,
               \/ ApplyNamespace(r) \/ ApplyRole(r) \/ CreateIPSecPSKSecret(r)
               \/ DeleteNamespace(r) \/ DeleteRole(r)
        PROVE  ctl.pc # "addons"
    BY <1>1 DEF ApplyNamespace, ApplyRole, CreateIPSecPSKSecret, DeleteNamespace,
       DeleteRole, At
  <1>2. ASSUME NEW r \in Sets, Terminate(r) PROVE FALSE
    BY <1>2 DEF Terminate, NsState
  <1>3. ASSUME ns' = ns PROVE FALSE
    BY <1>3
  <1>4. ASSUME NEW r \in Sets,
               \/ SetupCertificateManagement(r) \/ Release(r) \/ Visit(r)
               \/ Claim(r) \/ Deploy(r) \/ CleanUp(r) \/ CreateSet(r)
               \/ DeleteSet(r) \/ RemoveAnnotation(r) \/ ObserveSet(r)
        PROVE  ns' = ns
    BY <1>4 DEF SetupCertificateManagement, Release, Visit, Claim, Deploy,
       CleanUp, CreateSet, DeleteSet, RemoveAnnotation, ObserveSet
  <1>5. ASSUME NEW c \in Clusters,
               \/ DeleteOwnedAddon(c) \/ CreateAddon(c) \/ DeleteAddon(c)
               \/ AddonGone(c) \/ ObserveOwner(c) \/ ObserveEnd(c)
        PROVE  ns' = ns
    BY <1>5 DEF DeleteOwnedAddon, CreateAddon, DeleteAddon, AddonGone, ObserveOwner,
       ObserveEnd
  <1>6. ASSUME \/ ReleaseAll \/ DeleteAddons \/ DeleteAllBrokers \/ Restart
               \/ DeleteCMA \/ ObserveCMA \/ OutageEnds \/ UNCHANGED vars
        PROVE  ns' = ns
    BY <1>6 DEF ReleaseAll, DeleteAddons, DeleteAllBrokers, Restart, DeleteCMA,
       ObserveCMA, OutageEnds, vars
  <1> QED
    BY <1>1, <1>2, <1>3, <1>4, <1>5, <1>6
       DEF Next, Work, SyncSet, SyncAll, Users, Cluster

-----------------------------------------------------------------------------
(* When the ClusterManagementAddOn has gone, no set is left with a broker,  *)
(* or with a finalizer that nobody will take off any more                  *)
(* (controller.go:299-315).                                                *)
UninstallIsClean ==
    cma = "gone" =>
       \A s \in Sets : set[s].fins = 0 /\ ns[s].st # "active" /\ s \notin signer

(* What doAllClusterSetCleanup knows, as long as the set cache is fresh    *)
(* and nobody removes an annotation: it visits every set that has the      *)
(* finalizer, because such a set also has the annotation.                  *)
HeldAnnotated == \A s \in Sets : set[s].fins > 0 => set[s].ann # ""
NoneForgotten ==
    ctl.of = "all" /\ ctl.pc # "addons" =>
       \A s \in Sets : set[s].fins > 0 => s \in ctl.todo \cup ctl.on
BetweenSets   == ctl.pc = "visit" => ctl.on = {}
AllReleased   == cma = "gone" => \A s \in Sets : ~(set[s].fins > 0)
UninstallInv  == HeldAnnotated /\ NoneForgotten /\ BetweenSets /\ AllReleased

(* No set gets a finalizer or loses the annotation, and the sync of an     *)
(* uninstall does not forget a set, or has ended.                          *)
HoldsNone ==
    /\ \A s \in Sets : set'[s].fins > 0 => set[s].fins > 0 /\ set'[s].ann = set[s].ann
    /\ cma' = "gone" => cma = "gone"
    /\ ctl'.pc = "visit" => ctl'.on = {}
    /\ \/ ctl'.of # "all" \/ ctl'.pc = "addons"
       \/ /\ ctl.of = "all" /\ ctl.pc # "addons"
          /\ ctl.todo \cup ctl.on \subseteq ctl'.todo \cup ctl'.on

LEMMA UninstallStep ==
  ASSUME "set" \notin Lagging, "annotations" \notin Events,
         KeeperInv, UninstallInv, [Next]_vars
  PROVE  UninstallInv'
  <1> USE DEF KeeperInv, TypeOK, hub, views
  <1>0. HoldsNone => UninstallInv'
    BY DEF HoldsNone, UninstallInv, HeldAnnotated, NoneForgotten, BetweenSets,
           AllReleased
  <1>g. \A step \in Steps : Goto(step) \/ Fails(step) => ctl'.todo = ctl.todo
    BY DEF Goto, Fails, Control
  <1>1. ASSUME NEW s \in Sets, ApplyNamespace(s) PROVE HoldsNone
    BY <1>1, <1>g, ControlFields DEF ApplyNamespace, At, HoldsNone
  <1>2. ASSUME NEW s \in Sets, ApplyRole(s) PROVE HoldsNone
    BY <1>2, <1>g, ControlFields DEF ApplyRole, At, HoldsNone
  <1>3. ASSUME NEW s \in Sets, CreateIPSecPSKSecret(s) PROVE HoldsNone
    BY <1>3, <1>g, ControlFields DEF CreateIPSecPSKSecret, At, HoldsNone
  <1>4. ASSUME NEW s \in Sets, SetupCertificateManagement(s) PROVE HoldsNone
    BY <1>4, ControlFields DEF SetupCertificateManagement, At, HoldsNone
  <1>5. ASSUME NEW s \in Sets, DeleteNamespace(s) PROVE HoldsNone
    BY <1>5, <1>g, ControlFields DEF DeleteNamespace, At, HoldsNone
  <1>6. ASSUME NEW s \in Sets, DeleteRole(s) PROVE HoldsNone
    BY <1>6, <1>g, ControlFields DEF DeleteRole, At, HoldsNone
  <1>7. ASSUME NEW s \in Sets, Release(s) PROVE UninstallInv'
    <2>1. /\ At("release") /\ ctl.on = {s} /\ cma' = cma
          /\ \/ NextSet /\ set' = [set EXCEPT ![s] = WithoutFinalizer(@)]
             \/ Return /\ set' = set
      BY <1>7 DEF Release, On
    <2>2. CASE Return /\ set' = set
      <3>1. HoldsNone
        BY <2>1, <2>2, ControlFields DEF HoldsNone
      <3> QED
        BY <1>0, <3>1
    <2>3. CASE NextSet /\ set' = [set EXCEPT ![s] = WithoutFinalizer(@)]
      <3>1. /\ set'[s].fins = 0
            /\ \A r \in Sets : r # s => set'[r] = set[r]
        BY <2>3, SetFields
      <3>2. ctl'.on = {} /\ (ctl'.of = "all" => ctl.of = "all" /\ ctl'.todo = ctl.todo)
        <4>1. CASE ctl.of = "all"
          BY <2>3, <4>1 DEF NextSet, Control
        <4>2. CASE ctl.of # "all"
          BY <2>3, <4>2 DEF NextSet, Return, Idle
        <4> QED
          BY <4>1, <4>2
      <3>3. \A r \in Sets : set'[r].fins > 0 => r # s /\ set'[r] = set[r]
        BY <3>1
      <3> QED
        BY <2>1, <3>2, <3>3 DEF UninstallInv, HeldAnnotated, NoneForgotten,
           BetweenSets, AllReleased, At
    <2> QED
      BY <2>1, <2>2, <2>3
  <1>8. ASSUME NEW s \in Sets, Visit(s) PROVE HoldsNone
    <2>1. ctl' = [ctl EXCEPT !.pc = "delete_namespace", !.on = {s}, !.todo = @ \ {s}]
      BY <1>8 DEF Visit
    <2>2. /\ ctl'.pc = "delete_namespace" /\ ctl'.on = {s}
          /\ ctl'.todo = ctl.todo \ {s} /\ ctl'.of = ctl.of
      BY <2>1 DEF Control
    <2>3. ctl.pc = "visit" /\ ctl.on = {} /\ ctl.of = "all"
      BY <1>8 DEF Visit, At, UninstallInv, BetweenSets, KeeperParts, VisitsForAll
    <2>4. set' = set /\ cma' = cma
      BY <1>8 DEF Visit
    <2> QED
      BY <2>2, <2>3, <2>4 DEF HoldsNone
  <1>9. ASSUME NEW s \in Sets, Claim(s) PROVE UninstallInv'
    <2>1. /\ cmaCache = "live" /\ cma' = cma /\ ctl' = ctl /\ ctl.pc = "idle"
      BY <1>9 DEF Claim, Live, At
    <2>2. /\ set'[s].ann = "brokerNS"
          /\ \A r \in Sets : r # s => set'[r] = set[r]
      BY <1>9 DEF Claim, SetState
    <2>3. ctl.of # "all" /\ cma # "gone"
      BY <2>1 DEF KeeperParts, AllOnlyOnUninstall, SeenInOrder
    <2> QED
      BY <2>1, <2>2, <2>3 DEF UninstallInv, HeldAnnotated, NoneForgotten,
         BetweenSets, AllReleased
  <1>10. ASSUME NEW s \in Sets, Deploy(s) \/ CleanUp(s) PROVE HoldsNone
    BY <1>10 DEF Deploy, CleanUp, Idle, HoldsNone
  <1>11. ASSUME NEW s \in Sets, CreateSet(s) \/ DeleteSet(s) PROVE HoldsNone
    <2>1. /\ \A r \in Sets : r # s => set'[r] = set[r]
          /\ set'[s].fins > 0 => set[s].fins > 0 /\ set'[s].ann = set[s].ann
      <3>1. CASE CreateSet(s)
        <4>1. ~(NewSet.fins > 0)
          BY DEF NewSet
        <4> QED
          BY <3>1, <4>1 DEF CreateSet
      <3>2. CASE DeleteSet(s)
        <4>1. ~(NoSet.fins > 0)
          BY DEF NoSet
        <4>2. /\ [set[s] EXCEPT !.st = "deleting"].fins = set[s].fins
              /\ [set[s] EXCEPT !.st = "deleting"].ann = set[s].ann
          BY DEF SetState
        <4>3. set' = [set EXCEPT ![s] = IF set[s].fins = 0 THEN NoSet
                                         ELSE [set[s] EXCEPT !.st = "deleting"]]
          BY <3>2 DEF DeleteSet
        <4>4. /\ \A r \in Sets : r # s => set'[r] = set[r]
              /\ \/ set'[s] = NoSet
                 \/ set[s].fins # 0 /\ set'[s] = [set[s] EXCEPT !.st = "deleting"]
          BY <4>3
        <4> QED
          BY <4>1, <4>2, <4>4
      <3> QED
        BY <1>11, <3>1, <3>2
    <2>2. ctl' = ctl /\ cma' = cma
      BY <1>11 DEF CreateSet, DeleteSet
    <2> QED
      BY <2>1, <2>2 DEF HoldsNone, UninstallInv, BetweenSets
  <1>12. ASSUME NEW s \in Sets, RemoveAnnotation(s) \/ ObserveSet(s) PROVE FALSE
    BY <1>12 DEF RemoveAnnotation, ObserveSet
  <1>13. ASSUME NEW s \in Sets, Terminate(s) PROVE HoldsNone
    BY <1>13 DEF Terminate, HoldsNone, UninstallInv, BetweenSets
  <1>14. ASSUME NEW c \in Clusters, DeleteOwnedAddon(c) PROVE HoldsNone
    <2>1. /\ At("addons") /\ set' = set /\ cma' = cma
          /\ Return \/ ctl' = [ctl EXCEPT !.todo = @ \ {c}]
      BY <1>14 DEF DeleteOwnedAddon
    <2>2. CASE Return
      BY <2>1, <2>2, ControlFields DEF HoldsNone
    <2>3. CASE ctl' = [ctl EXCEPT !.todo = @ \ {c}]
      BY <2>1, <2>3 DEF HoldsNone, At, Control
    <2> QED
      BY <2>1, <2>2, <2>3
  <1>15. ASSUME NEW c \in Clusters,
                \/ CreateAddon(c) \/ DeleteAddon(c) \/ AddonGone(c)
                \/ ObserveOwner(c) \/ ObserveEnd(c)
         PROVE  HoldsNone
    BY <1>15 DEF CreateAddon, DeleteAddon, AddonGone, ObserveOwner, ObserveEnd,
                 HoldsNone, UninstallInv, BetweenSets
  <1>16. CASE ReleaseAll
    <2>1. /\ ctl.pc = "visit" /\ ctl.todo = {} /\ set' = set /\ Return
      BY <1>16 DEF ReleaseAll, At
    <2>2. ctl.on = {} /\ ctl.of = "all"
      BY <2>1 DEF UninstallInv, BetweenSets, KeeperParts, VisitsForAll
    <2>3. \A s \in Sets : ~(set[s].fins > 0)
      BY <2>1, <2>2 DEF UninstallInv, NoneForgotten
    <2> QED
      BY <2>1, <2>3, ControlFields DEF UninstallInv, HeldAnnotated, NoneForgotten,
         BetweenSets, AllReleased
  <1>17. CASE DeleteAddons
    <2>1. HoldsNone
      BY <1>17 DEF DeleteAddons, Idle, HoldsNone
    <2> QED
      BY <1>0, <2>1
  <1>18. CASE DeleteAllBrokers
    <2>1. /\ ctl'.pc = "visit" /\ ctl'.on = {}
          /\ ctl'.todo = {s \in Sets : SetLister[s].ann # ""}
          /\ set' = set /\ cma' = cma
      BY <1>18 DEF DeleteAllBrokers, Idle
    <2>2. SetLister = set
      BY DEF SetLister
    <2> QED
      BY <2>1, <2>2 DEF UninstallInv, HeldAnnotated, NoneForgotten, BetweenSets,
         AllReleased
  <1>19. CASE Restart
    <2>1. HoldsNone
      BY <1>19, ControlFields DEF Restart, HoldsNone
    <2> QED
      BY <1>0, <2>1
  <1>20. CASE DeleteCMA \/ ObserveCMA \/ OutageEnds \/ UNCHANGED vars
    <2>1. HoldsNone
      BY <1>20 DEF DeleteCMA, ObserveCMA, OutageEnds, vars, HoldsNone, UninstallInv, BetweenSets
    <2> QED
      BY <1>0, <2>1
  <1> QED
    BY <1>0, <1>1, <1>2, <1>3, <1>4, <1>5, <1>6, <1>7, <1>8, <1>9, <1>10, <1>11,
       <1>12, <1>13, <1>14, <1>15, <1>16, <1>17, <1>18, <1>19, <1>20
       DEF Next, Work, SyncSet, SyncAll, Users, Cluster

-----------------------------------------------------------------------------
(* Every reachable state is well-typed, whatever the number of sets and    *)
(* clusters, the caches that lag and the events.                           *)
THEOREM BrokerTypeCorrect == Spec => []TypeOK
<1>1. Init => TypeOK
  BY KeeperInit DEF KeeperInv
<1> QED
  BY <1>1, TypeStep, PTL DEF Spec

(* The inductive invariant holds.                                          *)
LEMMA KeeperCorrect == Spec => []KeeperInv
<1>1. KeeperInv /\ [Next]_vars => KeeperInv'
  BY TypeStep, OrderStep, KeeperStep DEF KeeperInv
<1> QED
  BY <1>1, KeeperInit, PTL DEF Spec

(* reconcileManagedClusterSet and doClusterSetCleanup: no broker without   *)
(* the finalizer on its set, even with a set cache that trails the API     *)
(* server, failing calls and restarts anywhere.                            *)
THEOREM KeptBroker == Spec => []BrokerHasKeeper
<1>1. KeeperInv => BrokerHasKeeper
  BY DEF KeeperInv, KeeperParts
<1> QED
  BY <1>1, KeeperCorrect, PTL

(* The whole controller implements BrokerLife: claim, bring up, take down, *)
(* let go, in this order for every set.                                    *)
THEOREM ImplementsBrokerLife == Spec => BrokerLifeSpec
<1>1. Init => Life!LifeInit
  <2> SUFFICES ASSUME Init PROVE Life!LifeInit
    OBVIOUS
  <2>1. signer = {} /\ \A s \in Sets : set[s].fins = 0 /\ ns[s].st = "none"
    BY DEF Init, NoSet, NoNs
  <2>2. {s \in Sets : set[s].fins > 0} = {}
    BY <2>1
  <2>3. {s \in Sets : ns[s].st = "active" \/ s \in signer} = {}
    BY <2>1
  <2> QED
    BY <2>2, <2>3 DEF Life!LifeInit
<1>2. Spec => Life!LifeInit /\ [][Life!LifeNext]_Life!lifeVars
  BY <1>1, LifeStep, KeeperCorrect, PTL DEF Spec
<1> QED
  BY <1>2 DEF BrokerLifeSpec, Life!LifeSpec

(* doAllClusterSetCleanup: uninstalling takes no broker down before every  *)
(* add-on that the informer had as owned when the uninstall was asked for  *)
(* is gone, whatever its caches show late and whatever fails, restarts or  *)
(* is deleted by a user meanwhile. An add-on that it shows as owned only   *)
(* later may outlive the brokers.                                          *)
THEOREM AddonsBeforeBrokers == Spec => AddonsGoFirst
<1>1. Init => AddonsInv
  BY DEF Init, AddonsInv, OwedKnown, BrokersLast, Idle
<1>2. Spec => []AddonsInv
  BY <1>1, AddonsStep, KeeperCorrect, PTL DEF Spec
<1>3. KeeperInv /\ AddonsInv /\ [Next]_vars
      => [(ctl.of = "all" /\ \E s \in Sets : ns[s].st = "active" /\ ns'[s].st # "active")
          => owed = {}]_vars
  BY BrokersLastStep
<1> QED
  BY <1>2, <1>3, KeeperCorrect, PTL DEF Spec, AddonsGoFirst

(* doAllClusterSetCleanup: with a fresh cache of sets, and if nobody       *)
(* removes an annotation, an uninstall that has come to its end has left   *)
(* no broker and no finalizer on any set, whatever failed or restarted     *)
(* meanwhile and however old the other caches were.                        *)
THEOREM CleanUninstall ==
  ASSUME "set" \notin Lagging, "annotations" \notin Events
  PROVE  Spec => []UninstallIsClean
<1>1. Init => UninstallInv
  <2>1. ~(NoSet.fins > 0)
    BY DEF NoSet
  <2>2. Init => /\ \A s \in Sets : set[s] = NoSet
                /\ cma = "live" /\ ctl.pc = "idle" /\ ctl.of = "set"
    BY DEF Init, Idle
  <2> QED
    BY <2>1, <2>2 DEF UninstallInv, HeldAnnotated, NoneForgotten, BetweenSets,
                      AllReleased
<1>2. KeeperInv /\ UninstallInv /\ [Next]_vars => UninstallInv'
  BY UninstallStep
<1>3. KeeperInv /\ UninstallInv => UninstallIsClean
  <2> SUFFICES ASSUME KeeperInv, UninstallInv, cma = "gone", NEW s \in Sets
               PROVE  set[s].fins = 0 /\ ns[s].st # "active" /\ s \notin signer
    BY DEF UninstallIsClean
  <2>1. ~(set[s].fins > 0)
    BY DEF UninstallInv, AllReleased
  <2>2. set[s].fins \in Nat
    <3>1. set[s] \in SetState
      BY DEF KeeperInv, TypeOK
    <3>2. set[s].fins \in 0..MaxFins
      BY <3>1 DEF SetState
    <3> QED
      BY <3>2, BrokerAssumption
  <2> QED
    BY <2>1, <2>2 DEF KeeperInv, KeeperParts, BrokerHasKeeper
<1> QED
  BY <1>1, <1>2, <1>3, KeeperCorrect, PTL DEF Spec

=============================================================================
