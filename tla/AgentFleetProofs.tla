-------------------------- MODULE AgentFleetProofs --------------------------
(***************************************************************************)
(* What AgentController promises a fleet of any number of clusters that    *)
(* all belong to one cluster set for as long as they exist, with add-on    *)
(* and cluster caches that may trail the API server (the setting of the    *)
(* run agent_fleet): an uninstalled cluster leaves nothing on the broker,  *)
(* and does not take the Broker from the others. In the order of the       *)
(* argument:                                                               *)
(*                                                                         *)
(*   1. the inductive invariant FleetInv;                                  *)
(*   2. steps that take nothing but parts of an installation keep it       *)
(*      (ShrinkStep), and most steps are such (SyncsShrink, OthersShrink); *)
(*   3. the other steps keep it, too (DeployStep, SyncStep, CheckStep,     *)
(*      AddonStep, CacheStep), so every step does (FleetStep);             *)
(*   4. the theorems; the last two say that the fleet is LayeredInstall    *)
(*      and loses no operator work although the caches are old.            *)
(***************************************************************************)
EXTENDS AgentControllerProofs

(* What the worker and its caches know of the fleet, all of whose clusters *)
(* are in set s as long as they exist.                                     *)
Kept(a) == a.st = "live" /\ a.fin

(* Nobody deletes sets or moves clusters; the wait for a CR work is never  *)
(* given up.                                                               *)
Settled(s) ==
    /\ clusterSets = Sets /\ brokerNs = Sets
    /\ \A c \in Clusters : label[c] = s /\ labelCache[c] \in {NoCluster, s}
    /\ ~ctl.gaveUp /\ \A c \in Clusters : crWork[c].st # "overdue"

(* A cached add-on may be old, but one that the cache has live with the    *)
(* finalizer has it, and one that it has being deleted is not live with it.*)
CachesKnow ==
    \A c \in Clusters :
       /\ Kept(AddonLister(c)) => addon[c].fin
       /\ AddonLister(c).st = "deleting" => ~Kept(addon[c])
       /\ AddonLister(c).st = "absent" => ~AddonLister(c).fin

(* Whatever there is of an installation is in s, behind a finalizer that   *)
(* the cache shows.                                                        *)
Known(c, s) == addon[c].fin /\ AddonLister(c).fin /\ LabelLister(c) = s

PartsKnown(s) ==
    \A c \in Clusters :
       /\ sa[c] \subseteq {s} /\ resources[c] \subseteq {s}
       /\ sa[c] # {} \/ resources[c] # {} \/ crWork[c].st # "none"
             => Known(c, s)

DeployKnows(s) ==
    /\ ctl.pc \in DeploySteps => Known(ctl.key, s) /\ ctl.set = s
    /\ At("addFinalizer") /\ AddonLister(ctl.key).st = "deleting"
          => addon[ctl.key].st = "deleting"

AfterResources == CleanUpSteps \ {"deleteCR", "deleteOp", "deleteResources"}

CleanUpKnows(s) ==
    ctl.pc \in CleanUpSteps =>
       /\ ~Kept(addon[ctl.key]) /\ ~Kept(AddonLister(ctl.key))
       /\ ctl.set = s \/ (sa[ctl.key] = {} /\ resources[ctl.key] = {})
       /\ ctl.pc \in AfterResources => resources[ctl.key] = {}

(* Once the Broker may go, no cluster of the set is installed.             *)
LastKnows ==
    ctl.pc \in {"deleteGlobalnet", "deleteBroker"}
       => \A c \in Clusters : ~Installed(c, ctl.set)

FleetInv(s) ==
    /\ Settled(s) /\ CachesKnow /\ PartsKnown(s)
    /\ DeployKnows(s) /\ CleanUpKnows(s) /\ LastKnows

FleetAssumption(s) ==
    /\ s \in Sets /\ Labels = {s}
    /\ "work" \notin Lagging /\ Events \cap {"timeout", "setDeletion"} = {}

FleetTypes ==
    /\ ctl \in Control /\ (At("idle") \/ ctl.key \in Clusters)
    /\ addon \in [Clusters -> AddonState]
    /\ addonCache \in [Clusters -> AddonState]
    /\ \A c \in Clusters : /\ addon[c].st = "deleting" => addon[c].fin
                           /\ addon[c].st = "absent" => ~addon[c].fin
    /\ label \in [Clusters -> Label] /\ labelCache \in [Clusters -> Label]
    /\ crWork \in [Clusters -> CrWork]
    /\ sa \in [Clusters -> SUBSET Sets]
    /\ resources \in [Clusters -> SUBSET Sets]

LEMMA FleetTyped == TypeOK => FleetTypes
  BY DEF TypeOK, ControlOK, DataOK, FleetTypes

-----------------------------------------------------------------------------
(* Nothing is added to any installation, and no cache is refreshed.        *)
Taken ==
    /\ UNCHANGED <<addon, label, clusterSets, brokerNs, addonCache, labelCache>>
    /\ sa' \in [Clusters -> SUBSET Sets]
    /\ resources' \in [Clusters -> SUBSET Sets]
    /\ \A c \in Clusters :
          /\ sa'[c] \subseteq sa[c] /\ resources'[c] \subseteq resources[c]
          /\ \/ crWork'[c] = crWork[c]
             \/ crWork[c].st # "none" /\ crWork'[c].st \in {"none", "deleting"}

(* The worker goes on in the same part of its sync, or ends it.            *)
GoesOn ==
    /\ ctl'.key = ctl.key /\ ctl'.set = ctl.set /\ ctl'.gaveUp = ctl.gaveUp
    /\ \/ ctl'.pc = ctl.pc
       \/ ctl.pc \in DeploySteps /\ ctl'.pc \in DeploySteps
       \/ /\ ctl.pc \in CleanUpSteps /\ ctl'.pc \in CleanUpSteps
          /\ ctl'.pc \in AfterResources =>
                ctl.pc \in AfterResources \/ resources'[ctl.key] = {}
          /\ ctl'.pc \in {"deleteGlobalnet", "deleteBroker"} =>
                ctl.pc \in {"deleteGlobalnet", "deleteBroker"}

(* Such a step keeps the invariant, for every conjunct is about what there *)
(* is of an installation, and only says more while there is some.          *)
LEMMA ShrinkStep ==
  ASSUME NEW s \in Sets, FleetTypes, FleetInv(s), Taken,
         ctl' = Idle \/ GoesOn
  PROVE  FleetInv(s)'
  <1>l. /\ \A c \in Clusters : AddonLister(c)' = AddonLister(c)
        /\ \A c \in Clusters : LabelLister(c)' = LabelLister(c)
    BY DEF Taken, AddonLister, LabelLister
  <1>i. ctl' = Idle => ctl'.pc = "idle" /\ ~ctl'.gaveUp
    BY DEF Idle
  <1>k. ctl.pc \in DeploySteps \cup CleanUpSteps \cup {"addFinalizer"}
           => ctl.key \in Clusters
    BY DEF FleetTypes, At, DeploySteps, CleanUpSteps
  <1>n. /\ "idle" \notin DeploySteps \cup CleanUpSteps \cup {"addFinalizer"}
        /\ DeploySteps \cap CleanUpSteps = {}
        /\ "addFinalizer" \notin DeploySteps \cup CleanUpSteps
        /\ {"deleteGlobalnet", "deleteBroker"} \subseteq CleanUpSteps
        /\ AfterResources \subseteq CleanUpSteps
    BY DEF DeploySteps, CleanUpSteps, AfterResources
  <1>1. Settled(s)'
    BY <1>i DEF FleetInv, Settled, Taken, GoesOn
  <1>2. CachesKnow'
    BY <1>l DEF FleetInv, CachesKnow, Taken
  <1>3. PartsKnown(s)'
    BY <1>l DEF FleetInv, PartsKnown, Known, Taken
  <1>4. DeployKnows(s)'
    BY <1>l, <1>i, <1>k, <1>n
       DEF FleetInv, DeployKnows, Known, At, Taken, GoesOn
  <1>5. CleanUpKnows(s)'
    BY <1>l, <1>i, <1>k, <1>n DEF FleetInv, CleanUpKnows, Taken, GoesOn
  <1>6. LastKnows'
    <2>1. \A c \in Clusters, t \in Sets \cup {NoSet} :
             Installed(c, t)' => Installed(c, t)
      BY DEF Taken, Installed
    <2>2. ctl.set \in Sets \cup {NoSet}
      BY DEF FleetTypes, Control
    <2> QED
      BY <1>i, <1>n, <2>1, <2>2 DEF FleetInv, LastKnows, GoesOn
  <1> QED
    BY <1>1, <1>2, <1>3, <1>4, <1>5, <1>6 DEF FleetInv

(* Goto and its variants in the calls of a sync.                           *)
LEMMA CtlFields ==
  ASSUME FleetTypes
  PROVE  /\ \A step \in DeploySteps \cup CleanUpSteps :
               \A f \in BOOLEAN, t \in Sets :
                  \/ Goto(step)
                  \/ ctl' = [ctl EXCEPT !.pc = step, !.failed = f]
                  \/ ctl' = [ctl EXCEPT !.pc = step, !.ns = t]
                  => /\ ctl'.pc = step /\ ctl'.key = ctl.key
                     /\ ctl'.set = ctl.set /\ ctl'.gaveUp = ctl.gaveUp
  BY DEF FleetTypes, Control, Goto

(* The calls of a sync that add nothing to an installation.                *)
LEMMA SyncsShrink ==
  ASSUME NEW s \in Sets, FleetTypes, FleetInv(s),
         \/ ApplySAFails \/ ApplyRB \/ ApplyRBFails \/ EnsureGlobalnet
         \/ BrokerMissing \/ BrokerApplied \/ StatusUpdateFails
         \/ GetBrokerInfo \/ CreateTokenSecret \/ GetBrokerInfoFails
         \/ ApplyOpWork \/ DeleteCrWork \/ DeleteOpWork
         \/ DeleteResources \/ ListNoSA \/ ListOneSA \/ ListManySAs
         \/ DeleteSecret \/ DeleteSA \/ DeleteSAFails \/ DeleteRB
         \/ DeleteGlobalnet \/ DeleteBroker
  PROVE  Taken /\ (ctl' = Idle \/ GoesOn)
  <1>s. /\ DeploySteps \cap CleanUpSteps = {}
        /\ {"applySA", "applyRB", "globalnet", "status", "brokerInfo", "applyOp",
            "applyCR"} \subseteq DeploySteps
        /\ {"deleteCR", "deleteOp", "deleteResources", "listSA", "deleteSecret",
            "deleteSA", "deleteRB", "checkGlobal", "deleteGlobalnet",
            "deleteBroker", "removeFinalizer"} \subseteq CleanUpSteps
        /\ AfterResources =
              {"listSA", "deleteSecret", "deleteSA", "deleteRB", "checkGlobal",
               "deleteGlobalnet", "deleteBroker", "removeFinalizer"}
    BY DEF DeploySteps, CleanUpSteps, AfterResources
  <1>k. ~At("idle") => ctl.key \in Clusters
    BY DEF FleetTypes
  <1>c. /\ sa \in [Clusters -> SUBSET Sets]
        /\ resources \in [Clusters -> SUBSET Sets]
        /\ crWork \in [Clusters -> CrWork]
    BY DEF FleetTypes
  <1>1. CASE ApplySAFails
    <2>1. Taken
      BY <1>1, <1>c DEF ApplySAFails, Taken, objects, works, creds, caches
    <2>2. GoesOn
      BY <1>1, <1>s, CtlFields DEF ApplySAFails, At, GoesOn
    <2> QED
      BY <2>1, <2>2
  <1>2. CASE ApplyRB
    <2>1. Taken
      BY <1>2, <1>c DEF ApplyRB, Taken, objects, works, creds, caches
    <2>2. ctl' = Idle \/ GoesOn
      <3>1. Return \/ Goto("globalnet")
        BY <1>2, Zenon DEF ApplyRB
      <3>2. CASE Return
        BY <3>2 DEF Return
      <3>3. CASE Goto("globalnet")
        BY <1>2, <1>s, <3>3, CtlFields DEF ApplyRB, At, GoesOn
      <3> QED
        BY <3>1, <3>2, <3>3
    <2> QED
      BY <2>1, <2>2
  <1>3. CASE ApplyRBFails
    <2>1. Taken
      BY <1>3, <1>c DEF ApplyRBFails, Taken, objects, works, creds, caches
    <2>2. ctl' = Idle
      BY <1>3 DEF ApplyRBFails, Return
    <2> QED
      BY <2>1, <2>2
  <1>4. CASE EnsureGlobalnet
    <2>1. Taken
      BY <1>4, <1>c DEF EnsureGlobalnet, Taken, objects, works, creds, caches
    <2>2. GoesOn
      BY <1>4, <1>s, CtlFields DEF EnsureGlobalnet, At, GoesOn
    <2> QED
      BY <2>1, <2>2
  <1>5. CASE BrokerMissing
    <2>1. Taken
      BY <1>5, <1>c DEF BrokerMissing, Taken, objects, works, creds, caches
    <2>2. ctl' = Idle
      BY <1>5 DEF BrokerMissing, Return
    <2> QED
      BY <2>1, <2>2
  <1>6. CASE BrokerApplied
    <2>1. Taken
      BY <1>6, <1>c DEF BrokerApplied, Taken, objects, works, creds, caches
    <2>2. GoesOn
      BY <1>6, <1>s, CtlFields DEF BrokerApplied, At, GoesOn
    <2> QED
      BY <2>1, <2>2
  <1>7. CASE StatusUpdateFails
    <2>1. Taken
      BY <1>7, <1>c DEF StatusUpdateFails, Taken, objects, works, creds, caches
    <2>2. GoesOn
      BY <1>7, <1>s, CtlFields DEF StatusUpdateFails, At, GoesOn
    <2> QED
      BY <2>1, <2>2
  <1>8. CASE GetBrokerInfo
    <2>1. Taken
      BY <1>8, <1>c DEF GetBrokerInfo, Taken, objects, works, creds, caches
    <2>2. GoesOn
      BY <1>8, <1>s, CtlFields DEF GetBrokerInfo, At, GoesOn
    <2> QED
      BY <2>1, <2>2
  <1>9. CASE CreateTokenSecret
    <2>1. Taken
      BY <1>9, <1>c DEF CreateTokenSecret, Taken, objects, works, creds, caches
    <2>2. ctl' = Idle
      BY <1>9 DEF CreateTokenSecret, Return
    <2> QED
      BY <2>1, <2>2
  <1>10. CASE GetBrokerInfoFails
    <2>1. Taken
      BY <1>10, <1>c DEF GetBrokerInfoFails, Taken, objects, works, creds, caches
    <2>2. ctl' = Idle
      BY <1>10 DEF GetBrokerInfoFails, Return
    <2> QED
      BY <2>1, <2>2
  <1>11. CASE ApplyOpWork
    <2>1. Taken
      BY <1>11, <1>c DEF ApplyOpWork, Taken, objects, works, creds, caches
    <2>2. GoesOn
      BY <1>11, <1>s, CtlFields DEF ApplyOpWork, At, GoesOn
    <2> QED
      BY <2>1, <2>2
  <1>12. CASE DeleteCrWork
    <2>1. Taken
      <3>1. crWork' = crWork \/ (crWork[ctl.key].st = "live" /\
              \E w \in {NoWork, [st |-> "deleting", set |-> crWork[ctl.key].set]} :
                 crWork' = [crWork EXCEPT ![ctl.key] = w])
        BY <1>12 DEF DeleteCrWork
      <3>2. \A c \in Clusters :
               \/ crWork'[c] = crWork[c]
               \/ crWork[c].st # "none" /\ crWork'[c].st \in {"none", "deleting"}
        BY <3>1, <1>c DEF NoWork
      <3> QED
        BY <1>12, <1>c, <3>2 DEF DeleteCrWork, Taken, objects, creds, caches
    <2>2. ctl' = Idle
      BY <1>12 DEF DeleteCrWork, Return
    <2> QED
      BY <2>1, <2>2
  <1>13. CASE DeleteOpWork
    <2>1. Taken
      BY <1>13, <1>c DEF DeleteOpWork, Taken, objects, works, creds, caches
    <2>2. GoesOn
      BY <1>13, <1>s, CtlFields DEF DeleteOpWork, At, GoesOn
    <2> QED
      BY <2>1, <2>2
  <1>14. CASE DeleteResources
    <2>1. Taken
      BY <1>14, <1>c DEF DeleteResources, Taken, objects, works, creds, caches
    <2>2. GoesOn
      <3>1. /\ ctl'.pc = "listSA" /\ ctl'.key = ctl.key
            /\ ctl'.set = ctl.set /\ ctl'.gaveUp = ctl.gaveUp
        BY <1>14, <1>s, CtlFields DEF DeleteResources
      <3>2. ctl.pc = "deleteResources" /\ ctl.key \in Clusters
        BY <1>14, <1>k DEF DeleteResources, At
      <3>3. resources'[ctl.key] = {}
        BY <1>14, <1>c, <1>s, <3>2
           DEF DeleteResources, FleetInv, PartsKnown, CleanUpKnows
      <3> QED
        BY <1>s, <3>1, <3>2, <3>3 DEF GoesOn
    <2> QED
      BY <2>1, <2>2
  <1>15. CASE ListNoSA
    <2>1. Taken
      BY <1>15, <1>c DEF ListNoSA, Taken, objects, works, creds, caches
    <2>2. GoesOn
      BY <1>15, <1>s, CtlFields DEF ListNoSA, At, GoesOn
    <2> QED
      BY <2>1, <2>2
  <1>16. CASE ListOneSA
    <2>1. Taken
      BY <1>16, <1>c DEF ListOneSA, Taken, objects, works, creds, caches
    <2>2. GoesOn
      <3>1. PICK t \in Sets : ctl' = [ctl EXCEPT !.pc = "deleteSecret", !.ns = t]
        BY <1>16 DEF ListOneSA
      <3>2. /\ ctl'.pc = "deleteSecret" /\ ctl'.key = ctl.key
            /\ ctl'.set = ctl.set /\ ctl'.gaveUp = ctl.gaveUp
        BY <1>s, <3>1, CtlFields
      <3> QED
        BY <1>16, <1>s, <3>2 DEF ListOneSA, At, GoesOn
    <2> QED
      BY <2>1, <2>2
  <1>17. CASE ListManySAs
    <2>1. Taken
      BY <1>17, <1>c DEF ListManySAs, Taken, objects, works, creds, caches
    <2>2. ctl' = Idle
      BY <1>17 DEF ListManySAs, Return
    <2> QED
      BY <2>1, <2>2
  <1>18. CASE DeleteSecret
    <2>1. Taken
      BY <1>18, <1>c DEF DeleteSecret, Taken, objects, works, creds, caches
    <2>2. GoesOn
      BY <1>18, <1>s, CtlFields DEF DeleteSecret, At, GoesOn
    <2> QED
      BY <2>1, <2>2
  <1>19. CASE DeleteSA
    <2>1. Taken
      BY <1>19, <1>c DEF DeleteSA, Taken, objects, works, creds, caches
    <2>2. GoesOn
      BY <1>19, <1>s, CtlFields DEF DeleteSA, At, GoesOn
    <2> QED
      BY <2>1, <2>2
  <1>20. CASE DeleteSAFails
    <2>1. Taken
      BY <1>20, <1>c DEF DeleteSAFails, Taken, objects, works, creds, caches
    <2>2. GoesOn
      BY <1>20, <1>s, CtlFields DEF DeleteSAFails, At, GoesOn
    <2> QED
      BY <2>1, <2>2
  <1>21. CASE DeleteRB
    <2>1. Taken
      BY <1>21, <1>c DEF DeleteRB, Taken, objects, works, creds, caches
    <2>2. ctl' = Idle \/ GoesOn
      <3>1. Return \/ Goto("checkGlobal")
        BY <1>21, Zenon DEF DeleteRB
      <3>2. CASE Return
        BY <3>2 DEF Return
      <3>3. CASE Goto("checkGlobal")
        BY <1>21, <1>s, <3>3, CtlFields DEF DeleteRB, At, GoesOn
      <3> QED
        BY <3>1, <3>2, <3>3
    <2> QED
      BY <2>1, <2>2
  <1>22. CASE DeleteGlobalnet
    <2>1. Taken
      BY <1>22, <1>c DEF DeleteGlobalnet, Taken, objects, works, creds, caches
    <2>2. GoesOn
      BY <1>22, <1>s, CtlFields DEF DeleteGlobalnet, At, GoesOn
    <2> QED
      BY <2>1, <2>2
  <1>23. CASE DeleteBroker
    <2>1. Taken
      BY <1>23, <1>c DEF DeleteBroker, Taken, objects, works, creds, caches
    <2>2. GoesOn
      BY <1>23, <1>s, CtlFields DEF DeleteBroker, At, GoesOn
    <2> QED
      BY <2>1, <2>2
  <1> QED
    BY <1>1, <1>2, <1>3, <1>4, <1>5, <1>6, <1>7, <1>8, <1>9, <1>10,
       <1>11, <1>12, <1>13, <1>14, <1>15, <1>16, <1>17, <1>18, <1>19,
       <1>20, <1>21, <1>22, <1>23

(* Aborted syncs, and what the environment does to other objects or takes  *)
(* from an installation.                                                   *)
LEMMA OthersShrink ==
  ASSUME NEW s \in Sets, FleetTypes,
         \/ Abort \/ OutageEnds \/ UNCHANGED vars
         \/ \E t \in Sets : CreateBroker(t)
         \/ \E c \in Clusters : \/ FillToken(c) \/ OpWorkGone(c) \/ CrWorkGone(c)
                               \/ ObserveWork(c)
  PROVE  Taken /\ (ctl' = Idle \/ GoesOn)
  <1>c. /\ sa \in [Clusters -> SUBSET Sets]
        /\ resources \in [Clusters -> SUBSET Sets]
        /\ crWork \in [Clusters -> CrWork]
    BY DEF FleetTypes
  <1>g. ctl' = ctl => GoesOn
    BY DEF GoesOn
  <1>1. CASE Abort
    BY <1>1, <1>c DEF Abort, Return, Taken, objects, works, creds, caches
  <1>2. CASE OutageEnds
    BY <1>2, <1>c, <1>g DEF OutageEnds, Taken, objects, works, creds
  <1>3. CASE UNCHANGED vars
    BY <1>3, <1>c, <1>g DEF vars, Taken, objects, works, creds, caches
  <1>4. ASSUME NEW t \in Sets, CreateBroker(t) PROVE Taken /\ ctl' = ctl
    BY <1>4, <1>c DEF CreateBroker, Taken, works, creds, caches
  <1>5. ASSUME NEW c \in Clusters, FillToken(c) \/ OpWorkGone(c) \/ ObserveWork(c)
        PROVE  Taken /\ ctl' = ctl
    BY <1>5, <1>c DEF FillToken, OpWorkGone, ObserveWork, Taken, objects, works,
       creds, caches
  <1>6. ASSUME NEW c \in Clusters, CrWorkGone(c) PROVE Taken /\ ctl' = ctl
    <2>1. \A d \in Clusters :
             \/ crWork'[d] = crWork[d]
             \/ crWork[d].st # "none" /\ crWork'[d].st \in {"none", "deleting"}
      BY <1>6, <1>c DEF CrWorkGone, NoWork
    <2> QED
      BY <1>6, <1>c, <2>1 DEF CrWorkGone, Taken, objects, creds, caches
  <1> QED
    BY <1>1, <1>2, <1>3, <1>4, <1>5, <1>6, <1>g

(* Nothing else happens to a settled fleet.                                *)
LEMMA Settles ==
  ASSUME NEW s \in Sets, FleetAssumption(s), FleetTypes, Settled(s)
  PROVE  /\ \A c \in Clusters : ~SetLabel(c) /\ ~CrWorkOverdue(c)
         /\ \A t \in Sets : /\ ~DeleteSet(t) /\ ~CreateSet(t)
                           /\ ~CreateBrokerNs(t) /\ ~DeleteBrokerNs(t)
  <1>1. \A c \in Clusters : ~SetLabel(c)
    BY DEF FleetAssumption, Settled, SetLabel
  <1>2. \A c \in Clusters : ~CrWorkOverdue(c)
    BY DEF FleetAssumption, CrWorkOverdue
  <1>3. \A t \in Sets : ~DeleteSet(t)
    BY DEF FleetAssumption, DeleteSet
  <1>4. \A t \in Sets : ~CreateSet(t) /\ ~CreateBrokerNs(t)
    BY DEF Settled, CreateSet, CreateBrokerNs
  <1>5. \A t \in Sets : ~DeleteBrokerNs(t)
    BY DEF FleetAssumption, Settled, DeleteBrokerNs
  <1> QED
    BY <1>1, <1>2, <1>3, <1>4, <1>5

(* finalizer.Add and finalizer.Remove, and the users' part.                *)
LEMMA AddonStep ==
  ASSUME NEW s \in Sets, FleetAssumption(s), TypeOK, FleetTypes, FleetInv(s),
         CredentialInv, WorksInv,
         \/ AddFinalizer \/ RemoveFinalizer
         \/ \E c \in Clusters : CreateAddon(c) \/ DeleteAddon(c)
  PROVE  FleetInv(s)'
  <1> USE DEF FleetTypes, AddonLister, LabelLister
  <1>n. /\ "idle" \notin DeploySteps \cup CleanUpSteps \cup {"addFinalizer"}
        /\ DeploySteps \cap CleanUpSteps = {}
        /\ "addFinalizer" \notin DeploySteps \cup CleanUpSteps
        /\ {"deleteGlobalnet", "deleteBroker"} \subseteq CleanUpSteps
        /\ {"applySA", "applyRB", "applyCR"} \subseteq DeploySteps
        /\ {"checkGlobal", "removeFinalizer"} \subseteq AfterResources
        /\ {"deleteCR", "deleteOp"} \subseteq CleanUpSteps \ AfterResources
        /\ AfterResources \subseteq CleanUpSteps \ {"deleteCR", "deleteOp"}
    BY DEF DeploySteps, CleanUpSteps, AfterResources
  <1>k. ctl.pc \in DeploySteps \cup CleanUpSteps \cup {"addFinalizer"}
           => ctl.key \in Clusters
    BY <1>n DEF At
  <1>v. Settled(s) /\ CachesKnow /\ PartsKnown(s) /\ DeployKnows(s)
        /\ CleanUpKnows(s) /\ LastKnows
    BY DEF FleetInv
  <1>1. CASE AddFinalizer
    <2>1. /\ At("addFinalizer") /\ ctl.key \in Clusters
          /\ UNCHANGED <<label, clusterSets, brokerNs, crWork, sa, resources,
                         addonCache, labelCache>>
      BY <1>1, <1>k DEF AddFinalizer, At, works, creds, caches
    <2>2. ctl'.pc = "idle" /\ ~ctl'.gaveUp
      BY <1>1, FinalizerComesOff DEF AddFinalizer, Return, Idle
    <2>3. /\ \A c \in Clusters : c # ctl.key => addon'[c] = addon[c]
          /\ addon'[ctl.key] = IF addon[ctl.key].st = "live"
                               THEN [st |-> "live", fin |-> TRUE] ELSE addon[ctl.key]
      BY <1>1, <2>1 DEF AddFinalizer
    <2>4. Settled(s)'
      BY <1>v, <1>n, <2>1, <2>2, <2>3 DEF Settled
    <2>5. CachesKnow'
      BY <1>v, <1>n, <2>1, <2>2, <2>3 DEF CachesKnow, Kept, DeployKnows,
         At
    <2>6. PartsKnown(s)'
      BY <1>v, <1>n, <2>1, <2>2, <2>3 DEF PartsKnown, Known
    <2>7. DeployKnows(s)'
      BY <1>v, <1>n, <2>1, <2>2, <2>3 DEF DeployKnows, Known, At
    <2>8. CleanUpKnows(s)'
      BY <1>v, <1>n, <2>1, <2>2, <2>3 DEF CleanUpKnows, Kept
    <2>9. LastKnows'
      BY <1>v, <1>n, <2>1, <2>2, <2>3 DEF LastKnows, Installed
    <2> QED
      BY <2>4, <2>5, <2>6, <2>7, <2>8, <2>9 DEF FleetInv
  <1>2. CASE RemoveFinalizer
    <2>1. /\ At("removeFinalizer") /\ ctl.key \in Clusters
          /\ UNCHANGED <<label, clusterSets, brokerNs, crWork, sa, resources,
                         addonCache, labelCache>>
      BY <1>2, <1>n, <1>k, FinalizerComesOff
         DEF RemoveFinalizer, At, works, creds, caches
    <2>2. ctl'.pc = "idle" /\ ~ctl'.gaveUp
      BY <1>2, FinalizerComesOff DEF RemoveFinalizer, Return, Idle
    <2>3. /\ \A c \in Clusters : c # ctl.key => addon'[c] = addon[c]
          /\ addon'[ctl.key] \in {addon[ctl.key], WithoutFinalizer(addon[ctl.key])}
      BY <1>2, <2>1, FinalizerComesOff
    <2>4. sa[ctl.key] = {} /\ resources[ctl.key] = {} /\ crWork[ctl.key].st = "none"
      BY <1>v, <1>n, <2>1 DEF CredentialInv, WorksInv, AfterCredential,
         CleanUpKnows, Settled, At
    <2>5. ~Kept(addon[ctl.key]) /\ ~Kept(AddonLister(ctl.key))
      BY <1>v, <1>n, <2>1 DEF CleanUpKnows, At
    <2>6. \/ addon'[ctl.key] = addon[ctl.key]
          \/ ~addon'[ctl.key].fin /\ addon'[ctl.key].st # "deleting"
      BY <2>1, <2>3 DEF WithoutFinalizer, NoAddon
    <2>7. Settled(s)'
      BY <1>v, <1>n, <2>1, <2>2, <2>3, <2>4, <2>5, <2>6 DEF Settled
    <2>8. CachesKnow'
      BY <1>v, <1>n, <2>1, <2>2, <2>3, <2>4, <2>5, <2>6 DEF CachesKnow,
         Kept
    <2>9. PartsKnown(s)'
      BY <1>v, <1>n, <2>1, <2>2, <2>3, <2>4, <2>5, <2>6 DEF PartsKnown,
         Known
    <2>10. DeployKnows(s)'
      BY <1>v, <1>n, <2>1, <2>2, <2>3, <2>4, <2>5, <2>6 DEF DeployKnows,
         Known, At
    <2>11. CleanUpKnows(s)'
      BY <1>v, <1>n, <2>1, <2>2, <2>3, <2>4, <2>5, <2>6 DEF
         CleanUpKnows, Kept
    <2>12. LastKnows'
      BY <1>v, <1>n, <2>1, <2>2, <2>3, <2>4, <2>5, <2>6 DEF LastKnows,
         Installed
    <2> QED
      BY <2>7, <2>8, <2>9, <2>10, <2>11, <2>12 DEF FleetInv
  <1>3. ASSUME NEW c \in Clusters, CreateAddon(c) PROVE FleetInv(s)'
    <2>1. UNCHANGED <<label, clusterSets, brokerNs, crWork, sa, resources,
                      addonCache, labelCache, ctl>>
      BY <1>3 DEF CreateAddon, works, creds, caches
    <2>2. /\ \A d \in Clusters : d # c => addon'[d] = addon[d]
          /\ addon[c].st = "absent" /\ ~addon[c].fin
          /\ addon'[c].st = "live" /\ ~addon'[c].fin
      BY <1>3 DEF CreateAddon
    <2>3. Settled(s)'
      BY <1>v, <1>n, <1>k, <2>1, <2>2 DEF Settled
    <2>4. CachesKnow'
      BY <1>v, <1>n, <1>k, <2>1, <2>2 DEF CachesKnow, Kept
    <2>5. PartsKnown(s)'
      BY <1>v, <1>n, <1>k, <2>1, <2>2 DEF PartsKnown, Known
    <2>6. DeployKnows(s)'
      BY <1>v, <1>n, <1>k, <2>1, <2>2 DEF DeployKnows, Known, At
    <2>7. CleanUpKnows(s)'
      BY <1>v, <1>n, <1>k, <2>1, <2>2 DEF CleanUpKnows, Kept
    <2>8. LastKnows'
      BY <1>v, <1>n, <1>k, <2>1, <2>2 DEF LastKnows, Installed,
         PartsKnown, Known
    <2> QED
      BY <2>3, <2>4, <2>5, <2>6, <2>7, <2>8 DEF FleetInv
  <1>4. ASSUME NEW c \in Clusters, DeleteAddon(c) PROVE FleetInv(s)'
    <2>1. UNCHANGED <<label, clusterSets, brokerNs, crWork, sa, resources,
                      addonCache, labelCache, ctl>>
      BY <1>4 DEF DeleteAddon, works, creds, caches
    <2>2. /\ \A d \in Clusters : d # c => addon'[d] = addon[d]
          /\ addon[c].st = "live" /\ addon'[c].fin = addon[c].fin
          /\ addon'[c].st = IF addon[c].fin THEN "deleting" ELSE "absent"
      BY <1>4 DEF DeleteAddon, NoAddon, AddonState
    <2>3. Settled(s)'
      BY <1>v, <1>n, <1>k, <2>1, <2>2 DEF Settled
    <2>4. CachesKnow'
      BY <1>v, <1>n, <1>k, <2>1, <2>2 DEF CachesKnow, Kept
    <2>5. PartsKnown(s)'
      BY <1>v, <1>n, <1>k, <2>1, <2>2 DEF PartsKnown, Known
    <2>6. DeployKnows(s)'
      BY <1>v, <1>n, <1>k, <2>1, <2>2 DEF DeployKnows, Known, At
    <2>7. CleanUpKnows(s)'
      BY <1>v, <1>n, <1>k, <2>1, <2>2 DEF CleanUpKnows, Kept
    <2>8. LastKnows'
      BY <1>v, <1>n, <1>k, <2>1, <2>2 DEF LastKnows, Installed
    <2> QED
      BY <2>3, <2>4, <2>5, <2>6, <2>7, <2>8 DEF FleetInv
  <1> QED
    BY <1>1, <1>2, <1>3, <1>4

(* The start of a sync: what the caches show is what the sync goes by.     *)
LEMMA SyncStep ==
  ASSUME NEW s \in Sets, FleetAssumption(s), TypeOK, FleetTypes, FleetInv(s),
         CredentialInv, WorksInv,
         NEW c \in Clusters, SyncCleanUp(c) \/ SyncDeploy(c)
  PROVE  FleetInv(s)'
  <1> USE DEF FleetTypes, AddonLister, LabelLister
  <1>n. /\ "idle" \notin DeploySteps \cup CleanUpSteps \cup {"addFinalizer"}
        /\ DeploySteps \cap CleanUpSteps = {}
        /\ "addFinalizer" \notin DeploySteps \cup CleanUpSteps
        /\ {"deleteGlobalnet", "deleteBroker"} \subseteq CleanUpSteps
        /\ {"applySA", "applyRB", "applyCR"} \subseteq DeploySteps
        /\ {"checkGlobal", "removeFinalizer"} \subseteq AfterResources
        /\ {"deleteCR", "deleteOp"} \subseteq CleanUpSteps \ AfterResources
        /\ AfterResources \subseteq CleanUpSteps \ {"deleteCR", "deleteOp"}
    BY DEF DeploySteps, CleanUpSteps, AfterResources
  <1>k. ctl.pc \in DeploySteps \cup CleanUpSteps \cup {"addFinalizer"}
           => ctl.key \in Clusters
    BY <1>n DEF At
  <1>v. Settled(s) /\ CachesKnow /\ PartsKnown(s) /\ DeployKnows(s)
        /\ CleanUpKnows(s) /\ LastKnows
    BY DEF FleetInv
  <1>1. CASE SyncCleanUp(c)
    <2>1. UNCHANGED <<addon, label, clusterSets, brokerNs, crWork, sa, resources,
                      addonCache, labelCache>>
      BY <1>1 DEF SyncCleanUp, objects, works, creds, caches
    <2>2. AddonLister(c).st = "deleting"
      <3>1. LabelLister(c) \in {NoCluster, s}
        BY <1>v DEF Settled
      <3>2. CleanUpWanted(c)
        BY <1>1 DEF SyncCleanUp
      <3> QED
        BY <1>v, <3>1, <3>2, ConstAssumption DEF CleanUpWanted, Settled
    <2>3. CrWorkLister(c) # "overdue"
      BY <1>v DEF CrWorkLister, FleetAssumption, Settled
    <2>4. ctl'.pc \in {"deleteCR", "deleteOp"} /\ ctl'.key = c /\ ~ctl'.gaveUp
      BY <1>1, <2>3, CleanUpBegins
    <2>5. ctl'.set = CleanUpSet(c)
      <3> DEFINE start == CleanUpStart[CrWorkLister(c)]
                 over == CrWorkLister(c) = "overdue"
                 t == CleanUpSet(c)
      <3>1. ctl' = [Idle EXCEPT !.pc = start, !.key = c, !.set = t, !.gaveUp = over]
        BY <1>1 DEF SyncCleanUp
      <3> HIDE DEF start, over, t
      <3>2. ctl'.set = t
        BY <3>1 DEF Idle
      <3> QED
        BY <3>2 DEF t
    <2>6. LabelLister(c) = s => ctl'.set = s
      BY <2>2, <2>5 DEF CleanUpSet
    <2>7. LabelLister(c) # s => sa[c] = {} /\ resources[c] = {}
      BY <1>v DEF PartsKnown, Known
    <2>8. ~Kept(addon[c]) /\ ~Kept(AddonLister(c))
      BY <1>v, <2>2 DEF CachesKnow, Kept
    <2>9. Settled(s)'
      BY <1>v, <1>n, <2>1, <2>4, <2>6, <2>7, <2>8 DEF Settled
    <2>10. CachesKnow'
      BY <1>v, <1>n, <2>1, <2>4, <2>6, <2>7, <2>8 DEF CachesKnow, Kept
    <2>11. PartsKnown(s)'
      BY <1>v, <1>n, <2>1, <2>4, <2>6, <2>7, <2>8 DEF PartsKnown, Known
    <2>12. DeployKnows(s)'
      BY <1>v, <1>n, <2>1, <2>4, <2>6, <2>7, <2>8 DEF DeployKnows,
         Known, At
    <2>13. CleanUpKnows(s)'
      BY <1>v, <1>n, <2>1, <2>4, <2>6, <2>7, <2>8 DEF CleanUpKnows, Kept
    <2>14. LastKnows'
      BY <1>v, <1>n, <2>1, <2>4, <2>6, <2>7, <2>8 DEF LastKnows,
         Installed
    <2> QED
      BY <2>9, <2>10, <2>11, <2>12, <2>13, <2>14 DEF FleetInv
  <1>2. CASE SyncDeploy(c)
    <2>1. UNCHANGED <<addon, label, clusterSets, brokerNs, crWork, sa, resources,
                      addonCache, labelCache>>
      BY <1>2 DEF SyncDeploy, objects, works, creds, caches
    <2>2. AddonLister(c).st = "live" /\ LabelLister(c) = s
      BY <1>2, <1>v, ConstAssumption DEF SyncDeploy, DeployWanted, Settled
    <2>3. /\ ctl'.key = c /\ ctl'.set = LabelLister(c) /\ ~ctl'.gaveUp
          /\ ctl'.pc = IF AddonLister(c).fin THEN "applySA" ELSE "addFinalizer"
      BY <1>2 DEF SyncDeploy, Idle
    <2>4. AddonLister(c).fin => Known(c, s)
      BY <1>v, <2>2 DEF CachesKnow, Kept, Known
    <2>5. Settled(s)'
      BY <1>v, <1>n, <2>1, <2>2, <2>3, <2>4 DEF Settled
    <2>6. CachesKnow'
      BY <1>v, <1>n, <2>1, <2>2, <2>3, <2>4 DEF CachesKnow, Kept
    <2>7. PartsKnown(s)'
      BY <1>v, <1>n, <2>1, <2>2, <2>3, <2>4 DEF PartsKnown, Known
    <2>8. DeployKnows(s)'
      BY <1>v, <1>n, <2>1, <2>2, <2>3, <2>4 DEF DeployKnows, Known, At
    <2>9. CleanUpKnows(s)'
      BY <1>v, <1>n, <2>1, <2>2, <2>3, <2>4 DEF CleanUpKnows, Kept
    <2>10. LastKnows'
      BY <1>v, <1>n, <2>1, <2>2, <2>3, <2>4 DEF LastKnows, Installed
    <2> QED
      BY <2>5, <2>6, <2>7, <2>8, <2>9, <2>10 DEF FleetInv
  <1> QED
    BY <1>1, <1>2

(* The calls that add to an installation, and Submariner's exports.        *)
LEMMA DeployStep ==
  ASSUME NEW s \in Sets, FleetAssumption(s), TypeOK, FleetTypes, FleetInv(s),
         CredentialInv, WorksInv,
         ApplySA \/ ApplyCrWork \/ \E c \in Clusters : Export(c)
  PROVE  FleetInv(s)'
  <1> USE DEF FleetTypes, AddonLister, LabelLister
  <1>n. /\ "idle" \notin DeploySteps \cup CleanUpSteps \cup {"addFinalizer"}
        /\ DeploySteps \cap CleanUpSteps = {}
        /\ "addFinalizer" \notin DeploySteps \cup CleanUpSteps
        /\ {"deleteGlobalnet", "deleteBroker"} \subseteq CleanUpSteps
        /\ {"applySA", "applyRB", "applyCR"} \subseteq DeploySteps
        /\ {"checkGlobal", "removeFinalizer"} \subseteq AfterResources
        /\ {"deleteCR", "deleteOp"} \subseteq CleanUpSteps \ AfterResources
        /\ AfterResources \subseteq CleanUpSteps \ {"deleteCR", "deleteOp"}
    BY DEF DeploySteps, CleanUpSteps, AfterResources
  <1>k. ctl.pc \in DeploySteps \cup CleanUpSteps \cup {"addFinalizer"}
           => ctl.key \in Clusters
    BY <1>n DEF At
  <1>v. Settled(s) /\ CachesKnow /\ PartsKnown(s) /\ DeployKnows(s)
        /\ CleanUpKnows(s) /\ LastKnows
    BY DEF FleetInv
  <1>1. CASE ApplySA
    <2>1. /\ At("applySA") /\ ctl.key \in Clusters
          /\ UNCHANGED <<addon, label, clusterSets, brokerNs, crWork, resources,
                         addonCache, labelCache>>
      BY <1>1, <1>n, <1>k DEF ApplySA, At, objects, works, creds, caches
    <2>2. /\ ctl'.pc = "applyRB" /\ ctl'.key = ctl.key
          /\ ctl'.set = ctl.set /\ ctl'.gaveUp = ctl.gaveUp
      BY <1>1, <1>n, CtlFields DEF ApplySA
    <2>3. Known(ctl.key, s) /\ ctl.set = s
      BY <1>v, <1>n, <2>1 DEF DeployKnows, At
    <2>4. /\ \A d \in Clusters : d # ctl.key => sa'[d] = sa[d]
          /\ sa'[ctl.key] = sa[ctl.key] \cup {s}
      BY <1>1, <2>1, <2>3 DEF ApplySA
    <2>5. Settled(s)'
      BY <1>v, <1>n, <2>1, <2>2, <2>3, <2>4 DEF Settled
    <2>6. CachesKnow'
      BY <1>v, <1>n, <2>1, <2>2, <2>3, <2>4 DEF CachesKnow, Kept
    <2>7. PartsKnown(s)'
      BY <1>v, <1>n, <2>1, <2>2, <2>3, <2>4 DEF PartsKnown, Known
    <2>8. DeployKnows(s)'
      BY <1>v, <1>n, <2>1, <2>2, <2>3, <2>4 DEF DeployKnows, Known, At
    <2>9. CleanUpKnows(s)'
      BY <1>v, <1>n, <2>1, <2>2, <2>3, <2>4 DEF CleanUpKnows, Kept
    <2>10. LastKnows'
      BY <1>v, <1>n, <2>1, <2>2, <2>3, <2>4 DEF LastKnows, Installed
    <2> QED
      BY <2>5, <2>6, <2>7, <2>8, <2>9, <2>10 DEF FleetInv
  <1>2. CASE ApplyCrWork
    <2>1. /\ At("applyCR") /\ ctl.key \in Clusters
          /\ UNCHANGED <<addon, label, clusterSets, brokerNs, sa, resources,
                         addonCache, labelCache>>
      BY <1>2, <1>n, <1>k DEF ApplyCrWork, At, objects, creds, caches
    <2>2. ctl'.pc = "idle" /\ ~ctl'.gaveUp
      BY <1>2, FinalizerComesOff DEF ApplyCrWork, Return, Idle
    <2>3. Known(ctl.key, s) /\ ctl.set = s
      BY <1>v, <1>n, <2>1 DEF DeployKnows, At
    <2>4. /\ \A d \in Clusters : d # ctl.key => crWork'[d] = crWork[d]
          /\ crWork'[ctl.key].st # "overdue"
      BY <1>2, <1>v, <2>1 DEF ApplyCrWork, Applied, Settled
    <2>5. Settled(s)'
      BY <1>v, <1>n, <2>1, <2>2, <2>3, <2>4 DEF Settled
    <2>6. CachesKnow'
      BY <1>v, <1>n, <2>1, <2>2, <2>3, <2>4 DEF CachesKnow, Kept
    <2>7. PartsKnown(s)'
      BY <1>v, <1>n, <2>1, <2>2, <2>3, <2>4 DEF PartsKnown, Known
    <2>8. DeployKnows(s)'
      BY <1>v, <1>n, <2>1, <2>2, <2>3, <2>4 DEF DeployKnows, Known, At
    <2>9. CleanUpKnows(s)'
      BY <1>v, <1>n, <2>1, <2>2, <2>3, <2>4 DEF CleanUpKnows, Kept
    <2>10. LastKnows'
      BY <1>v, <1>n, <2>1, <2>2, <2>3, <2>4 DEF LastKnows, Installed
    <2> QED
      BY <2>5, <2>6, <2>7, <2>8, <2>9, <2>10 DEF FleetInv
  <1>3. ASSUME NEW c \in Clusters, Export(c) PROVE FleetInv(s)'
    <2>1. UNCHANGED <<addon, label, clusterSets, brokerNs, crWork, sa,
                      addonCache, labelCache, ctl>>
      BY <1>3 DEF Export, objects, works, creds, caches
    <2>2. crWork[c].st # "none" /\ crWork[c].set \in sa[c]
      BY <1>3 DEF Export
    <2>3. Known(c, s) /\ crWork[c].set = s
      BY <1>v, <2>2 DEF PartsKnown
    <2>4. /\ \A d \in Clusters : d # c => resources'[d] = resources[d]
          /\ resources'[c] = resources[c] \cup {s}
      BY <1>3, <2>3 DEF Export
    <2>5. ctl.pc \in AfterResources => ctl.key # c
      BY <1>v, <1>n, <2>2 DEF WorksInv, Settled, At
    <2>6. Settled(s)'
      BY <1>v, <1>n, <1>k, <2>1, <2>2, <2>3, <2>4, <2>5 DEF Settled
    <2>7. CachesKnow'
      BY <1>v, <1>n, <1>k, <2>1, <2>2, <2>3, <2>4, <2>5 DEF CachesKnow,
         Kept
    <2>8. PartsKnown(s)'
      BY <1>v, <1>n, <1>k, <2>1, <2>2, <2>3, <2>4, <2>5 DEF PartsKnown,
         Known
    <2>9. DeployKnows(s)'
      BY <1>v, <1>n, <1>k, <2>1, <2>2, <2>3, <2>4, <2>5 DEF DeployKnows,
         Known, At
    <2>10. CleanUpKnows(s)'
      BY <1>v, <1>n, <1>k, <2>1, <2>2, <2>3, <2>4, <2>5 DEF
         CleanUpKnows, Kept
    <2>11. LastKnows'
      BY <1>v, <1>n, <1>k, <2>1, <2>2, <2>3, <2>4, <2>5 DEF LastKnows,
         Installed
    <2> QED
      BY <2>6, <2>7, <2>8, <2>9, <2>10, <2>11 DEF FleetInv
  <1> QED
    BY <1>1, <1>2, <1>3

(* deleteGlobalBrokerResourcesIfNecessary decides by the caches, and is     *)
(* right: an installed cluster is live in the cache.                       *)
LEMMA CheckStep ==
  ASSUME NEW s \in Sets, FleetAssumption(s), TypeOK, FleetTypes, FleetInv(s),
         CredentialInv, WorksInv,
         CheckGlobal
  PROVE  FleetInv(s)'
  <1> USE DEF FleetTypes, AddonLister, LabelLister
  <1>n. /\ "idle" \notin DeploySteps \cup CleanUpSteps \cup {"addFinalizer"}
        /\ DeploySteps \cap CleanUpSteps = {}
        /\ "addFinalizer" \notin DeploySteps \cup CleanUpSteps
        /\ {"deleteGlobalnet", "deleteBroker"} \subseteq CleanUpSteps
        /\ {"applySA", "applyRB", "applyCR"} \subseteq DeploySteps
        /\ {"checkGlobal", "removeFinalizer"} \subseteq AfterResources
        /\ {"deleteCR", "deleteOp"} \subseteq CleanUpSteps \ AfterResources
        /\ AfterResources \subseteq CleanUpSteps \ {"deleteCR", "deleteOp"}
    BY DEF DeploySteps, CleanUpSteps, AfterResources
  <1>k. ctl.pc \in DeploySteps \cup CleanUpSteps \cup {"addFinalizer"}
           => ctl.key \in Clusters
    BY <1>n DEF At
  <1>v. Settled(s) /\ CachesKnow /\ PartsKnown(s) /\ DeployKnows(s)
        /\ CleanUpKnows(s) /\ LastKnows
    BY DEF FleetInv
  <1>1. /\ At("checkGlobal") /\ ctl.key \in Clusters
        /\ UNCHANGED <<addon, label, clusterSets, brokerNs, crWork, sa, resources,
                       addonCache, labelCache>>
    BY <1>n, <1>k DEF CheckGlobal, At, objects, works, creds, caches
  <1>2. \/ ctl.set \in Sets /\ LastOfSet(ctl.set) /\ Goto("deleteGlobalnet")
        \/ Goto("removeFinalizer")
    BY Zenon DEF CheckGlobal
  <1>3. /\ ctl'.key = ctl.key /\ ctl'.set = ctl.set /\ ctl'.gaveUp = ctl.gaveUp
        /\ ctl'.pc \in {"deleteGlobalnet", "removeFinalizer"}
        /\ ctl'.pc = "deleteGlobalnet" => ctl.set \in Sets /\ LastOfSet(ctl.set)
    <2>1. CASE Goto("deleteGlobalnet") /\ ctl.set \in Sets /\ LastOfSet(ctl.set)
      BY <1>n, <2>1, CtlFields
    <2>2. CASE Goto("removeFinalizer")
      <3>1. /\ ctl'.key = ctl.key /\ ctl'.set = ctl.set /\ ctl'.gaveUp = ctl.gaveUp
            /\ ctl'.pc = "removeFinalizer"
        BY <1>n, <2>2, CtlFields
      <3> QED
        BY <3>1
    <2> QED
      BY <1>2, <2>1, <2>2
  <1>4. ASSUME ctl.set \in Sets, LastOfSet(ctl.set), NEW c \in Clusters
        PROVE  ~Installed(c, ctl.set)
    <2>1. SUFFICES ASSUME Installed(c, ctl.set) PROVE FALSE
      OBVIOUS
    <2>2. ctl.set = s /\ addon[c].st = "live" /\ crWork[c].st # "none"
      BY <1>v, <2>1 DEF Installed, Settled
    <2>3. Known(c, s)
      BY <1>v, <2>2 DEF PartsKnown
    <2>4. AddonLister(c).st \in {"deleting", "absent"}
      BY <1>4, <2>2, <2>3 DEF LastOfSet, Members, Known, AddonState
    <2> QED
      BY <1>v, <2>2, <2>3, <2>4 DEF CachesKnow, Known, Kept
  <1>5. Settled(s)'
    BY <1>v, <1>n, <1>1, <1>3, <1>4 DEF Settled
  <1>6. CachesKnow'
    BY <1>v, <1>n, <1>1, <1>3, <1>4 DEF CachesKnow, Kept
  <1>7. PartsKnown(s)'
    BY <1>v, <1>n, <1>1, <1>3, <1>4 DEF PartsKnown, Known
  <1>8. DeployKnows(s)'
    BY <1>v, <1>n, <1>1, <1>3, <1>4 DEF DeployKnows, Known, At
  <1>9. CleanUpKnows(s)'
    BY <1>v, <1>n, <1>1, <1>3, <1>4 DEF CleanUpKnows, Kept, At
  <1>10. LastKnows'
    BY <1>v, <1>n, <1>1, <1>3, <1>4 DEF LastKnows, Installed
  <1> QED
    BY <1>5, <1>6, <1>7, <1>8, <1>9, <1>10 DEF FleetInv

(* A watch event brings one cached add-on, or label, up to date.           *)
LEMMA CacheStep ==
  ASSUME NEW s \in Sets, FleetAssumption(s), TypeOK, FleetTypes, FleetInv(s),
         CredentialInv, WorksInv,
         NEW c \in Clusters, ObserveAddon(c) \/ ObserveCluster(c)
  PROVE  FleetInv(s)'
  <1> USE DEF FleetTypes, AddonLister, LabelLister
  <1>n. /\ "idle" \notin DeploySteps \cup CleanUpSteps \cup {"addFinalizer"}
        /\ DeploySteps \cap CleanUpSteps = {}
        /\ "addFinalizer" \notin DeploySteps \cup CleanUpSteps
        /\ {"deleteGlobalnet", "deleteBroker"} \subseteq CleanUpSteps
        /\ {"applySA", "applyRB", "applyCR"} \subseteq DeploySteps
        /\ {"checkGlobal", "removeFinalizer"} \subseteq AfterResources
        /\ {"deleteCR", "deleteOp"} \subseteq CleanUpSteps \ AfterResources
        /\ AfterResources \subseteq CleanUpSteps \ {"deleteCR", "deleteOp"}
    BY DEF DeploySteps, CleanUpSteps, AfterResources
  <1>k. ctl.pc \in DeploySteps \cup CleanUpSteps \cup {"addFinalizer"}
           => ctl.key \in Clusters
    BY <1>n DEF At
  <1>v. Settled(s) /\ CachesKnow /\ PartsKnown(s) /\ DeployKnows(s)
        /\ CleanUpKnows(s) /\ LastKnows
    BY DEF FleetInv
  <1>1. CASE ObserveAddon(c)
    <2>1. UNCHANGED <<addon, label, clusterSets, brokerNs, crWork, sa, resources,
                      labelCache, ctl>>
      BY <1>1 DEF ObserveAddon, objects, works, creds
    <2>2. /\ \A d \in Clusters : d # c => AddonLister(d)' = AddonLister(d)
          /\ AddonLister(c)' = addon[c]
          /\ \A d \in Clusters : LabelLister(d)' = LabelLister(d)
      BY <1>1, <2>1 DEF ObserveAddon
    <2> HIDE DEF AddonLister, LabelLister
    <2>3. Settled(s)'
      BY <1>v, <1>n, <1>k, <2>1, <2>2 DEF Settled
    <2>4. CachesKnow'
      BY <1>v, <1>n, <1>k, <2>1, <2>2 DEF CachesKnow, Kept
    <2>5. PartsKnown(s)'
      BY <1>v, <1>n, <1>k, <2>1, <2>2 DEF PartsKnown, Known
    <2>6. DeployKnows(s)'
      BY <1>v, <1>n, <1>k, <2>1, <2>2 DEF DeployKnows, Known, At
    <2>7. CleanUpKnows(s)'
      BY <1>v, <1>n, <1>k, <2>1, <2>2 DEF CleanUpKnows, Kept
    <2>8. LastKnows'
      BY <1>v, <1>n, <1>k, <2>1, <2>2 DEF LastKnows, Installed
    <2> QED
      BY <2>3, <2>4, <2>5, <2>6, <2>7, <2>8 DEF FleetInv
  <1>2. CASE ObserveCluster(c)
    <2>1. UNCHANGED <<addon, label, clusterSets, brokerNs, crWork, sa, resources,
                      addonCache, ctl>>
      BY <1>2 DEF ObserveCluster, objects, works, creds
    <2>2. /\ \A d \in Clusters : AddonLister(d)' = AddonLister(d)
          /\ \A d \in Clusters : LabelLister(d) = s => LabelLister(d)' = s
          /\ \A d \in Clusters : labelCache'[d] \in {labelCache[d], s}
      BY <1>2, <1>v, <2>1 DEF ObserveCluster, Settled
    <2> HIDE DEF AddonLister, LabelLister
    <2>3. Settled(s)'
      BY <1>v, <1>n, <1>k, <2>1, <2>2 DEF Settled
    <2>4. CachesKnow'
      BY <1>v, <1>n, <1>k, <2>1, <2>2 DEF CachesKnow, Kept
    <2>5. PartsKnown(s)'
      BY <1>v, <1>n, <1>k, <2>1, <2>2 DEF PartsKnown, Known
    <2>6. DeployKnows(s)'
      BY <1>v, <1>n, <1>k, <2>1, <2>2 DEF DeployKnows, Known, At
    <2>7. CleanUpKnows(s)'
      BY <1>v, <1>n, <1>k, <2>1, <2>2 DEF CleanUpKnows, Kept
    <2>8. LastKnows'
      BY <1>v, <1>n, <1>k, <2>1, <2>2 DEF LastKnows, Installed
    <2> QED
      BY <2>3, <2>4, <2>5, <2>6, <2>7, <2>8 DEF FleetInv
  <1> QED
    BY <1>1, <1>2

(* Before the first sync there is nothing to know.                         *)
LEMMA FleetInit ==
  ASSUME NEW s \in Sets, FleetAssumption(s), Init PROVE FleetInv(s)
  <1>1. /\ ctl.pc = "idle" /\ ~ctl.gaveUp
        /\ clusterSets = Sets /\ brokerNs = Sets
        /\ \A c \in Clusters :
              /\ label[c] = s /\ labelCache[c] = NoCluster
              /\ addon[c].st = "absent" /\ ~addon[c].fin
              /\ AddonLister(c) = addon[c]
              /\ sa[c] = {} /\ resources[c] = {} /\ crWork[c].st = "none"
    BY DEF Init, FleetAssumption, Idle, AddonLister, NoWork, NoAddon
  <1>2. Settled(s) /\ PartsKnown(s)
    BY <1>1 DEF Settled, PartsKnown
  <1>3. CachesKnow
    BY <1>1 DEF CachesKnow, Kept
  <1>4. DeployKnows(s) /\ CleanUpKnows(s) /\ LastKnows
    BY <1>1 DEF DeployKnows, CleanUpKnows, LastKnows, At, DeploySteps, CleanUpSteps
  <1> QED
    BY <1>2, <1>3, <1>4 DEF FleetInv

LEMMA FleetStep ==
  ASSUME NEW s \in Sets, FleetAssumption(s), TypeOK, FleetInv(s),
         CredentialInv, WorksInv, [Next]_vars
  PROVE  FleetInv(s)'
  <1>t. FleetTypes
    BY FleetTyped
  <1>f. Settled(s)
    BY DEF FleetInv
  <1>1. CASE \E c \in Clusters : Sync(c)
    BY <1>1, <1>t, SyncStep DEF Sync
  <1>2. CASE Deploy
    BY <1>2, <1>t, AddonStep, DeployStep, SyncsShrink, ShrinkStep DEF Deploy
  <1>3. CASE CleanUp
    BY <1>3, <1>t, AddonStep, CheckStep, SyncsShrink, ShrinkStep DEF CleanUp
  <1>4. CASE Abort \/ UNCHANGED vars
    BY <1>4, <1>t, OthersShrink, ShrinkStep
  <1>5. CASE User
    BY <1>5, <1>t, <1>f, Settles, AddonStep, OthersShrink, ShrinkStep DEF User
  <1>6. CASE Platform
    BY <1>6, <1>t, <1>f, Settles, DeployStep, CacheStep, OthersShrink, ShrinkStep
       DEF Platform
  <1> QED
    BY <1>1, <1>2, <1>3, <1>4, <1>5, <1>6 DEF Next

LEMMA FleetCorrect ==
  ASSUME NEW s \in Sets, FleetAssumption(s) PROVE Spec => []FleetInv(s)
<1>1. Init => FleetInv(s)
  BY FleetInit
<1>2. TypeOK /\ CredentialInv /\ WorksInv /\ FleetInv(s) /\ [Next]_vars => FleetInv(s)'
  BY FleetStep
<1>3. "work" \notin Lagging
  BY DEF FleetAssumption
<1>4. Spec => []WorksInv
  BY <1>3, WorksCorrect
<1> QED
  BY <1>1, <1>2, <1>4, TypeCorrect, CredentialCorrect, PTL DEF Spec

(* Only DeleteBroker and DeleteGlobalnet take the two objects, and they    *)
(* do so when no cluster of the set is installed.                          *)
LEMMA SharedStep ==
  ASSUME NEW s \in Sets, FleetAssumption(s), TypeOK, FleetInv(s), [Next]_vars,
         NEW t \in Sets, NEW c \in Clusters, Installed(c, t)
  PROVE  (t \in broker => t \in broker') /\ (t \in globalnet => t \in globalnet')
  <1> DEFINE Stays == (t \in broker => t \in broker')
                         /\ (t \in globalnet => t \in globalnet')
  <1> USE DEF objects, works, creds, caches
  <1>1. CASE DeleteBroker \/ DeleteGlobalnet
    <2>1. ~Installed(c, ctl.set)
      BY <1>1 DEF DeleteBroker, DeleteGlobalnet, FleetInv, LastKnows, At
    <2>2. ctl.set # t
      BY <2>1
    <2> QED
      BY <1>1, <2>2 DEF DeleteBroker, DeleteGlobalnet
  <1>2. CASE \E d \in Clusters : Sync(d)
    BY <1>2 DEF Sync, SyncCleanUp, SyncDeploy
  <1>3. CASE Deploy
    BY <1>3 DEF Deploy, AddFinalizer, ApplySA, ApplySAFails, ApplyRB,
       ApplyRBFails, EnsureGlobalnet, BrokerMissing, BrokerApplied,
       StatusUpdateFails, GetBrokerInfo, CreateTokenSecret, GetBrokerInfoFails,
       ApplyOpWork, ApplyCrWork
  <1>4. ASSUME CleanUp, ~DeleteBroker, ~DeleteGlobalnet PROVE Stays
    BY <1>4 DEF CleanUp, DeleteCrWork, DeleteOpWork, DeleteResources, ListNoSA,
       ListOneSA, ListManySAs, DeleteSecret, DeleteSA, DeleteSAFails, DeleteRB,
       CheckGlobal, RemoveFinalizer
  <1>5. CASE Abort \/ UNCHANGED vars
    BY <1>5 DEF Abort, vars
  <1>6. CASE User
    BY <1>6 DEF User, CreateAddon, DeleteAddon, SetLabel, CreateBroker, DeleteSet,
       CreateSet
  <1>7. CASE Platform
    <2>1. \A r \in Sets : ~DeleteBrokerNs(r)
      BY FleetTyped, Settles DEF FleetInv
    <2> QED
      BY <1>7, <2>1 DEF Platform, CreateBrokerNs, FillToken, OpWorkGone,
         CrWorkGone, CrWorkOverdue, Export, ObserveAddon, ObserveCluster,
         ObserveWork, OutageEnds
  <1> QED
    BY <1>1, <1>2, <1>3, <1>4, <1>5, <1>6, <1>7 DEF Next

-----------------------------------------------------------------------------
(* cleanUpSubmarinerAgent: with a fresh ManifestWork cache, but add-on and *)
(* cluster caches of any age, whatever calls fail, nothing that a cluster  *)
(* exported and no token outlives its finalizer.                           *)
THEOREM NothingIsLeft ==
  ASSUME NEW s \in Sets, FleetAssumption(s) PROVE Spec => []NoLeftovers
<1>1. TypeOK /\ CredentialInv /\ FleetInv(s) => NoLeftovers
  BY DEF FleetInv, PartsKnown, Known, NoLeftovers, CredentialInv
<1> QED
  BY <1>1, FleetCorrect, TypeCorrect, CredentialCorrect, PTL

(* deleteGlobalBrokerResourcesIfNecessary: under the same assumptions no   *)
(* installed cluster loses the Broker or the globalnet ConfigMap, although *)
(* the decision is made on cached add-ons and labels, and carried out      *)
(* while users go on.                                                      *)
THEOREM OthersKeepBroker ==
  ASSUME NEW s \in Sets, FleetAssumption(s) PROVE Spec => BrokerKept
<1>1. TypeOK /\ FleetInv(s) /\ [Next]_vars => [KeepsBroker]_vars
  BY SharedStep DEF KeepsBroker
<1> QED
  BY <1>1, FleetCorrect, TypeCorrect, PTL DEF Spec, BrokerKept

(* What FleetInv knows of the finalizers is all that LayeredInstall needs. *)
LEMMA FleetFinalizers ==
  ASSUME NEW s \in Sets, TypeOK, FleetInv(s) PROVE FinalizerInv
  BY FleetTyped DEF FleetInv, PartsKnown, DeployKnows, Known, FinalizerInv, At

(* In such a fleet the installation of each cluster is built in layers and *)
(* taken down in the opposite order, although syncManagedCluster decides   *)
(* by add-ons and labels of any age: ImplementsLayeredInstall without its  *)
(* assumption on the add-on cache.                                         *)
THEOREM FleetIsLayered ==
  ASSUME NEW s \in Sets, FleetAssumption(s) PROVE Spec => LayeredSpec
<1> DEFINE Inv == TypeOK /\ CredentialInv /\ WorksInv /\ FinalizerInv
<1>a. "setDeletion" \notin Events /\ "work" \notin Lagging
  BY DEF FleetAssumption
<1>b. TypeOK /\ FleetInv(s) => FinalizerInv
  BY FleetFinalizers
<1>c. Spec => []Inv
  <2>1. Spec => []WorksInv
    BY <1>a, WorksCorrect
  <2>2. TypeOK /\ CredentialInv /\ WorksInv /\ FleetInv(s) => Inv
    BY <1>b
  <2> HIDE DEF Inv
  <2> QED
    BY <2>1, <2>2, TypeCorrect, CredentialCorrect, FleetCorrect, PTL
<1>1. Init => CrWorkInv /\ Layered!Init
  <2> SUFFICES ASSUME Init PROVE CrWorkInv /\ Layered!Init
    OBVIOUS
  <2>1. CrWorkInv
    BY DEF Init, CrWorkInv, NoWork, At, Idle, DeploySteps
  <2>2. \A c \in Clusters : {l \in 1..3 : Holds(c, l)} = {}
    BY DEF Init, Holds, NoAddon, NoWork
  <2>3. Layered!Init
    BY <2>2 DEF Layered!Init, Layers
  <2> QED
    BY <2>1, <2>3
<1>2. Inv /\ CrWorkInv /\ [Next]_vars => CrWorkInv'
  BY <1>a, ConstAssumption, CrWorkStep
<1>3. Inv /\ Inv' /\ CrWorkInv /\ CrWorkInv' /\ [Next]_vars
         => [Layered!Next]_Layers
  BY <1>a, ConstAssumption, RefinementStep
<1> HIDE DEF Inv
<1>4. Spec => Layered!Init /\ [][Layered!Next]_Layers
  BY <1>c, <1>1, <1>2, <1>3, PTL DEF Spec
<1> QED
  BY <1>4 DEF LayeredSpec, Layered!Spec

(* Nor does an operator work that nobody deleted outlive its add-on:        *)
(* OperatorGoes without its assumption on the add-on cache.                *)
THEOREM FleetOperatorGoes ==
  ASSUME NEW s \in Sets, FleetAssumption(s) PROVE Spec => []NoOrphanOperator
<1> DEFINE Inv == TypeOK /\ WorksInv /\ FinalizerInv
<1>a. "work" \notin Lagging /\ "timeout" \notin Events
  BY DEF FleetAssumption
<1>b. TypeOK /\ FleetInv(s) => FinalizerInv
  BY FleetFinalizers
<1>c. Spec => []Inv
  <2>1. Spec => []WorksInv
    BY <1>a, WorksCorrect
  <2>2. TypeOK /\ WorksInv /\ FleetInv(s) => Inv
    BY <1>b
  <2> HIDE DEF Inv
  <2> QED
    BY <2>1, <2>2, TypeCorrect, FleetCorrect, PTL
<1>1. Init => OperatorInv
  BY DEF Init, OperatorInv, NoWork, Idle
<1>2. Inv /\ OperatorInv /\ [Next]_vars => OperatorInv'
  BY <1>a, OperatorStep
<1>3. Inv /\ OperatorInv => NoOrphanOperator
  BY DEF TypeOK, DataOK, OperatorInv, NoOrphanOperator
<1> HIDE DEF Inv
<1> QED
  BY <1>c, <1>1, <1>2, <1>3, PTL DEF Spec

=============================================================================
