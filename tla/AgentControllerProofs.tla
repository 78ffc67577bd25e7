------------------------- MODULE AgentControllerProofs -------------------------
(***************************************************************************)
(* What holds of AgentController for every number of clusters and cluster  *)
(* sets. The order of the module is the order of the argument:             *)
(*                                                                         *)
(*   1. the type invariant (ControlStep, DataStep, TypeCorrect);           *)
(*   2. the two steps whose effect the provers do not see at once          *)
(*      (CleanUpBegins, FinalizerComesOff);                                *)
(*   3. one lemma for each conjunct of the inductive invariant             *)
(*      (CredentialStep, WorksStep, FinalizerStep, CrWorkStep), with one   *)
(*      step per action;                                                   *)
(*   4. which actions change an object (OperatorMoves, FinalizerMoves,     *)
(*      CredentialMoves, CrWorkMoves);                                     *)
(*   5. how a step shows in LayeredInstall (PushStep, PopStep, LayersStay, *)
(*      RefinementStep);                                                   *)
(*   6. the theorems;                                                      *)
(*   7. two promises that the code breaks, and when it keeps them          *)
(*      (OperatorInv, RoleBindingInv).                                     *)
(*                                                                         *)
(* Each conjunct of the invariant needs its own assumption on the caches   *)
(* and the events, which is why they are separate lemmas.                  *)
(***************************************************************************)
EXTENDS AgentController, TLAPS

(* Every action takes the worker from a well-formed point of a sync to      *)
(* another one: sync, deploySubmarinerAgent, cleanUpSubmarinerAgent.       *)
LEMMA ControlStep == TypeOK /\ [Next]_vars => ControlOK'
  <1> SUFFICES ASSUME TypeOK, [Next]_vars PROVE ControlOK'
    OBVIOUS
  <1> USE ConstAssumption DEF TypeOK, ControlOK, At, Goto, Return, Idle,
                              Control, DeploySteps, CleanUpSteps
  <1>1. CASE AddFinalizer
    BY <1>1 DEF AddFinalizer
  <1>2. CASE ApplySA
    BY <1>2 DEF ApplySA
  <1>3. CASE ApplySAFails
    BY <1>3 DEF ApplySAFails
  <1>4. CASE ApplyRB
    <2>1. Return \/ Goto("globalnet")
      BY <1>4, Zenon DEF ApplyRB
    <2>2. At("applyRB")
      BY <1>4 DEF ApplyRB
    <2>3. CASE Return
      BY <2>3
    <2>4. CASE Goto("globalnet")
      BY <2>2, <2>4
    <2> QED
      BY <2>1, <2>3, <2>4
  <1>5. CASE ApplyRBFails
    BY <1>5 DEF ApplyRBFails
  <1>6. CASE EnsureGlobalnet
    BY <1>6 DEF EnsureGlobalnet
  <1>7. CASE BrokerMissing
    BY <1>7 DEF BrokerMissing
  <1>8. CASE BrokerApplied
    BY <1>8 DEF BrokerApplied
  <1>9. CASE StatusUpdateFails
    BY <1>9 DEF StatusUpdateFails
  <1>10. CASE GetBrokerInfo
    BY <1>10 DEF GetBrokerInfo
  <1>11. CASE CreateTokenSecret
    BY <1>11 DEF CreateTokenSecret
  <1>12. CASE GetBrokerInfoFails
    BY <1>12 DEF GetBrokerInfoFails
  <1>13. CASE ApplyOpWork
    BY <1>13 DEF ApplyOpWork
  <1>14. CASE ApplyCrWork
    BY <1>14 DEF ApplyCrWork
  <1>15. CASE DeleteCrWork
    BY <1>15 DEF DeleteCrWork
  <1>16. CASE DeleteOpWork
    BY <1>16 DEF DeleteOpWork
  <1>17. CASE DeleteResources
    BY <1>17 DEF DeleteResources
  <1>18. CASE ListNoSA
    BY <1>18 DEF ListNoSA
  <1>19. CASE ListOneSA
    BY <1>19 DEF ListOneSA
  <1>20. CASE ListManySAs
    BY <1>20 DEF ListManySAs
  <1>21. CASE DeleteSecret
    BY <1>21 DEF DeleteSecret
  <1>22. CASE DeleteSA
    BY <1>22 DEF DeleteSA
  <1>23. CASE DeleteSAFails
    BY <1>23 DEF DeleteSAFails
  <1>24. CASE DeleteRB
    <2>1. Return \/ Goto("checkGlobal")
      BY <1>24, Zenon DEF DeleteRB
    <2>2. At("deleteRB")
      BY <1>24 DEF DeleteRB
    <2>3. CASE Return
      BY <2>3
    <2>4. CASE Goto("checkGlobal")
      BY <2>2, <2>4
    <2> QED
      BY <2>1, <2>3, <2>4
  <1>25. CASE CheckGlobal
    BY <1>25 DEF CheckGlobal
  <1>26. CASE DeleteGlobalnet
    BY <1>26 DEF DeleteGlobalnet
  <1>27. CASE DeleteBroker
    BY <1>27 DEF DeleteBroker
  <1>28. CASE RemoveFinalizer
    BY <1>28 DEF RemoveFinalizer
  <1>29. CASE Abort
    BY <1>29 DEF Abort
  <1>30. CASE OutageEnds
    BY <1>30 DEF OutageEnds
  <1>31. ASSUME NEW c \in Clusters, SyncCleanUp(c) PROVE ControlOK'
    <2>1. CrWorkLister(c) \in {"none", "live", "overdue"}
      BY <1>31 DEF SyncCleanUp, DataOK, CrWorkLister, CrWork, WorkState
    <2>2. CleanUpStart[CrWorkLister(c)] \in CleanUpSteps
      BY <2>1 DEF CleanUpStart
    <2>3. CleanUpSet(c) \in Sets \cup {NoSet}
      BY DEF CleanUpSet
    <2> QED
      BY <1>31, <2>2, <2>3 DEF SyncCleanUp
  <1>32. ASSUME NEW c \in Clusters, SyncDeploy(c) PROVE ControlOK'
    <2>1. LabelLister(c) \in Sets
      BY <1>32 DEF SyncDeploy, DeployWanted, DataOK
    <2> QED
      BY <1>32, <2>1 DEF SyncDeploy
  <1>33. ASSUME NEW c \in Clusters, CreateAddon(c) PROVE ControlOK'
    BY <1>33 DEF CreateAddon
  <1>34. ASSUME NEW c \in Clusters, DeleteAddon(c) PROVE ControlOK'
    BY <1>34 DEF DeleteAddon
  <1>35. ASSUME NEW c \in Clusters, SetLabel(c) PROVE ControlOK'
    BY <1>35 DEF SetLabel
  <1>36. ASSUME NEW c \in Clusters, FillToken(c) PROVE ControlOK'
    BY <1>36 DEF FillToken
  <1>37. ASSUME NEW c \in Clusters, OpWorkGone(c) PROVE ControlOK'
    BY <1>37 DEF OpWorkGone
  <1>38. ASSUME NEW c \in Clusters, CrWorkGone(c) PROVE ControlOK'
    BY <1>38 DEF CrWorkGone
  <1>39. ASSUME NEW c \in Clusters, CrWorkOverdue(c) PROVE ControlOK'
    BY <1>39 DEF CrWorkOverdue
  <1>40. ASSUME NEW c \in Clusters, Export(c) PROVE ControlOK'
    BY <1>40 DEF Export
  <1>41. ASSUME NEW c \in Clusters, ObserveAddon(c) PROVE ControlOK'
    BY <1>41 DEF ObserveAddon
  <1>42. ASSUME NEW c \in Clusters, ObserveCluster(c) PROVE ControlOK'
    BY <1>42 DEF ObserveCluster
  <1>43. ASSUME NEW c \in Clusters, ObserveWork(c) PROVE ControlOK'
    BY <1>43 DEF ObserveWork
  <1>44. ASSUME NEW s \in Sets, CreateBroker(s) PROVE ControlOK'
    BY <1>44 DEF CreateBroker
  <1>45. ASSUME NEW s \in Sets, DeleteSet(s) PROVE ControlOK'
    BY <1>45 DEF DeleteSet
  <1>46. ASSUME NEW s \in Sets, CreateSet(s) PROVE ControlOK'
    BY <1>46 DEF CreateSet
  <1>47. ASSUME NEW s \in Sets, CreateBrokerNs(s) PROVE ControlOK'
    BY <1>47 DEF CreateBrokerNs
  <1>48. ASSUME NEW s \in Sets, DeleteBrokerNs(s) PROVE ControlOK'
    BY <1>48 DEF DeleteBrokerNs
  <1>49. CASE UNCHANGED vars
    BY <1>49 DEF vars
  <1> QED
    BY <1>1, <1>2, <1>3, <1>4, <1>5, <1>6, <1>7, <1>8, <1>9, <1>10, <1>11,
       <1>12, <1>13, <1>14, <1>15, <1>16, <1>17, <1>18, <1>19, <1>20,
       <1>21, <1>22, <1>23, <1>24, <1>25, <1>26, <1>27, <1>28, <1>29,
       <1>30, <1>31, <1>32, <1>33, <1>34, <1>35, <1>36, <1>37, <1>38,
       <1>39, <1>40, <1>41, <1>42, <1>43, <1>44, <1>45, <1>46, <1>47,
       <1>48, <1>49
    DEF Next, Sync, Deploy, CleanUp, User, Platform

(* What one add-on is replaced by keeps the others as they are.            *)
LEMMA PutAddon ==
  ASSUME NEW k \in Clusters, NEW a \in AddonState,
         addon \in [Clusters -> AddonState],
         addon' = addon \/ addon' = [addon EXCEPT ![k] = a]
  PROVE  addon' \in [Clusters -> AddonState]
  OBVIOUS

(* Every action keeps the objects and the caches well-formed; in            *)
(* particular an add-on being deleted keeps its finalizer until            *)
(* finalizer.Remove, which makes it go away.                               *)
LEMMA DataStep == TypeOK /\ [Next]_vars => DataOK'
  <1> SUFFICES ASSUME TypeOK, [Next]_vars PROVE DataOK'
    OBVIOUS
  <1>k. ~At("idle") => ctl.key \in Clusters
    BY DEF TypeOK, ControlOK
  <1>s. ctl.set \in Sets \cup {NoSet}
    BY DEF TypeOK, ControlOK, Control
  <1>d. DataOK
    BY DEF TypeOK
  <1> HIDE DEF TypeOK
  <1> USE ConstAssumption, <1>k, <1>s, <1>d
    DEF DataOK, objects, works, creds, caches, At, NoAddon, NoWork, AddonState,
        CrWork, WorkState, Label
  <1>1. CASE AddFinalizer
    <2>1. ctl.key \in Clusters
      BY <1>1 DEF AddFinalizer
    <2>2. addon' \in [Clusters -> AddonState]
      BY <2>1, <1>1 DEF AddFinalizer
    <2>3. \A d \in Clusters : (addon'[d].st = "deleting" => addon'[d].fin)
                           /\ (addon'[d].st = "absent" => ~addon'[d].fin)
      BY <2>1, <1>1 DEF AddFinalizer
    <2>4. cond' \in [Clusters -> {"none", "missing", "applied"}]
      BY <2>1, <1>1 DEF AddFinalizer
    <2> QED
      BY <1>1, <2>2, <2>3, <2>4 DEF AddFinalizer
  <1>2. CASE ApplySA
    BY <1>2 DEF ApplySA
  <1>3. CASE ApplySAFails
    BY <1>3 DEF ApplySAFails
  <1>4. CASE ApplyRB
    BY <1>4 DEF ApplyRB
  <1>5. CASE ApplyRBFails
    BY <1>5 DEF ApplyRBFails
  <1>6. CASE EnsureGlobalnet
    BY <1>6 DEF EnsureGlobalnet
  <1>7. CASE BrokerMissing
    BY <1>7 DEF BrokerMissing
  <1>8. CASE BrokerApplied
    BY <1>8 DEF BrokerApplied
  <1>9. CASE StatusUpdateFails
    BY <1>9 DEF StatusUpdateFails
  <1>10. CASE GetBrokerInfo
    BY <1>10 DEF GetBrokerInfo
  <1>11. CASE CreateTokenSecret
    <2>1. ctl.key \in Clusters
      BY <1>11 DEF CreateTokenSecret
    <2>2. secret' \in [Clusters -> SUBSET Sets]
      BY <2>1, <1>11 DEF CreateTokenSecret, HasInfo
    <2> QED
      BY <1>11, <2>2 DEF CreateTokenSecret
  <1>12. CASE GetBrokerInfoFails
    BY <1>12 DEF GetBrokerInfoFails
  <1>13. CASE ApplyOpWork
    BY <1>13 DEF ApplyOpWork, Applied
  <1>14. CASE ApplyCrWork
    <2>1. ctl.key \in Clusters
      BY <1>14 DEF ApplyCrWork
    <2>2. crWork' \in [Clusters -> CrWork]
      BY <2>1, <1>14 DEF ApplyCrWork, Applied
    <2> QED
      BY <1>14, <2>2 DEF ApplyCrWork
  <1>15. CASE DeleteCrWork
    <2>1. ctl.key \in Clusters
      BY <1>15 DEF DeleteCrWork
    <2>2. crWork' \in [Clusters -> CrWork]
      BY <2>1, <1>15 DEF DeleteCrWork
    <2> QED
      BY <1>15, <2>2 DEF DeleteCrWork
  <1>16. CASE DeleteOpWork
    BY <1>16 DEF DeleteOpWork
  <1>17. CASE DeleteResources
    BY <1>17 DEF DeleteResources
  <1>18. CASE ListNoSA
    BY <1>18 DEF ListNoSA
  <1>19. CASE ListOneSA
    BY <1>19 DEF ListOneSA
  <1>20. CASE ListManySAs
    BY <1>20 DEF ListManySAs
  <1>21. CASE DeleteSecret
    BY <1>21 DEF DeleteSecret
  <1>22. CASE DeleteSA
    BY <1>22 DEF DeleteSA
  <1>23. CASE DeleteSAFails
    BY <1>23 DEF DeleteSAFails
  <1>24. CASE DeleteRB
    BY <1>24 DEF DeleteRB
  <1>25. CASE CheckGlobal
    BY <1>25 DEF CheckGlobal
  <1>26. CASE DeleteGlobalnet
    BY <1>26 DEF DeleteGlobalnet
  <1>27. CASE DeleteBroker
    BY <1>27 DEF DeleteBroker
  <1>28. CASE RemoveFinalizer
    <2>1. ctl.key \in Clusters
      BY <1>28 DEF RemoveFinalizer
    <2> DEFINE a == WithoutFinalizer(addon[ctl.key])
    <2>2. addon' = addon \/ addon' = [addon EXCEPT ![ctl.key] = a]
      BY <1>28, Zenon DEF RemoveFinalizer
    <2>3. a \in AddonState /\ ~a.fin /\ a.st # "deleting"
      BY <2>1 DEF WithoutFinalizer
    <2>4. cond' \in [Clusters -> {"none", "missing", "applied"}]
      BY <2>1, <1>28 DEF RemoveFinalizer
    <2> HIDE DEF a
    <2>5. addon' \in [Clusters -> AddonState]
      BY <2>1, <2>2, <2>3, PutAddon, Zenon
    <2>6. ASSUME NEW d \in Clusters
          PROVE  /\ addon'[d].st = "deleting" => addon'[d].fin
                 /\ addon'[d].st = "absent" => ~addon'[d].fin
      <3>1. CASE addon' = addon
        BY <3>1
      <3>2. CASE addon' = [addon EXCEPT ![ctl.key] = a] /\ d = ctl.key
        <4>1. addon'[d] = a
          BY <2>1, <3>2
        <4> QED
          BY <4>1, <2>3
      <3>3. CASE addon' = [addon EXCEPT ![ctl.key] = a] /\ d # ctl.key
        <4>1. addon'[d] = addon[d]
          BY <2>1, <3>3
        <4> QED
          BY <4>1
      <3> QED
        BY <2>2, <3>1, <3>2, <3>3
    <2> QED
      BY <1>28, <2>4, <2>5, <2>6 DEF RemoveFinalizer
  <1>29. CASE Abort
    BY <1>29 DEF Abort
  <1>30. CASE OutageEnds
    BY <1>30 DEF OutageEnds
  <1>31. ASSUME NEW c \in Clusters, SyncCleanUp(c) PROVE DataOK'
    BY <1>31 DEF SyncCleanUp
  <1>32. ASSUME NEW c \in Clusters, SyncDeploy(c) PROVE DataOK'
    BY <1>32 DEF SyncDeploy
  <1>33. ASSUME NEW c \in Clusters, CreateAddon(c) PROVE DataOK'
    <2>2. addon' \in [Clusters -> AddonState]
      BY <1>33 DEF CreateAddon
    <2>3. \A d \in Clusters : (addon'[d].st = "deleting" => addon'[d].fin)
                           /\ (addon'[d].st = "absent" => ~addon'[d].fin)
      BY <1>33 DEF CreateAddon
    <2>4. cond' \in [Clusters -> {"none", "missing", "applied"}]
      BY <1>33 DEF CreateAddon
    <2> QED
      BY <1>33, <2>2, <2>3, <2>4 DEF CreateAddon
  <1>34. ASSUME NEW c \in Clusters, DeleteAddon(c) PROVE DataOK'
    <2>2. addon' \in [Clusters -> AddonState]
      BY <1>34 DEF DeleteAddon
    <2>3. \A d \in Clusters : (addon'[d].st = "deleting" => addon'[d].fin)
                           /\ (addon'[d].st = "absent" => ~addon'[d].fin)
      BY <1>34 DEF DeleteAddon
    <2>4. cond' \in [Clusters -> {"none", "missing", "applied"}]
      BY <1>34 DEF DeleteAddon
    <2> QED
      BY <1>34, <2>2, <2>3, <2>4 DEF DeleteAddon
  <1>35. ASSUME NEW c \in Clusters, SetLabel(c) PROVE DataOK'
    <2>2. label' \in [Clusters -> Label]
      BY <1>35 DEF SetLabel
    <2> QED
      BY <1>35, <2>2 DEF SetLabel
  <1>36. ASSUME NEW c \in Clusters, FillToken(c) PROVE DataOK'
    BY <1>36 DEF FillToken
  <1>37. ASSUME NEW c \in Clusters, OpWorkGone(c) PROVE DataOK'
    BY <1>37 DEF OpWorkGone
  <1>38. ASSUME NEW c \in Clusters, CrWorkGone(c) PROVE DataOK'
    BY <1>38 DEF CrWorkGone
  <1>39. ASSUME NEW c \in Clusters, CrWorkOverdue(c) PROVE DataOK'
    <2>2. crWork' \in [Clusters -> CrWork]
      BY <1>39 DEF CrWorkOverdue
    <2> QED
      BY <1>39, <2>2 DEF CrWorkOverdue
  <1>40. ASSUME NEW c \in Clusters, Export(c) PROVE DataOK'
    BY <1>40 DEF Export
  <1>41. ASSUME NEW c \in Clusters, ObserveAddon(c) PROVE DataOK'
    BY <1>41 DEF ObserveAddon
  <1>42. ASSUME NEW c \in Clusters, ObserveCluster(c) PROVE DataOK'
    BY <1>42 DEF ObserveCluster
  <1>43. ASSUME NEW c \in Clusters, ObserveWork(c) PROVE DataOK'
    BY <1>43 DEF ObserveWork, Observed
  <1>44. ASSUME NEW s \in Sets, CreateBroker(s) PROVE DataOK'
    BY <1>44 DEF CreateBroker
  <1>45. ASSUME NEW s \in Sets, DeleteSet(s) PROVE DataOK'
    BY <1>45 DEF DeleteSet
  <1>46. ASSUME NEW s \in Sets, CreateSet(s) PROVE DataOK'
    BY <1>46 DEF CreateSet
  <1>47. ASSUME NEW s \in Sets, CreateBrokerNs(s) PROVE DataOK'
    BY <1>47 DEF CreateBrokerNs
  <1>48. ASSUME NEW s \in Sets, DeleteBrokerNs(s) PROVE DataOK'
    BY <1>48 DEF DeleteBrokerNs
  <1>49. CASE UNCHANGED vars
    BY <1>49 DEF vars
  <1> QED
    BY <1>1, <1>2, <1>3, <1>4, <1>5, <1>6, <1>7, <1>8, <1>9, <1>10, <1>11,
       <1>12, <1>13, <1>14, <1>15, <1>16, <1>17, <1>18, <1>19, <1>20,
       <1>21, <1>22, <1>23, <1>24, <1>25, <1>26, <1>27, <1>28, <1>29,
       <1>30, <1>31, <1>32, <1>33, <1>34, <1>35, <1>36, <1>37, <1>38,
       <1>39, <1>40, <1>41, <1>42, <1>43, <1>44, <1>45, <1>46, <1>47,
       <1>48, <1>49
    DEF Next, Sync, Deploy, CleanUp, User, Platform

(* The type invariant, and the finalizer's link to the add-on's deletion,    *)
(* hold in every reachable state.                                          *)
THEOREM TypeCorrect == Spec => []TypeOK
<1>1. Init => TypeOK
  BY ConstAssumption DEF Init, TypeOK, DataOK, ControlOK, NoAddon, NoWork,
                         Idle, AddonState, CrWork, WorkState, Label, Control,
                         At
<1>2. TypeOK /\ [Next]_vars => TypeOK'
  BY ControlStep, DataStep DEF TypeOK
<1> QED
  BY <1>1, <1>2, PTL DEF Spec

(* What syncManagedCluster leaves behind when it enters the clean up: the    *)
(* first step is the one that the CR work, as the cache has it, calls for. *)
LEMMA CleanUpBegins ==
  ASSUME TypeOK, NEW c \in Clusters, SyncCleanUp(c)
  PROVE  /\ ctl'.key = c /\ ~ctl'.failed
         /\ \/ ctl'.pc = "deleteOp" /\ CrWorkLister(c) = "none" /\ ~ctl'.gaveUp
            \/ ctl'.pc = "deleteCR" /\ ~ctl'.gaveUp
            \/ /\ ctl'.pc = "deleteResources" /\ CrWorkLister(c) = "overdue"
               /\ ctl'.gaveUp
         /\ At("idle")
         /\ UNCHANGED <<objects, works, creds>>
  <1>1. CrWorkLister(c) \in {"none", "live", "overdue"}
    BY DEF TypeOK, DataOK, SyncCleanUp, CrWorkLister, CrWork, WorkState
  <1> DEFINE start == CleanUpStart[CrWorkLister(c)]
             over == CrWorkLister(c) = "overdue"
             set == CleanUpSet(c)
  <1>2. /\ CrWorkLister(c) = "none" => start = "deleteOp"
        /\ CrWorkLister(c) = "live" => start = "deleteCR"
        /\ CrWorkLister(c) = "overdue" => start = "deleteResources"
    BY DEF CleanUpStart
  <1>3. ctl' = [Idle EXCEPT !.pc = start, !.key = c, !.set = set,
                             !.gaveUp = over]
    BY DEF SyncCleanUp
  <1>4. At("idle") /\ UNCHANGED <<objects, works, creds>>
    BY DEF SyncCleanUp
  <1> HIDE DEF start, over, set
  <1>5. /\ ctl'.pc = start /\ ctl'.key = c
        /\ ctl'.failed = FALSE /\ ctl'.gaveUp = over
    BY <1>3 DEF Idle
  <1>6. over = (CrWorkLister(c) = "overdue")
    BY DEF over
  <1> QED
    BY <1>1, <1>2, <1>4, <1>5, <1>6, Zenon

(* finalizer.Remove ends the sync and changes at most the add-on.           *)
LEMMA FinalizerComesOff ==
  ASSUME RemoveFinalizer
  PROVE  /\ \/ addon' = addon
            \/ addon' = [addon EXCEPT ![ctl.key] = WithoutFinalizer(@)]
         /\ At("removeFinalizer") /\ ctl' = Idle
         /\ UNCHANGED <<label, clusterSets, brokerNs, works, creds>>
  BY Zenon DEF RemoveFinalizer, Return

(* removeClusterRBACFiles and applyClusterRBACFiles keep CredentialInv.     *)
LEMMA CredentialStep == TypeOK /\ CredentialInv /\ [Next]_vars => CredentialInv'
  <1> SUFFICES ASSUME TypeOK, CredentialInv, [Next]_vars PROVE CredentialInv'
    OBVIOUS
  <1>t. /\ ctl \in Control /\ (At("idle") \/ ctl.key \in Clusters)
        /\ sa \in [Clusters -> SUBSET Sets]
        /\ secret \in [Clusters -> SUBSET Sets]
    BY DEF TypeOK, ControlOK, DataOK
  <1> USE <1>t DEF CredentialInv, AfterCredential, At, Goto, Return, Idle,
                   Control, objects, works, creds, caches, DeploySteps,
                   CleanUpSteps
  <1>1. CASE ApplySA
    BY <1>1 DEF ApplySA
  <1>2. CASE ApplySAFails
    BY <1>2 DEF ApplySAFails
  <1>3. CASE ApplyRB
    BY <1>3 DEF ApplyRB
  <1>4. CASE CreateTokenSecret
    BY <1>4 DEF CreateTokenSecret, HasInfo
  <1>5. CASE ListNoSA
    BY <1>5 DEF ListNoSA
  <1>6. CASE ListOneSA
    BY <1>6 DEF ListOneSA
  <1>7. CASE DeleteSecret
    BY <1>7 DEF DeleteSecret
  <1>8. CASE DeleteSA
    BY <1>8 DEF DeleteSA
  <1>9. CASE DeleteSAFails
    BY <1>9 DEF DeleteSAFails
  <1>10. CASE DeleteRB
    BY <1>10 DEF DeleteRB
  <1>11. CASE CheckGlobal
    BY <1>11 DEF CheckGlobal
  <1>12. CASE RemoveFinalizer
    BY <1>12, FinalizerComesOff
  <1>13. ASSUME NEW c \in Clusters, SyncCleanUp(c) PROVE CredentialInv'
    BY <1>13, CleanUpBegins
  <1>14. ASSUME NEW c \in Clusters, SyncDeploy(c) PROVE CredentialInv'
    BY <1>14 DEF SyncDeploy
  <1>15. ASSUME NEW s \in Sets, DeleteBrokerNs(s) PROVE CredentialInv'
    BY <1>15 DEF DeleteBrokerNs
  <1>16. CASE AddFinalizer
    BY <1>16 DEF AddFinalizer
  <1>17. CASE ApplyRBFails
    BY <1>17 DEF ApplyRBFails
  <1>18. CASE EnsureGlobalnet
    BY <1>18 DEF EnsureGlobalnet
  <1>19. CASE BrokerMissing
    BY <1>19 DEF BrokerMissing
  <1>20. CASE BrokerApplied
    BY <1>20 DEF BrokerApplied
  <1>21. CASE StatusUpdateFails
    BY <1>21 DEF StatusUpdateFails
  <1>22. CASE GetBrokerInfo
    BY <1>22 DEF GetBrokerInfo
  <1>23. CASE GetBrokerInfoFails
    BY <1>23 DEF GetBrokerInfoFails
  <1>24. CASE ApplyOpWork
    BY <1>24 DEF ApplyOpWork
  <1>25. CASE ApplyCrWork
    BY <1>25 DEF ApplyCrWork
  <1>26. CASE DeleteCrWork
    BY <1>26 DEF DeleteCrWork
  <1>27. CASE DeleteOpWork
    BY <1>27 DEF DeleteOpWork
  <1>28. CASE DeleteResources
    BY <1>28 DEF DeleteResources
  <1>29. CASE ListManySAs
    BY <1>29 DEF ListManySAs
  <1>30. CASE DeleteGlobalnet
    BY <1>30 DEF DeleteGlobalnet
  <1>31. CASE DeleteBroker
    BY <1>31 DEF DeleteBroker
  <1>32. CASE Abort
    BY <1>32 DEF Abort
  <1>33. CASE (\E c \in Clusters : CreateAddon(c)) \/ (\E c \in Clusters :
          DeleteAddon(c)) \/ (\E c \in Clusters : SetLabel(c)) \/ (\E c \in
          Clusters : FillToken(c)) \/ (\E c \in Clusters : OpWorkGone(c)) \/
          (\E c \in Clusters : CrWorkGone(c)) \/ (\E c \in Clusters :
          CrWorkOverdue(c)) \/ (\E c \in Clusters : Export(c)) \/ (\E c \in
          Clusters : ObserveAddon(c)) \/ (\E c \in Clusters :
          ObserveCluster(c)) \/ (\E c \in Clusters : ObserveWork(c)) \/ (\E
          s \in Sets : CreateBroker(s)) \/ (\E s \in Sets : DeleteSet(s)) \/
          (\E s \in Sets : CreateSet(s)) \/ (\E s \in Sets :
          CreateBrokerNs(s)) \/ OutageEnds
    BY <1>33 DEF CreateAddon, DeleteAddon, SetLabel, FillToken, OpWorkGone,
           CrWorkGone, CrWorkOverdue, Export, ObserveAddon, ObserveCluster,
           ObserveWork, CreateBroker, DeleteSet, CreateSet, CreateBrokerNs,
           OutageEnds
  <1>34. CASE UNCHANGED vars
    BY <1>34 DEF vars
  <1> QED
    BY <1>1, <1>2, <1>3, <1>4, <1>5, <1>6, <1>7, <1>8, <1>9, <1>10, <1>11,
       <1>12, <1>13, <1>14, <1>15, <1>16, <1>17, <1>18, <1>19, <1>20, <1>21,
       <1>22, <1>23, <1>24, <1>25, <1>26, <1>27, <1>28, <1>29, <1>30, <1>31,
       <1>32, <1>33, <1>34
    DEF Next, Sync, Deploy, CleanUp, User, Platform

(* deleteManifestWork and manifestwork.Apply keep WorksInv: no other actor   *)
(* creates a work, and the worker creates none during a clean up.          *)
LEMMA WorksStep ==
  ASSUME "work" \notin Lagging, TypeOK, WorksInv, [Next]_vars
  PROVE  WorksInv'
  <1>t. /\ ctl \in Control /\ (At("idle") \/ ctl.key \in Clusters)
        /\ crWork \in [Clusters -> CrWork]
        /\ opWork \in [Clusters -> {"none", "live", "deleting"}]
    BY DEF TypeOK, ControlOK, DataOK
  <1> USE <1>t DEF WorksInv, At, Goto, Return, Idle, Control, NoWork, CrWork,
                   WorkState, objects, works, creds, caches, DeploySteps,
                   CleanUpSteps
  <1>1. CASE ApplyRB
    BY <1>1 DEF ApplyRB
  <1>2. CASE ApplyOpWork
    BY <1>2 DEF ApplyOpWork, Applied
  <1>3. CASE ApplyCrWork
    BY <1>3 DEF ApplyCrWork, Applied
  <1>4. CASE DeleteCrWork
    BY <1>4 DEF DeleteCrWork
  <1>5. CASE DeleteOpWork
    BY <1>5 DEF DeleteOpWork
  <1>6. CASE DeleteResources
    BY <1>6 DEF DeleteResources
  <1>7. CASE DeleteRB
    BY <1>7 DEF DeleteRB
  <1>8. CASE CheckGlobal
    BY <1>8 DEF CheckGlobal
  <1>9. CASE RemoveFinalizer
    BY <1>9, FinalizerComesOff
  <1>10. ASSUME NEW c \in Clusters, SyncCleanUp(c) PROVE WorksInv'
    BY <1>10, CleanUpBegins DEF CrWorkLister
  <1>11. ASSUME NEW c \in Clusters, SyncDeploy(c) PROVE WorksInv'
    BY <1>11 DEF SyncDeploy
  <1>12. ASSUME NEW c \in Clusters, OpWorkGone(c) PROVE WorksInv'
    BY <1>12 DEF OpWorkGone
  <1>13. ASSUME NEW c \in Clusters, CrWorkGone(c) PROVE WorksInv'
    BY <1>13 DEF CrWorkGone
  <1>14. ASSUME NEW c \in Clusters, CrWorkOverdue(c) PROVE WorksInv'
    BY <1>14 DEF CrWorkOverdue
  <1>15. CASE AddFinalizer
    BY <1>15 DEF AddFinalizer
  <1>16. CASE ApplySA
    BY <1>16 DEF ApplySA
  <1>17. CASE ApplySAFails
    BY <1>17 DEF ApplySAFails
  <1>18. CASE ApplyRBFails
    BY <1>18 DEF ApplyRBFails
  <1>19. CASE EnsureGlobalnet
    BY <1>19 DEF EnsureGlobalnet
  <1>20. CASE BrokerMissing
    BY <1>20 DEF BrokerMissing
  <1>21. CASE BrokerApplied
    BY <1>21 DEF BrokerApplied
  <1>22. CASE StatusUpdateFails
    BY <1>22 DEF StatusUpdateFails
  <1>23. CASE GetBrokerInfo
    BY <1>23 DEF GetBrokerInfo
  <1>24. CASE CreateTokenSecret
    BY <1>24 DEF CreateTokenSecret
  <1>25. CASE GetBrokerInfoFails
    BY <1>25 DEF GetBrokerInfoFails
  <1>26. CASE ListNoSA
    BY <1>26 DEF ListNoSA
  <1>27. CASE ListOneSA
    BY <1>27 DEF ListOneSA
  <1>28. CASE ListManySAs
    BY <1>28 DEF ListManySAs
  <1>29. CASE DeleteSecret
    BY <1>29 DEF DeleteSecret
  <1>30. CASE DeleteSA
    BY <1>30 DEF DeleteSA
  <1>31. CASE DeleteSAFails
    BY <1>31 DEF DeleteSAFails
  <1>32. CASE DeleteGlobalnet
    BY <1>32 DEF DeleteGlobalnet
  <1>33. CASE DeleteBroker
    BY <1>33 DEF DeleteBroker
  <1>34. CASE Abort
    BY <1>34 DEF Abort
  <1>35. CASE (\E c \in Clusters : CreateAddon(c)) \/ (\E c \in Clusters :
          DeleteAddon(c)) \/ (\E c \in Clusters : SetLabel(c)) \/ (\E c \in
          Clusters : FillToken(c)) \/ (\E c \in Clusters : Export(c)) \/ (\E
          c \in Clusters : ObserveAddon(c)) \/ (\E c \in Clusters :
          ObserveCluster(c)) \/ (\E c \in Clusters : ObserveWork(c)) \/ (\E
          s \in Sets : CreateBroker(s)) \/ (\E s \in Sets : DeleteSet(s)) \/
          (\E s \in Sets : CreateSet(s)) \/ (\E s \in Sets :
          CreateBrokerNs(s)) \/ (\E s \in Sets : DeleteBrokerNs(s)) \/
          OutageEnds
    BY <1>35 DEF CreateAddon, DeleteAddon, SetLabel, FillToken, Export,
           ObserveAddon, ObserveCluster, ObserveWork, CreateBroker, DeleteSet,
           CreateSet, CreateBrokerNs, DeleteBrokerNs, OutageEnds
  <1>36. CASE UNCHANGED vars
    BY <1>36 DEF vars
  <1> QED
    BY <1>1, <1>2, <1>3, <1>4, <1>5, <1>6, <1>7, <1>8, <1>9, <1>10, <1>11,
       <1>12, <1>13, <1>14, <1>15, <1>16, <1>17, <1>18, <1>19, <1>20, <1>21,
       <1>22, <1>23, <1>24, <1>25, <1>26, <1>27, <1>28, <1>29, <1>30, <1>31,
       <1>32, <1>33, <1>34, <1>35, <1>36
    DEF Next, Sync, Deploy, CleanUp, User, Platform

(* finalizer.Add and finalizer.Remove keep FinalizerInv: no credential      *)
(* without a finalizer on the add-on.                                      *)
LEMMA FinalizerStep ==
  ASSUME "addon" \notin Lagging, TypeOK, CredentialInv, FinalizerInv,
         [Next]_vars
  PROVE  FinalizerInv'
  <1>t. /\ ctl \in Control /\ (At("idle") \/ ctl.key \in Clusters)
        /\ sa \in [Clusters -> SUBSET Sets]
        /\ addon \in [Clusters -> AddonState]
        /\ \A c \in Clusters : addon[c].st = "absent" => ~addon[c].fin
    BY DEF TypeOK, ControlOK, DataOK
  <1> USE <1>t DEF FinalizerInv, At, Goto, Return, Idle, Control, NoAddon,
                   AddonState, objects, works, creds, caches, DeploySteps,
                   CleanUpSteps
  <1>1. CASE AddFinalizer
    BY <1>1 DEF AddFinalizer
  <1>2. CASE ApplySA
    BY <1>2 DEF ApplySA
  <1>3. CASE ApplySAFails
    BY <1>3 DEF ApplySAFails
  <1>4. CASE ApplyRB
    BY <1>4 DEF ApplyRB
  <1>5. CASE DeleteSA
    BY <1>5 DEF DeleteSA
  <1>6. CASE DeleteRB
    BY <1>6 DEF DeleteRB
  <1>7. CASE CheckGlobal
    BY <1>7 DEF CheckGlobal
  <1>8. CASE RemoveFinalizer
    BY <1>8, FinalizerComesOff DEF WithoutFinalizer, CredentialInv,
                                   AfterCredential
  <1>9. ASSUME NEW c \in Clusters, SyncCleanUp(c) PROVE FinalizerInv'
    BY <1>9, CleanUpBegins
  <1>10. ASSUME NEW c \in Clusters, SyncDeploy(c) PROVE FinalizerInv'
    BY <1>10 DEF SyncDeploy, AddonLister, DeployWanted
  <1>11. ASSUME NEW c \in Clusters, CreateAddon(c) PROVE FinalizerInv'
    BY <1>11 DEF CreateAddon
  <1>12. ASSUME NEW c \in Clusters, DeleteAddon(c) PROVE FinalizerInv'
    BY <1>12 DEF DeleteAddon
  <1>13. ASSUME NEW s \in Sets, DeleteBrokerNs(s) PROVE FinalizerInv'
    BY <1>13 DEF DeleteBrokerNs
  <1>14. CASE ApplyRBFails
    BY <1>14 DEF ApplyRBFails
  <1>15. CASE EnsureGlobalnet
    BY <1>15 DEF EnsureGlobalnet
  <1>16. CASE BrokerMissing
    BY <1>16 DEF BrokerMissing
  <1>17. CASE BrokerApplied
    BY <1>17 DEF BrokerApplied
  <1>18. CASE StatusUpdateFails
    BY <1>18 DEF StatusUpdateFails
  <1>19. CASE GetBrokerInfo
    BY <1>19 DEF GetBrokerInfo
  <1>20. CASE CreateTokenSecret
    BY <1>20 DEF CreateTokenSecret
  <1>21. CASE GetBrokerInfoFails
    BY <1>21 DEF GetBrokerInfoFails
  <1>22. CASE ApplyOpWork
    BY <1>22 DEF ApplyOpWork
  <1>23. CASE ApplyCrWork
    BY <1>23 DEF ApplyCrWork
  <1>24. CASE DeleteCrWork
    BY <1>24 DEF DeleteCrWork
  <1>25. CASE DeleteOpWork
    BY <1>25 DEF DeleteOpWork
  <1>26. CASE DeleteResources
    BY <1>26 DEF DeleteResources
  <1>27. CASE ListNoSA
    BY <1>27 DEF ListNoSA
  <1>28. CASE ListOneSA
    BY <1>28 DEF ListOneSA
  <1>29. CASE ListManySAs
    BY <1>29 DEF ListManySAs
  <1>30. CASE DeleteSecret
    BY <1>30 DEF DeleteSecret
  <1>31. CASE DeleteSAFails
    BY <1>31 DEF DeleteSAFails
  <1>32. CASE DeleteGlobalnet
    BY <1>32 DEF DeleteGlobalnet
  <1>33. CASE DeleteBroker
    BY <1>33 DEF DeleteBroker
  <1>34. CASE Abort
    BY <1>34 DEF Abort
  <1>35. CASE (\E c \in Clusters : SetLabel(c)) \/ (\E c \in Clusters :
          FillToken(c)) \/ (\E c \in Clusters : OpWorkGone(c)) \/ (\E c \in
          Clusters : CrWorkGone(c)) \/ (\E c \in Clusters :
          CrWorkOverdue(c)) \/ (\E c \in Clusters : Export(c)) \/ (\E c \in
          Clusters : ObserveAddon(c)) \/ (\E c \in Clusters :
          ObserveCluster(c)) \/ (\E c \in Clusters : ObserveWork(c)) \/ (\E
          s \in Sets : CreateBroker(s)) \/ (\E s \in Sets : DeleteSet(s)) \/
          (\E s \in Sets : CreateSet(s)) \/ (\E s \in Sets :
          CreateBrokerNs(s)) \/ OutageEnds
    BY <1>35 DEF SetLabel, FillToken, OpWorkGone, CrWorkGone, CrWorkOverdue,
                 Export,
           ObserveAddon, ObserveCluster, ObserveWork, CreateBroker, DeleteSet,
           CreateSet, CreateBrokerNs, OutageEnds
  <1>36. CASE UNCHANGED vars
    BY <1>36 DEF vars
  <1> QED
    BY <1>1, <1>2, <1>3, <1>4, <1>5, <1>6, <1>7, <1>8, <1>9, <1>10, <1>11,
       <1>12, <1>13, <1>14, <1>15, <1>16, <1>17, <1>18, <1>19, <1>20, <1>21,
       <1>22, <1>23, <1>24, <1>25, <1>26, <1>27, <1>28, <1>29, <1>30, <1>31,
       <1>32, <1>33, <1>34, <1>35, <1>36
    DEF Next, Sync, Deploy, CleanUp, User, Platform

(* Applying and deleting the CR work keep CrWorkInv: no Submariner CR       *)
(* without a credential, while no cluster set is deleted.                  *)
LEMMA CrWorkStep ==
  ASSUME ConstAssumption, "setDeletion" \notin Events, TypeOK,
         CredentialInv, WorksInv, CrWorkInv, [Next]_vars
  PROVE  CrWorkInv'
  <1>t. /\ ctl \in Control /\ (At("idle") \/ ctl.key \in Clusters)
        /\ sa \in [Clusters -> SUBSET Sets] /\ crWork \in [Clusters -> CrWork]
    BY DEF TypeOK, ControlOK, DataOK
  <1> USE <1>t DEF CrWorkInv, At, Goto, Return, Idle, Control, NoWork, CrWork,
                   WorkState, objects, works, creds, caches, DeploySteps,
                   CleanUpSteps
  <1>1. CASE ApplySA
    BY <1>1 DEF ApplySA
  <1>2. CASE ApplySAFails
    BY <1>2 DEF ApplySAFails
  <1>3. CASE ApplyRB
    BY <1>3 DEF ApplyRB
  <1>4. CASE EnsureGlobalnet
    BY <1>4 DEF EnsureGlobalnet
  <1>5. CASE GetBrokerInfo
    BY <1>5 DEF GetBrokerInfo
  <1>6. CASE ApplyOpWork
    BY <1>6 DEF ApplyOpWork
  <1>7. CASE ApplyCrWork
    BY <1>7 DEF ApplyCrWork, Applied
  <1>8. CASE DeleteCrWork
    BY <1>8 DEF DeleteCrWork
  <1>9. CASE DeleteSA
    BY <1>9 DEF DeleteSA, WorksInv
  <1>10. CASE DeleteRB
    BY <1>10 DEF DeleteRB
  <1>11. CASE CheckGlobal
    BY <1>11 DEF CheckGlobal
  <1>12. CASE RemoveFinalizer
    BY <1>12, FinalizerComesOff
  <1>13. ASSUME NEW c \in Clusters, SyncCleanUp(c) PROVE CrWorkInv'
    BY <1>13, CleanUpBegins
  <1>14. ASSUME NEW c \in Clusters, SyncDeploy(c) PROVE CrWorkInv'
    BY <1>14 DEF SyncDeploy
  <1>15. ASSUME NEW c \in Clusters, CrWorkGone(c) PROVE CrWorkInv'
    BY <1>15 DEF CrWorkGone
  <1>16. ASSUME NEW c \in Clusters, CrWorkOverdue(c) PROVE CrWorkInv'
    BY <1>16 DEF CrWorkOverdue
  <1>17. ASSUME NEW s \in Sets, DeleteSet(s) PROVE CrWorkInv'
    BY <1>17 DEF DeleteSet
  <1>18. ASSUME NEW s \in Sets, CreateSet(s) PROVE CrWorkInv'
    BY <1>18 DEF CreateSet
  <1>19. ASSUME NEW s \in Sets, CreateBrokerNs(s) PROVE CrWorkInv'
    BY <1>19 DEF CreateBrokerNs
  <1>20. ASSUME NEW s \in Sets, DeleteBrokerNs(s) PROVE CrWorkInv'
    BY <1>20 DEF DeleteBrokerNs
  <1>21. CASE AddFinalizer
    BY <1>21 DEF AddFinalizer
  <1>22. CASE ApplyRBFails
    BY <1>22 DEF ApplyRBFails
  <1>23. CASE BrokerMissing
    BY <1>23 DEF BrokerMissing
  <1>24. CASE BrokerApplied
    BY <1>24 DEF BrokerApplied
  <1>25. CASE StatusUpdateFails
    BY <1>25 DEF StatusUpdateFails
  <1>26. CASE CreateTokenSecret
    BY <1>26 DEF CreateTokenSecret
  <1>27. CASE GetBrokerInfoFails
    BY <1>27 DEF GetBrokerInfoFails
  <1>28. CASE DeleteOpWork
    BY <1>28 DEF DeleteOpWork
  <1>29. CASE DeleteResources
    BY <1>29 DEF DeleteResources
  <1>30. CASE ListNoSA
    BY <1>30 DEF ListNoSA
  <1>31. CASE ListOneSA
    BY <1>31 DEF ListOneSA
  <1>32. CASE ListManySAs
    BY <1>32 DEF ListManySAs
  <1>33. CASE DeleteSecret
    BY <1>33 DEF DeleteSecret
  <1>34. CASE DeleteSAFails
    BY <1>34 DEF DeleteSAFails
  <1>35. CASE DeleteGlobalnet
    BY <1>35 DEF DeleteGlobalnet
  <1>36. CASE DeleteBroker
    BY <1>36 DEF DeleteBroker
  <1>37. CASE Abort
    BY <1>37 DEF Abort
  <1>38. CASE (\E c \in Clusters : CreateAddon(c)) \/ (\E c \in Clusters :
          DeleteAddon(c)) \/ (\E c \in Clusters : SetLabel(c)) \/ (\E c \in
          Clusters : FillToken(c)) \/ (\E c \in Clusters : OpWorkGone(c)) \/
          (\E c \in Clusters : Export(c)) \/ (\E c \in Clusters :
          ObserveAddon(c)) \/ (\E c \in Clusters : ObserveCluster(c)) \/ (\E
          c \in Clusters : ObserveWork(c)) \/ (\E s \in Sets :
          CreateBroker(s)) \/ OutageEnds
    BY <1>38 DEF CreateAddon, DeleteAddon, SetLabel, FillToken, OpWorkGone,
                 Export,
           ObserveAddon, ObserveCluster, ObserveWork, CreateBroker, OutageEnds
  <1>39. CASE UNCHANGED vars
    BY <1>39 DEF vars
  <1> QED
    BY <1>1, <1>2, <1>3, <1>4, <1>5, <1>6, <1>7, <1>8, <1>9, <1>10, <1>11,
       <1>12, <1>13, <1>14, <1>15, <1>16, <1>17, <1>18, <1>19, <1>20, <1>21,
       <1>22, <1>23, <1>24, <1>25, <1>26, <1>27, <1>28, <1>29, <1>30, <1>31,
       <1>32, <1>33, <1>34, <1>35, <1>36, <1>37, <1>38, <1>39
    DEF Next, Sync, Deploy, CleanUp, User, Platform

(* Only three actions change an operator work: manifestwork.Apply,         *)
(* deleteManifestWork, and the klusterlet when it has finished a deletion. *)
LEMMA OperatorMoves ==
  ASSUME [Next]_vars, opWork' # opWork
  PROVE  ApplyOpWork \/ DeleteOpWork \/ \E c \in Clusters : OpWorkGone(c)
  <1> USE DEF vars, objects, works, creds, caches
  <1>1. CASE UNCHANGED vars
    BY <1>1
  <1>2. CASE \E c \in Clusters : Sync(c)
    BY <1>2 DEF Sync, SyncCleanUp, SyncDeploy
  <1>3. CASE Deploy
    BY <1>3 DEF Deploy, AddFinalizer, ApplySA, ApplySAFails, ApplyRB,
         ApplyRBFails, EnsureGlobalnet, BrokerMissing, BrokerApplied,
         StatusUpdateFails, GetBrokerInfo, CreateTokenSecret,
         GetBrokerInfoFails, ApplyCrWork
  <1>4. CASE CleanUp
    BY <1>4 DEF CleanUp, DeleteCrWork, DeleteResources, ListNoSA, ListOneSA,
         ListManySAs, DeleteSecret, DeleteSA, DeleteSAFails, DeleteRB,
         CheckGlobal, DeleteGlobalnet, DeleteBroker, RemoveFinalizer
  <1>5. CASE Abort
    BY <1>5 DEF Abort
  <1>6. CASE User
    BY <1>6 DEF User, CreateAddon, DeleteAddon, SetLabel, CreateBroker,
                DeleteSet,
         CreateSet
  <1>7. CASE Platform
    BY <1>7 DEF Platform, CreateBrokerNs, DeleteBrokerNs, FillToken, CrWorkGone,
         CrWorkOverdue, Export, ObserveAddon, ObserveCluster, ObserveWork,
         OutageEnds
  <1> QED
    BY <1>1, <1>2, <1>3, <1>4, <1>5, <1>6, <1>7 DEF Next

(* Only finalizer.Add, finalizer.Remove and the users change an add-on.    *)
LEMMA FinalizerMoves ==
  ASSUME [Next]_vars, addon' # addon
  PROVE  \/ AddFinalizer \/ RemoveFinalizer
         \/ \E c \in Clusters : CreateAddon(c) \/ DeleteAddon(c)
  <1> USE DEF vars, objects, works, creds, caches
  <1>1. CASE UNCHANGED vars
    BY <1>1
  <1>2. CASE \E c \in Clusters : Sync(c)
    BY <1>2 DEF Sync, SyncCleanUp, SyncDeploy
  <1>3. CASE Deploy
    BY <1>3 DEF Deploy, ApplySA, ApplySAFails, ApplyRB, ApplyRBFails,
         EnsureGlobalnet, BrokerMissing, BrokerApplied, StatusUpdateFails,
         GetBrokerInfo, CreateTokenSecret, GetBrokerInfoFails, ApplyOpWork,
         ApplyCrWork
  <1>4. CASE CleanUp
    BY <1>4 DEF CleanUp, DeleteCrWork, DeleteOpWork, DeleteResources, ListNoSA,
         ListOneSA, ListManySAs, DeleteSecret, DeleteSA, DeleteSAFails,
         DeleteRB, CheckGlobal, DeleteGlobalnet, DeleteBroker
  <1>5. CASE Abort
    BY <1>5 DEF Abort
  <1>6. CASE User
    BY <1>6 DEF User, SetLabel, CreateBroker, DeleteSet, CreateSet
  <1>7. CASE Platform
    BY <1>7 DEF Platform, CreateBrokerNs, DeleteBrokerNs, FillToken, OpWorkGone,
         CrWorkGone, CrWorkOverdue, Export, ObserveAddon, ObserveCluster,
         ObserveWork, OutageEnds
  <1> QED
    BY <1>1, <1>2, <1>3, <1>4, <1>5, <1>6, <1>7 DEF Next

(* Only applyClusterRBACFiles, removeClusterRBACFiles and the removal of a  *)
(* broker namespace change a cluster's ServiceAccounts.                    *)
LEMMA CredentialMoves ==
  ASSUME [Next]_vars, sa' # sa
  PROVE  ApplySA \/ DeleteSA \/ \E s \in Sets : DeleteBrokerNs(s)
  <1> USE DEF vars, objects, works, creds, caches
  <1>1. CASE UNCHANGED vars
    BY <1>1
  <1>2. CASE \E c \in Clusters : Sync(c)
    BY <1>2 DEF Sync, SyncCleanUp, SyncDeploy
  <1>3. CASE Deploy
    BY <1>3 DEF Deploy, AddFinalizer, ApplySAFails, ApplyRB, ApplyRBFails,
         EnsureGlobalnet, BrokerMissing, BrokerApplied, StatusUpdateFails,
         GetBrokerInfo, CreateTokenSecret, GetBrokerInfoFails, ApplyOpWork,
         ApplyCrWork
  <1>4. CASE CleanUp
    BY <1>4 DEF CleanUp, DeleteCrWork, DeleteOpWork, DeleteResources, ListNoSA,
         ListOneSA, ListManySAs, DeleteSecret, DeleteSAFails, DeleteRB,
         CheckGlobal, DeleteGlobalnet, DeleteBroker, RemoveFinalizer
  <1>5. CASE Abort
    BY <1>5 DEF Abort
  <1>6. CASE User
    BY <1>6 DEF User, CreateAddon, DeleteAddon, SetLabel, CreateBroker,
                DeleteSet,
         CreateSet
  <1>7. CASE Platform
    BY <1>7 DEF Platform, CreateBrokerNs, FillToken, OpWorkGone, CrWorkGone,
         CrWorkOverdue, Export, ObserveAddon, ObserveCluster, ObserveWork,
         OutageEnds
  <1> QED
    BY <1>1, <1>2, <1>3, <1>4, <1>5, <1>6, <1>7 DEF Next

(* Only manifestwork.Apply, deleteManifestWork, the klusterlet and the     *)
(* clock change a CR work.                                                 *)
LEMMA CrWorkMoves ==
  ASSUME [Next]_vars, crWork' # crWork
  PROVE  \/ ApplyCrWork \/ DeleteCrWork
         \/ \E c \in Clusters : CrWorkGone(c) \/ CrWorkOverdue(c)
  <1> USE DEF vars, objects, works, creds, caches
  <1>1. CASE UNCHANGED vars
    BY <1>1
  <1>2. CASE \E c \in Clusters : Sync(c)
    BY <1>2 DEF Sync, SyncCleanUp, SyncDeploy
  <1>3. CASE Deploy
    BY <1>3 DEF Deploy, AddFinalizer, ApplySA, ApplySAFails, ApplyRB,
         ApplyRBFails, EnsureGlobalnet, BrokerMissing, BrokerApplied,
         StatusUpdateFails, GetBrokerInfo, CreateTokenSecret,
         GetBrokerInfoFails, ApplyOpWork
  <1>4. CASE CleanUp
    BY <1>4 DEF CleanUp, DeleteOpWork, DeleteResources, ListNoSA, ListOneSA,
         ListManySAs, DeleteSecret, DeleteSA, DeleteSAFails, DeleteRB,
         CheckGlobal, DeleteGlobalnet, DeleteBroker, RemoveFinalizer
  <1>5. CASE Abort
    BY <1>5 DEF Abort
  <1>6. CASE User
    BY <1>6 DEF User, CreateAddon, DeleteAddon, SetLabel, CreateBroker,
                DeleteSet,
         CreateSet
  <1>7. CASE Platform
    BY <1>7 DEF Platform, CreateBrokerNs, DeleteBrokerNs, FillToken, OpWorkGone,
         Export, ObserveAddon, ObserveCluster, ObserveWork, OutageEnds
  <1> QED
    BY <1>1, <1>2, <1>3, <1>4, <1>5, <1>6, <1>7 DEF Next

(* A step that adds layer l of cluster k, whose lower layers are there, and *)
(* nothing else, is a Push of LayeredInstall.                              *)
LEMMA PushStep ==
  ASSUME NEW k \in Clusters, NEW l \in 1..3,
         \A m \in 1..3 : m < l => Holds(k, m),
         Holds(k, l)',
         \A d \in Clusters, m \in 1..3 :
            d # k \/ m # l => (Holds(d, m)' <=> Holds(d, m))
  PROVE  Layered!Push(k, l)
  <1>1. 1..(l - 1) \subseteq Layers[k]
    BY DEF Layers
  <1>2. ASSUME NEW d \in Clusters
        PROVE  Layers'[d] = IF d = k THEN Layers[k] \cup {l} ELSE Layers[d]
    BY Zenon DEF Layers
  <1>3. Layers' = [Layers EXCEPT ![k] = @ \cup {l}]
    BY <1>2 DEF Layers
  <1> QED
    BY <1>1, <1>3 DEF Layered!Push

(* A step that takes layer l of cluster k, which has no higher one, and     *)
(* nothing else, is a Pop of LayeredInstall.                               *)
LEMMA PopStep ==
  ASSUME NEW k \in Clusters, NEW l \in 1..3,
         \A m \in 1..3 : m > l => ~Holds(k, m),
         ~Holds(k, l)',
         \A d \in Clusters, m \in 1..3 :
            d # k \/ m # l => (Holds(d, m)' <=> Holds(d, m))
  PROVE  Layered!Pop(k, l)
  <1>1. Layers[k] \subseteq 1..l
    BY DEF Layers
  <1>2. ASSUME NEW d \in Clusters
        PROVE  Layers'[d] = IF d = k THEN Layers[k] \ {l} ELSE Layers[d]
    BY Zenon DEF Layers
  <1>3. Layers' = [Layers EXCEPT ![k] = @ \ {l}]
    BY <1>2 DEF Layers
  <1> QED
    BY <1>1, <1>3 DEF Layered!Pop

(* A step that changes no add-on, ServiceAccount or CR work stutters.       *)
LEMMA LayersStay ==
  ASSUME UNCHANGED <<addon, sa, crWork>> PROVE Layers' = Layers
  BY Zenon DEF Layers, Holds

(* Every step of the controller and of its environment is a step of         *)
(* LayeredInstall or leaves the layers alone.                              *)
LEMMA RefinementStep ==
  ASSUME ConstAssumption, TypeOK, CredentialInv, WorksInv, FinalizerInv,
         CrWorkInv, CrWorkInv', FinalizerInv', "setDeletion" \notin Events,
         [Next]_vars
  PROVE  [Layered!Next]_Layers
  <1> DEFINE a == ctl.key
  <1>t. /\ ctl \in Control /\ (At("idle") \/ ctl.key \in Clusters)
        /\ sa \in [Clusters -> SUBSET Sets] /\ crWork \in [Clusters -> CrWork]
        /\ addon \in [Clusters -> AddonState]
        /\ \A c \in Clusters : /\ addon[c].st = "deleting" => addon[c].fin
                               /\ addon[c].st = "absent" => ~addon[c].fin
    BY DEF TypeOK, ControlOK, DataOK
  <1>p. ASSUME NEW c \in Clusters, NEW l \in 1..3,
               Layered!Push(c, l) \/ Layered!Pop(c, l)
        PROVE  Layered!Next
    BY <1>p DEF Layered!Next, Layered!Layer
  <1>1. CASE AddFinalizer
    <2>1. a \in Clusters /\ UNCHANGED <<sa, crWork>>
      BY <1>1, <1>t DEF AddFinalizer, At, works, creds
    <2>2. CASE addon[a].st = "live"
      <3>1. addon' = [addon EXCEPT ![a] = [st |-> "live", fin |-> TRUE]]
        BY <1>1, <2>2 DEF AddFinalizer
      <3>2. addon'[a].fin /\ \A d \in Clusters : d # a => addon'[d] = addon[d]
        BY <2>1, <3>1, <1>t
      <3>3. Layered!Push(a, 1)
        BY <2>1, <3>2, PushStep DEF Holds
      <3> QED
        BY <2>1, <3>3, <1>p
    <2>3. CASE addon[a].st # "live"
      BY <1>1, <2>1, <2>3, LayersStay DEF AddFinalizer
    <2> QED
      BY <2>2, <2>3
  <1>2. CASE RemoveFinalizer
    <2>1. a \in Clusters /\ UNCHANGED <<sa, crWork>>
      BY <1>2, <1>t, FinalizerComesOff DEF At, works, creds
    <2>2. CASE addon' = addon
      BY <2>1, <2>2, LayersStay
    <2>3. CASE addon' = [addon EXCEPT ![a] = WithoutFinalizer(@)]
      <3>1. ~addon'[a].fin /\ \A d \in Clusters : d # a => addon'[d] = addon[d]
        BY <2>1, <2>3, <1>t DEF WithoutFinalizer, NoAddon
      <3>2. sa[a] = {} /\ crWork[a].st \notin {"live", "deleting"}
        BY <1>2, <2>1, FinalizerComesOff
          DEF CredentialInv, AfterCredential, CrWorkInv, At
      <3>3. Layered!Pop(a, 1)
        BY <2>1, <3>1, <3>2, PopStep DEF Holds
      <3> QED
        BY <2>1, <3>3, <1>p
    <2> QED
      BY <1>2, <2>2, <2>3, FinalizerComesOff
  <1>3. ASSUME NEW c \in Clusters, CreateAddon(c) \/ DeleteAddon(c)
        PROVE  [Layered!Next]_Layers
    <2>1. UNCHANGED <<sa, crWork>>
      BY <1>3 DEF CreateAddon, DeleteAddon, works, creds
    <2>2. \A d \in Clusters : addon'[d].fin = addon[d].fin
      <3>1. CASE CreateAddon(c)
        BY <1>t, <3>1 DEF CreateAddon, AddonState
      <3>2. CASE DeleteAddon(c)
        BY <1>t, <3>2 DEF DeleteAddon, AddonState, NoAddon
      <3> QED
        BY <1>3, <3>1, <3>2
    <2>3. Layers' = Layers
      BY <2>1, <2>2, Zenon DEF Layers, Holds
    <2> QED
      BY <2>3
  <1>4. CASE ApplySA
    <2>1. a \in Clusters /\ UNCHANGED <<addon, crWork>>
      BY <1>4, <1>t DEF ApplySA, At, works, objects
    <2>2. /\ sa'[a] # {} /\ \A d \in Clusters : d # a => sa'[d] = sa[d]
      BY <1>4, <2>1, <1>t DEF ApplySA
    <2>3. addon[a].fin
      BY <1>4 DEF ApplySA, FinalizerInv, DeploySteps, At
    <2>4. Layered!Push(a, 2)
      BY <2>1, <2>2, <2>3, PushStep DEF Holds
    <2> QED
      BY <2>1, <2>4, <1>p
  <1>5. CASE DeleteSA
    <2>1. a \in Clusters /\ UNCHANGED <<addon, crWork>>
      BY <1>5, <1>t DEF DeleteSA, At, works, objects
    <2>2. sa'[a] = {} /\ \A d \in Clusters : d # a => sa'[d] = sa[d]
      BY <1>5, <2>1, <1>t DEF DeleteSA, CredentialInv, At
    <2>3. crWork[a].st \notin {"live", "deleting"}
      BY <1>5 DEF DeleteSA, WorksInv, CleanUpSteps, At
    <2>4. Layered!Pop(a, 2)
      BY <2>1, <2>2, <2>3, PopStep DEF Holds
    <2> QED
      BY <2>1, <2>4, <1>p
  <1>6. ASSUME NEW s \in Sets, DeleteBrokerNs(s) PROVE FALSE
    BY <1>6 DEF DeleteBrokerNs, CrWorkInv
  <1>7. CASE ApplyCrWork
    <2>1. a \in Clusters /\ UNCHANGED <<addon, sa>>
      BY <1>7, <1>t DEF ApplyCrWork, At, creds, objects
    <2>2. \A d \in Clusters : d # a => crWork'[d] = crWork[d]
      BY <1>7, <2>1, <1>t DEF ApplyCrWork
    <2>3. crWork'[a].st = Applied(crWork[a].st)
      BY <1>7, <2>1, <1>t DEF ApplyCrWork
    <2>4. CASE crWork[a].st = "none"
      <3>1. sa[a] # {} /\ addon[a].fin
        BY <1>7 DEF ApplyCrWork, CrWorkInv, FinalizerInv, DeploySteps, At
      <3>2. Layered!Push(a, 3)
        BY <2>1, <2>2, <2>3, <2>4, <3>1, PushStep DEF Holds, Applied
      <3> QED
        BY <2>1, <3>2, <1>p
    <2>5. CASE crWork[a].st # "none"
      <3>1. \A d \in Clusters : crWork'[d].st = crWork[d].st
        BY <2>2, <2>3, <2>5 DEF Applied
      <3>2. Layers' = Layers
        BY <2>1, <3>1, Zenon DEF Layers, Holds
      <3> QED
        BY <3>2
    <2> QED
      BY <2>4, <2>5
  <1>8. ASSUME NEW c \in Clusters, UNCHANGED <<addon, sa>>,
               \A d \in Clusters : d # c => crWork'[d] = crWork[d],
               \/ crWork'[c].st \notin {"live", "deleting"}
               \/ /\ crWork[c].st \in {"live", "deleting"}
                  /\ crWork'[c].st \in {"live", "deleting"}
        PROVE  [Layered!Next]_Layers
    <2>1. CASE crWork'[c].st \notin {"live", "deleting"}
      <3>1. Layered!Pop(c, 3)
        BY <1>8, <2>1, PopStep DEF Holds
      <3> QED
        BY <3>1, <1>p
    <2>2. CASE /\ crWork[c].st \in {"live", "deleting"}
               /\ crWork'[c].st \in {"live", "deleting"}
      <3>1. \A d \in Clusters : crWork'[d].st \in {"live", "deleting"}
                                   <=> crWork[d].st \in {"live", "deleting"}
        BY <1>8, <2>2
      <3>2. Layers' = Layers
        BY <1>8, <3>1, Zenon DEF Layers, Holds
      <3> QED
        BY <3>2
    <2> QED
      BY <1>8, <2>1, <2>2
  <1>9. CASE DeleteCrWork
    <2>1. a \in Clusters /\ UNCHANGED <<addon, sa>>
      BY <1>9, <1>t DEF DeleteCrWork, At, creds, objects
    <2>2. CASE crWork[a].st = "live"
      <3>1. PICK w \in {NoWork, [st |-> "deleting", set |-> crWork[a].set]} :
              crWork' = [crWork EXCEPT ![a] = w]
        BY <1>9, <2>2 DEF DeleteCrWork
      <3>2. /\ \A d \in Clusters : d # a => crWork'[d] = crWork[d]
            /\ crWork'[a].st \in {"none", "deleting"}
        BY <3>1, <2>1, <1>t DEF NoWork
      <3> QED
        BY <1>8, <2>1, <2>2, <3>2
    <2>3. CASE crWork[a].st # "live"
      BY <1>9, <2>1, <2>3, LayersStay DEF DeleteCrWork
    <2> QED
      BY <2>2, <2>3
  <1>10. ASSUME NEW c \in Clusters, CrWorkGone(c) \/ CrWorkOverdue(c)
         PROVE  [Layered!Next]_Layers
    <2>1. UNCHANGED <<addon, sa>>
      BY <1>10 DEF CrWorkGone, CrWorkOverdue, creds, objects
    <2>2. /\ \A d \in Clusters : d # c => crWork'[d] = crWork[d]
          /\ crWork'[c].st \in {"none", "overdue"}
      BY <1>10, <1>t DEF CrWorkGone, CrWorkOverdue, NoWork
    <2> QED
      BY <1>8, <2>1, <2>2
  <1>11. CASE UNCHANGED <<addon, sa, crWork>>
    BY <1>11, LayersStay
  <1> QED
    BY <1>1, <1>2, <1>3, <1>4, <1>5, <1>6, <1>7, <1>9, <1>10, <1>11,
       FinalizerMoves, CredentialMoves, CrWorkMoves

(* cleanUpSubmarinerAgent: in every reachable state the credential of the   *)
(* cluster being cleaned is as CredentialInv says; in particular no broker *)
(* token is left without the ServiceAccount by which the next clean up     *)
(* would find it. Holds with any lag of the caches and any failed call.    *)
THEOREM CredentialCorrect == Spec => []CredentialInv
<1>1. Init => CredentialInv
  BY DEF Init, CredentialInv, AfterCredential, At, Idle
<1>2. TypeOK /\ CredentialInv /\ [Next]_vars => CredentialInv'
  BY CredentialStep
<1> QED
  BY <1>1, <1>2, TypeCorrect, PTL DEF Spec

(* With a fresh ManifestWork cache, the worker deletes the operator's work *)
(* and goes on to the broker only as WorksInv says.                        *)
THEOREM WorksCorrect ==
  ASSUME "work" \notin Lagging PROVE Spec => []WorksInv
<1>1. Init => WorksInv
  BY DEF Init, WorksInv, At, Idle, CleanUpSteps
<1>2. TypeOK /\ WorksInv /\ [Next]_vars => WorksInv'
  BY WorksStep
<1> QED
  BY <1>1, <1>2, TypeCorrect, PTL DEF Spec

(* cleanUpSubmarinerAgent: with a fresh ManifestWork cache the operator is  *)
(* taken away only when the Submariner CR is gone from the cluster.        *)
THEOREM OperatorOutlives ==
  ASSUME "work" \notin Lagging PROVE Spec => OperatorOutlivesCR
<1> DEFINE A == \A c \in Clusters :
      opWork[c] = "live" /\ opWork'[c] # "live" => crWork[c].st = "none"
<1>1. ASSUME TypeOK, WorksInv, [Next]_vars PROVE A
  <2>t. /\ ~At("idle") => ctl.key \in Clusters
        /\ opWork \in [Clusters -> {"none", "live", "deleting"}]
    BY <1>1 DEF TypeOK, ControlOK, DataOK
  <2>1. CASE opWork' = opWork
    BY <2>1
  <2>2. CASE ApplyOpWork
    BY <2>2, <2>t DEF ApplyOpWork, Applied, At
  <2>3. CASE DeleteOpWork
    <3>1. crWork[ctl.key].st = "none"
      BY <1>1, <2>3 DEF DeleteOpWork, WorksInv, At
    <3>2. \A c \in Clusters : c # ctl.key => opWork'[c] = opWork[c]
      BY <2>3, <2>t DEF DeleteOpWork, At
    <3> QED
      BY <3>1, <3>2
  <2>4. ASSUME NEW c \in Clusters, OpWorkGone(c) PROVE A
    BY <2>4, <2>t DEF OpWorkGone
  <2> QED
    BY <1>1, <2>1, <2>2, <2>3, <2>4, OperatorMoves
<1>2. TypeOK /\ WorksInv /\ [Next]_vars => [A]_vars
  BY <1>1
<1> HIDE DEF A
<1>3. Spec => [][A]_vars
  BY <1>2, TypeCorrect, WorksCorrect, PTL DEF Spec
<1> QED
  BY <1>3 DEF A, OperatorOutlivesCR

(* cleanUpSubmarinerAgent: with a fresh ManifestWork cache, the finalizer    *)
(* comes off only when the credential is gone and, unless the wait for the *)
(* CR work was given up, both works are.                                   *)
THEOREM RemovalIsClean ==
  ASSUME "work" \notin Lagging PROVE Spec => CleanRemoval
<1> DEFINE A == \A c \in Clusters : addon[c].fin /\ ~addon'[c].fin =>
          /\ sa[c] = {} /\ secret[c] = {}
          /\ crWork[c].st # "live"
          /\ ctl.gaveUp \/ (crWork[c].st = "none" /\ opWork[c] # "live")
<1>1. ASSUME TypeOK, CredentialInv, WorksInv, [Next]_vars PROVE A
  <2>t. /\ ~At("idle") => ctl.key \in Clusters
        /\ addon \in [Clusters -> AddonState]
        /\ \A c \in Clusters : addon[c].st = "absent" => ~addon[c].fin
    BY <1>1 DEF TypeOK, ControlOK, DataOK
  <2>1. CASE addon' = addon
    BY <2>1
  <2>2. CASE AddFinalizer
    <3>1. \A c \in Clusters : addon[c].fin => addon'[c].fin
      BY <2>2, <2>t DEF AddFinalizer, At
    <3> QED
      BY <3>1
  <2>3. CASE RemoveFinalizer
    <3>1. At("removeFinalizer") /\ ctl.key \in Clusters
      BY <2>3, <2>t, FinalizerComesOff DEF At
    <3>2. \A c \in Clusters : c # ctl.key => addon'[c] = addon[c]
      BY <2>3, <2>t, FinalizerComesOff
    <3>3. sa[ctl.key] = {} /\ secret[ctl.key] = {}
      BY <1>1, <3>1 DEF CredentialInv, AfterCredential, At
    <3>4. \/ ctl.gaveUp /\ crWork[ctl.key].st \in {"overdue", "none"}
          \/ crWork[ctl.key].st = "none" /\ opWork[ctl.key] # "live"
      BY <1>1, <3>1 DEF WorksInv, CleanUpSteps, At
    <3> QED
      BY <3>2, <3>3, <3>4
  <2>4. ASSUME NEW c \in Clusters, CreateAddon(c) \/ DeleteAddon(c) PROVE A
    <3>1. CASE CreateAddon(c)
      BY <2>t, <3>1 DEF CreateAddon
    <3>2. CASE DeleteAddon(c)
      BY <2>t, <3>2 DEF DeleteAddon, NoAddon, AddonState
    <3> QED
      BY <2>4, <3>1, <3>2
  <2> QED
    BY <1>1, <2>1, <2>2, <2>3, <2>4, FinalizerMoves
<1>2. TypeOK /\ CredentialInv /\ WorksInv /\ [Next]_vars => [A]_vars
  BY <1>1
<1> HIDE DEF A
<1>3. Spec => [][A]_vars
  BY <1>2, TypeCorrect, CredentialCorrect, WorksCorrect, PTL DEF Spec
<1> QED
  BY <1>3 DEF A, CleanRemoval

(* syncManagedCluster, deploySubmarinerAgent and cleanUpSubmarinerAgent     *)
(* implement LayeredInstall, with fresh add-on and ManifestWork caches and *)
(* as long as no cluster set is deleted: whatever calls fail, wherever the *)
(* process restarts, and whatever the users do to add-ons and labels.      *)
THEOREM ImplementsLayeredInstall ==
  ASSUME "work" \notin Lagging, "addon" \notin Lagging,
         "setDeletion" \notin Events
  PROVE  Spec => LayeredSpec
<1> DEFINE Inv == CredentialInv /\ WorksInv /\ FinalizerInv /\ CrWorkInv
<1>1. Init => Inv /\ Layered!Init
  <2> SUFFICES ASSUME Init PROVE Inv /\ Layered!Init
    OBVIOUS
  <2>1. ctl = Idle /\ sa = [c \in Clusters |-> {}] /\ secret = sa
    BY DEF Init
  <2>2. CredentialInv /\ FinalizerInv
    BY <2>1 DEF CredentialInv, FinalizerInv, AfterCredential, At, Idle,
                DeploySteps
  <2>3. WorksInv
    BY <2>1 DEF WorksInv, At, Idle, CleanUpSteps
  <2>4. CrWorkInv
    BY <2>1 DEF Init, CrWorkInv, NoWork, At, Idle, DeploySteps
  <2>5. \A c \in Clusters : {l \in 1..3 : Holds(c, l)} = {}
    BY <2>1 DEF Init, Holds, NoAddon, NoWork
  <2>6. Layered!Init
    BY <2>5 DEF Layered!Init, Layers
  <2> QED
    BY <2>2, <2>3, <2>4, <2>6
<1>2. TypeOK /\ Inv /\ [Next]_vars => Inv'
  BY ConstAssumption, CredentialStep, WorksStep, FinalizerStep, CrWorkStep
<1>3. TypeOK /\ Inv /\ Inv' /\ [Next]_vars => [Layered!Next]_Layers
  BY ConstAssumption, RefinementStep
<1> HIDE DEF Inv
<1>4. Spec => Layered!Init /\ [][Layered!Next]_Layers
  BY <1>1, <1>2, <1>3, TypeCorrect, PTL DEF Spec
<1> QED
  BY <1>4 DEF LayeredSpec, Layered!Spec

-----------------------------------------------------------------------------
(* Two promises that the code breaks, and what it takes to keep them. The   *)
(* runs agent_overdue and agent_rolebinding show how each is broken; here  *)
(* are the circumstances without which it cannot be.                       *)

(* As long as no deletion of a CR work times out: an operator work that    *)
(* nobody has deleted lies behind the finalizer.                           *)
OperatorInv ==
    /\ \A c \in Clusters : opWork[c] = "live" => addon[c].fin
    /\ ~ctl.gaveUp /\ \A c \in Clusters : crWork[c].st # "overdue"

(* As long as no call fails and no cluster set is deleted: a RoleBinding   *)
(* lies behind the finalizer, and has a ServiceAccount by which the next   *)
(* clean up will find it, or is about to go.                               *)
RoleBindingInv ==
    /\ clusterSets = Sets /\ brokerNs = Sets /\ ~outage /\ ~ctl.failed
    /\ \A c \in Clusters : rb[c] # {} => addon[c].fin
    /\ \A c \in Clusters :
          \/ rb[c] \subseteq sa[c]
          \/ At("deleteRB") /\ c = ctl.key /\ rb[c] \subseteq {ctl.ns}
    /\ At("applySA") => ctl.set \in Sets
    /\ At("applyRB") => ctl.set \in sa[ctl.key]

(* cleanUpSubmarinerAgent gives up the wait only for a CR work that, in    *)
(* the cache, has been deleting for ManifestWorkDeletionTimeout.           *)
LEMMA GivesUp ==
  ASSUME TypeOK, [Next]_vars, ctl'.gaveUp, ~ctl.gaveUp
  PROVE  \E c \in Clusters : CrWorkLister(c) = "overdue"
  <1>t. ctl \in Control
    BY DEF TypeOK, ControlOK
  <1> USE <1>t DEF Control, Goto, Return, Idle
  <1>1. CASE UNCHANGED vars
    BY <1>1 DEF vars
  <1>2. ASSUME NEW c \in Clusters, SyncCleanUp(c)
        PROVE  CrWorkLister(c) = "overdue"
    BY <1>2, CleanUpBegins
  <1>3. ASSUME NEW c \in Clusters, SyncDeploy(c) PROVE FALSE
    BY <1>3 DEF SyncDeploy
  <1>r. CASE ApplyRB \/ DeleteRB
    <2>1. Return \/ Goto("globalnet") \/ Goto("checkGlobal")
      BY <1>r, Zenon DEF ApplyRB, DeleteRB
    <2> QED
      BY <2>1
  <1>q. CASE AddFinalizer \/ ApplyRBFails \/ BrokerMissing
                \/ CreateTokenSecret \/ GetBrokerInfoFails \/ ApplyCrWork
                \/ DeleteCrWork \/ ListManySAs
    BY <1>q DEF AddFinalizer, ApplyRBFails, BrokerMissing, CreateTokenSecret,
         GetBrokerInfoFails, ApplyCrWork, DeleteCrWork, ListManySAs
  <1>s. CASE RemoveFinalizer
    BY <1>s, FinalizerComesOff
  <1>4. CASE Deploy
    <2>1. CASE ApplySA \/ ApplySAFails \/ ApplyOpWork
      BY <2>1 DEF ApplySA, ApplySAFails, ApplyOpWork
    <2> QED
      BY <1>4, <1>q, <1>r, <2>1 DEF Deploy, EnsureGlobalnet, BrokerApplied,
           StatusUpdateFails, GetBrokerInfo
  <1>5. CASE CleanUp
    <2>1. CASE ListNoSA \/ ListOneSA \/ DeleteSecret
      BY <2>1 DEF ListNoSA, ListOneSA, DeleteSecret
    <2>2. CASE DeleteSA \/ DeleteSAFails \/ CheckGlobal
      BY <2>2 DEF DeleteSA, DeleteSAFails, CheckGlobal
    <2> QED
      BY <1>5, <1>q, <1>r, <1>s, <2>1, <2>2 DEF CleanUp, DeleteOpWork,
           DeleteResources, DeleteGlobalnet, DeleteBroker
  <1>6. CASE Abort
    BY <1>6 DEF Abort
  <1>7. CASE User
    BY <1>7 DEF User, CreateAddon, DeleteAddon, SetLabel, CreateBroker,
                DeleteSet, CreateSet
  <1>8. CASE Platform
    BY <1>8 DEF Platform, CreateBrokerNs, DeleteBrokerNs, FillToken, OpWorkGone,
         CrWorkGone, CrWorkOverdue, Export, ObserveAddon, ObserveCluster,
         ObserveWork, OutageEnds
  <1> QED
    BY <1>1, <1>2, <1>3, <1>4, <1>5, <1>6, <1>7, <1>8 DEF Next, Sync

(* The operator work is applied behind the finalizer, and deleted before   *)
(* finalizer.Remove.                                                       *)
LEMMA OperatorStep ==
  ASSUME "work" \notin Lagging, "timeout" \notin Events, TypeOK,
         WorksInv, FinalizerInv, OperatorInv, [Next]_vars
  PROVE  OperatorInv'
  <1>t. /\ ctl \in Control /\ (At("idle") \/ ctl.key \in Clusters)
        /\ opWork \in [Clusters -> {"none", "live", "deleting"}]
        /\ addon \in [Clusters -> AddonState]
        /\ crWork \in [Clusters -> CrWork]
        /\ \A c \in Clusters : addon[c].st = "absent" => ~addon[c].fin
    BY DEF TypeOK, ControlOK, DataOK
  <1>1. ASSUME NEW c \in Clusters, opWork'[c] = "live" PROVE addon'[c].fin
    <2>1. opWork[c] = "live" \/ (ApplyOpWork /\ c = ctl.key)
      BY <1>1, <1>t, OperatorMoves DEF ApplyOpWork, DeleteOpWork, OpWorkGone, At
    <2>2. addon[c].fin
      BY <2>1 DEF OperatorInv, ApplyOpWork, FinalizerInv, DeploySteps, At
    <2>3. CASE addon' = addon
      BY <2>2, <2>3
    <2>4. CASE AddFinalizer
      BY <2>2, <2>4, <1>t DEF AddFinalizer, At
    <2>5. CASE RemoveFinalizer
      <3>1. At("removeFinalizer") /\ opWork' = opWork
        BY <2>5, FinalizerComesOff DEF works
      <3>2. opWork[ctl.key] # "live"
        BY <3>1 DEF OperatorInv, WorksInv, CleanUpSteps, At
      <3>3. c # ctl.key
        BY <1>1, <3>1, <3>2
      <3>4. addon'[c] = addon[c]
        BY <2>5, <3>3, <1>t, FinalizerComesOff
      <3> QED
        BY <2>2, <3>4
    <2>6. ASSUME NEW d \in Clusters, CreateAddon(d) \/ DeleteAddon(d)
          PROVE  addon'[c].fin
      <3>1. CASE CreateAddon(d)
        BY <2>2, <3>1, <1>t DEF CreateAddon
      <3>2. CASE DeleteAddon(d)
        BY <2>2, <3>2, <1>t DEF DeleteAddon
      <3> QED
        BY <2>6, <3>1, <3>2
    <2> QED
      BY <2>3, <2>4, <2>5, <2>6, FinalizerMoves
  <1>2. ~ctl'.gaveUp
    <2>1. \A c \in Clusters : CrWorkLister(c) # "overdue"
      BY DEF OperatorInv, CrWorkLister
    <2> QED
      BY <2>1, GivesUp DEF OperatorInv
  <1>3. ASSUME NEW c \in Clusters PROVE crWork'[c].st # "overdue"
    <2>1. CASE crWork' = crWork
      BY <2>1 DEF OperatorInv
    <2>2. CASE ApplyCrWork
      BY <2>2, <1>t DEF OperatorInv, ApplyCrWork, Applied, At
    <2>3. CASE DeleteCrWork
      BY <2>3, <1>t DEF OperatorInv, DeleteCrWork, NoWork, At
    <2>4. ASSUME NEW d \in Clusters, CrWorkGone(d) \/ CrWorkOverdue(d)
          PROVE  crWork'[c].st # "overdue"
      BY <2>4, <1>t DEF OperatorInv, CrWorkGone, CrWorkOverdue, NoWork
    <2> QED
      BY <2>1, <2>2, <2>3, <2>4, CrWorkMoves
  <1> QED
    BY <1>1, <1>2, <1>3 DEF OperatorInv

(* The finalizer stays until the RoleBinding is gone: removeClusterRBACFiles *)
(* finds the ServiceAccount that goes with it.                             *)
LEMMA RoleBindingStep ==
  ASSUME "setDeletion" \notin Events, TypeOK, CredentialInv, FinalizerInv,
         RoleBindingInv, [Next]_vars
  PROVE  RoleBindingInv'
  <1>t. /\ ctl \in Control /\ (At("idle") \/ ctl.key \in Clusters)
        /\ sa \in [Clusters -> SUBSET Sets] /\ rb \in [Clusters -> SUBSET Sets]
        /\ addon \in [Clusters -> AddonState]
        /\ \A c \in Clusters : addon[c].st = "absent" => ~addon[c].fin
    BY DEF TypeOK, ControlOK, DataOK
  <1> USE <1>t DEF RoleBindingInv, At, Goto, Return, Idle, Control, NoAddon,
                   AddonState, objects, works, creds, caches, DeploySteps,
                   CleanUpSteps
  <1>1. CASE AddFinalizer
    BY <1>1 DEF AddFinalizer
  <1>2. CASE ApplySA
    BY <1>2 DEF ApplySA, FinalizerInv
  <1>3. CASE ApplySAFails
    BY <1>3 DEF ApplySAFails
  <1>4. CASE ApplyRB
    BY <1>4 DEF ApplyRB, FinalizerInv
  <1>5. CASE DeleteSA
    BY <1>5 DEF DeleteSA, CredentialInv
  <1>6. CASE DeleteRB
    BY <1>6 DEF DeleteRB
  <1>7. CASE CheckGlobal
    BY <1>7 DEF CheckGlobal
  <1>8. CASE RemoveFinalizer
    <2>1. outage' = outage
      BY <1>8, Zenon DEF RemoveFinalizer
    <2>2. rb[ctl.key] = {}
      BY <1>8, FinalizerComesOff DEF CredentialInv, AfterCredential
    <2> QED
      BY <1>8, <2>1, <2>2, FinalizerComesOff
  <1>9. ASSUME NEW c \in Clusters, SyncCleanUp(c) PROVE RoleBindingInv'
    <2>1. outage' = outage
      BY <1>9 DEF SyncCleanUp
    <2> QED
      BY <1>9, <2>1, CleanUpBegins
  <1>10. ASSUME NEW c \in Clusters, SyncDeploy(c) PROVE RoleBindingInv'
    BY <1>10 DEF SyncDeploy, DeployWanted
  <1>11. ASSUME NEW c \in Clusters, CreateAddon(c) PROVE RoleBindingInv'
    BY <1>11 DEF CreateAddon
  <1>12. ASSUME NEW c \in Clusters, DeleteAddon(c) PROVE RoleBindingInv'
    BY <1>12 DEF DeleteAddon
  <1>13. ASSUME NEW s \in Sets, DeleteBrokerNs(s) PROVE RoleBindingInv'
    BY <1>13 DEF DeleteBrokerNs
  <1>14. CASE ApplyRBFails
    BY <1>14 DEF ApplyRBFails
  <1>15. CASE EnsureGlobalnet
    BY <1>15 DEF EnsureGlobalnet
  <1>16. CASE BrokerMissing
    BY <1>16 DEF BrokerMissing
  <1>17. CASE BrokerApplied
    BY <1>17 DEF BrokerApplied
  <1>18. CASE StatusUpdateFails
    BY <1>18 DEF StatusUpdateFails
  <1>19. CASE GetBrokerInfo
    BY <1>19 DEF GetBrokerInfo
  <1>20. CASE CreateTokenSecret
    BY <1>20 DEF CreateTokenSecret
  <1>21. CASE GetBrokerInfoFails
    BY <1>21 DEF GetBrokerInfoFails
  <1>22. CASE ApplyOpWork
    BY <1>22 DEF ApplyOpWork
  <1>23. CASE ApplyCrWork
    BY <1>23 DEF ApplyCrWork
  <1>24. CASE DeleteCrWork
    BY <1>24 DEF DeleteCrWork
  <1>25. CASE DeleteOpWork
    BY <1>25 DEF DeleteOpWork
  <1>26. CASE DeleteResources
    BY <1>26 DEF DeleteResources
  <1>27. CASE ListNoSA
    BY <1>27 DEF ListNoSA
  <1>28. CASE ListOneSA
    BY <1>28 DEF ListOneSA
  <1>29. CASE ListManySAs
    BY <1>29 DEF ListManySAs
  <1>30. CASE DeleteSecret
    BY <1>30 DEF DeleteSecret
  <1>31. CASE DeleteSAFails
    BY <1>31 DEF DeleteSAFails
  <1>32. CASE DeleteGlobalnet
    BY <1>32 DEF DeleteGlobalnet
  <1>33. CASE DeleteBroker
    BY <1>33 DEF DeleteBroker
  <1>34. CASE Abort
    BY <1>34 DEF Abort
  <1>35. CASE (\E c \in Clusters : SetLabel(c)) \/ (\E c \in Clusters :
          FillToken(c)) \/ (\E c \in Clusters : OpWorkGone(c)) \/ (\E c \in
          Clusters : CrWorkGone(c)) \/ (\E c \in Clusters :
          CrWorkOverdue(c)) \/ (\E c \in Clusters : Export(c)) \/ (\E c \in
          Clusters : ObserveAddon(c)) \/ (\E c \in Clusters :
          ObserveCluster(c)) \/ (\E c \in Clusters : ObserveWork(c)) \/ (\E
          s \in Sets : CreateBroker(s)) \/ (\E s \in Sets : DeleteSet(s)) \/
          (\E s \in Sets : CreateSet(s)) \/ (\E s \in Sets :
          CreateBrokerNs(s)) \/ OutageEnds
    BY <1>35 DEF SetLabel, FillToken, OpWorkGone, CrWorkGone, CrWorkOverdue,
                 Export,
           ObserveAddon, ObserveCluster, ObserveWork, CreateBroker, DeleteSet,
           CreateSet, CreateBrokerNs, OutageEnds
  <1>36. CASE UNCHANGED vars
    BY <1>36 DEF vars
  <1> QED
    BY <1>1, <1>2, <1>3, <1>4, <1>5, <1>6, <1>7, <1>8, <1>9, <1>10, <1>11,
       <1>12, <1>13, <1>14, <1>15, <1>16, <1>17, <1>18, <1>19, <1>20, <1>21,
       <1>22, <1>23, <1>24, <1>25, <1>26, <1>27, <1>28, <1>29, <1>30, <1>31,
       <1>32, <1>33, <1>34, <1>35, <1>36
    DEF Next, Sync, Deploy, CleanUp, User, Platform

(* deleteManifestWork: with fresh add-on and ManifestWork caches, and as   *)
(* long as no deletion of a CR work times out, no operator work that       *)
(* nobody deleted outlives its add-on, whatever calls fail and whatever    *)
(* the users do to add-ons, labels and cluster sets.                       *)
THEOREM OperatorGoes ==
  ASSUME "work" \notin Lagging, "addon" \notin Lagging, "timeout" \notin Events
  PROVE  Spec => []NoOrphanOperator
<1> DEFINE Inv == CredentialInv /\ WorksInv /\ FinalizerInv /\ OperatorInv
<1>1. Init => Inv
  <2> SUFFICES ASSUME Init PROVE Inv
    OBVIOUS
  <2>1. CredentialInv /\ FinalizerInv
    BY DEF Init, CredentialInv, FinalizerInv, AfterCredential, At, Idle,
           DeploySteps
  <2>2. WorksInv
    BY DEF Init, WorksInv, At, Idle, CleanUpSteps
  <2>3. OperatorInv
    BY DEF Init, OperatorInv, NoWork, Idle
  <2> QED
    BY <2>1, <2>2, <2>3
<1>2. TypeOK /\ Inv /\ [Next]_vars => Inv'
  BY CredentialStep, WorksStep, FinalizerStep, OperatorStep
<1>3. TypeOK /\ Inv => NoOrphanOperator
  BY DEF TypeOK, DataOK, OperatorInv, NoOrphanOperator
<1> HIDE DEF Inv
<1> QED
  BY <1>1, <1>2, <1>3, TypeCorrect, PTL DEF Spec

(* removeClusterRBACFiles: with a fresh add-on cache, as long as no call   *)
(* fails and no cluster set is deleted, no RoleBinding outlives the        *)
(* finalizer, although the clusters may change their sets and the wait for *)
(* a CR work may be given up.                                              *)
THEOREM RoleBindingGoes ==
  ASSUME "addon" \notin Lagging, Events \cap {"apiError", "setDeletion"} = {}
  PROVE  Spec => []NoOrphanRoleBinding
<1> DEFINE Inv == CredentialInv /\ FinalizerInv /\ RoleBindingInv
<1>1. Init => Inv
  <2> SUFFICES ASSUME Init PROVE Inv
    OBVIOUS
  <2>1. CredentialInv /\ FinalizerInv
    BY DEF Init, CredentialInv, FinalizerInv, AfterCredential, At, Idle,
           DeploySteps
  <2>2. RoleBindingInv
    BY DEF Init, RoleBindingInv, At, Idle
  <2> QED
    BY <2>1, <2>2
<1>2. TypeOK /\ Inv /\ [Next]_vars => Inv'
  BY CredentialStep, FinalizerStep, RoleBindingStep
<1>3. Inv => NoOrphanRoleBinding
  BY DEF RoleBindingInv, NoOrphanRoleBinding
<1> HIDE DEF Inv
<1> QED
  BY <1>1, <1>2, <1>3, TypeCorrect, PTL DEF Spec

=============================================================================
