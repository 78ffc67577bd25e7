-------------------------- MODULE StatusReportsProofs --------------------------
(***************************************************************************)
(* What holds of StatusReports for every set of nodes, gateways, teams and *)
(* moving objects, in the order of the argument:                           *)
(*                                                                         *)
(*   1. what a writer finds is a set of findings (FindingsFound);          *)
(*   2. types are preserved (CtlStep, CondStep, RestStep, TypesInit);      *)
(*   3. a copy that is not stale is the status (CopyStep);                 *)
(*   4. the theorems.                                                      *)
(***************************************************************************)
EXTENDS StatusReports, SequenceTheorems, TLAPS

ReadSteps == Deployments \cup DaemonSets
                \cup {"nodes", "ocp", "subscription", "submariner", "endpoints", "broker"}
Status == [Types -> (SUBSET Findings) \cup {Absent}]
Control == [pc : {"idle", "sync", "put"}, left : Seq(ReadSteps),
            found : [Types -> SUBSET Findings], base : Status]

CtlOK  == /\ ctl \in [Writers -> Control]
          /\ \A w \in Writers : ctl[w].pc = "put" => ctl[w].left = <<>>
CondOK == cond \in Status
RestOK ==
    /\ team \in Teams
    /\ \A o \in Objects : object[o] \in States(o)
    /\ ocp \in {"supported", "unsupported"}
    /\ addon \in {"live", "none"}
    /\ queued \subseteq team
    /\ stale \subseteq Writing
    /\ outage \in BOOLEAN /\ changes \in 0..MaxChanges

TypeInv == CtlOK /\ CondOK /\ RestOK

(* A writer whose copy is not stale has the status as it is.               *)
CopyInv == \A w \in Writing \ stale : ctl[w].base = cond

LEMMA InvTypes == TypeInv => TypeOK
  BY DEF TypeInv, CtlOK, CondOK, RestOK, TypeOK, Control, Status

-----------------------------------------------------------------------------
(* Whatever a writer looks at, it finds findings.                          *)
LEMMA FindingsFound ==
    ASSUME RestOK, NEW w \in Writers, NEW o \in ReadSteps
    PROVE  Finds(w, o) \subseteq Findings
  <1>1. ASSUME NEW x \in Objects, NEW bad PROVE Found(x, bad) \subseteq Findings
    BY DEF RestOK, Found, Findings, AllStates
  <1>2. Deployments \cup DaemonSets \cup Nodes \cup Gateways
           \cup {"subscription", "submariner", "endpoints", "broker"} \subseteq Objects
    BY DEF Objects, Named
  <1>3. {"gateway", "routeagent", "metricsproxy", "globalnet"} \subseteq Objects
    BY DEF Objects, Named, DaemonSets
  <1>4. <<"submariner", "none">> \in Findings
    <2>1. "submariner" \in Named /\ "submariner" \notin Nodes \cup Gateways
      BY ReportsAssumption DEF ReportsAssumption, Named
    <2>2. "none" \in States("submariner") /\ "submariner" \in Objects
      BY <2>1 DEF States, Objects, Deployments, DaemonSets
    <2> QED BY <2>2 DEF Findings, AllStates
  <1>5. CheckSubmarinerConnections \subseteq Findings
    BY <1>1, <1>2, <1>4 DEF CheckSubmarinerConnections
  <1>6. GatewayNodes \subseteq Findings
    BY <1>1, <1>2 DEF GatewayNodes
  <1>7. UnsupportedVersion \subseteq Findings
    <2>1. <<"ocp", "unsupported">> \in Findings
      BY DEF Findings
    <2> QED BY <2>1 DEF UnsupportedVersion
  <1>8. CASE o \in {"nodes", "ocp", "submariner"}
    BY <1>8, <1>5, <1>6, <1>7 DEF Finds, Deployments
  <1>9. CASE o \in {"subscription", "endpoints", "broker"}
    BY <1>9, <1>1, <1>2 DEF Finds, Deployments, CheckCSV, CheckRouteAgentConnections,
       BrokerMissing
  <1>10. CASE o \in Deployments
    BY <1>10, <1>1, <1>2 DEF Finds, Deployments, CheckDeployment
  <1>11. CASE o \in DaemonSets
    BY <1>11, <1>1, <1>3 DEF Finds, Deployments, DaemonSets, CheckGatewayDaemonSet,
       CheckRouteAgentDaemonSet, CheckMetricsProxyDaemonSet, CheckGlobalnetDaemonSet
  <1> QED BY <1>8, <1>9, <1>10, <1>11 DEF ReadSteps

(* The records that a writer starts and ends with.                         *)
LEMMA IdleControl ==
    /\ Idle \in Control /\ NoConds \in Status /\ Idle.pc = "idle"
    /\ \A w \in Writers : [Idle EXCEPT !.pc = "sync", !.left = Reads(w)] \in Control
  <1>1. NoConds \in Status /\ Nothing \in [Types -> SUBSET Findings]
    BY DEF NoConds, Nothing, Status
  <1>2. <<>> \in Seq(ReadSteps)
    BY EmptySeq
  <1>3. Idle \in Control /\ Idle.pc = "idle"
    BY <1>1, <1>2 DEF Idle, Control
  <1>4. ASSUME NEW w \in Writers PROVE Reads(w) \in Seq(ReadSteps)
    <2>1. /\ <<"nodes">> \in Seq(ReadSteps) /\ <<"ocp">> \in Seq(ReadSteps)
          /\ <<"submariner", "endpoints">> \in Seq(ReadSteps)
          /\ <<"broker">> \in Seq(ReadSteps)
      BY DEF ReadSteps
    <2>2. <<"subscription", "operator", "lighthouse_agent", "lighthouse_coredns",
            "gateway", "routeagent", "metricsproxy", "submariner">> \in Seq(ReadSteps)
      BY DEF ReadSteps, Deployments, DaemonSets
    <2> QED BY <2>1, <2>2 DEF Writers, Reads
  <1> QED
    BY <1>1, <1>3, <1>4 DEF Idle, Control

(* Every step takes each writer from one point of a sync to another.       *)
LEMMA CtlStep == TypeInv /\ [Next]_vars => CtlOK'
  <1> SUFFICES ASSUME TypeInv, [Next]_vars PROVE CtlOK'
    OBVIOUS
  <1>o. CtlOK /\ RestOK /\ cond \in Status
    BY DEF TypeInv, CondOK
  <1>u. ASSUME NEW w \in Writers, NEW c \in Control, c.pc = "put" => c.left = <<>>,
               ctl' = [ctl EXCEPT ![w] = c]
        PROVE  CtlOK'
    BY <1>o, <1>u DEF CtlOK
  <1>f. ASSUME NEW w \in Writers, NEW r \in BOOLEAN, Finish(w, r) PROVE CtlOK'
    BY <1>f, <1>u, IdleControl DEF Finish
  <1>k. ASSUME UNCHANGED ctl PROVE CtlOK'
    BY <1>k, <1>o DEF CtlOK
  <1>1. ASSUME NEW w \in Writers, Sync(w) PROVE CtlOK'
    BY <1>1, <1>u, IdleControl DEF Sync, Idle
  <1>2. ASSUME NEW w \in Writers, Read(w) PROVE CtlOK'
    <2> DEFINE o == Head(ctl[w].left)
               left == IF w = "deployment" /\ o = "submariner" /\ GlobalnetWanted
                       THEN <<"globalnet">> ELSE Tail(ctl[w].left)
               found == [ctl[w].found EXCEPT ![For(w, o)] = @ \cup Finds(w, o)]
    <2>1. CASE Ends(w, o)
      BY <1>2, <2>1, <1>f DEF Read
    <2>2. CASE ~Ends(w, o)
      <3>1. /\ ctl[w] \in Control /\ ctl[w].left \in Seq(ReadSteps) /\ ctl[w].left # <<>>
            /\ ctl[w].pc = "sync" /\ ctl[w].found \in [Types -> SUBSET Findings]
        BY <1>2, <1>o DEF Read, At, CtlOK, Control
      <3>2. o \in ReadSteps /\ Tail(ctl[w].left) \in Seq(ReadSteps)
        BY <3>1, HeadTailProperties
      <3>3. "globalnet" \in ReadSteps
        BY DEF ReadSteps, DaemonSets
      <3>4. left \in Seq(ReadSteps)
        BY <3>2, <3>3
      <3>5. Finds(w, o) \subseteq Findings
        BY <3>2, <1>o, FindingsFound
      <3>6. found \in [Types -> SUBSET Findings]
        <4> HIDE DEF o
        <4> QED BY <3>1, <3>5
      <3>7. ctl' = [ctl EXCEPT ![w] = [ctl[w] EXCEPT !.left = left, !.found = found]]
        <4>1. ctl' = [ctl EXCEPT ![w].left = left,
                                 ![w].found[For(w, o)] = @ \cup Finds(w, o)]
          BY <1>2, <2>2 DEF Read
        <4> HIDE DEF left, o
        <4>2. ctl \in [Writers -> Control]
          BY <1>o DEF CtlOK
        <4> QED BY <4>1, <4>2 DEF Control
      <3> HIDE DEF left, found
      <3>8. [ctl[w] EXCEPT !.left = left, !.found = found] \in Control
        BY <3>1, <3>4, <3>6 DEF Control
      <3>9. [ctl[w] EXCEPT !.left = left, !.found = found].pc = "sync"
        BY <3>1 DEF Control
      <3> QED BY <3>7, <3>8, <3>9, <1>u
    <2> QED BY <2>1, <2>2
  <1>3. ASSUME NEW w \in Writers, Get(w) PROVE CtlOK'
    <2>1. CASE Done(w) \/ Fail(w)
      BY <2>1, <1>f DEF Done, Fail, Retried
    <2>2. CASE ctl' = [ctl EXCEPT ![w].pc = "put", ![w].base = cond]
      <3>1. ctl[w] \in Control /\ ctl[w].left = <<>>
        BY <1>3, <1>o DEF Get, CtlOK
      <3>2. ctl' = [ctl EXCEPT ![w] = [ctl[w] EXCEPT !.pc = "put", !.base = cond]]
        BY <2>2, <1>o DEF CtlOK
      <3>3. [ctl[w] EXCEPT !.pc = "put", !.base = cond] \in Control
        BY <3>1, <1>o DEF Control
      <3>4. [ctl[w] EXCEPT !.pc = "put", !.base = cond].left = <<>>
        BY <3>1 DEF Control
      <3> QED BY <3>2, <3>3, <3>4, <1>u
    <2> QED BY <1>3, <2>1, <2>2 DEF Get
  <1>4. ASSUME NEW w \in Writers, Put(w) PROVE CtlOK'
    BY <1>4, <1>u, IdleControl DEF Put
  <1>5. ASSUME NEW w \in Writers, Conflict(w) PROVE CtlOK'
    <2>1. CASE Fail(w)
      BY <2>1, <1>f DEF Fail
    <2>2. CASE ctl' = [ctl EXCEPT ![w].pc = "sync", ![w].base = NoConds]
      <3>1. ctl[w] \in Control
        BY <1>o DEF CtlOK
      <3>2. ctl' = [ctl EXCEPT ![w] = [ctl[w] EXCEPT !.pc = "sync", !.base = NoConds]]
        BY <2>2, <1>o DEF CtlOK
      <3>3. /\ [ctl[w] EXCEPT !.pc = "sync", !.base = NoConds] \in Control
            /\ [ctl[w] EXCEPT !.pc = "sync", !.base = NoConds].pc = "sync"
        BY <3>1, IdleControl DEF Control
      <3> QED BY <3>2, <3>3, <1>u
    <2> QED BY <1>5, <2>1, <2>2 DEF Conflict
  <1>6. ASSUME NEW w \in Writers, PutFails(w) PROVE CtlOK'
    BY <1>6, <1>f DEF PutFails, Fail
  <1>7. ASSUME NEW process, Restart(process) PROVE CtlOK'
    <2>1. \A w \in Writers : ctl'[w] = Idle \/ ctl'[w] = ctl[w]
      BY <1>7 DEF Restart
    <2>2. ctl' \in [Writers -> Control]
      BY <1>7, <1>o, IdleControl DEF Restart, CtlOK
    <2> QED BY <2>1, <2>2, <1>o, IdleControl DEF CtlOK
  <1>8. UNCHANGED ctl \/ (\E w \in Writers : Step(w)) \/ Restart(Spoke) \/ Restart({"broker"})
    BY DEF Next, vars, Resync, Change, UpgradeOCP, DeleteAddon, CreateAddon,
       ListEndpoints, OutageEnds
  <1> QED
    BY <1>1, <1>2, <1>3, <1>4, <1>5, <1>6, <1>7, <1>8, <1>k DEF Step

(* The status a writer makes is a status.                                  *)
LEMMA CondStep == TypeInv /\ [Next]_vars => CondOK'
  <1> SUFFICES ASSUME TypeInv, [Next]_vars PROVE CondOK'
    OBVIOUS
  <1>1. ASSUME NEW w \in Writers, Put(w) PROVE CondOK'
    <2>1. ctl[w].found \in [Types -> SUBSET Findings] /\ ctl[w].base \in Status
      BY DEF TypeInv, CtlOK, Control
    <2>2. WithConditions(w, ctl[w].base) \in Status
      BY <2>1 DEF WithConditions, Status
    <2> QED BY <1>1, <2>2 DEF Put, Write, CondOK
  <1>2. CASE DeleteAddon
    BY <1>2, IdleControl DEF DeleteAddon, CondOK
  <1>3. UNCHANGED cond \/ DeleteAddon \/ \E w \in Writers : Put(w)
    BY DEF Next, Step, vars, Sync, Read, Get, Conflict, PutFails, Resync, Change,
       UpgradeOCP, CreateAddon, Restart, ListEndpoints, OutageEnds
  <1> QED
    BY <1>1, <1>2, <1>3 DEF TypeInv, CondOK

(* A copy becomes stale only when it has been read, and is dropped with the *)
(* sync; the rest is what the environment may do to the objects.           *)
LEMMA StaleStep == TypeInv /\ [Next]_vars => (queued \subseteq team /\ stale \subseteq Writing)'
  <1> SUFFICES ASSUME TypeInv, [Next]_vars
               PROVE  queued' \subseteq team' /\ stale' \subseteq Writing'
    OBVIOUS
  <1>o. /\ ctl \in [Writers -> Control] /\ queued \subseteq team /\ stale \subseteq Writing
        /\ team' = team /\ team \subseteq Writers
    <2>1. team' = team
      BY DEF Next, vars, Step, Sync, Read, Get, Put, Conflict, PutFails, Resync, Change,
         UpgradeOCP, DeleteAddon, CreateAddon, Restart, ListEndpoints, OutageEnds
    <2>2. team \subseteq Writers
      BY ReportsAssumption DEF ReportsAssumption, TypeInv, RestOK
    <2> QED BY <2>1, <2>2 DEF TypeInv, CtlOK, RestOK
  <1>f. ASSUME NEW w \in Writers, NEW r \in BOOLEAN, w \in team, Finish(w, r)
        PROVE  queued' \subseteq team' /\ stale' \subseteq Writing'
    BY <1>f, <1>o, IdleControl DEF Finish, Writing
  <1>1. ASSUME NEW w \in Writers, Sync(w)
        PROVE  queued' \subseteq team' /\ stale' \subseteq Writing'
    <2>1. ctl[w].pc = "idle" /\ ctl' = [ctl EXCEPT ![w] = [Idle EXCEPT !.pc = "sync", !.left = Reads(w)]]
          /\ stale' = stale /\ queued' \subseteq queued
      BY <1>1 DEF Sync, At
    <2> QED BY <2>1, <1>o DEF Writing
  <1>2. ASSUME NEW w \in Writers, Read(w)
        PROVE  queued' \subseteq team' /\ stale' \subseteq Writing'
    <2>1. CASE Finish(w, FALSE)
      BY <1>2, <2>1, <1>f DEF Read, At
    <2>2. CASE ~Finish(w, FALSE)
      <3>1. ctl[w].pc = "sync" /\ UNCHANGED <<queued, stale>>
            /\ \A v \in Writers \ {w} : ctl'[v] = ctl[v]
        BY <1>2, <2>2, <1>o DEF Read, At
      <3> QED BY <3>1, <1>o DEF Writing
    <2> QED BY <2>1, <2>2
  <1>3. ASSUME NEW w \in Writers, Get(w)
        PROVE  queued' \subseteq team' /\ stale' \subseteq Writing'
    <2>1. CASE Done(w) \/ Fail(w)
      BY <1>3, <2>1, <1>f DEF Done, Fail, Retried, Get, At
    <2>2. CASE ~(Done(w) \/ Fail(w))
      <3>1. ctl[w].pc = "sync" /\ UNCHANGED <<queued, stale>>
            /\ \A v \in Writers \ {w} : ctl'[v] = ctl[v]
        BY <1>3, <2>2, <1>o DEF Get, At
      <3> QED BY <3>1, <1>o DEF Writing
    <2> QED BY <2>1, <2>2
  <1>4. ASSUME NEW w \in Writers, Put(w)
        PROVE  queued' \subseteq team' /\ stale' \subseteq Writing'
    <2>1. w \in team /\ stale' = Writing \ {w} /\ queued' \subseteq queued \cup {w}
          /\ \A v \in Writers \ {w} : ctl'[v] = ctl[v]
      BY <1>4, <1>o DEF Put, At
    <2> QED BY <2>1, <1>o DEF Writing
  <1>5. ASSUME NEW w \in Writers, Conflict(w)
        PROVE  queued' \subseteq team' /\ stale' \subseteq Writing'
    <2>1. CASE Fail(w)
      BY <1>5, <2>1, <1>f DEF Fail, Conflict, At
    <2>2. CASE ~Fail(w)
      <3>1. queued' = queued /\ stale' = stale \ {w}
            /\ \A v \in Writers \ {w} : ctl'[v] = ctl[v]
        BY <1>5, <2>2, <1>o DEF Conflict
      <3> QED BY <3>1, <1>o DEF Writing
    <2> QED BY <2>1, <2>2
  <1>6. ASSUME NEW w \in Writers, PutFails(w)
        PROVE  queued' \subseteq team' /\ stale' \subseteq Writing'
    BY <1>6, <1>f DEF PutFails, Fail, At
  <1>7. ASSUME NEW process, Restart(process)
        PROVE  queued' \subseteq team' /\ stale' \subseteq Writing'
    <2>1. \A v \in Writers \ process : ctl'[v] = ctl[v]
      BY <1>7 DEF Restart
    <2> QED BY <1>7, <2>1, <1>o DEF Restart, Writing
  <1>8. CASE DeleteAddon
    BY <1>8, <1>o DEF DeleteAddon, Writing
  <1>9. CASE UNCHANGED <<ctl, stale>> /\ queued' \subseteq team
    BY <1>9, <1>o DEF Writing
  <1>10. CASE \/ UpgradeOCP \/ CreateAddon \/ ListEndpoints \/ OutageEnds
              \/ (\E w \in Writers : Resync(w)) \/ (\E o \in Objects : Change(o))
              \/ UNCHANGED vars
    <2>1. UNCHANGED <<ctl, stale>> /\ queued' \subseteq team
      BY <1>10, <1>o DEF UpgradeOCP, CreateAddon, ListEndpoints, OutageEnds, Resync, At,
         Change, Handlers, vars
    <2> QED BY <2>1, <1>9
  <1> QED
    BY <1>1, <1>2, <1>3, <1>4, <1>5, <1>6, <1>7, <1>8, <1>10 DEF Next, Step

(* Objects take only the states that they have.                            *)
LEMMA ObjectStep ==
    ASSUME TypeInv, [Next]_vars, NEW o \in Objects
    PROVE  object'[o] \in States(o)
  <1>o. object[o] \in States(o)
    BY DEF TypeInv, RestOK
  <1>1. ASSUME NEW p \in Objects, Change(p) PROVE object'[o] \in States(o)
    BY <1>1, <1>o DEF Change
  <1>2. "endpoints" \in Named /\ "endpoints" \notin Nodes \cup Gateways
    BY ReportsAssumption DEF ReportsAssumption, Named
  <1>3. "unseen" \in States("endpoints")
    BY <1>2 DEF States, Deployments, DaemonSets
  <1>4. ASSUME NEW process, Restart(process) PROVE object'[o] \in States(o)
    BY <1>3, <1>4, <1>o DEF Restart
  <1>5. CASE ListEndpoints
    BY <1>5, <1>o DEF ListEndpoints
  <1>6. \/ UNCHANGED object \/ ListEndpoints
        \/ \E p \in Objects : Change(p)
        \/ Restart(Spoke) \/ Restart({"broker"})
    BY DEF Next, Step, vars, world, Sync, Read, Get, Put, Conflict, PutFails, Resync,
       UpgradeOCP, DeleteAddon, CreateAddon, OutageEnds
  <1> QED
    BY <1>1, <1>4, <1>5, <1>6, <1>o

LEMMA RestStep == TypeInv /\ [Next]_vars => RestOK'
  <1> SUFFICES ASSUME TypeInv, [Next]_vars PROVE RestOK'
    OBVIOUS
  <1>1. \A o \in Objects : object'[o] \in States(o)
    BY ObjectStep
  <1>2. team' = team
    BY DEF Next, vars, Step, Sync, Read, Get, Put, Conflict, PutFails, Resync, Change,
       UpgradeOCP, DeleteAddon, CreateAddon, Restart, ListEndpoints, OutageEnds
  <1>3. ocp' = ocp \/ ocp' = "supported"
    BY DEF Next, vars, world, Step, Sync, Read, Get, Put, Conflict, PutFails, Resync,
       Change, UpgradeOCP, DeleteAddon, CreateAddon, Restart, ListEndpoints, OutageEnds
  <1>4. addon' = addon \/ addon' \in {"live", "none"}
    BY DEF Next, vars, world, Step, Sync, Read, Get, Put, Conflict, PutFails, Resync,
       Change, UpgradeOCP, DeleteAddon, CreateAddon, Restart, ListEndpoints, OutageEnds
  <1>5. outage' = outage \/ outage' = FALSE
    BY DEF Next, vars, world, Step, Sync, Read, Get, Put, Conflict, PutFails, Resync,
       Change, UpgradeOCP, DeleteAddon, CreateAddon, Restart, ListEndpoints, OutageEnds
  <1>6. changes' = changes \/ (changes < MaxChanges /\ changes' = changes + 1)
    BY DEF Next, vars, world, Step, Sync, Read, Get, Put, Conflict, PutFails, Resync,
       Change, UpgradeOCP, DeleteAddon, CreateAddon, Restart, ListEndpoints, OutageEnds
  <1>7. RestOK /\ MaxChanges \in Nat
    BY ReportsAssumption DEF ReportsAssumption, TypeInv
  <1>8. changes' \in 0..MaxChanges
    BY <1>6, <1>7 DEF RestOK
  <1> QED
    BY <1>1, <1>2, <1>3, <1>4, <1>5, <1>7, <1>8, StaleStep DEF RestOK

LEMMA TypesInit == Init => TypeInv
  <1> SUFFICES ASSUME Init PROVE TypeInv
    OBVIOUS
  <1>t. team \subseteq Writers
    BY ReportsAssumption DEF ReportsAssumption, Init
  <1>1. CtlOK /\ CondOK /\ Writing = {}
    BY <1>t, IdleControl DEF Init, CtlOK, CondOK, Writing
  <1>2. ASSUME NEW o \in Objects PROVE Healthy(o) \in States(o)
    <2>1. CASE o \in Named
      <3>1. o \notin Nodes \cup Gateways
        BY <2>1, ReportsAssumption DEF ReportsAssumption
      <3> QED BY <2>1, <3>1 DEF Named, Healthy, States, Deployments, DaemonSets
    <2>2. CASE o \in Nodes
      <3>1. o \notin Named /\ o \notin Gateways
        BY <2>2, ReportsAssumption DEF ReportsAssumption
      <3> QED BY <2>2, <3>1 DEF Named, Healthy, States
    <2>3. CASE o \in Gateways
      <3>1. o \notin Named /\ o \notin Nodes
        BY <2>3, ReportsAssumption DEF ReportsAssumption
      <3> QED BY <2>3, <3>1 DEF Named, Healthy, States
    <2> QED BY <2>1, <2>2, <2>3 DEF Objects
  <1>3. \A o \in Objects : object[o] \in States(o)
    BY <1>2 DEF Init
  <1>4. outage \in BOOLEAN /\ changes \in 0..MaxChanges
    BY ReportsAssumption DEF ReportsAssumption, Init
  <1>5. RestOK
    BY <1>1, <1>3, <1>4 DEF Init, RestOK
  <1> QED BY <1>1, <1>5 DEF TypeInv

LEMMA TypesCorrect == Spec => []TypeInv
  <1>1. TypeInv /\ [Next]_vars => TypeInv'
    BY CtlStep, CondStep, RestStep DEF TypeInv
  <1> QED BY <1>1, TypesInit, PTL DEF Spec

-----------------------------------------------------------------------------
(* The other steps leave the copies and the status as they are, or make     *)
(* every copy stale.                                                       *)
LEMMA CopyStep == TypeInv /\ CopyInv /\ [Next]_vars => CopyInv'
  <1> SUFFICES ASSUME TypeInv, CopyInv, [Next]_vars PROVE CopyInv'
    OBVIOUS
  <1>o. /\ ctl \in [Writers -> Control] /\ team \subseteq Writers
        /\ team' = team /\ stale \subseteq Writing
    <2>1. team' = team
      BY DEF Next, vars, Step, Sync, Read, Get, Put, Conflict, PutFails, Resync, Change,
         UpgradeOCP, DeleteAddon, CreateAddon, Restart, ListEndpoints, OutageEnds
    <2>2. team \subseteq Writers
      BY ReportsAssumption DEF ReportsAssumption, TypeInv, RestOK
    <2> QED BY <2>1, <2>2 DEF TypeInv, CtlOK, RestOK
  <1>w. ASSUME NEW w \in Writers, ctl'[w].pc # "put" \/ ctl'[w].base = cond,
               \A v \in Writers \ {w} : ctl'[v] = ctl[v],
               cond' = cond, stale \ {w} \subseteq stale'
        PROVE  CopyInv'
    BY <1>w, <1>o DEF CopyInv, Writing
  <1>f. ASSUME NEW w \in Writers, NEW r \in BOOLEAN, Finish(w, r), cond' = cond PROVE CopyInv'
    <2>1. ctl'[w].pc = "idle"
      BY <1>f, <1>o, IdleControl DEF Finish
    <2> QED BY <1>f, <1>o, <2>1, <1>w DEF Finish
  <1>1. ASSUME NEW w \in Writers, Sync(w) PROVE CopyInv'
    <2>1. ctl'[w].pc = "sync"
      BY <1>1, <1>o DEF Sync, Idle
    <2> QED BY <1>1, <1>o, <2>1, <1>w DEF Sync
  <1>2. ASSUME NEW w \in Writers, Read(w) PROVE CopyInv'
    <2>1. CASE Finish(w, FALSE)
      BY <1>2, <2>1, <1>f DEF Read
    <2>2. CASE ~Finish(w, FALSE)
      <3> DEFINE o == Head(ctl[w].left)
                 left == IF w = "deployment" /\ o = "submariner" /\ GlobalnetWanted
                         THEN <<"globalnet">> ELSE Tail(ctl[w].left)
      <3>1. ctl'[w].pc = "sync"
        <4>1. ctl' = [ctl EXCEPT ![w].left = left,
                                 ![w].found[For(w, o)] = @ \cup Finds(w, o)]
          BY <1>2, <2>2 DEF Read
        <4>2. ctl[w].pc = "sync"
          BY <1>2 DEF Read, At
        <4> HIDE DEF left, o
        <4> QED BY <4>1, <4>2, <1>o DEF Control
      <3> QED BY <1>2, <2>2, <1>o, <3>1, <1>w DEF Read
    <2> QED BY <2>1, <2>2
  <1>3. ASSUME NEW w \in Writers, Get(w) PROVE CopyInv'
    <2>1. CASE Done(w) \/ Fail(w)
      BY <1>3, <2>1, <1>f DEF Done, Fail, Retried, Get
    <2>2. CASE ~(Done(w) \/ Fail(w))
      <3>1. ctl'[w].base = cond
        BY <1>3, <2>2, <1>o DEF Get, Control
      <3> QED BY <1>3, <2>2, <1>o, <3>1, <1>w DEF Get
    <2> QED BY <2>1, <2>2
  <1>4. ASSUME NEW w \in Writers, Put(w) PROVE CopyInv'
    <2>1. /\ ctl'[w].pc = "idle" /\ stale' = Writing \ {w}
          /\ \A v \in Writers \ {w} : ctl'[v] = ctl[v]
      BY <1>4, <1>o, IdleControl DEF Put
    <2> QED BY <2>1, <1>o DEF CopyInv, Writing
  <1>5. ASSUME NEW w \in Writers, Conflict(w) PROVE CopyInv'
    <2>1. CASE Fail(w)
      BY <1>5, <2>1, <1>f DEF Fail, Conflict
    <2>2. CASE ~Fail(w)
      <3>1. ctl'[w].pc = "sync"
        BY <1>5, <2>2, <1>o DEF Conflict, Control
      <3> QED BY <1>5, <2>2, <1>o, <3>1, <1>w DEF Conflict
    <2> QED BY <2>1, <2>2
  <1>6. ASSUME NEW w \in Writers, PutFails(w) PROVE CopyInv'
    BY <1>6, <1>f DEF PutFails, Fail
  <1>7. ASSUME NEW process, Restart(process) PROVE CopyInv'
    <2>1. \A v \in Writers : ctl'[v] = Idle \/ (v \notin process /\ ctl'[v] = ctl[v])
      BY <1>7 DEF Restart
    <2>2. cond' = cond /\ stale' = stale \ process
      BY <1>7 DEF Restart
    <2> QED BY <2>1, <2>2, <1>o, IdleControl DEF CopyInv, Writing
  <1>8. CASE DeleteAddon
    BY <1>8, <1>o DEF DeleteAddon, CopyInv, Writing
  <1>9. CASE \/ UpgradeOCP \/ CreateAddon \/ ListEndpoints \/ OutageEnds
             \/ (\E w \in Writers : Resync(w)) \/ (\E o \in Objects : Change(o))
             \/ UNCHANGED vars
    <2>1. UNCHANGED <<ctl, stale, cond>>
      BY <1>9 DEF UpgradeOCP, CreateAddon, ListEndpoints, OutageEnds, Resync, Change, vars
    <2> QED BY <2>1, <1>o DEF CopyInv, Writing
  <1> QED
    BY <1>1, <1>2, <1>3, <1>4, <1>5, <1>6, <1>7, <1>8, <1>9 DEF Next, Step

LEMMA CopyCorrect == Spec => []CopyInv
  <1>1. ASSUME Init PROVE CopyInv
    <2>1. team \subseteq Writers
      BY <1>1, ReportsAssumption DEF ReportsAssumption, Init
    <2> QED BY <1>1, <2>1, IdleControl DEF Init, CopyInv, Writing
  <1> QED BY <1>1, CopyStep, TypesCorrect, PTL DEF Spec

-----------------------------------------------------------------------------
(* Every reachable state is well-typed: conditions consist of findings that *)
(* there can be, and only a writer in the middle of a write has a stale    *)
(* copy (addon/update_status.go).                                          *)
THEOREM ReportTypesCorrect == Spec => []TypeOK
  BY InvTypes, TypesCorrect, PTL

(* No writer undoes another's report, although each writes the whole status *)
(* (addon/update_status.go:26-64): its copy is the status, or its write is *)
(* refused.                                                                *)
THEOREM NoReportIsLost == Spec => NoLostReport
  <1> DEFINE Kept == \/ addon' # addon
                     \/ \E w \in Writers : \A t \in Types \ Own(w) : cond'[t] = cond[t]
  <1>2. ASSUME TypeInv, CopyInv, [Next]_vars PROVE Kept
    <2>1. CASE UNCHANGED cond
      <3>1. "gateways" \in Writers
        BY DEF Writers
      <3> QED BY <2>1, <3>1
    <2>2. CASE DeleteAddon
      BY <2>2 DEF DeleteAddon
    <2>3. ASSUME NEW w \in Writers, Put(w) PROVE Kept
      <3>1. cond' = WithConditions(w, cond)
        <4>1. w \in Writing \ stale
          BY <2>3 DEF Put, At, Writing
        <4> QED BY <1>2, <2>3, <4>1 DEF Put, Write, CopyInv
      <3> QED BY <3>1 DEF WithConditions
    <2>4. UNCHANGED cond \/ DeleteAddon \/ \E w \in Writers : Put(w)
      BY <1>2 DEF Next, Step, vars, Sync, Read, Get, Conflict, PutFails, Resync, Change,
         UpgradeOCP, CreateAddon, Restart, ListEndpoints, OutageEnds
    <2> QED BY <2>1, <2>2, <2>3, <2>4
  <1>3. TypeInv /\ CopyInv /\ [Next]_vars => [Kept]_vars
    BY <1>2
  <1> QED
    BY <1>3, CopyCorrect, TypesCorrect, PTL DEF Spec, NoLostReport

=============================================================================
