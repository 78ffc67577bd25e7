--------------------------- MODULE QuietReportsProofs ---------------------------
(***************************************************************************)
(* Why the conditions of StatusReports are current when nothing is queued. *)
(* The inductive invariant QuietInv says of each writer that what its sync *)
(* has found, with what it has left to look at, is what is the case now    *)
(* (PendingOf), and of one that is idle that its condition says so         *)
(* (QuietOf). In the order of the argument:                                *)
(*                                                                         *)
(*   1. a change of an object that a writer looks at, and handles, queues  *)
(*      it (Announced), and without one it finds the same (Steady);        *)
(*   2. a sync begins with all that is current left (ReadsAll), and a read *)
(*      moves what it finds from what is left to what is found (ReadMoves);*)
(*   3. every step preserves the invariant: the writer's own (OwnStep), and *)
(*      those of the others (OthersStep).                                  *)
(*                                                                         *)
(* What an operator that is defined by cases amounts to is stated once in  *)
(* Arms: tlapm's translation for Z3 takes two CASE expressions with the    *)
(* same first arm for the same, so no obligation may hold two of them.     *)
(***************************************************************************)
EXTENDS StatusReportsProofs

Reporters == {"gateways", "deployment", "connections"}
Topics(w) == Own(w) \ {"RouteAgentConnectionDegraded"}

(* The steps of a writer's syncs, and the objects whose changes it handles. *)
ReadsOf(w) ==
    CASE w = "gateways"    -> {"nodes"}
      [] w = "deployment"  -> Deployments \cup {"subscription", "submariner", "gateway",
                                 "routeagent", "metricsproxy", "globalnet"}
      [] w = "connections" -> {"submariner", "endpoints"}
Handled(w) ==
    CASE w = "gateways"    -> Workers
      [] w = "deployment"  -> Deployments \cup DaemonSets \cup {"subscription", "submariner"}
      [] w = "connections" -> Gateways \cup {"submariner"}

(* What a sync that has these objects left to look at will find in them.   *)
InLeft(o, left) == \E i \in 1..Len(left) : left[i] = o
Due(w, o) == IF w = "deployment" /\ o = "submariner" THEN CheckOptionals ELSE Finds(w, o)
ToFind(w, t, left) ==
    UNION {Due(w, o) : o \in {x \in ReadsOf(w) : InLeft(x, left) /\ For(w, x) = t}}
LeftOK(w, left) ==
    /\ \A i \in 1..Len(left) : left[i] \in ReadsOf(w)
    /\ w = "deployment" =>
          \A i \in 1..Len(left) : left[i] = "submariner" => i = Len(left)

(* A sync whose writer is not queued again finds, in what it has seen and   *)
(* what it has left to see, what is current.                               *)
PendingOf(w) ==
    ctl[w].pc # "idle" /\ w \notin queued =>
       \A t \in Topics(w) :
          Shown(t, ctl[w].found[t] \cup ToFind(w, t, ctl[w].left)) = Shown(t, Current(t))
QuietOf(w) ==
    At(w, "idle") /\ w \notin queued /\ Speaks(w) =>
       \A t \in Topics(w) :
          \/ cond[t] = Absent
          \/ t = "GatewayNodesLabeled" /\ cond[t] = {<<"ocp", "unsupported">>}
          \/ Shown(t, cond[t]) = Shown(t, Current(t))

(* The config controller reports nothing but an unsupported version.       *)
VersionInv ==
    ctl["version"].pc # "idle" =>
       LET found == ctl["version"].found["GatewayNodesLabeled"] IN
       \/ ctl["version"].left = <<"ocp">> /\ found = {}
       \/ ctl["version"].left = <<>> /\ found = {<<"ocp", "unsupported">>}
AddonInv == addon = "none" => cond = NoConds
LeftInv == \A w \in Reporters : LeftOK(w, ctl[w].left)

QuietInv ==
    /\ LeftInv /\ VersionInv /\ AddonInv
    /\ \A w \in team \cap Reporters : PendingOf(w) /\ QuietOf(w)

-----------------------------------------------------------------------------
LEMMA OwnTopics ==
    /\ Own("gateways") = {"GatewayNodesLabeled"} /\ Own("version") = {"GatewayNodesLabeled"}
    /\ Own("deployment") = {"AgentDegraded"} /\ Own("broker") = {"BrokerCfgApplied"}
    /\ Own("connections") = {"ConnectionDegraded", "RouteAgentConnectionDegraded"}
    /\ Topics("gateways") = {"GatewayNodesLabeled"}
    /\ Topics("deployment") = {"AgentDegraded"}
    /\ Topics("connections") = {"ConnectionDegraded"}
    /\ \A o : /\ For("gateways", o) = "GatewayNodesLabeled"
              /\ For("version", o) = "GatewayNodesLabeled"
              /\ For("deployment", o) = "AgentDegraded"
    /\ For("connections", "submariner") = "ConnectionDegraded"
    /\ For("connections", "endpoints") = "RouteAgentConnectionDegraded"
  <1>1. /\ Own("gateways") = {"GatewayNodesLabeled"} /\ Own("version") = {"GatewayNodesLabeled"}
        /\ Own("deployment") = {"AgentDegraded"} /\ Own("broker") = {"BrokerCfgApplied"}
        /\ Own("connections") = {"ConnectionDegraded", "RouteAgentConnectionDegraded"}
    BY DEF Own
  <1>2. /\ (CHOOSE t \in {"GatewayNodesLabeled"} : TRUE) = "GatewayNodesLabeled"
        /\ (CHOOSE t \in {"AgentDegraded"} : TRUE) = "AgentDegraded"
    OBVIOUS
  <1>3. \A o : /\ For("gateways", o) = "GatewayNodesLabeled"
               /\ For("version", o) = "GatewayNodesLabeled"
               /\ For("deployment", o) = "AgentDegraded"
    <2>1. ASSUME NEW o PROVE For("gateways", o) = CHOOSE t \in Own("gateways") : TRUE
      BY DEF For
    <2>2. ASSUME NEW o PROVE For("version", o) = CHOOSE t \in Own("version") : TRUE
      BY DEF For
    <2>3. ASSUME NEW o PROVE For("deployment", o) = CHOOSE t \in Own("deployment") : TRUE
      BY DEF For
    <2> QED BY <1>1, <1>2, <2>1, <2>2, <2>3
  <1>4. For("connections", "submariner") = "ConnectionDegraded"
    BY DEF For
  <1>5. For("connections", "endpoints") = "RouteAgentConnectionDegraded"
    BY DEF For
  <1> QED
    BY <1>1, <1>3, <1>4, <1>5 DEF Topics

(* An object that a writer handles does not change without queuing it.     *)
LEMMA Announced ==
    ASSUME TypeInv, [Next]_vars, NEW w \in team \cap Reporters, w \notin queued',
           NEW o \in Handled(w)
    PROVE  object'[o] = object[o]
  <1>e. o # "endpoints"
    <2>1. "endpoints" \notin Nodes \cup Gateways
      BY ReportsAssumption DEF ReportsAssumption, Named
    <2> QED
      BY <2>1, ReportsAssumption DEF ReportsAssumption, Handled, Reporters, Deployments, DaemonSets
  <1>1. ASSUME NEW p \in Objects, Change(p) PROVE object'[o] = object[o]
    <2>1. w \notin Handlers(p)
      BY <1>1 DEF Change
    <2>2. o # p
      <3>1. CASE w = "gateways"
        BY <3>1, <2>1 DEF Handled, Handlers, GatewaysHandles
      <3>2. CASE w = "deployment"
        BY <3>2, <2>1 DEF Handled, Handlers, DeploymentHandles
      <3>3. CASE w = "connections"
        BY <3>3, <2>1 DEF Handled, Handlers, ConnectionsHandles
      <3> QED BY <3>1, <3>2, <3>3 DEF Reporters
    <2>3. \E x : object' = [object EXCEPT ![p] = x]
      BY <1>1 DEF Change
    <2> QED BY <2>2, <2>3
  <1>2. ASSUME NEW process, Restart(process) PROVE object'[o] = object[o]
    BY <1>2, <1>e DEF Restart
  <1>3. CASE ListEndpoints
    BY <1>3, <1>e DEF ListEndpoints
  <1>4. \/ UNCHANGED object \/ ListEndpoints
        \/ \E p \in Objects : Change(p)
        \/ Restart(Spoke) \/ Restart({"broker"})
    BY DEF Next, Step, vars, world, Sync, Read, Get, Put, Conflict, PutFails, Resync,
       UpgradeOCP, DeleteAddon, CreateAddon, OutageEnds
  <1> QED
    BY <1>1, <1>2, <1>3, <1>4

(* The arms of the operators that are defined by cases.                    *)
FindsArms ==
    \A w : /\ Finds(w, "nodes") = GatewayNodes
           /\ Finds(w, "ocp") = UnsupportedVersion
           /\ Finds(w, "subscription") = CheckCSV
           /\ \A d \in Deployments : Finds(w, d) = CheckDeployment(d)
           /\ Finds(w, "gateway") = CheckGatewayDaemonSet
           /\ Finds(w, "routeagent") = CheckRouteAgentDaemonSet
           /\ Finds(w, "metricsproxy") = CheckMetricsProxyDaemonSet
           /\ Finds(w, "globalnet") = CheckGlobalnetDaemonSet
           /\ Finds(w, "submariner") = IF w = "connections" THEN CheckSubmarinerConnections ELSE {}
CurrentArms ==
    /\ Current("GatewayNodesLabeled") = GatewayNodes
    /\ Current("AgentDegraded")
          = CheckCSV \cup CheckDeployments \cup CheckDaemonSets \cup CheckOptionals
    /\ Current("ConnectionDegraded") = CheckSubmarinerConnections
SpeaksArms ==
    /\ Speaks("gateways")
    /\ Speaks("deployment") <=> object["subscription"] # "none"
    /\ Speaks("connections") <=> object["submariner"] # "none"

LEMMA Arms == /\ FindsArms /\ CurrentArms /\ SpeaksArms
              /\ FindsArms' /\ CurrentArms' /\ SpeaksArms'
  <1>1. FindsArms
    <2> SUFFICES ASSUME NEW w
                 PROVE  /\ Finds(w, "nodes") = GatewayNodes
                        /\ Finds(w, "ocp") = UnsupportedVersion
                        /\ Finds(w, "subscription") = CheckCSV
                        /\ \A d \in Deployments : Finds(w, d) = CheckDeployment(d)
                        /\ Finds(w, "gateway") = CheckGatewayDaemonSet
                        /\ Finds(w, "routeagent") = CheckRouteAgentDaemonSet
                        /\ Finds(w, "metricsproxy") = CheckMetricsProxyDaemonSet
                        /\ Finds(w, "globalnet") = CheckGlobalnetDaemonSet
                        /\ Finds(w, "submariner")
                              = IF w = "connections" THEN CheckSubmarinerConnections ELSE {}
      BY DEF FindsArms
    <2>1. ASSUME NEW d \in Deployments PROVE Finds(w, d) = CheckDeployment(d)
      BY DEF Finds, Deployments
    <2>2. Finds(w, "nodes") = GatewayNodes
      BY DEF Finds, Deployments
    <2>3. Finds(w, "ocp") = UnsupportedVersion
      BY DEF Finds, Deployments
    <2>4. Finds(w, "subscription") = CheckCSV
      BY DEF Finds, Deployments
    <2>5. Finds(w, "gateway") = CheckGatewayDaemonSet
      BY DEF Finds, Deployments
    <2>6. Finds(w, "routeagent") = CheckRouteAgentDaemonSet
      BY DEF Finds, Deployments
    <2>7. Finds(w, "metricsproxy") = CheckMetricsProxyDaemonSet
      BY DEF Finds, Deployments
    <2>8. Finds(w, "globalnet") = CheckGlobalnetDaemonSet
      BY DEF Finds, Deployments
    <2>9. Finds(w, "submariner") = IF w = "connections" THEN CheckSubmarinerConnections ELSE {}
      BY DEF Finds, Deployments
    <2> QED BY <2>1, <2>2, <2>3, <2>4, <2>5, <2>6, <2>7, <2>8, <2>9
  <1>2. CurrentArms
    <2>1. Current("GatewayNodesLabeled") = GatewayNodes
      BY DEF Current
    <2>2. Current("AgentDegraded")
             = CheckCSV \cup CheckDeployments \cup CheckDaemonSets \cup CheckOptionals
      BY DEF Current
    <2>3. Current("ConnectionDegraded") = CheckSubmarinerConnections
      BY DEF Current
    <2> QED BY <2>1, <2>2, <2>3 DEF CurrentArms
  <1>3. SpeaksArms
    <2>1. Speaks("gateways")
      BY DEF Speaks
    <2>2. Speaks("deployment") <=> object["subscription"] # "none"
      BY DEF Speaks
    <2>3. Speaks("connections") <=> object["submariner"] # "none"
      BY DEF Speaks
    <2> QED BY <2>1, <2>2, <2>3 DEF SpeaksArms
  <1> QED BY <1>1, <1>2, <1>3, PTL

(* As long as the objects that a writer handles do not change, it would     *)
(* find the same.                                                          *)
LEMMA Steady ==
    ASSUME NEW w \in Reporters, \A o \in Handled(w) : object'[o] = object[o],
           NEW t \in Topics(w)
    PROVE  /\ Shown(t, Current(t)') = Shown(t, Current(t))
           /\ Speaks(w)' => Speaks(w)
           /\ \A o \in ReadsOf(w) :
                 For(w, o) = t => Shown(t, Due(w, o)') = Shown(t, Due(w, o))
  <1>f. ASSUME NEW o \in Handled(w), NEW bad PROVE Found(o, bad)' = Found(o, bad)
    BY DEF Found
  <1>1. CASE w = "gateways"
    <2>1. t = "GatewayNodesLabeled" /\ Handled(w) = Workers
      BY <1>1, OwnTopics DEF Handled
    <2>2. Shown(t, GatewayNodes) = UNION {Found(n, {"true"}) : n \in Workers}
      BY <2>1, ReportsAssumption DEF ReportsAssumption, Shown, GatewayNodes, Found
    <2>3. Shown(t, GatewayNodes') = UNION {Found(n, {"true"})' : n \in Workers}
      BY <2>1, ReportsAssumption DEF ReportsAssumption, Shown, GatewayNodes, Found
    <2>4. Shown(t, GatewayNodes') = Shown(t, GatewayNodes)
      <3>1. \A n \in Workers : Found(n, {"true"})' = Found(n, {"true"})
        BY <2>1, <1>f
      <3>2. UNION {Found(n, {"true"})' : n \in Workers} = UNION {Found(n, {"true"}) : n \in Workers}
        BY <3>1
      <3> QED BY <2>2, <2>3, <3>2
    <2>5. Current(t) = GatewayNodes /\ Current(t)' = GatewayNodes'
      BY <2>1, Arms DEF CurrentArms
    <2>6. ReadsOf(w) = {"nodes"}
      BY <1>1 DEF ReadsOf
    <2>7. Due(w, "nodes") = GatewayNodes /\ Due(w, "nodes")' = GatewayNodes'
      BY <1>1, Arms DEF Due, FindsArms
    <2>8. Speaks(w)
      BY <1>1, Arms DEF SpeaksArms
    <2> QED BY <2>4, <2>5, <2>6, <2>7, <2>8
  <1>2. CASE w = "deployment"
    <2>1. t = "AgentDegraded"
          /\ Handled(w) = Deployments \cup DaemonSets \cup {"subscription", "submariner"}
      BY <1>2, OwnTopics DEF Handled
    <2>2. CheckCSV' = CheckCSV /\ \A d \in Deployments : CheckDeployment(d)' = CheckDeployment(d)
      BY <1>f, <2>1 DEF CheckCSV, CheckDeployment
    <2>3. /\ CheckGatewayDaemonSet' = CheckGatewayDaemonSet
          /\ CheckRouteAgentDaemonSet' = CheckRouteAgentDaemonSet
          /\ CheckMetricsProxyDaemonSet' = CheckMetricsProxyDaemonSet
          /\ CheckGlobalnetDaemonSet' = CheckGlobalnetDaemonSet
      BY <1>f, <2>1 DEF CheckGatewayDaemonSet, CheckRouteAgentDaemonSet, DaemonSets,
         CheckMetricsProxyDaemonSet, CheckGlobalnetDaemonSet
    <2>4. CheckOptionals' = CheckOptionals
      BY <2>1, <2>3 DEF CheckOptionals, GlobalnetWanted
    <2>5. CheckDeployments' = CheckDeployments /\ CheckDaemonSets' = CheckDaemonSets
      BY <2>2, <2>3 DEF CheckDeployments, CheckDaemonSets
    <2>6. Current(t)' = Current(t)
      BY <2>1, <2>2, <2>4, <2>5, Arms DEF CurrentArms
    <2>7. ASSUME NEW o \in ReadsOf(w) PROVE Due(w, o)' = Due(w, o)
      <3>1. CASE o \in Deployments
        <4>1. o # "submariner"
          BY <3>1 DEF Deployments
        <4>2. Due(w, o) = CheckDeployment(o) /\ Due(w, o)' = CheckDeployment(o)'
          BY <3>1, <4>1, Arms DEF Due, FindsArms
        <4> QED BY <4>2, <3>1, <2>2
      <3>2. CASE o = "submariner"
        BY <1>2, <3>2, <2>4 DEF Due
      <3>3. CASE o = "subscription"
        BY <3>3, <2>2, Arms DEF Due, FindsArms
      <3>4. CASE o \in {"gateway", "routeagent", "metricsproxy", "globalnet"}
        BY <3>4, <2>3, Arms DEF Due, FindsArms
      <3> QED BY <1>2, <3>1, <3>2, <3>3, <3>4 DEF ReadsOf
    <2>8. Speaks(w)' => Speaks(w)
      BY <1>2, <2>1, Arms DEF SpeaksArms
    <2> QED BY <2>6, <2>7, <2>8
  <1>3. CASE w = "connections"
    <2>1. t = "ConnectionDegraded" /\ Handled(w) = Gateways \cup {"submariner"}
      BY <1>3, OwnTopics DEF Handled
    <2>2. CheckSubmarinerConnections' = CheckSubmarinerConnections
      BY <1>f, <2>1 DEF CheckSubmarinerConnections
    <2>3. Current(t)' = Current(t)
      BY <2>1, <2>2, Arms DEF CurrentArms
    <2>4. ASSUME NEW o \in ReadsOf(w), For(w, o) = t PROVE Due(w, o)' = Due(w, o)
      <3>1. o = "submariner"
        BY <2>1, <1>3, <2>4, OwnTopics DEF ReadsOf
      <3> QED BY <1>3, <2>2, <3>1, Arms DEF Due, FindsArms
    <2>5. Speaks(w)' => Speaks(w)
      BY <1>3, <2>1, Arms DEF SpeaksArms
    <2> QED BY <2>3, <2>4, <2>5
  <1> QED
    BY <1>1, <1>2, <1>3 DEF Reporters

-----------------------------------------------------------------------------
(* A sync that begins will find what is current.                           *)
LEMMA ReadsAll ==
    ASSUME NEW w \in Reporters
    PROVE  /\ \A t \in Topics(w) : ToFind(w, t, Reads(w)) = Current(t)
           /\ LeftOK(w, Reads(w))
  <1>1. CASE w = "gateways"
    <2>1. Reads(w) = <<"nodes">>
      BY <1>1 DEF Reads
    <2>2. Len(Reads(w)) = 1 /\ Reads(w)[1] = "nodes"
      BY <2>1
    <2>3. InLeft("nodes", Reads(w))
      BY <2>2 DEF InLeft
    <2>4. Due(w, "nodes") = GatewayNodes /\ ReadsOf(w) = {"nodes"}
      BY <1>1, Arms DEF Due, FindsArms, ReadsOf
    <2>5. ToFind(w, "GatewayNodesLabeled", Reads(w)) = GatewayNodes
      BY <1>1, <2>3, <2>4, OwnTopics DEF ToFind
    <2>6. Current("GatewayNodesLabeled") = GatewayNodes
      BY Arms DEF CurrentArms
    <2>7. \A i \in 1..Len(Reads(w)) : i = 1
      BY <2>2
    <2> QED BY <1>1, <2>2, <2>4, <2>5, <2>6, <2>7, OwnTopics DEF LeftOK
  <1>2. CASE w = "deployment"
    <2>1. Reads(w) = <<"subscription", "operator", "lighthouse_agent",
                       "lighthouse_coredns", "gateway", "routeagent",
                       "metricsproxy", "submariner">>
      BY <1>2 DEF Reads
    <2>2. /\ Len(Reads(w)) = 8 /\ Reads(w)[1] = "subscription"
          /\ Reads(w)[2] = "operator" /\ Reads(w)[3] = "lighthouse_agent"
          /\ Reads(w)[4] = "lighthouse_coredns" /\ Reads(w)[5] = "gateway"
          /\ Reads(w)[6] = "routeagent" /\ Reads(w)[7] = "metricsproxy"
          /\ Reads(w)[8] = "submariner"
      BY <2>1
    <2>3. 1..8 = {1, 2, 3, 4, 5, 6, 7, 8}
      OBVIOUS
    <2>r. ReadsOf(w) = Deployments \cup {"subscription", "submariner", "gateway",
                                         "routeagent", "metricsproxy", "globalnet"}
      BY <1>2 DEF ReadsOf
    <2>4. /\ \A o \in Deployments \cup {"subscription", "gateway", "routeagent",
                                       "metricsproxy", "submariner"} : InLeft(o, Reads(w))
          /\ ~InLeft("globalnet", Reads(w))
      BY <2>2, <2>3 DEF InLeft, Deployments
    <2>5. \A o \in ReadsOf(w) : For(w, o) = "AgentDegraded"
      BY <1>2, OwnTopics
    <2>6. /\ Due(w, "subscription") = CheckCSV /\ Due(w, "gateway") = CheckGatewayDaemonSet
          /\ Due(w, "routeagent") = CheckRouteAgentDaemonSet
          /\ Due(w, "metricsproxy") = CheckMetricsProxyDaemonSet
          /\ Due(w, "submariner") = CheckOptionals
          /\ \A d \in Deployments : Due(w, d) = CheckDeployment(d)
      BY <1>2, Arms DEF Due, FindsArms, Deployments
    <2>7. {x \in ReadsOf(w) : InLeft(x, Reads(w)) /\ For(w, x) = "AgentDegraded"}
             = Deployments \cup {"subscription", "gateway", "routeagent",
                                "metricsproxy", "submariner"}
      BY <2>r, <2>4, <2>5
    <2>8. ToFind(w, "AgentDegraded", Reads(w))
             = CheckCSV \cup CheckDeployments \cup CheckDaemonSets \cup CheckOptionals
      <3>1. ToFind(w, "AgentDegraded", Reads(w))
               = UNION {Due(w, o) : o \in Deployments \cup {"subscription", "gateway",
                                     "routeagent", "metricsproxy", "submariner"}}
        BY <2>7 DEF ToFind
      <3>2. UNION {Due(w, o) : o \in Deployments \cup {"subscription", "gateway",
                                "routeagent", "metricsproxy", "submariner"}}
               = (UNION {Due(w, o) : o \in Deployments})
                    \cup Due(w, "subscription") \cup Due(w, "gateway")
                    \cup Due(w, "routeagent") \cup Due(w, "metricsproxy")
                    \cup Due(w, "submariner")
        OBVIOUS
      <3>3. UNION {Due(w, o) : o \in Deployments} = CheckDeployments
        BY <2>6 DEF CheckDeployments
      <3> QED BY <2>6, <3>1, <3>2, <3>3 DEF CheckDaemonSets
    <2>9. Current("AgentDegraded")
             = CheckCSV \cup CheckDeployments \cup CheckDaemonSets \cup CheckOptionals
      BY Arms DEF CurrentArms
    <2>10. \A i \in 1..Len(Reads(w)) : Reads(w)[i] \in ReadsOf(w)
      BY <2>r, <2>2, <2>3 DEF Deployments
    <2>11. \A i \in 1..Len(Reads(w)) : Reads(w)[i] = "submariner" => i = 8
      BY <2>2, <2>3
    <2>12. LeftOK(w, Reads(w))
      BY <2>2, <2>10, <2>11 DEF LeftOK
    <2> QED BY <1>2, <2>8, <2>9, <2>12, OwnTopics
  <1>3. CASE w = "connections"
    <2>1. Reads(w) = <<"submariner", "endpoints">>
      BY <1>3 DEF Reads
    <2>2. Len(Reads(w)) = 2 /\ Reads(w)[1] = "submariner" /\ Reads(w)[2] = "endpoints"
      BY <2>1
    <2>3. InLeft("submariner", Reads(w))
      BY <2>2 DEF InLeft
    <2>r. ReadsOf(w) = {"submariner", "endpoints"}
      BY <1>3 DEF ReadsOf
    <2>4. Due(w, "submariner") = CheckSubmarinerConnections
      BY <1>3, Arms DEF Due, FindsArms
    <2>5. {x \in ReadsOf(w) : InLeft(x, Reads(w)) /\ For(w, x) = "ConnectionDegraded"}
             = {"submariner"}
      BY <2>r, <1>3, <2>3, OwnTopics
    <2>6. ToFind(w, "ConnectionDegraded", Reads(w)) = CheckSubmarinerConnections
      BY <2>4, <2>5 DEF ToFind
    <2>7. Current("ConnectionDegraded") = CheckSubmarinerConnections
      BY Arms DEF CurrentArms
    <2>8. \A i \in 1..Len(Reads(w)) : i \in {1, 2}
      BY <2>2
    <2> QED BY <1>3, <2>r, <2>2, <2>6, <2>7, <2>8, OwnTopics DEF LeftOK
  <1> QED
    BY <1>1, <1>2, <1>3 DEF Reporters

(* Reading the next object moves what is in it from one to the other.      *)
Rest(w, left) ==
    IF w = "deployment" /\ Head(left) = "submariner" /\ GlobalnetWanted
    THEN <<"globalnet">> ELSE Tail(left)
Seen(w, t, o) == IF For(w, o) = t THEN Finds(w, o) ELSE {}

LEMMA ReadMoves ==
    ASSUME NEW w \in Reporters, NEW left \in Seq(ReadSteps), LeftOK(w, left), left # <<>>,
           NEW t \in Topics(w)
    PROVE  /\ LeftOK(w, Rest(w, left))
           /\ ToFind(w, t, left) = ToFind(w, t, Rest(w, left)) \cup Seen(w, t, Head(left))
  <1> DEFINE o == Head(left)
  <1> DEFINE rest == Rest(w, left)
  <1>2. /\ o = left[1] /\ Len(left) \in Nat \ {0}
        /\ Len(Tail(left)) = Len(left) - 1
        /\ \A i \in 1..Len(Tail(left)) : Tail(left)[i] = left[i + 1]
    BY HeadTailProperties
  <1>3. \A i \in 1..Len(left) : left[i] \in ReadsOf(w)
    BY DEF LeftOK
  <1>4. o \in ReadsOf(w)
    BY <1>2, <1>3
  <1>6. CASE w = "deployment" /\ o = "submariner" /\ GlobalnetWanted
    <2>1. rest = <<"globalnet">>
      BY <1>6 DEF Rest
    <2>2. Len(rest) = 1 /\ rest[1] = "globalnet"
      <3>1. Len(<<"globalnet">>) = 1 /\ <<"globalnet">>[1] = "globalnet"
        OBVIOUS
      <3> QED BY <2>1, <3>1
    <2>3. Len(left) = 1
      <3>1. 1 \in 1..Len(left) /\ left[1] = "submariner"
        BY <1>2, <1>6
      <3> QED BY <3>1, <1>6 DEF LeftOK
    <2>4. \A x : InLeft(x, left) <=> x = "submariner"
      BY <2>3, <1>2, <1>6 DEF InLeft
    <2>5. \A x : InLeft(x, rest) <=> x = "globalnet"
      BY <2>2 DEF InLeft
    <2>6. t = "AgentDegraded" /\ \A x : For(w, x) = t
      BY <1>6, OwnTopics
    <2>7. Due(w, "submariner") = CheckGlobalnetDaemonSet
          /\ Due(w, "globalnet") = CheckGlobalnetDaemonSet
          /\ Finds(w, "submariner") = {}
      BY <1>6, Arms DEF Due, FindsArms, CheckOptionals
    <2>r. "submariner" \in ReadsOf(w) /\ "globalnet" \in ReadsOf(w)
      BY <1>6 DEF ReadsOf
    <2>8. ToFind(w, t, left) = CheckGlobalnetDaemonSet
      BY <2>4, <2>6, <2>7, <2>r DEF ToFind
    <2>9. ToFind(w, t, rest) = CheckGlobalnetDaemonSet
      <3> HIDE DEF rest
      <3> QED BY <2>5, <2>6, <2>7, <2>r DEF ToFind
    <2>10. LeftOK(w, rest)
      BY <2>2, <2>r DEF LeftOK
    <2>11. Seen(w, t, o) = {}
      BY <2>7, <1>6 DEF Seen
    <2> QED BY <2>8, <2>9, <2>10, <2>11
  <1>7. CASE ~(w = "deployment" /\ o = "submariner" /\ GlobalnetWanted)
    <2>1. rest = Tail(left)
      BY <1>7 DEF Rest
    <2>2. \A x : InLeft(x, left) <=> x = o \/ InLeft(x, rest)
      <3> SUFFICES ASSUME NEW x PROVE InLeft(x, left) <=> x = o \/ InLeft(x, rest)
        OBVIOUS
      <3>1. ASSUME InLeft(x, rest) PROVE InLeft(x, left)
        <4>1. PICK i \in 1..Len(Tail(left)) : Tail(left)[i] = x
          BY <3>1, <2>1 DEF InLeft
        <4> QED BY <4>1, <1>2 DEF InLeft
      <3>2. ASSUME InLeft(x, left), x # o PROVE InLeft(x, rest)
        <4>1. PICK i \in 1..Len(left) : left[i] = x
          BY <3>2 DEF InLeft
        <4>2. i - 1 \in 1..Len(Tail(left)) /\ Tail(left)[i - 1] = x
          BY <4>1, <3>2, <1>2
        <4> QED BY <4>2, <2>1 DEF InLeft
      <3>3. InLeft(o, left)
        BY <1>2 DEF InLeft
      <3> HIDE DEF o
      <3> QED BY <3>1, <3>2, <3>3
    <2>3. Due(w, o) = Finds(w, o)
      <3>1. CASE w = "deployment" /\ o = "submariner"
        BY <3>1, <1>7, Arms DEF Due, CheckOptionals, FindsArms
      <3>2. CASE ~(w = "deployment" /\ o = "submariner")
        <4> HIDE DEF o
        <4> QED BY <3>2 DEF Due
      <3> QED BY <3>1, <3>2
    <2>4. ToFind(w, t, left) = ToFind(w, t, rest) \cup (IF For(w, o) = t THEN Due(w, o) ELSE {})
      <3> HIDE DEF o, rest
      <3> QED BY <2>2, <1>4 DEF ToFind
    <2>6. \A i \in 1..Len(rest) : rest[i] \in ReadsOf(w)
      <3>1. ASSUME NEW i \in 1..Len(Tail(left)) PROVE i + 1 \in 1..Len(left)
        BY <1>2
      <3>2. \A i \in 1..Len(Tail(left)) : Tail(left)[i] \in ReadsOf(w)
        BY <3>1, <1>2, <1>3
      <3> QED BY <2>1, <3>2
    <2>7. ASSUME w = "deployment", NEW i \in 1..Len(rest), rest[i] = "submariner"
          PROVE  i = Len(rest)
      <3>1. i + 1 \in 1..Len(left) /\ left[i + 1] = "submariner"
        BY <2>1, <2>7, <1>2
      <3>2. i + 1 = Len(left)
        BY <2>7, <3>1 DEF LeftOK
      <3> QED BY <2>1, <3>2, <1>2
    <2>8. LeftOK(w, rest)
      BY <2>6, <2>7 DEF LeftOK
    <2> QED BY <2>3, <2>4, <2>8 DEF Seen
  <1> QED
    BY <1>6, <1>7

-----------------------------------------------------------------------------
(* The same, before and after a step that changes nothing it handles.      *)
LEMMA FindsSame ==
    ASSUME NEW w \in Reporters, \A o \in Handled(w) : object'[o] = object[o],
           NEW t \in Topics(w), NEW left, NEW found
    PROVE  Shown(t, found \cup ToFind(w, t, left)') = Shown(t, found \cup ToFind(w, t, left))
  <1>1. \A f : f \in Shown(t, found \cup ToFind(w, t, left)') <=>
           \/ f \in Shown(t, found)
           \/ \E o \in ReadsOf(w) :
                 InLeft(o, left) /\ For(w, o) = t /\ f \in Shown(t, Due(w, o)')
    BY DEF Shown, ToFind
  <1>2. \A f : f \in Shown(t, found \cup ToFind(w, t, left)) <=>
           \/ f \in Shown(t, found)
           \/ \E o \in ReadsOf(w) :
                 InLeft(o, left) /\ For(w, o) = t /\ f \in Shown(t, Due(w, o))
    BY DEF Shown, ToFind
  <1>3. \A o \in ReadsOf(w) : For(w, o) = t => Shown(t, Due(w, o)') = Shown(t, Due(w, o))
    BY Steady
  <1>4. \A f : f \in Shown(t, found \cup ToFind(w, t, left)')
                  <=> f \in Shown(t, found \cup ToFind(w, t, left))
    BY <1>1, <1>2, <1>3
  <1>5. \A A, B : (\A f : f \in A <=> f \in B) => A = B
    OBVIOUS
  <1> QED
    BY <1>4 DEF Shown

(* What a step may do to a writer's conditions: leave them, remove them, or *)
(* report the unsupported version.                                         *)
Condoned(t) ==
    \/ cond'[t] = cond[t] \/ cond'[t] = Absent
    \/ t = "GatewayNodesLabeled" /\ cond'[t] = {<<"ocp", "unsupported">>}

(* Steps of others do not disturb a writer that they do not queue.         *)
LEMMA Untouched ==
    ASSUME TypeInv, [Next]_vars, NEW w \in team \cap Reporters, PendingOf(w), QuietOf(w),
           ctl'[w] = ctl[w], team' = team, w \in queued => w \in queued',
           \A t \in Topics(w) : Condoned(t)
    PROVE  PendingOf(w)' /\ QuietOf(w)'
  <1>1. CASE w \in queued'
    BY <1>1 DEF PendingOf, QuietOf
  <1>2. CASE w \notin queued'
    <2>1. \A o \in Handled(w) : object'[o] = object[o]
      BY <1>2, Announced
    <2>2. ASSUME ctl[w].pc # "idle"
          PROVE  \A t \in Topics(w) :
                    Shown(t, ctl[w].found[t] \cup ToFind(w, t, ctl[w].left)')
                       = Shown(t, Current(t)')
      <3> SUFFICES ASSUME NEW t \in Topics(w)
                   PROVE  Shown(t, ctl[w].found[t] \cup ToFind(w, t, ctl[w].left)')
                             = Shown(t, Current(t)')
        OBVIOUS
      <3>1. Shown(t, ctl[w].found[t] \cup ToFind(w, t, ctl[w].left)) = Shown(t, Current(t))
        BY <1>2, <2>2 DEF PendingOf
      <3>2. PICK left : left = ctl[w].left
        OBVIOUS
      <3>3. ToFind(w, t, ctl[w].left)' = ToFind(w, t, left)'
        BY <3>2 DEF ToFind, InLeft
      <3>4. Shown(t, Current(t)') = Shown(t, Current(t))
        BY <2>1, Steady
      <3>5. Shown(t, ctl[w].found[t] \cup ToFind(w, t, left)')
               = Shown(t, ctl[w].found[t] \cup ToFind(w, t, left))
        BY <2>1, FindsSame
      <3> QED BY <3>1, <3>2, <3>3, <3>4, <3>5
    <2>3. PendingOf(w)'
      <3> SUFFICES ASSUME ctl[w].pc # "idle", NEW t \in Topics(w)
                   PROVE  Shown(t, ctl[w].found[t] \cup ToFind(w, t, ctl[w].left))'
                             = Shown(t, Current(t))'
        BY DEF PendingOf
      <3>1. Shown(t, ctl[w].found[t] \cup ToFind(w, t, ctl[w].left))'
               = Shown(t, ctl[w].found[t] \cup ToFind(w, t, ctl[w].left)')
        BY DEF Shown
      <3>2. Shown(t, Current(t))' = Shown(t, Current(t)')
        BY DEF Shown
      <3> QED BY <2>2, <3>1, <3>2
    <2>4. QuietOf(w)'
      <3> SUFFICES ASSUME At(w, "idle")', Speaks(w)', NEW t \in Topics(w)
                   PROVE  \/ cond'[t] = Absent
                          \/ t = "GatewayNodesLabeled" /\ cond'[t] = {<<"ocp", "unsupported">>}
                          \/ Shown(t, cond'[t]) = Shown(t, Current(t)')
        BY DEF QuietOf, Shown
      <3>1. At(w, "idle") /\ w \notin queued
        BY <1>2 DEF At
      <3>2. Speaks(w) /\ Shown(t, Current(t)') = Shown(t, Current(t))
        BY <2>1, Steady
      <3>3. \/ cond[t] = Absent
            \/ t = "GatewayNodesLabeled" /\ cond[t] = {<<"ocp", "unsupported">>}
            \/ Shown(t, cond[t]) = Shown(t, Current(t))
        BY <3>1, <3>2 DEF QuietOf
      <3> QED BY <3>2, <3>3 DEF Condoned
    <2> QED BY <2>3, <2>4
  <1> QED BY <1>1, <1>2

-----------------------------------------------------------------------------
LEMMA TeamStays == ASSUME [Next]_vars PROVE team' = team
  BY DEF Next, vars, Step, Sync, Read, Get, Put, Conflict, PutFails, Resync, Change,
     UpgradeOCP, DeleteAddon, CreateAddon, Restart, ListEndpoints, OutageEnds

(* What a step of a sync does to the writer's own record.                   *)
Begins(w) ==
    /\ ctl'[w].pc = "sync" /\ ctl'[w].left = Reads(w) /\ ctl'[w].found = Nothing
    /\ UNCHANGED cond
Reading(w) ==
    /\ ctl[w].pc = "sync" /\ ctl[w].left # <<>> /\ ~Ends(w, Head(ctl[w].left))
    /\ ctl'[w].pc = "sync" /\ ctl'[w].left = Rest(w, ctl[w].left)
    /\ \A t \in Types :
          ctl'[w].found[t] = ctl[w].found[t] \cup Seen(w, t, Head(ctl[w].left))
    /\ UNCHANGED <<queued, cond>>
Ending(w) ==
    /\ ctl'[w] = Idle /\ ctl[w].pc = "sync" /\ ctl[w].left # <<>>
    /\ Ends(w, Head(ctl[w].left)) /\ UNCHANGED <<queued, cond>>
Content(w) ==
    /\ ctl'[w] = Idle /\ ctl[w].pc = "sync" /\ ctl[w].left = <<>>
    /\ addon = "none" \/ WithConditions(w, cond) = cond
    /\ queued \subseteq queued' /\ UNCHANGED cond
Turning(w) ==
    /\ ctl[w].pc # "idle" /\ ctl'[w].pc # "idle" /\ ctl'[w].left = ctl[w].left
    /\ ctl'[w].found = ctl[w].found /\ UNCHANGED <<queued, cond>>
Failing(w) ==
    ctl'[w] = Idle /\ (w = "broker" \/ w \in queued') /\ UNCHANGED cond
Written(w) ==
    /\ ctl[w].pc = "put" /\ ctl[w].left = <<>> /\ ctl'[w] = Idle /\ w \in Writing \ stale
    /\ cond' = WithConditions(w, ctl[w].base) /\ queued \subseteq queued'
    /\ addon # "none"

LEMMA StepMoves ==
    ASSUME TypeInv, NEW w \in Writers, Step(w)
    PROVE  /\ Begins(w) \/ Reading(w) \/ Ending(w) \/ Content(w) \/ Turning(w)
                 \/ Failing(w) \/ Written(w)
           /\ \A v \in Writers \ {w} : ctl'[v] = ctl[v]
           /\ \A v \in queued \ {w} : v \in queued'
           /\ UNCHANGED <<team, world, addon>>
  <1>o. /\ ctl \in [Writers -> Control] /\ ctl[w] \in Control
        /\ ctl[w].pc = "put" => ctl[w].left = <<>>
    BY DEF TypeInv, CtlOK
  <1>f. /\ UNCHANGED <<team, world, addon>>
        /\ \A v \in queued \ {w} : v \in queued'
    BY DEF Step, Sync, Read, Get, Put, Conflict, PutFails, Finish, Done, Fail
  <1>a. \A v \in Writers \ {w} : ctl'[v] = ctl[v]
    BY <1>o DEF Step, Sync, Read, Get, Put, Conflict, PutFails, Finish, Done, Fail
  <1>s. SUFFICES Begins(w) \/ Reading(w) \/ Ending(w) \/ Content(w) \/ Turning(w)
                    \/ Failing(w) \/ Written(w)
    BY <1>a, <1>f
  <1>i. ASSUME NEW r \in BOOLEAN, Finish(w, r)
        PROVE  ctl'[w] = Idle /\ queued \subseteq queued' /\ (r => w \in queued')
    BY <1>i, <1>o DEF Finish
  <1>x. Fail(w) /\ cond' = cond => Failing(w)
    BY <1>o DEF Fail, Finish, Failing
  <1>d. Done(w) => ctl'[w] = Idle /\ queued \subseteq queued'
    BY <1>o DEF Done, Finish
  <1>1. CASE Sync(w)
    BY <1>1, <1>o DEF Sync, Idle, Begins
  <1>2. CASE Read(w)
    <2>1. CASE Ends(w, Head(ctl[w].left))
      BY <1>2, <2>1, <1>i, <1>o DEF Read, At, Finish, Ending
    <2>2. CASE ~Ends(w, Head(ctl[w].left))
      <3>1. ctl' = [ctl EXCEPT ![w] =
                      [ctl[w] EXCEPT !.left = Rest(w, ctl[w].left),
                                     !.found[For(w, Head(ctl[w].left))]
                                        = @ \cup Finds(w, Head(ctl[w].left))]]
        BY <1>2, <2>2, <1>o DEF Read, Rest, Control
      <3>2. ctl[w].found \in [Types -> SUBSET Findings]
        BY <1>o DEF Control
      <3>3. /\ ctl'[w].pc = ctl[w].pc /\ ctl'[w].left = Rest(w, ctl[w].left)
            /\ ctl'[w].found = [ctl[w].found EXCEPT ![For(w, Head(ctl[w].left))]
                                   = @ \cup Finds(w, Head(ctl[w].left))]
        BY <3>1, <1>o DEF Control
      <3>4. \A t \in Types :
               ctl'[w].found[t] = ctl[w].found[t] \cup Seen(w, t, Head(ctl[w].left))
        BY <3>2, <3>3 DEF Seen
      <3> QED BY <1>2, <2>2, <3>3, <3>4 DEF Read, At, Reading
    <2> QED BY <2>1, <2>2
  <1>3. CASE Get(w)
    <2>1. CASE (addon = "none" \/ WithConditions(w, cond) = cond) /\ Done(w)
      BY <1>3, <2>1, <1>d DEF Get, At, Content
    <2>2. CASE ctl' = [ctl EXCEPT ![w].pc = "put", ![w].base = cond] /\ UNCHANGED queued
      BY <1>3, <2>2, <1>o DEF Get, At, Turning, Control
    <2>3. CASE Fail(w)
      BY <1>3, <2>3, <1>x DEF Get
    <2> QED BY <1>3, <2>1, <2>2, <2>3 DEF Get
  <1>4. CASE Put(w)
    <2>1. w \in Writing \ stale /\ ctl[w].pc = "put" /\ ctl[w].left = <<>>
      BY <1>4, <1>o DEF Put, At, Writing
    <2>2. ctl'[w] = Idle
      BY <1>4, <1>o DEF Put
    <2> QED BY <1>4, <2>1, <2>2 DEF Put, Write, Written
  <1>5. CASE Conflict(w)
    <2>1. CASE Fail(w)
      BY <1>5, <2>1, <1>x DEF Conflict
    <2>2. CASE ctl' = [ctl EXCEPT ![w].pc = "sync", ![w].base = NoConds] /\ UNCHANGED queued
      BY <1>5, <2>2, <1>o DEF Conflict, At, Turning, Control
    <2> QED BY <1>5, <2>1, <2>2 DEF Conflict
  <1>6. CASE PutFails(w)
    BY <1>6, <1>x DEF PutFails
  <1>7. Sync(w) \/ Read(w) \/ Get(w) \/ Put(w) \/ Conflict(w) \/ PutFails(w)
    BY DEF Step
  <1> QED BY <1>1, <1>2, <1>3, <1>4, <1>5, <1>6, <1>7

(* A writer's own steps keep what its sync finds, and shows, current.       *)
LEMMA OwnStep ==
    ASSUME TypeInv, CopyInv, QuietInv, NEW w \in team \cap Reporters, Step(w)
    PROVE  PendingOf(w)' /\ QuietOf(w)'
  <1>o. /\ w \in Writers /\ w # "broker" /\ w # "version" /\ Topics(w) \subseteq Types
        /\ Topics(w) \subseteq Own(w)
        /\ ctl[w].left \in Seq(ReadSteps) /\ LeftOK(w, ctl[w].left)
        /\ PendingOf(w) /\ QuietOf(w)
    <2>1. w \in Writers /\ w # "broker" /\ w # "version"
      BY DEF Reporters, Writers
    <2>2. Topics(w) \subseteq Types /\ Topics(w) \subseteq Own(w)
      BY OwnTopics DEF Reporters, Types
    <2> QED BY <2>1, <2>2 DEF QuietInv, LeftInv, TypeInv, CtlOK, Control
  <1>m. /\ Begins(w) \/ Reading(w) \/ Ending(w) \/ Content(w) \/ Turning(w)
              \/ Failing(w) \/ Written(w)
        /\ UNCHANGED <<team, world, addon>>
    BY <1>o, StepMoves
  <1>h. object' = object
    BY <1>m DEF world
  <1>i. Idle.pc = "idle"
    BY IdleControl
  <1>c. \A t \in Topics(w) : Shown(t, Current(t)') = Shown(t, Current(t))
    BY <1>h, Steady
  <1>p. ASSUME ctl'[w].pc # "idle",
               \A t \in Topics(w) :
                  w \notin queued' =>
                     Shown(t, ctl'[w].found[t] \cup ToFind(w, t, ctl[w].left)')
                        = Shown(t, Current(t))
        PROVE  PendingOf(w)' /\ QuietOf(w)'
    <2>1. QuietOf(w)'
      BY <1>p DEF QuietOf, At
    <2>2. PendingOf(w)'
      <3> SUFFICES ASSUME w \notin queued', NEW t \in Topics(w)
                   PROVE  Shown(t, ctl[w].found[t] \cup ToFind(w, t, ctl[w].left))'
                             = Shown(t, Current(t))'
        BY DEF PendingOf
      <3>1. Shown(t, ctl[w].found[t] \cup ToFind(w, t, ctl[w].left))'
               = Shown(t, ctl'[w].found[t] \cup ToFind(w, t, ctl[w].left)')
        BY DEF Shown
      <3>2. Shown(t, Current(t))' = Shown(t, Current(t)')
        BY DEF Shown
      <3> QED BY <1>p, <1>c, <3>1, <3>2
    <2> QED BY <2>1, <2>2
  <1>t. ASSUME NEW left, left = ctl'[w].left, NEW t \in Topics(w), NEW found
        PROVE  Shown(t, found \cup ToFind(w, t, ctl[w].left)')
                  = Shown(t, found \cup ToFind(w, t, left))
    <2>1. ToFind(w, t, ctl[w].left)' = ToFind(w, t, left)'
      BY <1>t DEF ToFind, InLeft
    <2> QED BY <2>1, <1>h, FindsSame
  <1>q. ASSUME ctl'[w] = Idle,
               Speaks(w) => \A t \in Topics(w) : \/ cond'[t] = Absent
                                                 \/ Shown(t, cond'[t]) = Shown(t, Current(t))
                                                 \/ w \in queued'
        PROVE  PendingOf(w)' /\ QuietOf(w)'
    <2>1. PendingOf(w)'
      BY <1>q, <1>i DEF PendingOf
    <2>2. Speaks(w)' => Speaks(w)
      <3>1. PICK t \in Topics(w) : TRUE
        BY OwnTopics DEF Reporters
      <3> QED BY <1>h, <3>1, Steady
    <2>3. QuietOf(w)'
      <3> SUFFICES ASSUME w \notin queued', Speaks(w)', NEW t \in Topics(w)
                   PROVE  \/ cond'[t] = Absent
                          \/ Shown(t, cond'[t]) = Shown(t, Current(t)')
        BY DEF QuietOf, Shown
      <3> QED BY <1>q, <1>c, <2>2
    <2> QED BY <2>1, <2>3
  <1>1. CASE Begins(w)
    <2>1. PICK left : left = Reads(w)
      OBVIOUS
    <2>2. ASSUME NEW t \in Topics(w)
          PROVE  Shown(t, ctl'[w].found[t] \cup ToFind(w, t, ctl[w].left)')
                    = Shown(t, Current(t))
      <3>1. ctl'[w].found[t] = {}
        BY <1>1, <1>o DEF Begins, Nothing
      <3>2. ToFind(w, t, left) = Current(t)
        BY <2>1, ReadsAll
      <3>3. Shown(t, {} \cup ToFind(w, t, ctl[w].left)') = Shown(t, {} \cup ToFind(w, t, left))
        BY <1>1, <2>1, <1>t DEF Begins
      <3> QED BY <3>1, <3>2, <3>3
    <2> QED BY <1>1, <2>2, <1>p DEF Begins
  <1>2. CASE Reading(w)
    <2>1. PICK left : left = Rest(w, ctl[w].left)
      OBVIOUS
    <2>2. ASSUME NEW t \in Topics(w), w \notin queued
          PROVE  Shown(t, ctl'[w].found[t] \cup ToFind(w, t, ctl[w].left)')
                    = Shown(t, Current(t))
      <3>1. ctl'[w].found[t] = ctl[w].found[t] \cup Seen(w, t, Head(ctl[w].left))
        BY <1>2, <1>o DEF Reading
      <3>2. ToFind(w, t, ctl[w].left) = ToFind(w, t, left) \cup Seen(w, t, Head(ctl[w].left))
        BY <1>2, <1>o, <2>1, ReadMoves DEF Reading
      <3>3. Shown(t, ctl[w].found[t] \cup ToFind(w, t, ctl[w].left)) = Shown(t, Current(t))
        BY <1>2, <1>o, <2>2 DEF Reading, PendingOf
      <3>4. Shown(t, ctl'[w].found[t] \cup ToFind(w, t, ctl[w].left)')
               = Shown(t, ctl'[w].found[t] \cup ToFind(w, t, left))
        BY <1>2, <2>1, <1>t DEF Reading
      <3>5. ctl'[w].found[t] \cup ToFind(w, t, left)
               = ctl[w].found[t] \cup ToFind(w, t, ctl[w].left)
        BY <3>1, <3>2
      <3> QED BY <3>3, <3>4, <3>5
    <2> QED BY <1>2, <2>2, <1>p DEF Reading
  <1>3. CASE Ending(w)
    <2>1. ~Speaks(w)
      BY <1>3, <1>o, Arms DEF Ending, Ends, SpeaksArms, Reporters
    <2> QED BY <1>3, <2>1, <1>q DEF Ending
  <1>e. ASSUME ctl[w].left = <<>>, ctl[w].pc # "idle", w \notin queued, NEW t \in Topics(w)
        PROVE  Shown(t, ctl[w].found[t]) = Shown(t, Current(t))
    <2>1. ToFind(w, t, ctl[w].left) = {}
      BY <1>e DEF ToFind, InLeft
    <2>2. Shown(t, ctl[w].found[t] \cup {}) = Shown(t, Current(t))
      BY <1>e, <1>o, <2>1 DEF PendingOf
    <2>3. ctl[w].found[t] \cup {} = ctl[w].found[t]
      OBVIOUS
    <2> QED BY <2>2, <2>3
  <1>4. CASE Content(w)
    <2>1. ASSUME NEW t \in Topics(w), w \notin queued'
          PROVE  cond'[t] = Absent \/ Shown(t, cond'[t]) = Shown(t, Current(t))
      <3>1. CASE addon = "none"
        <4>1. cond = NoConds
          BY <3>1 DEF QuietInv, AddonInv
        <4> QED BY <4>1, <1>4, <1>o DEF Content, NoConds
      <3>2. CASE WithConditions(w, cond) = cond
        <4>1. cond[t] = ctl[w].found[t]
          BY <3>2, <1>o DEF WithConditions
        <4> QED BY <4>1, <1>4, <2>1, <1>e DEF Content
      <3> QED BY <3>1, <3>2, <1>4 DEF Content
    <2> QED BY <1>4, <2>1, <1>q DEF Content
  <1>5. CASE Turning(w)
    <2>1. PICK left : left = ctl[w].left
      OBVIOUS
    <2>2. ASSUME NEW t \in Topics(w), w \notin queued
          PROVE  Shown(t, ctl'[w].found[t] \cup ToFind(w, t, ctl[w].left)')
                    = Shown(t, Current(t))
      <3>1. Shown(t, ctl[w].found[t] \cup ToFind(w, t, ctl[w].left)) = Shown(t, Current(t))
        BY <1>5, <1>o, <2>2 DEF Turning, PendingOf
      <3>2. Shown(t, ctl'[w].found[t] \cup ToFind(w, t, ctl[w].left)')
               = Shown(t, ctl'[w].found[t] \cup ToFind(w, t, left))
        BY <1>5, <2>1, <1>t DEF Turning
      <3> QED BY <3>1, <3>2, <2>1, <1>5 DEF Turning
    <2> QED BY <1>5, <2>2, <1>p DEF Turning
  <1>6. CASE Failing(w)
    BY <1>6, <1>o, <1>q DEF Failing
  <1>7. CASE Written(w)
    <2>1. ASSUME NEW t \in Topics(w), w \notin queued'
          PROVE  Shown(t, cond'[t]) = Shown(t, Current(t))
      <3>1. cond'[t] = ctl[w].found[t]
        BY <1>7, <1>o DEF Written, WithConditions
      <3> QED BY <3>1, <1>7, <2>1, <1>e DEF Written
    <2> QED BY <1>7, <2>1, <1>q DEF Written
  <1> QED BY <1>m, <1>1, <1>2, <1>3, <1>4, <1>5, <1>6, <1>7

-----------------------------------------------------------------------------
(* What remains of a sync is always what the code still goes through.      *)
LEMMA LeftStep == TypeInv /\ LeftInv /\ [Next]_vars => LeftInv'
  <1> SUFFICES ASSUME TypeInv, LeftInv, [Next]_vars, NEW w \in Reporters
               PROVE  LeftOK(w, ctl'[w].left)
    BY DEF LeftInv, LeftOK
  <1>o. /\ w \in Writers /\ ctl[w].left \in Seq(ReadSteps) /\ LeftOK(w, ctl[w].left)
        /\ ctl \in [Writers -> Control]
    BY DEF Reporters, Writers, LeftInv, TypeInv, CtlOK, Control
  <1>i. LeftOK(w, Idle.left)
    BY DEF Idle, LeftOK
  <1>1. CASE ctl'[w] = ctl[w] \/ ctl'[w] = Idle
    BY <1>1, <1>o, <1>i
  <1>2. CASE Step(w)
    <2>1. CASE Begins(w)
      BY <2>1, ReadsAll DEF Begins
    <2>2. CASE Reading(w)
      <3>1. PICK t \in Topics(w) : TRUE
        BY OwnTopics DEF Reporters
      <3> QED BY <2>2, <3>1, <1>o, ReadMoves DEF Reading
    <2>3. CASE Ending(w) \/ Content(w) \/ Failing(w) \/ Written(w)
      BY <2>3, <1>1 DEF Ending, Content, Failing, Written
    <2>4. CASE Turning(w)
      BY <2>4, <1>o DEF Turning
    <2> QED BY <1>2, <1>o, <2>1, <2>2, <2>3, <2>4, StepMoves
  <1>3. ASSUME NEW v \in Writers, Step(v), v # w PROVE ctl'[w] = ctl[w]
    BY <1>3, <1>o, StepMoves
  <1>4. ASSUME NEW process, Restart(process) PROVE ctl'[w] = ctl[w] \/ ctl'[w] = Idle
    BY <1>4, <1>o DEF Restart
  <1>5. UNCHANGED ctl \/ (\E v \in Writers : Step(v)) \/ Restart(Spoke) \/ Restart({"broker"})
    BY DEF Next, vars, Resync, Change, UpgradeOCP, DeleteAddon, CreateAddon,
       ListEndpoints, OutageEnds
  <1> QED BY <1>1, <1>2, <1>3, <1>4, <1>5

(* The config controller's report is empty until it has seen the version.   *)
LEMMA VersionStep == TypeInv /\ VersionInv /\ [Next]_vars => VersionInv'
  <1> SUFFICES ASSUME TypeInv, VersionInv, [Next]_vars PROVE VersionInv'
    OBVIOUS
  <1> DEFINE w == "version"
             t == "GatewayNodesLabeled"
  <1>o. /\ w \in Writers /\ t \in Types /\ ctl \in [Writers -> Control]
        /\ Idle.pc = "idle" /\ w # "broker"
    BY IdleControl DEF Writers, Types, TypeInv, CtlOK
  <1>v. VersionInv' <=>
           (ctl'[w].pc # "idle" =>
              \/ ctl'[w].left = <<"ocp">> /\ ctl'[w].found[t] = {}
              \/ ctl'[w].left = <<>> /\ ctl'[w].found[t] = {<<"ocp", "unsupported">>})
    BY DEF VersionInv
  <1>1. CASE ctl'[w] = ctl[w] \/ ctl'[w] = Idle
    BY <1>1, <1>o, <1>v DEF VersionInv
  <1>2. CASE Step(w)
    <2>1. CASE Begins(w)
      BY <2>1, <1>o, <1>v DEF Begins, Reads, Nothing
    <2>2. CASE Reading(w)
      <3>1. ctl[w].left = <<"ocp">> /\ ctl[w].found[t] = {}
        BY <2>2 DEF Reading, VersionInv
      <3>2. Head(<<"ocp">>) = "ocp" /\ Tail(<<"ocp">>) = <<>>
        OBVIOUS
      <3>3. ctl'[w].left = <<>>
        BY <2>2, <3>1, <3>2 DEF Reading, Rest
      <3>4. UnsupportedVersion = {<<"ocp", "unsupported">>}
        BY <2>2, <3>1, <3>2 DEF Reading, Ends, UnsupportedVersion
      <3>5. Seen(w, t, "ocp") = {<<"ocp", "unsupported">>}
        BY <3>4, OwnTopics, Arms DEF Seen, FindsArms
      <3>6. ctl'[w].found[t] = {} \cup {<<"ocp", "unsupported">>}
        BY <2>2, <3>1, <3>2, <3>5, <1>o DEF Reading
      <3>7. {} \cup {<<"ocp", "unsupported">>} = {<<"ocp", "unsupported">>}
        OBVIOUS
      <3> QED BY <3>3, <3>6, <3>7, <1>v
    <2>3. CASE Ending(w) \/ Content(w) \/ Failing(w) \/ Written(w)
      BY <2>3, <1>1 DEF Ending, Content, Failing, Written
    <2>4. CASE Turning(w)
      BY <2>4, <1>v DEF Turning, VersionInv
    <2> QED BY <1>2, <1>o, <2>1, <2>2, <2>3, <2>4, StepMoves
  <1>3. ASSUME NEW v \in Writers, Step(v), v # w PROVE ctl'[w] = ctl[w]
    BY <1>3, <1>o, StepMoves
  <1>4. ASSUME NEW process, Restart(process) PROVE ctl'[w] = ctl[w] \/ ctl'[w] = Idle
    BY <1>4, <1>o DEF Restart
  <1>5. UNCHANGED ctl \/ (\E v \in Writers : Step(v)) \/ Restart(Spoke) \/ Restart({"broker"})
    BY DEF Next, vars, Resync, Change, UpgradeOCP, DeleteAddon, CreateAddon,
       ListEndpoints, OutageEnds
  <1> QED BY <1>1, <1>2, <1>3, <1>4, <1>5

(* Without the add-on there are no conditions.                             *)
LEMMA AddonStep == TypeInv /\ AddonInv /\ [Next]_vars => AddonInv'
  <1> SUFFICES ASSUME TypeInv, AddonInv, [Next]_vars PROVE AddonInv'
    OBVIOUS
  <1>1. ASSUME NEW w \in Writers, Step(w) PROVE AddonInv'
    <2>1. UNCHANGED addon
      BY <1>1, StepMoves
    <2>2. UNCHANGED cond \/ addon # "none"
      BY <1>1 DEF Step, Sync, Read, Get, Put, Conflict, PutFails
    <2> QED BY <2>1, <2>2 DEF AddonInv
  <1>2. CASE DeleteAddon \/ CreateAddon
    BY <1>2 DEF DeleteAddon, CreateAddon, AddonInv
  <1>3. (\E w \in Writers : Step(w)) \/ DeleteAddon \/ CreateAddon \/ UNCHANGED <<addon, cond>>
    BY DEF Next, vars, world, Resync, Change, UpgradeOCP, Restart, ListEndpoints, OutageEnds
  <1> QED BY <1>1, <1>2, <1>3 DEF AddonInv

-----------------------------------------------------------------------------
(* The others disturb a writer only by queuing it: of what they write, the  *)
(* unsupported version alone is in a condition of its own.                 *)
LEMMA OthersStep ==
    ASSUME TypeInv, CopyInv, QuietInv, [Next]_vars, NEW w \in team \cap Reporters, ~Step(w)
    PROVE  PendingOf(w)' /\ QuietOf(w)'
  <1>o. /\ w \in Writers /\ w # "broker" /\ w # "version" /\ Topics(w) \subseteq Types
        /\ PendingOf(w) /\ QuietOf(w) /\ team' = team
        /\ ctl \in [Writers -> Control]
    <2>1. w \in Writers /\ w # "broker" /\ w # "version"
      BY DEF Reporters, Writers
    <2>2. Topics(w) \subseteq Types
      BY OwnTopics DEF Reporters, Types
    <2> QED BY <2>1, <2>2, TeamStays DEF QuietInv, TypeInv, CtlOK
  <1>u. ASSUME ctl'[w] = ctl[w], w \in queued => w \in queued',
               \A t \in Topics(w) : Condoned(t)
        PROVE  PendingOf(w)' /\ QuietOf(w)'
    BY <1>u, <1>o, Untouched
  <1>1. ASSUME NEW v \in Writers, Step(v) PROVE PendingOf(w)' /\ QuietOf(w)'
    <2>1. v # w
      BY <1>1
    <2>2. ctl'[w] = ctl[w] /\ (w \in queued => w \in queued')
      BY <1>1, <1>o, <2>1, StepMoves
    <2>3. ASSUME NEW t \in Topics(w) PROVE Condoned(t)
      <3>1. CASE UNCHANGED cond
        BY <3>1 DEF Condoned
      <3>2. CASE Written(v)
        <4>1. cond' = WithConditions(v, cond)
          BY <3>2 DEF Written, CopyInv
        <4>2. CASE t \notin Own(v)
          BY <4>1, <4>2, <1>o DEF WithConditions, Condoned
        <4>3. CASE t \in Own(v)
          <5>1. v = "version" /\ t = "GatewayNodesLabeled"
            BY <4>3, <2>1, OwnTopics DEF Writers, Reporters
          <5>2. ctl[v].found[t] = {<<"ocp", "unsupported">>}
            BY <3>2, <5>1 DEF Written, QuietInv, VersionInv
          <5>3. cond'[t] = ctl[v].found[t]
            BY <4>1, <4>3, <1>o DEF WithConditions
          <5> QED BY <5>1, <5>2, <5>3 DEF Condoned
        <4> QED BY <4>2, <4>3
      <3>3. UNCHANGED cond \/ Written(v)
        BY <1>1, StepMoves DEF Begins, Reading, Ending, Content, Turning, Failing
      <3> QED BY <3>1, <3>2, <3>3
    <2> QED BY <2>2, <2>3, <1>u
  <1>2. ASSUME NEW process, process \in {Spoke, {"broker"}}, Restart(process)
        PROVE  PendingOf(w)' /\ QuietOf(w)'
    <2>1. CASE w \in process
      <3>1. w \in queued'
        BY <1>2, <2>1 DEF Restart
      <3> QED BY <3>1 DEF PendingOf, QuietOf
    <2>2. CASE w \notin process
      <3>1. ctl'[w] = ctl[w] /\ (w \in queued => w \in queued') /\ UNCHANGED cond
        BY <1>2, <2>2, <1>o DEF Restart
      <3> QED BY <3>1, <1>u DEF Condoned
    <2> QED BY <2>1, <2>2
  <1>3. CASE DeleteAddon
    <2>1. ctl' = ctl /\ cond' = NoConds /\ queued \subseteq queued'
      BY <1>3 DEF DeleteAddon
    <2>2. \A t \in Topics(w) : cond'[t] = Absent
      BY <2>1, <1>o DEF NoConds
    <2> QED BY <2>1, <2>2, <1>u DEF Condoned
  <1>4. CASE UNCHANGED <<ctl, cond>> /\ queued \subseteq queued'
    BY <1>4, <1>u DEF Condoned
  <1>5. \/ \E v \in Writers : Step(v)
        \/ Restart(Spoke) \/ Restart({"broker"}) \/ DeleteAddon
        \/ UNCHANGED <<ctl, cond>> /\ queued \subseteq queued'
    BY DEF Next, vars, Resync, Change, UpgradeOCP, CreateAddon, ListEndpoints, OutageEnds
  <1> QED BY <1>1, <1>2, <1>3, <1>4, <1>5

LEMMA QuietStep == TypeInv /\ CopyInv /\ QuietInv /\ [Next]_vars => QuietInv'
  <1> SUFFICES ASSUME TypeInv, CopyInv, QuietInv, [Next]_vars PROVE QuietInv'
    OBVIOUS
  <1>1. \A w \in team \cap Reporters : PendingOf(w)' /\ QuietOf(w)'
    BY OwnStep, OthersStep
  <1>2. team' = team
    BY TeamStays
  <1>3. LeftInv' /\ VersionInv' /\ AddonInv'
    BY LeftStep, VersionStep, AddonStep DEF QuietInv
  <1> QED BY <1>1, <1>2, <1>3 DEF QuietInv

LEMMA QuietInit == Init => QuietInv
  <1> SUFFICES ASSUME Init PROVE QuietInv
    OBVIOUS
  <1>1. \A w \in Writers : ctl[w] = Idle
    BY DEF Init
  <1>2. LeftInv /\ VersionInv /\ AddonInv
    BY <1>1, IdleControl DEF LeftInv, LeftOK, Reporters, Writers, Idle, VersionInv, AddonInv, Init
  <1>3. \A w \in team : w \in queued
    BY DEF Init
  <1> QED BY <1>2, <1>3 DEF QuietInv, PendingOf, QuietOf

LEMMA QuietEnough == TypeInv /\ QuietInv => QuietMeansCurrent
  <1> SUFFICES ASSUME TypeInv, QuietInv, NEW w \in team \ {"version", "broker"},
                      At(w, "idle"), w \notin queued, Speaks(w),
                      NEW t \in Own(w) \ {"RouteAgentConnectionDegraded"}
               PROVE  \/ cond[t] = Absent
                      \/ t = "GatewayNodesLabeled" /\ cond[t] = {<<"ocp", "unsupported">>}
                      \/ Shown(t, cond[t]) = Shown(t, Current(t))
    BY DEF QuietMeansCurrent
  <1>1. w \in team \cap Reporters
    <2>1. team \subseteq Writers
      BY ReportsAssumption DEF ReportsAssumption, TypeInv, RestOK
    <2> QED BY <2>1 DEF Writers, Reporters
  <1> QED BY <1>1 DEF QuietInv, QuietOf, Topics

(* When nothing is queued for a writer, its conditions are about the objects *)
(* as the caches have them (gateways_controller.go:67,                     *)
(* deployment_controller.go:85, connections_controller.go:66).             *)
THEOREM QuietReportsAreCurrent == Spec => []QuietMeansCurrent
  BY QuietInit, QuietStep, QuietEnough, CopyCorrect, TypesCorrect, PTL DEF Spec

=============================================================================
