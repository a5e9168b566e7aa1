--------------------------- MODULE MCSiteQueries ---------------------------
(* SiteQueries on a small site: per component a healthy state and the      *)
(* states a change can bring about, two directives, a pod network address  *)
(* that is reused, a node whose address a pod of the host network shares,  *)
(* and messages of three edges, of which a graph shows one or two.         *)
EXTENDS SiteQueries, TLC

CONSTANT None   \* Absent

Workload(ready, desired) == [ready |-> ready, desired |-> desired]
Operator(label, tags) ==
  [ready |-> 1, desired |-> 1, label |-> label,
   containers |-> [k \in 1..Len(tags) |->
     [name |-> IF k = 2 THEN "manager" ELSE "proxy", tag |-> tags[k]]]]

Scaled == {Workload(1, 1), Workload(0, 1), Workload(0, 0), None}
Agent(id, node, ready) == [id |-> id, node |-> node, ready |-> ready]
Agents == {Agent(1, "n1", TRUE), Agent(2, "n2", TRUE)}
Pod(name, ip, host, ports) == [name |-> name, ip |-> ip, hostNetwork |-> host, ports |-> ports]
Entry(name, ip) == [name |-> name, ip |-> ip]
Proxy == Pod("proxy", "node-ip", TRUE, {80})

MCUsual ==
  [x \in {"dashboard", "streamstore", "trace_agent", "race_agent"} |-> Workload(1, 1)] @@
  ("operator" :> Operator("", <<"1.0", "2.0">>)) @@ ("webhook" :> Workload(2, 2)) @@
  ("directives" :> << Workload(2, 2), Workload(1, 1) >>) @@
  [x \in {"agents", "trace_pods", "race_pods"} |-> Agents] @@
  ("version" :> "v1") @@ ("streams" :> 1) @@
  ("pods" :> << Pod("job", "pod-ip", FALSE, {}), Pod("web", "pod-ip", FALSE, {80}), Proxy >>) @@
  ("services" :> << Entry("web", "svc-ip") >>) @@ ("nodes" :> << Entry("n1", "node-ip") >>)

MCValues ==
  [x \in {"dashboard", "streamstore", "trace_agent", "race_agent"} |-> Scaled] @@
  ("operator" :> {MCUsual["operator"], Operator("3.0", << >>), Operator("", <<"1.0", "">>), None}) @@
  ("webhook" :> {Workload(2, 2), Workload(0, 0), None}) @@
  ("directives" :> {MCUsual["directives"], << >>, << Workload(0, 0), Workload(1, 1) >>,
                    << Workload(1, 2), Workload(1, 1) >>, << Workload(0, 0) >>}) @@
  [x \in {"agents", "trace_pods", "race_pods"} |->
     {Agents, {Agent(1, "n1", FALSE), Agent(2, "n2", TRUE), Agent(3, "", FALSE)}, {}}] @@
  ("version" :> {"v1", "v2"}) @@ ("streams" :> {0, 1}) @@
  ("pods" :> {MCUsual["pods"], << Pod("db", "pod-ip", FALSE, {}) >>, << Proxy >>}) @@
  ("services" :> {MCUsual["services"], << Entry("api", "svc-ip") >>, << >>}) @@
  ("nodes" :> {MCUsual["nodes"], << Entry("n2", "node-ip") >>})

Address(ip, port) == [ip |-> ip, port |-> port]
Query(rpc) == [rpc |-> rpc, endpoints |-> {}, window |-> 0, maxEdges |-> 0]
Everywhere == {Address(ip, port) : ip \in {"pod-ip", "svc-ip", "node-ip", "elsewhere"}, port \in {22, 80}}

MCQueries ==
  {Query(r) : r \in {"EoBHealth", "TraceHealth", "ClusterIdentity", "Heartbeat"}}
    \cup {[Query("ResolveEndpoints") EXCEPT !.endpoints = Everywhere]}
    \cup {Query("EastWestGraph"), [Query("EastWestGraph") EXCEPT !.window = 9, !.maxEdges = 1]}

MCWirings == {{"kube", "streams", "bus"}, {"bus"}, {}}

Connect(pod, ip, port) ==
  [decodes |-> TRUE, kind |-> "connect", ns |-> "shop", pod |-> pod, comm |-> "curl",
   ip |-> ip, port |-> port]
MCEvents ==
  {Connect("web", "pod-ip", 80), Connect("", "node-ip", 80), Connect("web", "svc-ip", 80),
   Connect("web", "0.0.0.0", 0),
   [Connect("web", "svc-ip", 1) EXCEPT !.kind = ""]}
=============================================================================
