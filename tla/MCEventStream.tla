--------------------------- MODULE MCEventStream ---------------------------
(* EventStream on a small instance: two publishers whose events differ in  *)
(* kind and namespace, requests for each source, with and without filters. *)
EXTENDS EventStream

CONSTANTS p1, p2

Pod == [kind |-> "Pod", ns |-> "shop"]
Node == [kind |-> "Node", ns |-> ""]

MCEventClass == {Pod, Node}
MCClassOf == [p \in Publishers |-> IF p = p1 THEN Pod ELSE Node]
MCMaxCalls == [p \in Publishers |-> IF p = p1 THEN 2 ELSE 1]

Request(source, kind, ns) == [source |-> source, kind |-> kind, ns |-> ns]
MCRequests ==
  { Request("", "", ""), Request("", "Pod", "shop"), Request("k8s", "", "shop"),
    Request("audit", "Pod", ""), Request("other", "", "") }
\* Only the watch is asked for.
MCWatchRequests == { Request("k8s", "", "") }
=============================================================================
