---------------------------- MODULE MCLifecycle ----------------------------
(***************************************************************************)
(* Lifecycle in a cluster and out of one, with and without its backends,   *)
(* one request and one RPC open beside the exchange that is followed, and  *)
(* an exchange of every kind Dispatch, ServeHTTP and the wrappers tell     *)
(* apart.                                                                  *)
(***************************************************************************)
EXTENDS Lifecycle

NoEnv == [site |-> "", tenant |-> "", region |-> ""]

\* What an XC site's resolv.conf says, before and after the entry of another.
XC(s, t) == <<s, t, "tenant", "local">>
Svc(s, t) == <<"svc", s, t, "tenant", "local">>

InCluster ==
  [env |-> NoEnv, search |-> <<Svc("s1", "t1"), XC("s1", "t1"), XC("s2", "t2"),
                               <<"r1", "compute", "internal">>>>,
   inCluster |-> "yes", file |-> "none", apiUp |-> TRUE, natsURL |-> FALSE,
   bus |-> TRUE, grpcAddr |-> TRUE,
   services |-> <<[app |-> FALSE, hex |-> FALSE], [app |-> FALSE, hex |-> TRUE]>>]

MCSites ==
  {InCluster,
   [InCluster EXCEPT !.apiUp = FALSE],
   [InCluster EXCEPT !.env.tenant = "t0", !.services = <<>>, !.bus = FALSE],
   [InCluster EXCEPT !.inCluster = "no", !.file = "good", !.search = <<>>, !.natsURL = TRUE],
   [InCluster EXCEPT !.inCluster = "broken", !.file = "good", !.natsURL = TRUE,
                     !.grpcAddr = FALSE]}

Ping == [post |-> TRUE, body |-> "json", v2 |-> TRUE, id |-> "given", method |-> "ping",
         params |-> "none", tool |-> "", args |-> [wellTyped |-> TRUE, given |-> {}]]

Call(tool, args) ==
  [Ping EXCEPT !.method = "tools/call", !.params = "good", !.tool = tool, !.args = args]

WithId ==
  {Ping,
   [Ping EXCEPT !.method = "initialize"],
   [Ping EXCEPT !.method = "initialize", !.params = "bad"],
   [Ping EXCEPT !.method = "notifications/initialized"],
   [Ping EXCEPT !.method = "tools/list"],
   [Ping EXCEPT !.method = "tools/call"],
   [Ping EXCEPT !.method = "resources/list"],
   Call("cluster_identity", [wellTyped |-> FALSE, given |-> {}]),
   Call("east_west_graph", [wellTyped |-> FALSE, given |-> {}]),
   Call("east_west_graph", Ping.args),
   Call("resource_get", [wellTyped |-> TRUE, given |-> {"name"}]),
   Call("resource_get", [wellTyped |-> TRUE, given |-> {"name", "kind"}]),
   Call("stream_read", [wellTyped |-> TRUE, given |-> {"name", "limit"}]),
   Call("unknown", Ping.args)}

MCRequests ==
  WithId \cup {[r EXCEPT !.id = "missing"] : r \in WithId}
         \cup {[r EXCEPT !.id = "null"] : r \in WithId}
         \cup {[Ping EXCEPT !.post = FALSE], [Ping EXCEPT !.body = "too large"],
               [Ping EXCEPT !.v2 = FALSE], [Ping EXCEPT !.method = "", !.id = "missing"]}
=============================================================================
