-------------------------- MODULE LifecycleProofs --------------------------
(***************************************************************************)
(* Proofs about Lifecycle and the McpServer in it, for any sites, requests *)
(* and numbers of requests open at a time.  The invariant has five parts,  *)
(* each preserved with the help of those before it: which tools there are  *)
(* for which backends (RegistryInv), what the exchange owes (ExchangeInv), *)
(* how far run has got and what may still be open then (StageInv), the     *)
(* backend of the tool that runs (BackendInv), and the identity            *)
(* (IdentityInv).  Beside them stands GraceInv, for the measure of how far *)
(* run is from its end.                                                    *)
(***************************************************************************)
EXTENDS Lifecycle, WellFoundedInduction, NaturalsInduction, SequenceTheorems, TLAPS

\* Where run is: the steps that wire it, and all of them.
BeforeTools == {"config", "kube", "dyn", "streams", "tools"}
BeforeHTTP == BeforeTools \cup {"tls", "journey"}
Stages == BeforeHTTP \cup {"grpc", "wait", "http", "graceful", "closers", "returned"}

-----------------------------------------------------------------------------
(* The tools *)

ToolsOf(wired) == {t \in DOMAIN Mcp!Named : Mcp!Named[t].backend \in wired \cup {"none"}}

RegistryInv ==
  /\ pc \in Stages
  /\ backends \subseteq {"kube", "dyn", "streams"}
  /\ pc \in BeforeTools => tools = {}
  /\ pc \in Stages \ (BeforeTools \cup {"closers", "returned"}) => tools = ToolsOf(backends)
  /\ pc # "returned" => tools \subseteq ToolsOf(backends)
  /\ tools \subseteq DOMAIN Mcp!Named

LEMMA BackendOfTool ==
  /\ \A t \in {"cluster_identity", "eob_health", "trace_health", "resolve_endpoints",
               "east_west_graph"} : Mcp!Named[t].backend = "none"
  /\ \A t \in {"resource_list", "resource_get", "resource_apply", "resource_delete",
               "resource_schema"} : Mcp!Named[t].backend = "dyn"
  /\ \A t \in {"stream_list", "stream_stats", "stream_read"} : Mcp!Named[t].backend = "streams"
  /\ DOMAIN Mcp!Named =
       {"cluster_identity", "eob_health", "trace_health", "resolve_endpoints", "east_west_graph"}
       \cup {"resource_list", "resource_get", "resource_apply", "resource_delete",
             "resource_schema"}
       \cup {"stream_list", "stream_stats", "stream_read"}
  BY DEF Mcp!Named, Mcp!Tool, Mcp!ClusterIdentity, Mcp!EoBHealth, Mcp!TraceHealth,
     Mcp!ResolveEndpoints, Mcp!EastWestGraph, Mcp!ResourceList, Mcp!ResourceGet,
     Mcp!ResourceApply, Mcp!ResourceDelete, Mcp!ResourceSchema, Mcp!StreamList,
     Mcp!StreamStats, Mcp!StreamRead

\* The elements of two sequences, one after the other.
Elements(s) == {s[i] : i \in DOMAIN s}

LEMMA ElementsConcat ==
  ASSUME NEW S, NEW s \in Seq(S), NEW t \in Seq(S)
  PROVE  s \o t \in Seq(S) /\ Elements(s \o t) = Elements(s) \cup Elements(t)
<1>1. /\ s \o t \in Seq(S) /\ Len(s \o t) = Len(s) + Len(t)
      /\ \A i \in 1..Len(s \o t) : (s \o t)[i] = IF i <= Len(s) THEN s[i] ELSE t[i - Len(s)]
  BY ConcatProperties
<1>2. /\ Len(s) \in Nat /\ Len(t) \in Nat /\ DOMAIN s = 1..Len(s) /\ DOMAIN t = 1..Len(t)
      /\ DOMAIN (s \o t) = 1..(Len(s) + Len(t))
  BY <1>1
<1>3. Elements(s \o t) \subseteq Elements(s) \cup Elements(t)
  <2> SUFFICES ASSUME NEW i \in 1..(Len(s) + Len(t))
               PROVE  (s \o t)[i] \in Elements(s) \cup Elements(t)
    BY <1>2 DEF Elements
  <2>1. CASE i <= Len(s)
    BY <1>1, <1>2, <2>1 DEF Elements
  <2>2. CASE i > Len(s)
    BY <1>1, <1>2, <2>2 DEF Elements
  <2> QED
    BY <1>2, <2>1, <2>2
<1>4. Elements(s) \subseteq Elements(s \o t)
  BY <1>1, <1>2 DEF Elements
<1>5. Elements(t) \subseteq Elements(s \o t)
  <2> SUFFICES ASSUME NEW i \in 1..Len(t) PROVE t[i] \in Elements(s \o t)
    BY <1>2 DEF Elements
  <2>1. i + Len(s) \in 1..(Len(s) + Len(t)) /\ (s \o t)[i + Len(s)] = t[i]
    BY <1>1, <1>2
  <2> QED
    BY <1>2, <2>1 DEF Elements
<1> QED
  BY <1>1, <1>3, <1>4, <1>5

\* What buildMCPServer registers are the tools of the backends there are.
LEMMA RegisteredTools ==
  ASSUME NEW wired
  PROVE  Mcp!buildMCPServer(wired).names = ToolsOf(wired \cap {"dyn", "streams"})
<1> DEFINE a == <<"cluster_identity", "eob_health", "trace_health", "resolve_endpoints",
                  "east_west_graph">>
           b == IF "dyn" \in wired THEN <<"resource_list", "resource_get", "resource_apply",
                              "resource_delete", "resource_schema">>
                       ELSE <<>>
           c == IF "streams" \in wired THEN <<"stream_list", "stream_stats", "stream_read">> ELSE <<>>
           N == {"cluster_identity", "eob_health", "trace_health", "resolve_endpoints",
                 "east_west_graph", "resource_list", "resource_get", "resource_apply",
                 "resource_delete", "resource_schema", "stream_list", "stream_stats",
                 "stream_read"}
<1>1. a \in Seq(N) /\ b \in Seq(N) /\ c \in Seq(N)
  <2>1. a \in Seq(N)
    OBVIOUS
  <2>2. b \in Seq(N)
    <3>1. CASE "dyn" \in wired
      BY <3>1
    <3>2. CASE "dyn" \notin wired
      BY <3>2
    <3> QED
      BY <3>1, <3>2
  <2>3. c \in Seq(N)
    <3>1. CASE "streams" \in wired
      BY <3>1
    <3>2. CASE "streams" \notin wired
      BY <3>2
    <3> QED
      BY <3>1, <3>2
  <2> QED
    BY <2>1, <2>2, <2>3
<1>2. /\ Elements(a) = {"cluster_identity", "eob_health", "trace_health", "resolve_endpoints",
                        "east_west_graph"}
      /\ Elements(b) = IF "dyn" \in wired THEN {"resource_list", "resource_get", "resource_apply",
                                    "resource_delete", "resource_schema"} ELSE {}
      /\ Elements(c) = IF "streams" \in wired THEN {"stream_list", "stream_stats", "stream_read"} ELSE {}
  BY DEF Elements
<1>3. Elements(a \o b \o c) = Elements(a) \cup Elements(b) \cup Elements(c)
  <2> HIDE DEF a, b, c, N
  <2>1. a \o b \in Seq(N) /\ Elements(a \o b) = Elements(a) \cup Elements(b)
    BY <1>1, ElementsConcat
  <2>2. PICK ab : ab = a \o b
    OBVIOUS
  <2>3. ab \in Seq(N) /\ c \in Seq(N)
    BY <1>1, <2>1, <2>2
  <2>4. Elements(ab \o c) = Elements(ab) \cup Elements(c)
    BY <2>3, ElementsConcat
  <2> QED
    BY <2>1, <2>2, <2>4
<1>4. Mcp!buildMCPServer(wired).names = Elements(a \o b \o c)
  BY DEF Mcp!buildMCPServer, Elements
<1> QED
  BY <1>2, <1>3, <1>4, BackendOfTool DEF ToolsOf

LEMMA RegistryInvInit == Init => RegistryInv
  BY DEF Init, RegistryInv, Stages, BeforeHTTP, BeforeTools, ToolsOf

LEMMA RegistryInvStep == RegistryInv /\ [Next]_vars => RegistryInv'
<1> SUFFICES ASSUME RegistryInv, [Next]_vars PROVE RegistryInv'
  OBVIOUS
<1>a. RegisterTools =>
        /\ backends' = backends /\ pc' \in {"tls", "closers"} /\ pc = "tools"
        /\ (tools' = ToolsOf(backends) \/ (pc' = "closers" /\ tools' = tools))
  <2>1. Mcp!buildMCPServer(Wired).names = ToolsOf(backends)
    <3>1. ToolsOf(backends \cap {"dyn", "streams"}) = ToolsOf(backends)
      BY BackendOfTool DEF ToolsOf, RegistryInv
    <3> QED
      BY <3>1, RegisteredTools DEF Wired
  <2>2. RegisterTools =>
          /\ UNCHANGED <<site, identity, backends, journey>> /\ pc = "tools"
          /\ \/ /\ tools' = Mcp!buildMCPServer(Wired).names
                /\ pc' = "tls"
             \/ /\ tools' = tools
                /\ pc' = "closers"
    BY DEF RegisterTools, wiring
  <2> QED
    BY <2>1, <2>2
<1>b. ToolsOf(backends) \subseteq DOMAIN Mcp!Named
  BY DEF ToolsOf
<1>c. ASSUME RegisterTools PROVE RegistryInv'
  <2>1. ToolsOf(backends)' = ToolsOf(backends)
    BY <1>a, <1>c DEF ToolsOf
  <2> QED
    BY <1>a, <1>b, <1>c, <2>1 DEF RegistryInv, Stages, BeforeHTTP, BeforeTools
<1> USE DEF RegistryInv, Stages, BeforeHTTP, BeforeTools, ToolsOf, wiring, listeners, requests,
            outcome
<1>1. CASE ReadConfig \/ WireKube
  BY <1>1 DEF ReadConfig, WireKube
<1>2. CASE WireDyn
  BY <1>2 DEF WireDyn
<1>3. ASSUME NEW listed \in BOOLEAN, NEW yes \in BOOLEAN, WireStreams(listed, yes)
      PROVE  RegistryInv'
  BY <1>3 DEF WireStreams
<1>5. ASSUME NEW loads, BuildTLS(loads) PROVE RegistryInv'
  BY <1>5 DEF BuildTLS
<1>6. ASSUME NEW yes \in BOOLEAN, StartJourneyAndHTTP(yes) PROVE RegistryInv'
  BY <1>6 DEF StartJourneyAndHTTP
<1>7. CASE StartGRPC \/ GRPCListenFails
  BY <1>7 DEF StartGRPC, GRPCListenFails
<1>8. CASE HTTPFails \/ GRPCFails \/ CallArrives \/ CallEnds \/ RPCArrives \/ RPCEnds \/ Signal
  BY <1>8 DEF HTTPFails, GRPCFails, CallArrives, CallEnds, RPCArrives, RPCEnds, Signal
<1>9. ASSUME NEW r \in Requests, ExchangeBegins(r) PROVE RegistryInv'
  BY <1>9 DEF ExchangeBegins, Mcp!Arrives
<1>10. CASE ExchangeGoesOn
  BY <1>10 DEF ExchangeGoesOn, Mcp!WriteTimeout, Mcp!ToolReturns
<1>11. ASSUME NEW why \in {"http", "grpc", "signal"}, WaitEnds(why) PROVE RegistryInv'
  BY <1>11 DEF WaitEnds, AfterWait
<1>12. CASE GraceEnds \/ HTTPShutdownReturns \/ GracefulStopReturns \/ StopByForce
  BY <1>12 DEF GraceEnds, HTTPShutdownReturns, GracefulStopReturns, StopByForce
<1>13. CASE RunClosers
  BY <1>13 DEF RunClosers
<1>14. CASE UNCHANGED vars
  BY <1>14 DEF vars
<1> QED
  BY <1>1, <1>2, <1>3, <1>c, <1>5, <1>6, <1>7, <1>8, <1>9, <1>10, <1>11, <1>12, <1>13, <1>14
  DEF Next, Wiring, Serving, ShuttingDown

-----------------------------------------------------------------------------
(* The exchange that is followed *)

Ids == {"given", "missing", "null"}

Kinds == {"no answer", "202", "405", "500", "parse error", "invalid request", "invalid params",
          "method not found", "result"}

Exchange ==
  [open : BOOLEAN, owed : BOOLEAN, id : Ids, backend : {"none", "dyn", "streams"},
   late : BOOLEAN, answer : [kind : Kinds, id : Ids]]

\* While a tool runs, what is owed is owed under an id, and the notifications
\* are those without one; afterwards the answer is the right one.
ExchangeInv ==
  /\ exchange \in Exchange
  /\ exchange.open => (exchange.owed <=> exchange.id = "given")
  /\ AnsweredOnce

\* A request that is answered at once is answered as it should be.
LEMMA ServedRight ==
  ASSUME NEW r \in Requests, ~Mcp!RunsTool(r)
  PROVE  /\ Mcp!ServeHTTP(r) \in [kind : Kinds, id : Ids]
         /\ IF Mcp!Owed(r)
            THEN Mcp!ServeHTTP(r).id = r.id
            ELSE Mcp!ServeHTTP(r).kind \in {"202", "405", "parse error", "invalid request"}
<1>1. r.id \in Ids
  BY RequestsAssumption DEF Ids
<1>2. CASE Mcp!Malformed(r)
  BY <1>1, <1>2 DEF Mcp!ServeHTTP, Mcp!Malformed, Mcp!writeJSONRPCError, Mcp!Status, Mcp!Response,
     Mcp!Owed, Ids, Kinds
<1>3. CASE ~Mcp!Malformed(r)
  <2>0. PICK d : d = Mcp!Dispatch(r)
    OBVIOUS
  <2>1. \/ d = Mcp!Status("202") /\ r.method = "notifications/initialized"
        \/ \E k \in {"invalid params", "result", "method not found"} : d = Mcp!Reply(r, k)
    BY <2>0 DEF Mcp!Dispatch
  <2>2. r.post /\ r.body = "json"
    BY <1>3 DEF Mcp!Malformed
  <2>3. CASE d = Mcp!Status("202") /\ r.method = "notifications/initialized"
    BY <1>1, <1>3, <2>0, <2>3 DEF Mcp!ServeHTTP, Mcp!Status, Mcp!Owed, Ids, Kinds
  <2>4. ASSUME NEW k \in {"invalid params", "result", "method not found"}, d = Mcp!Reply(r, k)
        PROVE  /\ d \in [kind : Kinds, id : Ids]
               /\ r.id = "given" => d.id = r.id
               /\ r.id # "given" => d.kind = "202"
    <3>1. CASE r.id = "given"
      <4>1. d = [kind |-> k, id |-> "given"]
        BY <2>4, <3>1 DEF Mcp!Reply, Mcp!isNotification, Mcp!Response
      <4>2. k \in Kinds /\ "given" \in Ids
        BY DEF Kinds, Ids
      <4>3. d \in [kind : Kinds, id : Ids] /\ d.id = "given"
        BY <4>1, <4>2
      <4> QED
        BY <3>1, <4>3
    <3>2. CASE r.id # "given"
      <4>1. d = [kind |-> "202", id |-> "missing"]
        BY <1>1, <2>4, <3>2 DEF Mcp!Reply, Mcp!isNotification, Mcp!Status, Ids
      <4>2. "202" \in Kinds /\ "missing" \in Ids
        BY DEF Kinds, Ids
      <4>3. d \in [kind : Kinds, id : Ids] /\ d.kind = "202"
        BY <4>1, <4>2
      <4> QED
        BY <3>2, <4>3
    <3> QED
      BY <3>1, <3>2
  <2>5. CASE r.method = "notifications/initialized"
    BY <2>0, <2>3, <2>5 DEF Mcp!Dispatch
  <2>6. CASE r.method # "notifications/initialized"
    BY <1>3, <2>0, <2>1, <2>2, <2>4, <2>6 DEF Mcp!ServeHTTP, Mcp!Owed
  <2> QED
    BY <2>5, <2>6
<1> QED
  BY <1>2, <1>3

LEMMA ExchangeInvInit == Init => ExchangeInv
<1> SUFFICES ASSUME Init PROVE ExchangeInv
  OBVIOUS
<1>1. exchange = Mcp!Idle
  BY DEF Init
<1>2. Mcp!NoAnswer \in [kind : Kinds, id : Ids]
  BY DEF Mcp!NoAnswer, Kinds, Ids
<1>3. exchange \in Exchange /\ ~exchange.open
  BY <1>1, <1>2 DEF Mcp!Idle, Exchange, Ids
<1> QED
  BY <1>1, <1>3 DEF ExchangeInv, AnsweredOnce, Mcp!AnsweredOnce

\* The steps of the exchange itself.
LEMMA ExchangeArrives ==
  ASSUME RegistryInv, ExchangeInv, NEW r \in Requests, Mcp!Arrives(r)
  PROVE  ExchangeInv'
<1>1. r.id \in Ids /\ tools' = tools
  BY RequestsAssumption DEF Ids, Mcp!Arrives
<1>2. CASE Mcp!RunsTool(r)
  <2>1. /\ exchange' = [Mcp!Idle EXCEPT !.open = TRUE, !.owed = Mcp!Owed(r), !.id = r.id,
                                        !.backend = Mcp!Named[r.tool].backend]
        /\ r.tool \in tools /\ ~Mcp!Malformed(r) /\ r.method = "tools/call"
    BY <1>2 DEF Mcp!Arrives, Mcp!RunsTool
  <2>2. Mcp!Owed(r) \in BOOLEAN /\ (Mcp!Owed(r) <=> r.id = "given")
    BY <2>1 DEF Mcp!Owed, Mcp!Malformed
  <2>3. Mcp!Named[r.tool].backend \in {"none", "dyn", "streams"}
    BY <2>1, BackendOfTool DEF RegistryInv
  <2> QED
    BY <1>1, <2>1, <2>2, <2>3 DEF ExchangeInv, Exchange, Ids, Kinds, Mcp!Idle, Mcp!NoAnswer, AnsweredOnce,
       Mcp!AnsweredOnce
<1>3. CASE ~Mcp!RunsTool(r)
  <2>1. exchange' = [Mcp!Idle EXCEPT !.owed = Mcp!Owed(r), !.id = r.id, !.answer = Mcp!ServeHTTP(r)]
    BY <1>3 DEF Mcp!Arrives
  <2>2. Mcp!Owed(r) \in BOOLEAN
    BY DEF Mcp!Owed
  <2> QED
    BY <1>1, <1>3, <2>1, <2>2, ServedRight DEF ExchangeInv, Exchange, Ids, Kinds, Mcp!Idle, Mcp!NoAnswer,
       AnsweredOnce, Mcp!AnsweredOnce
<1> QED
  BY <1>2, <1>3

\* The exchange is closed with an answer that its request may get.
LEMMA ExchangeCloses ==
  ASSUME ExchangeInv, exchange.open, NEW a \in [kind : Kinds, id : Ids],
         exchange' = [exchange EXCEPT !.open = FALSE, !.answer = a],
         exchange.owed => \/ a.id = exchange.id \/ a = Mcp!Status("500")
                          \/ a = Mcp!NoAnswer /\ exchange.late,
         ~exchange.owed => a.kind \in {"202", "500", "no answer"}
  PROVE  ExchangeInv'
<1>1. exchange \in Exchange
  BY DEF ExchangeInv
<1>2. /\ exchange' \in Exchange /\ ~exchange'.open
      /\ exchange'.owed = exchange.owed /\ exchange'.id = exchange.id
      /\ exchange'.late = exchange.late /\ exchange'.answer = a
  BY <1>1 DEF Exchange
<1>3. exchange'.owed \in BOOLEAN
  BY <1>2 DEF Exchange
<1>4. AnsweredOnce'
  BY <1>2, <1>3 DEF AnsweredOnce, Mcp!AnsweredOnce
<1> QED
  BY <1>2, <1>4 DEF ExchangeInv

LEMMA ExchangeReturns ==
  ASSUME ExchangeInv, NEW how \in {"ok", "error", "panic"}, Mcp!ToolReturns(how)
  PROVE  ExchangeInv'
<1>1. /\ exchange \in Exchange /\ exchange.open
      /\ exchange.owed <=> exchange.id = "given"
  BY DEF ExchangeInv, Mcp!ToolReturns
<1>2. CASE exchange.late
  <2>1. exchange' = [exchange EXCEPT !.open = FALSE, !.answer = Mcp!NoAnswer]
    BY <1>2 DEF Mcp!ToolReturns
  <2>2. Mcp!NoAnswer \in [kind : Kinds, id : Ids] /\ Mcp!NoAnswer.kind = "no answer"
    BY DEF Mcp!NoAnswer, Kinds, Ids
  <2> QED
    BY <1>1, <1>2, <2>1, <2>2, ExchangeCloses
<1>3. CASE ~exchange.late /\ how = "panic"
  <2>1. exchange' = [exchange EXCEPT !.open = FALSE, !.answer = Mcp!Status("500")]
    BY <1>3 DEF Mcp!ToolReturns
  <2>2. Mcp!Status("500") \in [kind : Kinds, id : Ids] /\ Mcp!Status("500").kind = "500"
    BY DEF Mcp!Status, Kinds, Ids
  <2> QED
    BY <1>1, <2>1, <2>2, ExchangeCloses
<1>4. CASE ~exchange.late /\ how # "panic"
  <2>1. exchange' = [exchange EXCEPT !.open = FALSE, !.answer = Mcp!Reply(exchange, "result")]
    BY <1>4 DEF Mcp!ToolReturns
  <2>2. CASE exchange.id = "given"
    <3>1. Mcp!Reply(exchange, "result") = [kind |-> "result", id |-> "given"]
      BY <2>2 DEF Mcp!Reply, Mcp!isNotification, Mcp!Response
    <3>2. [kind |-> "result", id |-> "given"] \in [kind : Kinds, id : Ids]
      BY DEF Kinds, Ids
    <3> QED
      BY <1>1, <2>1, <2>2, <3>1, <3>2, ExchangeCloses
  <2>3. CASE exchange.id # "given"
    <3>1. Mcp!Reply(exchange, "result") = [kind |-> "202", id |-> "missing"]
      BY <1>1, <2>3 DEF Mcp!Reply, Mcp!isNotification, Mcp!Status, Exchange, Ids
    <3>2. [kind |-> "202", id |-> "missing"] \in [kind : Kinds, id : Ids]
      BY DEF Kinds, Ids
    <3> QED
      BY <1>1, <2>1, <2>3, <3>1, <3>2, ExchangeCloses
  <2> QED
    BY <2>2, <2>3
<1> QED
  BY <1>2, <1>3, <1>4

LEMMA ExchangeTimesOut ==
  ASSUME ExchangeInv, Mcp!WriteTimeout
  PROVE  ExchangeInv'
  BY DEF Mcp!WriteTimeout, ExchangeInv, Exchange, AnsweredOnce, Mcp!AnsweredOnce

LEMMA ExchangeInvStep == RegistryInv /\ ExchangeInv /\ [Next]_vars => ExchangeInv'
<1> SUFFICES ASSUME RegistryInv, ExchangeInv, [Next]_vars PROVE ExchangeInv'
  OBVIOUS
<1>1. ASSUME NEW r \in Requests, ExchangeBegins(r) PROVE ExchangeInv'
  BY <1>1, ExchangeArrives DEF ExchangeBegins
<1>2. CASE ExchangeGoesOn
  BY <1>2, ExchangeReturns, ExchangeTimesOut DEF ExchangeGoesOn
<1>3. CASE UNCHANGED exchange
  BY <1>3 DEF ExchangeInv, AnsweredOnce, Mcp!AnsweredOnce
<1> QED
  BY <1>1, <1>2, <1>3 DEF Next, Wiring, Serving, ShuttingDown, ReadConfig, WireKube, WireDyn,
     WireStreams, RegisterTools, BuildTLS, StartJourneyAndHTTP, StartGRPC, GRPCListenFails,
     HTTPFails, GRPCFails, CallArrives, CallEnds, RPCArrives, RPCEnds, Signal, WaitEnds, GraceEnds,
     HTTPShutdownReturns, GracefulStopReturns, StopByForce, RunClosers, vars, wiring, listeners,
     requests, outcome

-----------------------------------------------------------------------------
(* How far run has got *)

\* No request can arrive any more.
NotServing == http \notin Taking /\ grpc \notin Taking

\* Nothing followed or counted is open on the HTTP listener.
HTTPDrained == calls = 0 /\ ~exchange.open

StageInv ==
  /\ pc \in Stages
  /\ calls \in Nat /\ rpcs \in Nat
  /\ pc \in BeforeHTTP => NotServing /\ HTTPDrained /\ rpcs = 0
  /\ pc = "grpc" => grpc \notin Taking /\ rpcs = 0
  /\ pc = "http" => http \notin Taking
  /\ pc = "graceful" => NotServing /\ (HTTPDrained \/ grace = "over")
  /\ pc \in {"closers", "returned"} =>
       \/ result = "grpc listen"
       \/ NotServing /\ HTTPDrained /\ rpcs = 0
       \/ NotServing /\ grace = "over"

LEMMA StageInvInit == Init => StageInv
  BY DEF Init, StageInv, Stages, BeforeHTTP, BeforeTools, NotServing, Taking, HTTPDrained, Mcp!Idle


LEMMA StageInvStep == RegistryInv /\ ExchangeInv /\ StageInv /\ [Next]_vars => StageInv'
<1> SUFFICES ASSUME RegistryInv, ExchangeInv, StageInv, [Next]_vars PROVE StageInv'
  OBVIOUS
<1>a. calls \in Nat /\ rpcs \in Nat
  BY DEF StageInv
<1>b. /\ CallArrives \/ CallEnds => calls' \in Nat
      /\ RPCArrives \/ RPCEnds => rpcs' \in Nat
  BY <1>a DEF CallArrives, CallEnds, RPCArrives, RPCEnds
<1>c. /\ CallArrives \/ CallEnds =>
           UNCHANGED <<http, grpc, pc, exchange, grace, result, rpcs>> /\ (http \in Taking \/ calls # 0)
      /\ RPCArrives \/ RPCEnds =>
           UNCHANGED <<http, grpc, pc, exchange, grace, result, calls>> /\ (grpc \in Taking \/ rpcs # 0)
  BY <1>a DEF CallArrives, CallEnds, RPCArrives, RPCEnds, listeners, outcome
<1> USE DEF StageInv, Stages, BeforeHTTP, BeforeTools, NotServing, Taking, HTTPDrained,
            listeners, requests, outcome
<1>0. exchange.open \in BOOLEAN
  BY DEF ExchangeInv, Exchange
<1> USE <1>0
<1>1. CASE ReadConfig \/ WireKube
  BY <1>1 DEF ReadConfig, WireKube
<1>2. CASE WireDyn
  BY <1>2 DEF WireDyn
<1>3. ASSUME NEW listed \in BOOLEAN, NEW yes \in BOOLEAN, WireStreams(listed, yes) PROVE StageInv'
  BY <1>3 DEF WireStreams
<1>4. CASE RegisterTools
  BY <1>4 DEF RegisterTools
<1>5. ASSUME NEW loads, BuildTLS(loads) PROVE StageInv'
  BY <1>5 DEF BuildTLS
<1>6. ASSUME NEW yes \in BOOLEAN, StartJourneyAndHTTP(yes) PROVE StageInv'
  BY <1>6 DEF StartJourneyAndHTTP
<1>7. CASE StartGRPC \/ GRPCListenFails
  BY <1>7 DEF StartGRPC, GRPCListenFails
<1>8. CASE HTTPFails
  BY <1>8 DEF HTTPFails, Alive
<1>8a. CASE GRPCFails
  BY <1>8a DEF GRPCFails, Alive
<1>8b. CASE Signal
  BY <1>8b DEF Signal
<1>9. CASE CallArrives \/ CallEnds \/ RPCArrives \/ RPCEnds
  BY <1>9, <1>b, <1>c
<1>10. ASSUME NEW r \in Requests, ExchangeBegins(r) PROVE StageInv'
  BY <1>10 DEF ExchangeBegins
<1>11. CASE ExchangeGoesOn
  <2>1. exchange.open
    BY <1>11 DEF ExchangeGoesOn, Mcp!WriteTimeout, Mcp!ToolReturns
  <2> QED
    BY <1>11, <2>1 DEF ExchangeGoesOn
<1>12. ASSUME NEW why \in {"http", "grpc", "signal"}, WaitEnds(why) PROVE StageInv'
  BY <1>12 DEF WaitEnds, AfterWait
<1>13. CASE GraceEnds \/ HTTPShutdownReturns
  BY <1>13 DEF GraceEnds, HTTPShutdownReturns
<1>14. CASE GracefulStopReturns \/ StopByForce \/ RunClosers
  BY <1>14 DEF GracefulStopReturns, StopByForce, Forced, RunClosers
<1>15. CASE UNCHANGED vars
  BY <1>15 DEF vars
<1> QED
  BY <1>1, <1>2, <1>3, <1>4, <1>5, <1>6, <1>7, <1>8, <1>8a, <1>8b, <1>9, <1>10, <1>11, <1>12,
     <1>13, <1>14, <1>15 DEF Next, Wiring, Serving, ShuttingDown

-----------------------------------------------------------------------------
(* The backend of a tool that runs *)

BackendInv == exchange.open /\ pc # "returned" => exchange.backend \in backends \cup {"none"}

LEMMA BackendInvStep ==
  RegistryInv /\ ExchangeInv /\ StageInv /\ BackendInv /\ [Next]_vars => BackendInv'
<1> SUFFICES ASSUME RegistryInv, ExchangeInv, StageInv, BackendInv, [Next]_vars PROVE BackendInv'
  OBVIOUS
<1>0. exchange \in Exchange /\ exchange.open \in BOOLEAN
  BY DEF ExchangeInv, Exchange
<1>1. CASE pc \in BeforeHTTP /\ UNCHANGED exchange
  <2>1. ~exchange.open
    BY <1>1 DEF StageInv, HTTPDrained
  <2> QED
    BY <1>1, <2>1 DEF BackendInv
<1>2. CASE UNCHANGED <<backends, exchange>> /\ (pc = "returned" => pc' = "returned")
  BY <1>2 DEF BackendInv
<1>3. ASSUME NEW r \in Requests, ExchangeBegins(r) PROVE BackendInv'
  <2>1. /\ UNCHANGED backends /\ pc # "returned" /\ Mcp!Arrives(r)
    BY <1>3 DEF ExchangeBegins, wiring, Alive
  <2>2. CASE Mcp!RunsTool(r)
    <3>1. r.tool \in tools
      BY <2>2 DEF Mcp!RunsTool
    <3>2. Mcp!Named[r.tool].backend \in backends \cup {"none"}
      BY <2>1, <3>1 DEF RegistryInv, ToolsOf
    <3>3. exchange'.backend = Mcp!Named[r.tool].backend
      BY <2>1, <2>2 DEF Mcp!Arrives, Mcp!Idle
    <3> QED
      BY <2>1, <3>2, <3>3 DEF BackendInv
  <2>3. CASE ~Mcp!RunsTool(r)
    <3>1. exchange'.backend = "none"
      BY <2>1, <2>3 DEF Mcp!Arrives, Mcp!Idle
    <3> QED
      BY <3>1 DEF BackendInv
  <2> QED
    BY <2>2, <2>3
<1>4. CASE ExchangeGoesOn
  <2>1. /\ UNCHANGED <<backends, pc>> /\ exchange.open
        /\ exchange'.backend = exchange.backend
    BY <1>0, <1>4 DEF ExchangeGoesOn, Mcp!WriteTimeout, Mcp!ToolReturns, wiring, Exchange
  <2> QED
    BY <2>1 DEF BackendInv
<1>5. CASE RunClosers
  BY <1>5 DEF RunClosers, BackendInv
<1>6. CASE ReadConfig \/ WireKube \/ WireDyn \/ RegisterTools \/ StartGRPC \/ GRPCListenFails
  BY <1>1, <1>2, <1>6 DEF ReadConfig, WireKube, WireDyn, RegisterTools, StartGRPC, GRPCListenFails,
     requests, wiring, BeforeHTTP, BeforeTools
<1>7. ASSUME NEW listed \in BOOLEAN, NEW yes \in BOOLEAN, WireStreams(listed, yes) PROVE BackendInv'
  BY <1>1, <1>7 DEF WireStreams, requests, BeforeHTTP, BeforeTools
<1>8. ASSUME NEW loads, BuildTLS(loads) PROVE BackendInv'
  BY <1>1, <1>8 DEF BuildTLS, requests, BeforeHTTP
<1>9. ASSUME NEW yes \in BOOLEAN, StartJourneyAndHTTP(yes) PROVE BackendInv'
  BY <1>1, <1>9 DEF StartJourneyAndHTTP, requests, BeforeHTTP
<1>10. CASE HTTPFails \/ GRPCFails \/ CallArrives \/ CallEnds \/ RPCArrives \/ RPCEnds \/ Signal
  BY <1>2, <1>10 DEF HTTPFails, GRPCFails, CallArrives, CallEnds, RPCArrives, RPCEnds, Signal,
     requests, wiring
<1>11. ASSUME NEW why \in {"http", "grpc", "signal"}, WaitEnds(why) PROVE BackendInv'
  BY <1>2, <1>11 DEF WaitEnds, requests, wiring
<1>12. CASE GraceEnds \/ HTTPShutdownReturns \/ GracefulStopReturns \/ StopByForce
  BY <1>2, <1>12 DEF GraceEnds, HTTPShutdownReturns, GracefulStopReturns, StopByForce, requests, wiring
<1>13. CASE UNCHANGED vars
  BY <1>2, <1>13 DEF vars, requests, wiring
<1> QED
  BY <1>3, <1>4, <1>5, <1>6, <1>7, <1>8, <1>9, <1>10, <1>11, <1>12, <1>13
  DEF Next, Wiring, Serving, ShuttingDown

-----------------------------------------------------------------------------
(* The identity.  The library's induction theorems take an operator; WFMin *)
(* on the numbers gives one that takes a set.                              *)

LEMMA SetInduction ==
  ASSUME NEW T, 0 \in T, \A n \in Nat : n \in T => n + 1 \in T
  PROVE  \A n \in Nat : n \in T
<1> SUFFICES ASSUME Nat \ T # {} PROVE FALSE
  OBVIOUS
<1>1. PICK R : R = OpToRel(<, Nat)
  OBVIOUS
<1>2. PICK Z : Z = Nat \ T
  OBVIOUS
<1>3. IsWellFoundedOn(R, Nat)
  BY <1>1, NatLessThanWellFounded
<1>4. Z \subseteq Nat /\ Z # {}
  BY <1>2
<1>5. \E x \in Z : \A y \in Z : ~(<<y, x>> \in R)
  BY <1>3, <1>4, WFMin
<1>6. PICK x \in Z : \A y \in Z : ~(<<y, x>> \in R)
  BY <1>5
<1>7. x # 0 /\ x - 1 \in Nat /\ x - 1 \notin T
  BY <1>2, <1>6
<1>8. <<x - 1, x>> \in R
  <2>1. R = {p \in Nat \X Nat : p[1] < p[2]}
    BY <1>1 DEF OpToRel
  <2> QED
    BY <1>4, <1>7, <2>1
<1> QED
  BY <1>2, <1>6, <1>7, <1>8

\* A function on 0..N is defined by its first value and a step from each value to the next.
Recursive(f, N, first, step) == f = [n \in 0..N |-> IF n = 0 THEN first ELSE step[n][f[n - 1]]]

LEMMA RecursiveFunction ==
  ASSUME NEW N \in Nat, NEW S, NEW first \in S, NEW step \in [1..N -> [S -> S]]
  PROVE  \E f \in [0..N -> S] : Recursive(f, N, first, step)
<1> DEFINE Good(m, f) == /\ f \in [0..m -> S] /\ f[0] = first
                         /\ \A n \in 1..m : f[n] = step[n][f[n - 1]]
           T == {m \in Nat : m <= N => \E f \in [0..m -> S] : Good(m, f)}
<1>1. 0 \in T
  <2>1. Good(0, [n \in 0..0 |-> first])
    OBVIOUS
  <2> QED
    BY <2>1
<1>2. ASSUME NEW m \in Nat, m \in T PROVE m + 1 \in T
  <2> SUFFICES ASSUME m + 1 <= N PROVE \E f \in [0..(m + 1) -> S] : Good(m + 1, f)
    OBVIOUS
  <2>1. PICK f \in [0..m -> S] : Good(m, f)
    BY <1>2
  <2>2. PICK g : g = [n \in 0..(m + 1) |-> IF n <= m THEN f[n] ELSE step[m + 1][f[m]]]
    OBVIOUS
  <2>3. f[m] \in S /\ m + 1 \in 1..N
    BY <2>1
  <2>4. step[m + 1][f[m]] \in S
    BY <2>3
  <2>5. g \in [0..(m + 1) -> S] /\ g[0] = first
    BY <2>1, <2>2, <2>4
  <2>6. ASSUME NEW n \in 1..(m + 1) PROVE g[n] = step[n][g[n - 1]]
    <3>1. CASE n <= m
      BY <2>1, <2>2, <3>1
    <3>2. CASE n = m + 1
      BY <2>1, <2>2, <3>2
    <3> QED
      BY <3>1, <3>2
  <2> QED
    BY <2>5, <2>6
<1>3. N \in T
  <2> HIDE DEF T
  <2> QED
    BY <1>1, <1>2, SetInduction
<1>4. PICK f \in [0..N -> S] : Good(N, f)
  BY <1>3
<1>5. Recursive(f, N, first, step)
  BY <1>4 DEF Recursive
<1> QED
  BY <1>4, <1>5

\* What a site is known by, of labels in A; "" where it is not known.
Found(A) == [site : A \cup {""}, tenant : A \cup {""}, region : A \cup {""}]

TenantLocal(labels, s, t) == labels = <<s, t, "tenant", "local">>

\* The site and the tenant come from one of the tokens seen.
OneToken(seen, known) ==
  /\ known.site = "" <=> known.tenant = ""
  /\ known.site # "" => \E labels \in seen : TenantLocal(labels, known.site, known.tenant)

LEMMA FourLabels ==
  ASSUME NEW A, NEW labels \in Seq(A)
  PROVE  parseTenantLocalToken(labels) =>
           /\ labels = <<labels[1], labels[2], "tenant", "local">>
           /\ labels[1] \in A /\ labels[2] \in A
<1> SUFFICES ASSUME parseTenantLocalToken(labels)
             PROVE  /\ labels = <<labels[1], labels[2], "tenant", "local">>
                    /\ labels[1] \in A /\ labels[2] \in A
  OBVIOUS
<1>1. Len(labels) = 4
  BY Zenon DEF parseTenantLocalToken
<1>2. SubSeq(labels, Len(labels) - 1, Len(labels)) = <<"tenant", "local">>
  BY Zenon DEF parseTenantLocalToken, Ends
<1>3. PICK last : last = SubSeq(labels, Len(labels) - 1, Len(labels))
  OBVIOUS
<1>4. last[1] = labels[3] /\ last[2] = labels[4]
  <2>1. last = SubSeq(labels, 3, 4)
    BY <1>1, <1>3
  <2> QED
    BY <1>1, <2>1, SubSeqProperties
<1>5. labels[3] = "tenant" /\ labels[4] = "local"
  <2>1. last = <<"tenant", "local">>
    BY <1>2, <1>3
  <2>2. last[1] = "tenant" /\ last[2] = "local"
    BY <2>1
  <2> QED
    BY <1>4, <2>2, Zenon
<1>6. labels[1] \in A /\ labels[2] \in A
  BY <1>1
<1> QED
  BY <1>1, <1>5, <1>6

\* What a token adds, by what it is.
LEMMA LookAdds ==
  ASSUME NEW A, NEW known \in Found(A), NEW labels
  PROVE  /\ parseTenantLocalToken(labels) =>
              /\ Look(known, labels) = [known EXCEPT !.site = OrElse(known.site, labels[1]),
                                                     !.tenant = OrElse(known.tenant, labels[2])]
              /\ labels[1] # "" /\ labels[2] # ""
         /\ ~parseTenantLocalToken(labels) /\ parseComputeInternalToken(labels) =>
              /\ Look(known, labels) = [known EXCEPT !.region = OrElse(known.region, labels[1])]
              /\ Len(labels) = 3
         /\ ~parseTenantLocalToken(labels) /\ ~parseComputeInternalToken(labels) =>
              Look(known, labels) = known
<1>1. parseTenantLocalToken(labels) => labels[1] # "" /\ labels[2] # ""
  BY Zenon DEF parseTenantLocalToken
<1>2. parseComputeInternalToken(labels) => Len(labels) = 3
  BY Zenon DEF parseComputeInternalToken
<1> QED
  BY <1>1, <1>2 DEF Look

LEMMA FirstLabel ==
  ASSUME NEW A, NEW labels \in Seq(A), Len(labels) = 3
  PROVE  labels[1] \in A
  OBVIOUS

LEMMA LookKeepsType ==
  ASSUME NEW A, NEW labels \in Seq(A), NEW known \in Found(A)
  PROVE  Look(known, labels) \in Found(A)
<1>1. PICK after : after = Look(known, labels)
  OBVIOUS
<1>2. CASE parseTenantLocalToken(labels)
  <2>1. PICK a, b \in A : a = labels[1] /\ b = labels[2]
    BY <1>2, FourLabels
  <2>2. after = [known EXCEPT !.site = OrElse(known.site, a), !.tenant = OrElse(known.tenant, b)]
    BY <1>1, <1>2, <2>1, LookAdds
  <2>3. OrElse(known.site, a) \in A \cup {""} /\ OrElse(known.tenant, b) \in A \cup {""}
    BY DEF OrElse, Found
  <2> QED
    BY <1>1, <2>2, <2>3 DEF Found
<1>3. CASE ~parseTenantLocalToken(labels) /\ parseComputeInternalToken(labels)
  <2>1. PICK a \in A : a = labels[1]
    BY <1>3, FirstLabel, LookAdds
  <2>2. after = [known EXCEPT !.region = OrElse(known.region, a)]
    BY <1>1, <1>3, <2>1, LookAdds
  <2>3. OrElse(known.region, a) \in A \cup {""}
    BY DEF OrElse, Found
  <2> QED
    BY <1>1, <2>2, <2>3 DEF Found
<1>4. CASE ~parseTenantLocalToken(labels) /\ ~parseComputeInternalToken(labels)
  BY <1>4, LookAdds
<1> QED
  BY <1>2, <1>3, <1>4

LEMMA LookKeepsOneToken ==
  ASSUME NEW A, NEW labels \in Seq(A), NEW known \in Found(A), NEW seen, OneToken(seen, known)
  PROVE  OneToken(seen \cup {labels}, Look(known, labels))
<1>1. PICK after : after = Look(known, labels)
  OBVIOUS
<1>2. CASE parseTenantLocalToken(labels)
  <2>1. PICK a, b \in A : a = labels[1] /\ b = labels[2]
    BY <1>2, FourLabels
  <2>2. /\ after = [known EXCEPT !.site = OrElse(known.site, a), !.tenant = OrElse(known.tenant, b)]
        /\ a # "" /\ b # ""
    BY <1>1, <1>2, <2>1, LookAdds
  <2>3. TenantLocal(labels, a, b)
    BY <1>2, <2>1, FourLabels DEF TenantLocal
  <2>4. after.site = OrElse(known.site, a) /\ after.tenant = OrElse(known.tenant, b)
    BY <2>2 DEF Found
  <2>5. CASE known.site = ""
    <3>1. known.tenant = ""
      BY <2>5 DEF OneToken
    <3>2. after.site = a /\ after.tenant = b
      BY <2>4, <2>5, <3>1 DEF OrElse
    <3> QED
      BY <1>1, <2>2, <2>3, <3>2 DEF OneToken
  <2>6. CASE known.site # ""
    <3>1. known.tenant # ""
      BY <2>6 DEF OneToken
    <3>2. after.site = known.site /\ after.tenant = known.tenant
      BY <2>4, <2>6, <3>1 DEF OrElse
    <3> QED
      BY <1>1, <3>2 DEF OneToken
  <2> QED
    BY <2>5, <2>6
<1>3. CASE ~parseTenantLocalToken(labels)
  <2>1. after.site = known.site /\ after.tenant = known.tenant
    <3>1. after = [known EXCEPT !.region = OrElse(known.region, labels[1])] \/ after = known
      BY <1>1, <1>3, LookAdds
    <3> QED
      BY <3>1 DEF Found
  <2> QED
    BY <1>1, <2>1 DEF OneToken
<1> QED
  BY <1>2, <1>3

\* The tokens of a resolv.conf, and what they give.
Tokens(search, N, A) == \A n \in 1..N : search[n] \in Seq(A)

LEMMA OneTokenFound ==
  ASSUME NEW A, NEW search, NEW N \in Nat, N = Len(search), Tokens(search, N, A)
  PROVE  OneToken({search[n] : n \in 1..N}, discoverFromResolvConf(search))
<1>1. PICK S, first : S = Found(A) /\ first = Nothing
  OBVIOUS
<1>2. first \in S
  BY <1>1 DEF Nothing, Found
<1>3. PICK step : step = [n \in 1..N |-> [known \in S |-> Look(known, search[n])]]
  OBVIOUS
<1>4. step \in [1..N -> [S -> S]]
  <2>1. ASSUME NEW n \in 1..N PROVE [known \in S |-> Look(known, search[n])] \in [S -> S]
    BY <1>1, LookKeepsType DEF Tokens
  <2> QED
    BY <1>3, <2>1
<1>5. PICK f \in [0..N -> S] : Recursive(f, N, first, step)
  BY <1>2, <1>4, RecursiveFunction
<1>6. \A n \in 1..N : \A known \in S : step[n][known] = Look(known, search[n])
  BY <1>3
<1>7. f = [n \in 0..N |-> IF n = 0 THEN Nothing ELSE Look(f[n - 1], search[n])]
  <2>1. \A n \in 1..N : n - 1 \in 0..N /\ f[n - 1] \in S
    OBVIOUS
  <2>2. \A n \in 1..N : step[n][f[n - 1]] = Look(f[n - 1], search[n])
    BY <1>6, <2>1
  <2> QED
    BY <1>1, <1>5, <2>2 DEF Recursive
<1> DEFINE found == CHOOSE g : g = [n \in 0..N |-> IF n = 0 THEN Nothing ELSE Look(g[n - 1], search[n])]
<1>8. found = [n \in 0..N |-> IF n = 0 THEN Nothing ELSE Look(found[n - 1], search[n])]
  BY <1>7
<1>9. discoverFromResolvConf(search) = found[N]
  BY DEF discoverFromResolvConf
<1> HIDE DEF found
<1> DEFINE Seen(n) == {search[i] : i \in 1..n}
<1> DEFINE Good(n) == found[n] \in Found(A) /\ OneToken(Seen(n), found[n])
<1>10. PICK T : T = {n \in Nat : n <= N => Good(n)}
  OBVIOUS
<1>11. Good(0)
  <2>1. found[0] = Nothing
    BY <1>8
  <2>2. Nothing \in Found(A) /\ OneToken(Seen(0), Nothing)
    BY DEF Nothing, Found, OneToken
  <2> QED
    BY <2>1, <2>2
<1>12. ASSUME NEW n \in Nat, n + 1 <= N, Good(n) PROVE Good(n + 1)
  <2>1. found[n + 1] = Look(found[n], search[n + 1]) /\ search[n + 1] \in Seq(A)
    BY <1>8, <1>12 DEF Tokens
  <2>2. Seen(n + 1) = Seen(n) \cup {search[n + 1]}
    OBVIOUS
  <2>3. PICK seen, known : seen = Seen(n) /\ known = found[n]
    OBVIOUS
  <2>4. known \in Found(A) /\ OneToken(seen, known)
    BY <1>12, <2>3
  <2> HIDE DEF Seen
  <2> QED
    BY <2>1, <2>2, <2>3, <2>4, LookKeepsOneToken, LookKeepsType
<1> HIDE DEF Good
<1>13. 0 \in T
  BY <1>10, <1>11
<1>14. \A n \in Nat : n \in T => n + 1 \in T
  BY <1>10, <1>12
<1>15. Good(N)
  BY <1>10, <1>13, <1>14, SetInduction
<1> QED
  BY <1>9, <1>15 DEF Good

IdentityInv ==
  /\ site \in Sites
  /\ pc \in Stages \ {"config"} => identity = FromEnv(site.env, site.search)

LEMMA IdentityInvStep == RegistryInv /\ IdentityInv /\ [Next]_vars => IdentityInv'
<1> SUFFICES ASSUME RegistryInv, IdentityInv, [Next]_vars PROVE IdentityInv'
  OBVIOUS
<1>0. pc \in Stages
  BY DEF RegistryInv
<1>1. CASE ReadConfig
  BY <1>1 DEF ReadConfig, IdentityInv
<1>2. CASE UNCHANGED <<site, identity, pc>>
  BY <1>2 DEF IdentityInv
<1>3. CASE UNCHANGED <<site, identity>> /\ pc # "config"
  BY <1>0, <1>3 DEF IdentityInv
<1>4. CASE WireKube \/ WireDyn \/ RegisterTools \/ StartGRPC \/ GRPCListenFails
  BY <1>3, <1>4 DEF WireKube, WireDyn, RegisterTools, StartGRPC, GRPCListenFails, wiring
<1>5. ASSUME NEW listed \in BOOLEAN, NEW yes \in BOOLEAN, WireStreams(listed, yes) PROVE IdentityInv'
  BY <1>3, <1>5 DEF WireStreams
<1>6. ASSUME NEW loads, BuildTLS(loads) PROVE IdentityInv'
  BY <1>3, <1>6 DEF BuildTLS, wiring
<1>7. ASSUME NEW yes \in BOOLEAN, StartJourneyAndHTTP(yes) PROVE IdentityInv'
  BY <1>3, <1>7 DEF StartJourneyAndHTTP
<1>8. CASE Serving
  BY <1>2, <1>8 DEF Serving, HTTPFails, GRPCFails, CallArrives, CallEnds, RPCArrives, RPCEnds,
     Signal, ExchangeBegins, ExchangeGoesOn, wiring
<1>9. CASE ShuttingDown
  BY <1>2, <1>3, <1>9 DEF ShuttingDown, WaitEnds, GraceEnds, HTTPShutdownReturns,
     GracefulStopReturns, StopByForce, RunClosers, wiring
<1>10. CASE UNCHANGED vars
  BY <1>2, <1>10 DEF vars, wiring
<1> QED
  BY <1>1, <1>4, <1>5, <1>6, <1>7, <1>8, <1>9, <1>10 DEF Next, Wiring

\* What the environment says is kept, and what it does not say is one token's.
LEMMA IdentityIsOne ==
  ASSUME NEW s \in Sites, NEW known, known = FromEnv(s.env, s.search)
  PROVE  /\ \A field \in DOMAIN s.env : s.env[field] # "" => known[field] = s.env[field]
         /\ s.env.site = "" /\ s.env.tenant = "" /\ known.site # "" =>
              \E i \in DOMAIN s.search :
                s.search[i] = <<known.site, known.tenant, "tenant", "local">>
<1>1. PICK discovered : discovered = discoverFromResolvConf(s.search)
  OBVIOUS
<1>2. known = [field \in DOMAIN s.env |-> OrElse(s.env[field], discovered[field])]
  BY <1>1 DEF FromEnv
<1>3. DOMAIN s.env = {"site", "tenant", "region"}
  BY SitesAssumption
<1>4. \A field \in DOMAIN s.env : s.env[field] # "" => known[field] = s.env[field]
  BY <1>2 DEF OrElse
<1>5. ASSUME s.env.site = "", s.env.tenant = "", known.site # ""
      PROVE  \E i \in DOMAIN s.search :
               s.search[i] = <<known.site, known.tenant, "tenant", "local">>
  <2>1. known.site = discovered.site /\ known.tenant = discovered.tenant
    BY <1>2, <1>3, <1>5 DEF OrElse
  <2>2. PICK A, search, N :
          A = STRING /\ search = s.search /\ N = Len(s.search)
    OBVIOUS
  <2>3. N \in Nat /\ Tokens(search, N, A) /\ DOMAIN search = 1..N /\ N = Len(search)
    BY <2>2, SitesAssumption DEF Tokens
  <2>4. OneToken({search[n] : n \in 1..N}, discovered)
    BY <1>1, <2>2, <2>3, OneTokenFound
  <2>5. PICK labels \in {search[n] : n \in 1..N} :
          TenantLocal(labels, discovered.site, discovered.tenant)
    BY <1>5, <2>1, <2>4 DEF OneToken
  <2> QED
    BY <2>1, <2>2, <2>3, <2>5 DEF TenantLocal
<1> QED
  BY <1>4, <1>5

-----------------------------------------------------------------------------
(* The theorems *)

IInv == RegistryInv /\ ExchangeInv /\ StageInv /\ BackendInv /\ IdentityInv

THEOREM LifecycleInductive == Spec => []IInv
<1>1. Init => IInv
  <2>1. Init => BackendInv /\ IdentityInv
    BY DEF Init, BackendInv, IdentityInv, Mcp!Idle
  <2> QED
    BY <2>1, RegistryInvInit, ExchangeInvInit, StageInvInit DEF IInv
<1>2. IInv /\ [Next]_vars => IInv'
  BY RegistryInvStep, ExchangeInvStep, StageInvStep, BackendInvStep, IdentityInvStep DEF IInv
<1> QED
  BY <1>1, <1>2, PTL DEF Spec

\* Whatever clients post, with any number of other requests open, and whenever
\* the listener fails or is shut down: the exchange gets the answer it is owed
\* and no other (Dispatch, ServeHTTP).
THEOREM ExchangesAreAnsweredOnce == Spec => []AnsweredOnce
<1>1. IInv => AnsweredOnce
  BY DEF IInv, ExchangeInv
<1> QED
  BY <1>1, LifecycleInductive, PTL

\* For any number of requests open: run gets to its closers, and past them,
\* only when both listeners have drained or the grace period is over, and no
\* tool runs whose backend is not there (shutdownAll and the deferred closers).
THEOREM ClosersComeLast == Spec => []RequestsGetTheirGrace
<1>1. IInv => RequestsGetTheirGrace
  <2> SUFFICES ASSUME IInv PROVE RequestsGetTheirGrace
    OBVIOUS
  <2>1. calls \in Nat /\ rpcs \in Nat
    BY DEF IInv, StageInv
  <2>2. calls = 0 /\ rpcs = 0 => ~(calls + rpcs > 0)
    BY <2>1
  <2>3. exchange.open \in BOOLEAN
    BY DEF IInv, ExchangeInv, Exchange
  <2>4. pc \in {"closers", "returned"} /\ (calls + rpcs > 0 \/ exchange.open)
          => grace = "over" \/ result = "grpc listen"
    BY <2>2, <2>3 DEF IInv, StageInv, HTTPDrained
  <2>5. exchange.open /\ exchange.backend # "none" /\ pc # "returned"
          => exchange.backend \in backends
    BY DEF IInv, BackendInv
  <2> QED
    BY <2>4, <2>5 DEF RequestsGetTheirGrace
<1> QED
  BY <1>1, LifecycleInductive, PTL

\* Wherever run is started: it serves the tools of the backends it wired, under
\* the identity of its environment or of a single search token (buildMCPServer,
\* FromEnv, discoverFromResolvConf).
THEOREM SiteIsServedAsFound == Spec => []ServesWhatItFound
<1>1. IInv => ServesWhatItFound
  <2> SUFFICES ASSUME IInv, pc \in {"wait", "http", "graceful"} PROVE ServesWhatItFound
    BY DEF ServesWhatItFound
  <2>1. tools = ToolsOf(backends)
    BY DEF IInv, RegistryInv, Stages, BeforeHTTP, BeforeTools
  <2>2. site \in Sites /\ identity = FromEnv(site.env, site.search)
    BY DEF IInv, IdentityInv, Stages, BeforeHTTP, BeforeTools
  <2>3. PICK s, known : s = site /\ known = identity
    OBVIOUS
  <2>4. /\ \A field \in DOMAIN s.env : s.env[field] # "" => known[field] = s.env[field]
        /\ s.env.site = "" /\ s.env.tenant = "" /\ known.site # "" =>
             \E i \in DOMAIN s.search :
               s.search[i] = <<known.site, known.tenant, "tenant", "local">>
    <3>1. s \in Sites /\ known = FromEnv(s.env, s.search)
      BY <2>2, <2>3
    <3> QED
      BY <3>1, IdentityIsOne
  <2> QED
    BY <2>1, <2>3, <2>4 DEF ServesWhatItFound, ToolsOf
<1> QED
  BY <1>1, LifecycleInductive, PTL

-----------------------------------------------------------------------------
(* Why run returns *)

\* How far each stage of run is from its end.
StageNo ==
  [returned |-> 0, closers |-> 1, graceful |-> 2, http |-> 3, wait |-> 4, grpc |-> 5,
   journey |-> 6, tls |-> 7, tools |-> 8, streams |-> 9, dyn |-> 10, kube |-> 11, config |-> 12]

\* Steps that run has left at most, the end of the grace period included.
RunLeft == 2 * StageNo[pc] + (IF grace = "over" THEN 0 ELSE 1)

GraceInv ==
  /\ grace \in {"none", "running", "over"}
  /\ pc \in {"http", "graceful"} => grace # "none"
  /\ errs \subseteq {"http", "grpc"} /\ signaled \in BOOLEAN

LEMMA GraceInvInit == Init => GraceInv
  BY DEF Init, GraceInv

LEMMA GraceInvStep == GraceInv /\ [Next]_vars => GraceInv'
<1> SUFFICES ASSUME GraceInv, [Next]_vars PROVE GraceInv'
  OBVIOUS
<1> USE DEF GraceInv
<1>1. ASSUME Wiring PROVE pc' \notin {"http", "graceful"} /\ UNCHANGED <<grace, errs, signaled>>
  <2>1. CASE ReadConfig \/ WireKube
    BY <2>1 DEF ReadConfig, WireKube, listeners, outcome
  <2>1a. CASE WireDyn
    <3>1. pc' = "returned" \/ pc' = "streams"
      BY <2>1a, Zenon DEF WireDyn
    <3>2. UNCHANGED <<listeners, grace, signaled>>
      BY <2>1a, Zenon DEF WireDyn
    <3> QED
      BY <3>1, <3>2 DEF listeners
  <2>2. CASE \E listed, yes \in BOOLEAN : WireStreams(listed, yes)
    BY <2>2 DEF WireStreams, listeners, outcome
  <2>3. CASE RegisterTools
    BY <2>3 DEF RegisterTools, listeners
  <2>4. CASE \E loads : BuildTLS(loads)
    BY <2>4 DEF BuildTLS, listeners
  <2>5. CASE \E yes \in BOOLEAN : StartJourneyAndHTTP(yes)
    BY <2>5 DEF StartJourneyAndHTTP, outcome
  <2>6. CASE StartGRPC
    BY <2>6 DEF StartGRPC, outcome
  <2>7. CASE GRPCListenFails
    <3>1. pc' = "closers" /\ UNCHANGED <<listeners, grace, signaled>>
      BY <2>7, Zenon DEF GRPCListenFails
    <3> QED
      BY <3>1 DEF listeners
  <2> QED
    BY <1>1, <2>1, <2>1a, <2>2, <2>3, <2>4, <2>5, <2>6, <2>7 DEF Wiring
<1>2. ASSUME Serving
      PROVE  /\ UNCHANGED <<pc, grace>> /\ errs' \subseteq errs \cup {"http", "grpc"}
             /\ signaled' \in {signaled, TRUE}
  BY <1>2 DEF Serving, HTTPFails, GRPCFails, CallArrives, CallEnds, RPCArrives, RPCEnds, Signal,
     ExchangeBegins, ExchangeGoesOn, listeners, outcome
<1>3. ASSUME NEW why \in {"http", "grpc", "signal"}, WaitEnds(why)
      PROVE  grace' = "running" /\ errs' \subseteq errs /\ signaled' \in BOOLEAN
  BY <1>3 DEF WaitEnds
<1>4. ASSUME GraceEnds PROVE grace' = "over" /\ UNCHANGED <<errs, signaled>>
  BY <1>4 DEF GraceEnds, listeners
<1>5. ASSUME HTTPShutdownReturns \/ GracefulStopReturns \/ StopByForce \/ RunClosers
      PROVE  /\ UNCHANGED <<grace, errs, signaled>>
             /\ pc' \in {"http", "graceful"} => pc \in {"http", "graceful"}
  BY <1>5 DEF HTTPShutdownReturns, GracefulStopReturns, StopByForce, RunClosers, listeners, outcome
<1>6. ASSUME UNCHANGED vars PROVE UNCHANGED <<pc, grace, errs, signaled>>
  BY <1>6 DEF vars, listeners, outcome
<1> QED
  BY <1>1, <1>2, <1>3, <1>4, <1>5, <1>6 DEF Next, ShuttingDown

\* While run shuts down, or is asked to, some step of its own is due.
RunCanGo ==
  CASE pc = "wait"     -> signaled \/ "http" \in errs \/ "grpc" \in errs
    [] pc = "http"     -> grace \in {"running", "over"}
    [] pc = "graceful" -> grace = "running" \/ Forced
    [] OTHER           -> pc # "returned"

\* A step of run brings its end nearer, and no request, listener or signal puts it
\* off; a signal or a failure does not leave run waiting.
ReturnGetsNearer ==
  /\ RunLeft \in Nat /\ RunLeft' <= RunLeft
  /\ Wiring \/ ShuttingDown => RunLeft' < RunLeft
  /\ signaled \/ errs # {} => RunCanGo \/ pc = "returned"

LEMMA StageNumbers ==
  \A p \in Stages : /\ StageNo[p] \in Nat
                    /\ p # "returned" => StageNo["returned"] < StageNo[p]
                    /\ p = "dyn" => StageNo["streams"] < StageNo[p]
                    /\ p = "grpc" => StageNo["wait"] < StageNo[p] /\ StageNo["closers"] < StageNo[p]
  BY DEF StageNo, Stages, BeforeHTTP, BeforeTools

\* A step from one stage to a later one.
LEMMA LaterIsNearer ==
  ASSUME NEW p \in Stages, NEW q \in Stages, NEW x \in {0, 1}, NEW y \in {0, 1},
         StageNo[q] < StageNo[p]
  PROVE  2 * StageNo[q] + y < 2 * StageNo[p] + x
<1>1. StageNo[p] \in Nat /\ StageNo[q] \in Nat
  BY DEF StageNo, Stages, BeforeHTTP, BeforeTools
<1> QED
  BY <1>1

LEMMA EveryStepOfRunNearer ==
  ASSUME pc \in Stages, GraceInv, [Next]_vars
  PROVE  ReturnGetsNearer
<1> DEFINE Rest == IF grace = "over" THEN 0 ELSE 1
<1>0. StageNo[pc] \in Nat /\ RunLeft = 2 * StageNo[pc] + Rest /\ RunLeft \in Nat
  BY DEF StageNo, Stages, BeforeHTTP, BeforeTools, RunLeft
<1>1. ASSUME Wiring PROVE pc' \in Stages /\ StageNo[pc'] < StageNo[pc]
  <2>1. CASE ReadConfig \/ WireKube
    BY <2>1 DEF ReadConfig, WireKube, StageNo, Stages, BeforeHTTP, BeforeTools
  <2>2. CASE WireDyn
    <3>1. pc = "dyn" /\ (pc' = "returned" \/ pc' = "streams")
      BY <2>2, Zenon DEF WireDyn
    <3> QED
      BY <3>1, StageNumbers DEF Stages, BeforeHTTP, BeforeTools
  <2>3. ASSUME NEW listed \in BOOLEAN, NEW yes \in BOOLEAN, WireStreams(listed, yes)
        PROVE  pc' \in Stages /\ StageNo[pc'] < StageNo[pc]
    BY <2>3 DEF WireStreams, StageNo, Stages, BeforeHTTP, BeforeTools
  <2>4. CASE RegisterTools
    BY <2>4 DEF RegisterTools, StageNo, Stages, BeforeHTTP, BeforeTools
  <2>5. ASSUME NEW loads, BuildTLS(loads) PROVE pc' \in Stages /\ StageNo[pc'] < StageNo[pc]
    BY <2>5 DEF BuildTLS, StageNo, Stages, BeforeHTTP, BeforeTools
  <2>6. ASSUME NEW yes \in BOOLEAN, StartJourneyAndHTTP(yes)
        PROVE  pc' \in Stages /\ StageNo[pc'] < StageNo[pc]
    BY <2>6 DEF StartJourneyAndHTTP, StageNo, Stages, BeforeHTTP, BeforeTools
  <2>7. CASE StartGRPC \/ GRPCListenFails
    <3>1. pc = "grpc" /\ (pc' = "wait" \/ pc' = "closers")
      BY <2>7, Zenon DEF StartGRPC, GRPCListenFails
    <3> QED
      BY <3>1, StageNumbers DEF Stages
  <2> QED
    BY <1>1, <2>1, <2>2, <2>3, <2>4, <2>5, <2>6, <2>7 DEF Wiring
<1>2. ASSUME ShuttingDown, ~GraceEnds PROVE pc' \in Stages /\ StageNo[pc'] < StageNo[pc]
  <2>1. ASSUME NEW why \in {"http", "grpc", "signal"}, WaitEnds(why)
        PROVE  pc' \in Stages /\ StageNo[pc'] < StageNo[pc]
    BY <2>1 DEF WaitEnds, AfterWait, StageNo, Stages, BeforeHTTP, BeforeTools
  <2>2. CASE HTTPShutdownReturns \/ GracefulStopReturns
    BY <2>2 DEF HTTPShutdownReturns, GracefulStopReturns, StageNo, Stages, BeforeHTTP, BeforeTools
  <2>3. CASE StopByForce \/ RunClosers
    BY <2>3 DEF StopByForce, RunClosers, StageNo, Stages, BeforeHTTP, BeforeTools
  <2> QED
    BY <1>2, <2>1, <2>2, <2>3 DEF ShuttingDown
<1>3. ASSUME GraceEnds PROVE RunLeft' < RunLeft
  <2>1. pc' = pc /\ grace = "running" /\ grace' = "over"
    BY <1>3 DEF GraceEnds
  <2> QED
    BY <1>0, <2>1 DEF RunLeft
<1>4. Wiring \/ ShuttingDown => RunLeft' < RunLeft
  <2>1. ASSUME pc' \in Stages, StageNo[pc'] < StageNo[pc] PROVE RunLeft' < RunLeft
    <3>1. RunLeft = 2 * StageNo[pc] + Rest /\ RunLeft' = 2 * StageNo[pc'] + Rest'
      BY DEF RunLeft
    <3>2. Rest \in {0, 1} /\ Rest' \in {0, 1}
      OBVIOUS
    <3> QED
      BY <2>1, <3>1, <3>2, LaterIsNearer
  <2> QED
    BY <1>1, <1>2, <1>3, <2>1
<1>5. ASSUME Serving \/ UNCHANGED vars PROVE RunLeft' = RunLeft
  <2>1. UNCHANGED <<pc, grace>>
    BY <1>5 DEF Serving, HTTPFails, GRPCFails, CallArrives, CallEnds, RPCArrives, RPCEnds, Signal,
       ExchangeBegins, ExchangeGoesOn, outcome, vars
  <2> QED
    BY <2>1 DEF RunLeft
<1>6. RunLeft' <= RunLeft
  <2>1. ASSUME Wiring \/ ShuttingDown PROVE RunLeft' <= RunLeft
    <3>1. RunLeft' \in Nat
      <4>1. pc' \in Stages
        <5>1. CASE GraceEnds
          BY <5>1 DEF GraceEnds
        <5> QED
          BY <1>1, <1>2, <2>1, <5>1
      <4>2. StageNo[pc'] \in Nat
        BY <4>1 DEF StageNo, Stages, BeforeHTTP, BeforeTools
      <4> QED
        BY <4>2 DEF RunLeft
    <3> QED
      BY <1>0, <1>4, <2>1, <3>1
  <2> QED
    BY <1>0, <1>5, <2>1 DEF Next
<1>7. signaled \/ errs # {} => RunCanGo \/ pc = "returned"
  BY DEF GraceInv, RunCanGo, Forced
<1> QED
  BY <1>0, <1>4, <1>6, <1>7 DEF ReturnGetsNearer

\* What makes ShutdownEnds true: from start to return run takes a bounded number of
\* steps, whatever requests, listeners and signals do, and once it has a reason to
\* end it is not held up by requests beyond the grace period (run, shutdownAll).
THEOREM RunRunsOut == Spec => [][ReturnGetsNearer]_vars
<1>1. Init => GraceInv
  BY GraceInvInit
<1>2. GraceInv /\ [Next]_vars => GraceInv'
  BY GraceInvStep
<1>3. IInv => pc \in Stages
  BY Zenon DEF IInv, StageInv
<1>4. pc \in Stages /\ GraceInv /\ [Next]_vars => [ReturnGetsNearer]_vars
  BY EveryStepOfRunNearer
<1> QED
  BY <1>1, <1>2, <1>3, <1>4, LifecycleInductive, PTL DEF Spec
=============================================================================
