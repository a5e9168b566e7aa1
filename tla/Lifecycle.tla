----------------------------- MODULE Lifecycle -----------------------------
(***************************************************************************)
(* cmd/eob-mcp/main.go: run, from the configuration and the wiring of the  *)
(* backends through the two listeners to shutdownAll and the deferred      *)
(* closers; with what it calls in internal/config, internal/k8s and        *)
(* internal/streams, and with the MCP server it registers tools in and     *)
(* serves (McpServer).                                                     *)
(*                                                                         *)
(* run wires what it finds, starts the HTTP/MCP and gRPC listeners in      *)
(* goroutines that report failures on one channel, and waits for a failure *)
(* or a signal.  Shutdown drains first HTTP and then gRPC under a single   *)
(* deadline; the backends are closed last.                                 *)
(*                                                                         *)
(* One MCP exchange is followed; the other HTTP requests and the RPCs are  *)
(* counted.  An MCP call takes up to half a minute (EastWestGraph), and a  *)
(* streaming RPC lasts until its client goes away, so neither need ever    *)
(* end of itself.                                                          *)
(***************************************************************************)
EXTENDS Integers, Sequences

CONSTANTS
  Sites,      \* the places a process is started in, see Site below
  Requests,   \* what clients post to /mcp
  MaxOpen     \* bound: requests open at a time on each listener, but for the one followed

(* A site is                                                                  *)
(*   env       what EOB_SITE_ID, EOB_TENANT and EOB_REGION say, "" if unset   *)
(*   search    the search tokens of resolv.conf, each a sequence of labels    *)
(*   inCluster "yes", "no", or "broken": a token that does not load           *)
(*   file      the kubeconfig: "good", "bad" or "none"                        *)
(*   apiUp     the API server answers                                         *)
(*   natsURL, bus, grpcAddr   EOB_NATS_URL, EOB_DEFENSE_NATS_URL, -grpc-listen *)
(*   services  of the Tawon namespace: [app : BOOLEAN, hex : BOOLEAN], whether *)
(*             a Service has the label and whether its name has the pattern   *)

ASSUME MaxOpenAssumption == MaxOpen \in Nat \ {0}

ASSUME SitesAssumption ==
  \A s \in Sites : /\ DOMAIN s.env = {"site", "tenant", "region"}
                   /\ s.search \in Seq(Seq(STRING))

ASSUME RequestsAssumption ==
  \A r \in Requests : r.id \in {"given", "missing", "null"}

VARIABLES
  site,       \* what the process finds
  pc,         \* where run is
  identity,   \* site, tenant and region of the config
  backends,   \* backends that are wired: subset of {"kube", "dyn", "streams"}
  journey,    \* the dashboard's producer is running
  http,       \* HTTP listener: "off", "serving", "failed", "shut"
  grpc,       \* gRPC listener: the same, and "stopped" by force
  errs,       \* contents of serverErrs
  signaled,   \* SIGINT or SIGTERM is waiting in sigs
  calls,      \* HTTP requests open, but for the exchange
  rpcs,       \* RPCs open
  grace,      \* shutdown deadline: "none", "running", "over"
  result,     \* what run returns, "none" until it is decided
  tools, exchange   \* of the MCP server

Mcp == INSTANCE McpServer

wiring    == <<site, identity, backends, journey>>
listeners == <<http, grpc, errs>>
requests  == <<calls, rpcs, exchange>>
outcome   == <<grace, result>>
vars == <<wiring, listeners, requests, outcome, pc, signaled, tools>>

Nothing == [site |-> "", tenant |-> "", region |-> ""]

Init ==
  /\ site \in Sites
  /\ pc = "config"
  /\ identity = Nothing
  /\ backends = {} /\ journey = FALSE
  /\ http = "off" /\ grpc = "off"
  /\ errs = {} /\ signaled = FALSE
  /\ calls = 0 /\ rpcs = 0
  /\ grace = "none"
  /\ result = "none"
  /\ tools = {} /\ exchange = Mcp!Idle

-----------------------------------------------------------------------------
(* Configuration *)

Ends(labels, suffix) ==
  Len(labels) > 2 /\ SubSeq(labels, Len(labels) - 1, Len(labels)) = suffix

parseTenantLocalToken(labels) ==
  Ends(labels, <<"tenant", "local">>) /\ Len(labels) = 4 /\ labels[1] # "" /\ labels[2] # ""

parseComputeInternalToken(labels) ==
  Ends(labels, <<"compute", "internal">>) /\ Len(labels) = 3 /\ labels[1] # ""

\* A field that is set stays, and one that is empty takes the other value.
OrElse(value, other) == IF value = "" THEN other ELSE value

\* What one token adds to what the tokens before it gave.
Look(found, labels) ==
  IF parseTenantLocalToken(labels)
  THEN [found EXCEPT !.site = OrElse(@, labels[1]), !.tenant = OrElse(@, labels[2])]
  ELSE IF parseComputeInternalToken(labels)
  THEN [found EXCEPT !.region = OrElse(@, labels[1])]
  ELSE found

\* The loop over the tokens: found[n] is what the first n of them gave.
discoverFromResolvConf(search) ==
  LET found[n \in 0..Len(search)] ==
        IF n = 0 THEN Nothing ELSE Look(found[n - 1], search[n])
  IN  found[Len(search)]

FromEnv(env, search) ==
  LET discovered == discoverFromResolvConf(search)
  IN  [field \in DOMAIN env |-> OrElse(env[field], discovered[field])]

ReadConfig ==
  /\ pc = "config"
  /\ pc' = "kube"
  /\ identity' = FromEnv(site.env, site.search)
  /\ UNCHANGED <<site, backends, journey, listeners, requests, outcome, signaled, tools>>

-----------------------------------------------------------------------------
(* Wiring *)

\* An in-cluster config that is there and does not load is not made good by a
\* kubeconfig.
loadConfig(s) == s.inCluster = "yes" \/ (s.inCluster = "no" /\ s.file = "good")

\* k8s.New loads a config and makes a clientset; it does not call the server.
WireKube ==
  /\ pc = "kube"
  /\ pc' = "dyn"
  /\ backends' = IF loadConfig(site) THEN {"kube"} ELSE {}
  /\ UNCHANGED <<site, identity, journey, listeners, requests, outcome, signaled, tools>>

\* NewDynClient reads the server's API groups; its error ends buildService.
WireDyn ==
  /\ pc = "dyn"
  /\ IF "kube" \in backends /\ ~site.apiUp
     THEN pc' = "returned" /\ result' = "no dynamic client" /\ UNCHANGED backends
     ELSE /\ pc' = "streams"
          /\ backends' = IF "kube" \in backends THEN backends \cup {"dyn"} ELSE backends
          /\ UNCHANGED result
  /\ UNCHANGED <<site, identity, journey, listeners, requests, grace, signaled, tools>>

\* By label, or else by name.
findStreamStoreName(services) ==
  (\E i \in DOMAIN services : services[i].app) \/ (\E i \in DOMAIN services : services[i].hex)

\* A URL is configured, or discovered in the cluster when the two lists of its
\* Services succeed; dialing it may fail.
WireStreams(listed, connected) ==
  /\ pc = "streams"
  /\ connected =>
       site.natsURL \/ ("kube" \in backends /\ listed /\ findStreamStoreName(site.services))
  /\ pc' = "tools"
  /\ backends' = IF connected THEN backends \cup {"streams"} ELSE backends
  /\ UNCHANGED <<site, identity, journey, listeners, requests, outcome, signaled, tools>>

\* Mutant: the stream tools are registered where a URL is configured.
WiredByIntent == IF site.natsURL THEN backends \cup {"streams"} ELSE backends

\* The backends the service is built with, whose tools are registered.
Wired == backends

RegisterTools ==
  LET registry == Mcp!buildMCPServer(Wired)
  IN  /\ pc = "tools"
      /\ \/ registry.ok /\ tools' = registry.names /\ pc' = "tls" /\ UNCHANGED result
         \/ ~registry.ok /\ UNCHANGED tools /\ pc' = "closers" /\ result' = "tools"
      /\ UNCHANGED <<wiring, listeners, requests, grace, signaled>>

\* The flags name both a certificate and a key or neither, and a client CA only
\* with them; the files named must load.
TLSLoads(cert, key, ca, readable) == cert = key /\ (ca => cert) /\ (cert => readable)

\* A TLS config that does not load ends run, which closes what is wired.
BuildTLS(loads) ==
  /\ pc = "tls"
  /\ IF loads THEN pc' = "journey" /\ UNCHANGED result
              ELSE pc' = "closers" /\ result' = "tls"
  /\ UNCHANGED <<wiring, listeners, requests, grace, signaled, tools>>

\* The dashboard is started when there is a bus, and left out when that fails;
\* then the HTTP listener is launched.
StartJourneyAndHTTP(started) ==
  /\ pc = "journey"
  /\ started => site.bus
  /\ journey' = started
  /\ pc' = "grpc"
  /\ http' = "serving"
  /\ UNCHANGED <<site, identity, backends, grpc, errs, requests, outcome, signaled, tools>>

StartGRPC ==
  /\ pc = "grpc"
  /\ pc' = "wait"
  /\ grpc' = IF site.grpcAddr THEN "serving" ELSE "off"
  /\ UNCHANGED <<wiring, http, errs, requests, outcome, signaled, tools>>

\* The gRPC address cannot be listened on: run returns, past shutdownAll.
GRPCListenFails ==
  /\ pc = "grpc" /\ site.grpcAddr
  /\ pc' = "closers"
  /\ result' = "grpc listen"
  /\ UNCHANGED <<wiring, listeners, requests, grace, signaled, tools>>

-----------------------------------------------------------------------------
(* Serving *)

\* Once run has returned the process is gone, and nothing else happens.
Alive == pc # "returned"

\* A listener that has failed accepts no connection, but those it has go on and
\* requests may arrive on them, until it is shut down.
Taking == {"serving", "failed"}

\* A listener's goroutine ends with an error and reports it.
HTTPFails ==
  /\ Alive
  /\ http = "serving"
  /\ http' = "failed"
  /\ errs' = errs \cup {"http"}
  /\ UNCHANGED <<wiring, grpc, requests, outcome, pc, signaled, tools>>

GRPCFails ==
  /\ Alive
  /\ grpc = "serving"
  /\ grpc' = "failed"
  /\ errs' = errs \cup {"grpc"}
  /\ UNCHANGED <<wiring, http, requests, outcome, pc, signaled, tools>>

\* A request for /mcp, the one that is followed.
ExchangeBegins(r) ==
  /\ Alive
  /\ http \in Taking
  /\ Mcp!Arrives(r)
  /\ UNCHANGED <<wiring, listeners, calls, rpcs, outcome, pc, signaled>>

ExchangeGoesOn ==
  /\ Alive
  /\ Mcp!WriteTimeout \/ \E how \in {"ok", "error", "panic"} : Mcp!ToolReturns(how)
  /\ UNCHANGED <<wiring, listeners, calls, rpcs, outcome, pc, signaled>>

CallArrives ==
  /\ Alive
  /\ http \in Taking /\ calls < MaxOpen
  /\ calls' = calls + 1
  /\ UNCHANGED <<wiring, listeners, rpcs, exchange, outcome, pc, signaled, tools>>

CallEnds ==
  /\ Alive
  /\ calls > 0
  /\ calls' = calls - 1
  /\ UNCHANGED <<wiring, listeners, rpcs, exchange, outcome, pc, signaled, tools>>

RPCArrives ==
  /\ Alive
  /\ grpc \in Taking /\ rpcs < MaxOpen
  /\ rpcs' = rpcs + 1
  /\ UNCHANGED <<wiring, listeners, calls, exchange, outcome, pc, signaled, tools>>

RPCEnds ==
  /\ Alive
  /\ rpcs > 0
  /\ rpcs' = rpcs - 1
  /\ UNCHANGED <<wiring, listeners, calls, exchange, outcome, pc, signaled, tools>>

Signal ==
  /\ pc = "wait" /\ ~signaled
  /\ signaled' = TRUE
  /\ UNCHANGED <<wiring, listeners, requests, outcome, pc, tools>>

-----------------------------------------------------------------------------
(* Shutting down *)

\* Mutant: a listener that failed is not followed by a shutdown.
StraightToClosers(why) == IF why = "signal" THEN "http" ELSE "closers"

\* Either way the next thing is shutdownAll, on a deadline of its own.
AfterWait(why) == "http"

\* run leaves its select with a listener's error, which it returns, or a signal.
WaitEnds(why) ==
  /\ pc = "wait"
  /\ \/ why \in errs /\ errs' = errs \ {why} /\ result' = why /\ UNCHANGED signaled
     \/ why = "signal" /\ signaled /\ signaled' = FALSE /\ result' = "ok" /\ UNCHANGED errs
  /\ pc' = AfterWait(why)
  /\ grace' = "running"
  /\ http' = IF AfterWait(why) = "http" THEN "shut" ELSE http
  /\ UNCHANGED <<wiring, grpc, requests, tools>>

GraceEnds ==
  /\ grace = "running" /\ pc \in {"http", "graceful"}
  /\ grace' = "over"
  /\ UNCHANGED <<wiring, listeners, requests, result, pc, signaled, tools>>

\* httpSrv.Shutdown returns; GracefulStop is started in a goroutine, after
\* which gRPC takes no new RPC.
HTTPShutdownReturns ==
  /\ pc = "http"
  /\ (calls = 0 /\ ~exchange.open) \/ grace = "over"
  /\ pc' = "graceful"
  /\ grpc' = IF grpc \in Taking THEN "shut" ELSE grpc
  /\ UNCHANGED <<wiring, http, errs, requests, outcome, signaled, tools>>

\* Every RPC has ended, and with them GracefulStop.
GracefulStopReturns ==
  /\ pc = "graceful"
  /\ rpcs = 0
  /\ pc' = "closers"
  /\ UNCHANGED <<wiring, listeners, requests, outcome, signaled, tools>>

\* Mutant: the graceful stop is waited for whatever it takes.
NeverForced == FALSE

Forced == grace = "over"

\* Stop closes all connections; handlers find their contexts canceled, but
\* they are not waited for.
StopByForce ==
  /\ pc = "graceful"
  /\ Forced
  /\ grpc' = "stopped"
  /\ pc' = "closers"
  /\ UNCHANGED <<wiring, http, errs, requests, outcome, signaled, tools>>

\* Deferred: journey.Close, then closeStreams; then run returns.
RunClosers ==
  /\ pc = "closers"
  /\ journey' = FALSE
  /\ backends' = backends \ {"streams"}
  /\ pc' = "returned"
  /\ UNCHANGED <<site, identity, listeners, requests, outcome, signaled, tools>>

-----------------------------------------------------------------------------
Wiring ==
  \/ ReadConfig \/ WireKube \/ WireDyn \/ RegisterTools \/ StartGRPC \/ GRPCListenFails
  \/ \E listed, yes \in BOOLEAN : WireStreams(listed, yes)
  \/ \E cert, key, ca, readable \in BOOLEAN : BuildTLS(TLSLoads(cert, key, ca, readable))
  \/ \E yes \in BOOLEAN : StartJourneyAndHTTP(yes)

Serving ==
  \/ HTTPFails \/ GRPCFails \/ CallArrives \/ CallEnds \/ RPCArrives \/ RPCEnds \/ Signal
  \/ \E r \in Requests : ExchangeBegins(r)
  \/ ExchangeGoesOn

ShuttingDown ==
  \/ \E why \in {"http", "grpc", "signal"} : WaitEnds(why)
  \/ GraceEnds \/ HTTPShutdownReturns \/ GracefulStopReturns \/ StopByForce \/ RunClosers

Next == Wiring \/ Serving \/ ShuttingDown

Spec == Init /\ [][Next]_vars

\* run goes on and its deadline passes.  No request need end, no listener
\* need fail and no signal need come.
FairSpec == Spec /\ WF_vars(Wiring) /\ WF_vars(ShuttingDown)

-----------------------------------------------------------------------------
(* Properties *)

\* An MCP request with an id gets one response, under its id, and a
\* notification none, whenever it arrives and however long its tool takes.
AnsweredOnce == Mcp!AnsweredOnce

\* The backends of the requests outlive them: but for the grace period, whose
\* end cuts requests short, and a gRPC address that cannot be listened on, run
\* returns, its streams closed, only when both listeners have drained; until
\* then a tool that runs has the backend it needs.
RequestsGetTheirGrace ==
  /\ pc \in {"closers", "returned"} /\ (calls + rpcs > 0 \/ exchange.open)
       => grace = "over" \/ result = "grpc listen"
  /\ exchange.open /\ exchange.backend # "none" /\ pc # "returned"
       => exchange.backend \in backends

\* While run serves, tools/list names the tools of the backends that are wired,
\* all of them and no others (main.go:282-286); and the site answers under the
\* identity its environment gives it, and else under one that a single search
\* token gives, never under the site of one and the tenant of another.
ServesWhatItFound ==
  pc \in {"wait", "http", "graceful"} =>
    /\ tools = {t \in DOMAIN Mcp!Named : Mcp!Named[t].backend \in backends \cup {"none"}}
    /\ \A field \in DOMAIN site.env :
         site.env[field] # "" => identity[field] = site.env[field]
    /\ site.env.site = "" /\ site.env.tenant = "" /\ identity.site # "" =>
         \E i \in DOMAIN site.search :
           site.search[i] = <<identity.site, identity.tenant, "tenant", "local">>

\* A signal or a listener's failure ends run, although streaming RPCs go on
\* for ever and requests keep arriving while the listeners are drained.
ShutdownEnds == signaled \/ errs # {} ~> pc = "returned"
=============================================================================
