----------------------------- MODULE McpServer -----------------------------
(***************************************************************************)
(* internal/mcp and internal/tools: the MCP front door.                    *)
(*                                                                         *)
(* ServeHTTP takes one JSON-RPC request out of a POST, Dispatch routes it, *)
(* and a tools/call is handed to a wrapper that decodes its arguments into *)
(* an RPC of the service running in the same process.  Handlers share only *)
(* the registry, which is filled before the listener starts; one exchange  *)
(* is followed here, whatever others are open.                             *)
(*                                                                         *)
(* A request is [post, body, v2, id, method, params, tool, args], and args *)
(* are [wellTyped, given], the fields given a value other than empty.  The *)
(* schemas the wrappers advertise are not enforced: a field the wrapper    *)
(* does not know is ignored, and one that is missing is the empty string,  *)
(* which the RPC itself refuses where it needs a value.                    *)
(***************************************************************************)
EXTENDS Integers, Sequences

VARIABLES
  tools,      \* names in the registry
  exchange    \* the request followed: [open, owed, id, backend, late, answer]

-----------------------------------------------------------------------------
(* The tools *)

\* The backend a tool's RPC cannot do without, whether its wrapper decodes the
\* arguments, and the fields its RPC refuses when they are empty.
Tool(backend, decodes, refuses) ==
  [backend |-> backend, decodes |-> decodes, refuses |-> refuses]

ClusterIdentity  == Tool("none", FALSE, {})
EoBHealth        == Tool("none", FALSE, {})
TraceHealth      == Tool("none", FALSE, {})
ResolveEndpoints == Tool("none", TRUE, {})
EastWestGraph    == Tool("none", TRUE, {})
ResourceList     == Tool("dyn", TRUE, {"kind"})
ResourceGet      == Tool("dyn", TRUE, {"kind", "name"})
ResourceApply    == Tool("dyn", TRUE, {"manifest"})
ResourceDelete   == Tool("dyn", TRUE, {"kind", "name"})
ResourceSchema   == Tool("dyn", TRUE, {"kind"})
StreamList       == Tool("streams", FALSE, {})
StreamStats      == Tool("streams", TRUE, {"name"})
StreamRead       == Tool("streams", TRUE, {"name"})

Named ==
  [cluster_identity |-> ClusterIdentity, eob_health |-> EoBHealth,
   trace_health |-> TraceHealth, resolve_endpoints |-> ResolveEndpoints,
   east_west_graph |-> EastWestGraph, resource_list |-> ResourceList,
   resource_get |-> ResourceGet, resource_apply |-> ResourceApply,
   resource_delete |-> ResourceDelete, resource_schema |-> ResourceSchema,
   stream_list |-> StreamList, stream_stats |-> StreamStats, stream_read |-> StreamRead]

\* The wrapper returns an error before anything is asked of a backend.
Refuses(tool, args) ==
  \/ tool.decodes /\ ~args.wellTyped
  \/ ~(tool.refuses \subseteq args.given)

\* Registered in this order, every tool has a name that no tool before it has.
RegisterTool(order) ==
  \A i \in DOMAIN order : order[i] # "" /\ \A j \in 1..(i - 1) : order[j] # order[i]

\* The server has all the tools of the backends it is given, or there is none: the first error ends it.
buildMCPServer(wired) ==
  LET order ==
        <<"cluster_identity", "eob_health", "trace_health", "resolve_endpoints",
          "east_west_graph">>
        \o (IF "dyn" \in wired
            THEN <<"resource_list", "resource_get", "resource_apply", "resource_delete",
                   "resource_schema">>
            ELSE <<>>)
        \o (IF "streams" \in wired
            THEN <<"stream_list", "stream_stats", "stream_read">> ELSE <<>>)
  IN  [ok |-> RegisterTool(order), names |-> {order[i] : i \in DOMAIN order}]

-----------------------------------------------------------------------------
(* Answers *)

\* Mutant: only an id that is missing makes a notification.
MissingId(r) == r.id = "missing"

isNotification(r) == r.id \in {"missing", "null"}

\* What goes over the wire: an HTTP status without a body, or a Response.
Status(code) == [kind |-> code, id |-> "missing"]
Response(kind, id) == [kind |-> kind, id |-> id]

Reply(r, kind) == IF isNotification(r) THEN Status("202") ELSE Response(kind, r.id)

\* ServeHTTP turns a request down before it is dispatched.
Malformed(r) == ~r.post \/ r.body # "json" \/ ~r.v2 \/ r.method = ""

writeJSONRPCError(r) ==
  IF ~r.post THEN Status("405")
  ELSE IF r.body # "json" THEN Response("parse error", "missing")
  ELSE Response("invalid request", r.id)

\* A request that makes a tool run.
RunsTool(r) ==
  /\ ~Malformed(r)
  /\ r.method = "tools/call" /\ r.params = "good"
  /\ r.tool \in tools
  /\ ~Refuses(Named[r.tool], r.args)

\* Every other request is answered out of the registry alone.  A failed
\* tool is a result that says so, not an error.
Dispatch(r) ==
  CASE r.method = "initialize" ->
         Reply(r, IF r.params = "bad" THEN "invalid params" ELSE "result")
    [] r.method = "notifications/initialized" -> Status("202")
    [] r.method \in {"tools/list", "ping"} -> Reply(r, "result")
    [] r.method = "tools/call" ->
         Reply(r, IF r.params # "good" THEN "invalid params"
                  ELSE IF r.tool \notin tools THEN "method not found" ELSE "result")
    [] OTHER -> Reply(r, "method not found")

ServeHTTP(r) == IF Malformed(r) THEN writeJSONRPCError(r) ELSE Dispatch(r)

-----------------------------------------------------------------------------
NoAnswer == [kind |-> "no answer", id |-> "missing"]

\* JSON-RPC owes a response to what carries an id and is not itself named a
\* notification.
Owed(r) ==
  r.post /\ r.body = "json" /\ r.id = "given" /\ r.method # "notifications/initialized"

Idle == [open |-> FALSE, owed |-> FALSE, id |-> "missing", backend |-> "none",
         late |-> FALSE, answer |-> NoAnswer]

Arrives(r) ==
  /\ ~exchange.open
  /\ exchange' =
       IF RunsTool(r)
       THEN [Idle EXCEPT !.open = TRUE, !.owed = Owed(r), !.id = r.id,
                         !.backend = Named[r.tool].backend]
       ELSE [Idle EXCEPT !.owed = Owed(r), !.id = r.id, !.answer = ServeHTTP(r)]
  /\ UNCHANGED tools

\* The RPC answers or fails, and its wrapper with it; or it panics, which
\* ServeHTTP recovers from.  Past the write timeout nothing reaches the client.
ToolReturns(outcome) ==
  /\ exchange.open
  /\ exchange' = [exchange EXCEPT
       !.open = FALSE,
       !.answer = IF exchange.late THEN NoAnswer
                  ELSE IF outcome = "panic" THEN Status("500")
                  ELSE Reply(exchange, "result")]
  /\ UNCHANGED tools

\* Thirty seconds have passed since the request was read.
WriteTimeout ==
  /\ exchange.open /\ ~exchange.late
  /\ exchange' = [exchange EXCEPT !.late = TRUE]
  /\ UNCHANGED tools

-----------------------------------------------------------------------------
(* Properties *)

\* A request with an id gets one response, under its id, unless its tool
\* panicked (500) or outlived the write timeout; a notification gets neither a
\* result nor an error of the method it names (server.go:61-63, types.go:21).
AnsweredOnce ==
  ~exchange.open /\ exchange # Idle =>
    IF exchange.owed
    THEN \/ exchange.answer.id = exchange.id
         \/ exchange.answer = Status("500")
         \/ exchange.answer = NoAnswer /\ exchange.late
    ELSE exchange.answer.kind \in {"202", "405", "500", "parse error", "invalid request", "no answer"}
=============================================================================
