--------------------------- MODULE ResourceReads ---------------------------
(***************************************************************************)
(* The RPCs of internal/service that read resources of any kind:           *)
(* ResourceGet, ResourceList and ResourceSchema, one call to the API       *)
(* server each, and WatchResources, which relays a watch to a client that  *)
(* keeps a copy of what it watches and re-opens the stream from the last   *)
(* resource version it was given.                                          *)
(*                                                                         *)
(* The API server's store is its log: a resource version is a place in it. *)
(* A watch from no version begins with an ADDED event for each object      *)
(* there is, under that object's own version, in any order; one from a     *)
(* version the server has compacted gets an ERROR.  The kinds the server   *)
(* has grow, but the RESTMapper is read once, at start.                    *)
(***************************************************************************)
EXTENDS Integers, Sequences, FiniteSetsExt

CONSTANTS
  Objects,       \* [group, kind, ns, name]: objects there may be
  Namespaced,    \* Namespaced[<<group, kind>>]: the RESTMapper's kinds
  CRDs,          \* CRDs[<<group, kind>>]: their versions, [name, storage, schema]
  CRDAPIGroup,
  ReadRequests,  \* [group, kind, ns, name] of ResourceGet, List and Schema
  WatchRequests, \* [group, kind, ns] of WatchResources
  MaxVersion     \* bound: changes of the store

VARIABLES
  haveDyn,    \* a dynamic client is wired
  log,        \* changes so far: [type, obj]
  horizon,    \* versions before this one can no longer be watched from
  installed,  \* keys of CRDs that the server has
  watch,      \* the RPC: [pc, req, backlog, at, fresh, expired]
  wire,       \* responses sent and not yet received
  view,       \* the client's copy: view[o] is a version, 0 if o is not there
  resume,     \* the last resource version the client was given
  synced,     \* history: the client has been given all it began with
  listed,     \* the last ResourceList: [at, items]
  read        \* the last ResourceGet or ResourceSchema: [op, req, at, found]

server == <<log, horizon, installed>>
client == <<view, resume, synced>>
answers == <<listed, read>>
vars == <<haveDyn, server, watch, wire, client, answers>>

-----------------------------------------------------------------------------
(* The store *)

\* Version of the last change of o up to v, unless that removed it.
At(v) ==
  [o \in Objects |->
     LET ns == {n \in 1..v : log[n].obj = o}
     IN  IF ns = {} THEN 0 ELSE IF log[Max(ns)].type = "DELETED" THEN 0 ELSE Max(ns)]

Now == At(Len(log))
Present == {o \in Objects : Now[o] # 0}

Change(o, removed) ==
  /\ Len(log) < MaxVersion
  /\ removed => Now[o] # 0
  /\ log' = Append(log, [obj |-> o, type |-> IF removed THEN "DELETED"
                                             ELSE IF Now[o] = 0 THEN "ADDED" ELSE "MODIFIED"])
  /\ UNCHANGED <<haveDyn, horizon, installed, watch, wire, client, answers>>

Compact ==
  /\ horizon < Len(log)
  /\ horizon' = Len(log)
  /\ UNCHANGED <<haveDyn, log, installed, watch, wire, client, answers>>

Install ==
  /\ installed # DOMAIN CRDs
  /\ installed' = DOMAIN CRDs
  /\ UNCHANGED <<haveDyn, log, horizon, watch, wire, client, answers>>

-----------------------------------------------------------------------------
(* Kinds *)

Group(r) == IF r.group = "" THEN CRDAPIGroup ELSE r.group
Key(r) == <<Group(r), r.kind>>

\* Kinds that were installed when the process started, and no others.
ResolveGVR(key) == key \in DOMAIN Namespaced

resolveKind(r) == r.kind # "" /\ haveDyn /\ ResolveGVR(Key(r))

OfKind(r, o) == <<o.group, o.kind>> = Key(r)

\* All namespaces, if none is named.
Shown(r, o) == OfKind(r, o) /\ (Namespaced[Key(r)] /\ r.ns # "" => o.ns = r.ns)

-----------------------------------------------------------------------------
(* One call each; one that fails or is refused answers nothing and is left out *)

\* Mutant: the namespace of a request is left out of the call.
AnyNamespace(r, o) == OfKind(r, o) /\ o.name = r.name

\* The object of a namespaced kind is looked for in the namespace named, and
\* not found when that is empty; that of another kind whatever it is.
Named(r, o) == OfKind(r, o) /\ o.name = r.name /\ (Namespaced[Key(r)] => o.ns = r.ns)

ResourceGet(r) ==
  /\ r.name # "" /\ resolveKind(r)
  /\ read' = [op |-> "get", req |-> r, at |-> Len(log),
              found |-> {o \in Present : Named(r, o)}]
  /\ UNCHANGED <<haveDyn, server, watch, wire, client, listed>>

\* The summaries, by name; those of one name in any order.
ResourceList(r) ==
  /\ resolveKind(r)
  /\ listed' = [at |-> Len(log), items |-> {o \in Present : Shown(r, o)}]
  /\ UNCHANGED <<haveDyn, server, watch, wire, client, read>>

\* Mutant: the last version with a schema is taken.
Later(picked, v) == IF v.schema THEN v.name ELSE picked

\* The first version with a schema, until the one that is stored is met.
Pick(picked, v) == IF v.schema /\ (picked = "" \/ v.storage) THEN v.name ELSE picked

Picked(versions) ==
  LET picked[k \in 0..Len(versions)] ==
        IF k = 0 THEN "" ELSE Pick(picked[k - 1], versions[k])
  IN  picked[Len(versions)]

\* The CRDs are listed anew each time, so that a kind the RESTMapper lacks has
\* a schema all the same.
ResourceSchema(r) ==
  /\ r.kind # "" /\ haveDyn /\ Key(r) \in installed
  /\ LET picked == Picked(CRDs[Key(r)])
     IN  read' = [op |-> "schema", req |-> r, at |-> Len(log),
                  found |-> IF picked = "" THEN {} ELSE {picked}]
  /\ UNCHANGED <<haveDyn, server, watch, wire, client, listed>>

-----------------------------------------------------------------------------
(* WatchResources *)

NoWatch == [pc |-> "idle", req |-> [group |-> "", kind |-> "", ns |-> ""],
            backlog |-> {}, at |-> 0, fresh |-> FALSE, expired |-> "no"]

Init ==
  /\ haveDyn \in BOOLEAN
  /\ log = << >> /\ horizon = 0 /\ installed = DOMAIN Namespaced \cap DOMAIN CRDs
  /\ watch = NoWatch /\ wire = << >>
  /\ view = [o \in Objects |-> 0] /\ resume = 0 /\ synced = FALSE
  /\ listed = [at |-> 0, items |-> {}]
  /\ read = [op |-> "none", req |-> NoWatch.req, at |-> 0, found |-> {}]

\* The client opens a stream from the version it has, or afresh when it has
\* none.  Without a dynamic client or a kind the RPC fails, as it may when the
\* server refuses the watch; both leave the client where it was.
Open(r) ==
  /\ watch.pc \in {"idle", "returned"} /\ wire = << >>
  /\ watch.pc = "returned" => r = watch.req
  /\ resolveKind(r)
  /\ watch' = [pc |-> "select", req |-> r, at |-> IF resume = 0 THEN Len(log) ELSE resume,
               backlog |-> IF resume = 0 THEN {o \in Present : Shown(r, o)} ELSE {},
               fresh |-> resume = 0,
               expired |-> IF resume # 0 /\ resume < horizon THEN "due" ELSE "no"]
  /\ IF resume = 0 THEN view' = [o \in Objects |-> 0] /\ synced' = FALSE
     ELSE UNCHANGED <<view, synced>>
  /\ UNCHANGED <<haveDyn, server, wire, resume, answers>>

Return == watch' = [watch EXCEPT !.pc = "returned"]

\* What becomes of the stream when a response cannot be sent.
\* Mutant: the response is passed over.
PassOver == "select"
AfterSendFails == "returned"

\* A response is sent, or cannot be.  rest is what the watch has left to show.
Send(response, rest) ==
  \/ watch' = rest /\ wire' = Append(wire, response)
  \/ watch' = [rest EXCEPT !.pc = AfterSendFails] /\ UNCHANGED wire

\* The version of an object's response is the object's; all that comes before
\* the response has been sent.
buildWatchEvent(type, o, v, rest) ==
  [type |-> type, obj |-> o, version |-> v, all |-> rest.fresh /\ rest.backlog = {}]

\* An object that was there when the watch was opened.
SelectInitial(o) ==
  /\ watch.pc = "select" /\ o \in watch.backlog
  /\ LET rest == [watch EXCEPT !.backlog = @ \ {o}]
     IN  Send(buildWatchEvent("ADDED", o, At(watch.at)[o], rest), rest)
  /\ UNCHANGED <<haveDyn, server, client, answers>>

\* The next change of an object that is shown.
SelectChange ==
  /\ watch.pc = "select" /\ watch.backlog = {} /\ watch.expired = "no"
  /\ LET changes == {n \in watch.at + 1 .. Len(log) : Shown(watch.req, log[n].obj)}
         v == Min(changes)
         rest == [watch EXCEPT !.at = v]
     IN  /\ changes # {}
         /\ Send(buildWatchEvent(log[v].type, log[v].obj, v, rest), rest)
  /\ UNCHANGED <<haveDyn, server, client, answers>>

\* The server says how far the watch has come.
SelectBookmark ==
  /\ watch.pc = "select" /\ watch.backlog = {} /\ watch.expired = "no"
  /\ watch.at < Len(log)
  /\ \A v \in watch.at + 1 .. Len(log) : ~Shown(watch.req, log[v].obj)
  /\ LET rest == [watch EXCEPT !.at = Len(log)]
     IN  Send([type |-> "BOOKMARK", version |-> Len(log), all |-> rest.fresh], rest)
  /\ UNCHANGED <<haveDyn, server, client, answers>>

\* Its object is a Status, so that only the type is passed on.  The server has
\* nothing to say after it.
SelectError ==
  /\ watch.pc = "select" /\ watch.expired = "due"
  /\ Send([type |-> "ERROR", version |-> 0, all |-> FALSE],
          [watch EXCEPT !.expired = "sent"])
  /\ UNCHANGED <<haveDyn, server, client, answers>>

\* The server closes the watch, and what was sent still arrives.
SelectClosed ==
  /\ watch.pc = "select"
  /\ Return
  /\ UNCHANGED <<haveDyn, server, wire, client, answers>>

\* The client goes away or the connection breaks, with what was on it.
SelectCtxDone ==
  /\ watch.pc = "select"
  /\ Return
  /\ wire' = << >>
  /\ UNCHANGED <<haveDyn, server, client, answers>>

\* The client takes in a response.  After an ERROR it begins anew.
Receive ==
  /\ wire # << >>
  /\ LET m == Head(wire) IN
     /\ view' = IF m.type \in {"BOOKMARK", "ERROR"} THEN view
                ELSE [view EXCEPT ![m.obj] = IF m.type = "DELETED" THEN 0 ELSE m.version]
     /\ resume' = m.version
     /\ synced' = (m.type # "ERROR" /\ (synced \/ m.all))
  /\ wire' = Tail(wire)
  /\ UNCHANGED <<haveDyn, server, watch, answers>>

-----------------------------------------------------------------------------
Stream ==
  \/ \E r \in WatchRequests : Open(r)
  \/ \E o \in Objects : SelectInitial(o)
  \/ SelectChange \/ SelectBookmark \/ SelectError \/ SelectClosed \/ SelectCtxDone \/ Receive

Reads == \E r \in ReadRequests : ResourceGet(r) \/ ResourceList(r) \/ ResourceSchema(r)

Server ==
  (\E o \in Objects, removed \in BOOLEAN : Change(o, removed)) \/ Compact \/ Install

Next == Server \/ Reads \/ Stream

Spec == Init /\ [][Next]_vars

-----------------------------------------------------------------------------
(* Properties *)

\* A client that has once been given all there was when it began, and re-opens
\* the stream from the last resource version it received, holds of each object
\* what the store held at that version or later: whichever way its streams end
\* it misses no change (watch_resources.go:19-22).  One whose first stream ends
\* among the initial objects may have received the latest of them first:
\* re-opening from that version it is never shown the others, and is not synced.
ResumeLosesNothing ==
  synced /\ resume # 0 =>
    \A o \in Objects : Shown(watch.req, o) =>
      \E v \in resume .. Len(log) : view[o] = At(v)[o]

\* What a list names, a get finds under the name and the namespace the list
\* gives, and it alone, unless the store has changed in between; and a schema
\* is that of the stored version where this one has any.
ReadsAreTrue ==
  /\ read.op = "get" /\ read.at = listed.at =>
       \A o \in listed.items :
         [group |-> o.group, kind |-> o.kind, ns |-> o.ns, name |-> o.name] = read.req
           => read.found = {o}
  /\ read.op = "schema" =>
       \A i \in DOMAIN CRDs[Key(read.req)] :
         LET v == CRDs[Key(read.req)][i]
         IN  v.storage /\ v.schema => read.found = {v.name}
=============================================================================
