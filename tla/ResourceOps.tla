---------------------------- MODULE ResourceOps ----------------------------
(***************************************************************************)
(* The mutating RPCs of internal/service: ResourceApply, ResourceDelete    *)
(* and BatchApply, each against the Kubernetes API server and each         *)
(* publishing audit events.                                                *)
(*                                                                         *)
(* An RPC is a sequence of items: one manifest, one delete request, or the *)
(* manifests of a batch, which are applied one after the other.  The call  *)
(* of an item runs under a timeout of ten seconds; when that or the        *)
(* client's context ends first, the RPC goes on without the answer while   *)
(* the request may still be on its way, and be served later or never.      *)
(*                                                                         *)
(* Objects are keys of the API server's store; what is in them, and who    *)
(* owns which field (force), decides only whether the server refuses an    *)
(* apply, which it may do at any time.  trail[c] is what client c's RPCs   *)
(* publish: AuditBroker keeps the order of one publisher only.             *)
(***************************************************************************)
EXTENDS Integers, Sequences, FiniteSets

CONSTANTS
  Clients,      \* RPCs in progress at the same time
  Batches,      \* [items, dryRun]: requests of BatchApply, with items
                \* [manifest, dryRun]; ResourceApply is a batch of one
  Deletes,      \* [group, kind, ns, name]: requests of ResourceDelete
  Namespaced,   \* Namespaced[<<group, kind>>]: kinds the RESTMapper knows
  CRDGroup,     \* cfg.CRDAPIGroup
  MaxRpcs       \* bound: RPCs of one client

ASSUME CRDGroupAssumption == CRDGroup \in STRING /\ CRDGroup # ""
ASSUME RequestAssumption == \A b \in Batches :
  /\ b.dryRun \in BOOLEAN /\ Len(b.items) \in Nat
  /\ \A k \in 1..Len(b.items) : b.items[k].dryRun \in BOOLEAN
ASSUME NamespacedAssumption == \A k \in DOMAIN Namespaced : Namespaced[k] \in BOOLEAN

Known == DOMAIN Namespaced

-----------------------------------------------------------------------------
(* What a request addresses *)

\* The manifest's own apiVersion gives the group; only a manifest without any
\* falls back to the configured one.
ManifestGroup(m) == IF m.group = "" /\ ~m.hasApiVersion THEN CRDGroup ELSE m.group

\* Checks of ResourceApply and of ResolveGVR.
ManifestValid(m) ==
  /\ m.parses /\ m.kind # "" /\ m.name # ""
  /\ <<ManifestGroup(m), m.kind>> \in Known

\* Where a manifest without a namespace goes.
ApplyNamespace(m) == IF m.ns = "" THEN "default" ELSE m.ns

ApplyTarget(m) ==
  LET g == ManifestGroup(m) IN
  [group |-> g, kind |-> m.kind, name |-> m.name,
   ns |-> IF Namespaced[<<g, m.kind>>] THEN ApplyNamespace(m) ELSE ""]

DeleteGroup(d) == IF d.group = "" THEN CRDGroup ELSE d.group

DeleteValid(d) == d.name # "" /\ d.kind # "" /\ <<DeleteGroup(d), d.kind>> \in Known

DeleteTarget(d) ==
  LET g == DeleteGroup(d) IN
  [group |-> g, kind |-> d.kind, name |-> d.name,
   ns |-> IF Namespaced[<<g, d.kind>>] THEN d.ns ELSE ""]

Manifests == UNION { { b.items[k].manifest : k \in 1..Len(b.items) } : b \in Batches }

Targets ==
  { ApplyTarget(m) : m \in { n \in Manifests : ManifestValid(n) } }
    \cup { DeleteTarget(d) : d \in { e \in Deletes : DeleteValid(e) } }

\* Objects that can exist: one of a namespaced kind is in a namespace.
Storable(o) == Namespaced[<<o.group, o.kind>>] => o.ns # ""
Objects == { o \in Targets : Storable(o) }

-----------------------------------------------------------------------------
VARIABLES
  rpc,        \* rpc[c]: [op, items, dryRun] of the RPC in progress, or the last one
  count,      \* count[c]: RPCs of c so far
  pos,        \* pos[c]: index of the item being worked on
  phase,      \* phase[c]: "idle", "item", "inflight", "answered"
  answer,     \* answer[c]: what the API server said to the call in flight
  statuses,   \* statuses[c]: status of each item so far
  applied,    \* applied[c], errors[c]: counters of the batch response
  errors,
  trail,      \* trail[c]: audit events published for c
  store,      \* objects the API server holds
  orphans,    \* calls whose client has given up, not served yet
  committed   \* history: calls that changed the store

rpcVars == <<rpc, count, pos, phase, answer, statuses, applied, errors, trail>>
serverVars == <<store, orphans, committed>>
vars == <<rpcVars, serverVars>>

NoRpc == [op |-> "none", items |-> << >>, dryRun |-> FALSE]

Item(c) == rpc[c].items[pos[c]]
Id(c) == <<c, count[c], pos[c]>>

Valid(c) == IF rpc[c].op = "delete" THEN DeleteValid(Item(c)) ELSE ManifestValid(Item(c).manifest)

\* "a true per-item flag wins; a false per-item flag falls back to the batch".
Flag(batch, item) == batch \/ item

\* The call of the current item, as the API server sees it.
Call(c) ==
  IF rpc[c].op = "delete"
  THEN [id |-> Id(c), op |-> "delete", obj |-> DeleteTarget(Item(c)), dryRun |-> FALSE]
  ELSE [id |-> Id(c), op |-> "apply", obj |-> ApplyTarget(Item(c).manifest),
        dryRun |-> Flag(rpc[c].dryRun, Item(c).dryRun)]

Init ==
  /\ rpc = [c \in Clients |-> NoRpc]
  /\ count = [c \in Clients |-> 0]
  /\ pos = [c \in Clients |-> 1]
  /\ phase = [c \in Clients |-> "idle"]
  /\ answer = [c \in Clients |-> "none"]
  /\ statuses = [c \in Clients |-> << >>]
  /\ applied = [c \in Clients |-> 0]
  /\ errors = [c \in Clients |-> 0]
  /\ trail = [c \in Clients |-> << >>]
  /\ store \in SUBSET Objects
  /\ orphans = {}
  /\ committed = {}

-----------------------------------------------------------------------------
(* The API server *)

\* How the server may answer a call: it may fail any, finds nothing to delete
\* where no object is, and applies only to a place that can hold an object.
Answers(call) ==
  {"error"} \cup
  IF call.op = "delete" THEN (IF call.obj \in store THEN {"ok"} ELSE {"notFound"})
  ELSE IF Storable(call.obj) THEN {"ok"} ELSE {}

\* The server answers "ok" and acts on it, unless it is a dry run.
Serve(call, ans) ==
  /\ ans \in Answers(call)
  /\ IF ans # "ok" \/ call.dryRun
     THEN UNCHANGED <<store, committed>>
     ELSE /\ committed' = committed \cup {call.id}
          /\ store' = IF call.op = "apply" THEN store \cup {call.obj} ELSE store \ {call.obj}

ServerAnswers(c, ans) ==
  /\ phase[c] = "inflight"
  /\ Serve(Call(c), ans)
  /\ answer' = [answer EXCEPT ![c] = ans]
  /\ phase' = [phase EXCEPT ![c] = "answered"]
  /\ UNCHANGED <<rpc, count, pos, statuses, applied, errors, trail, orphans>>

\* A request nobody waits for any more is served, or was lost.
OrphanServed(call, ans) ==
  /\ Serve(call, ans)
  /\ orphans' = orphans \ {call}
  /\ UNCHANGED rpcVars

OrphanLost(call) ==
  /\ orphans' = orphans \ {call}
  /\ UNCHANGED <<rpcVars, store, committed>>

-----------------------------------------------------------------------------
(* The RPCs *)

Begin(c, r) ==
  /\ phase[c] = "idle"
  /\ count[c] < MaxRpcs
  /\ count' = [count EXCEPT ![c] = @ + 1]
  /\ rpc' = [rpc EXCEPT ![c] = r]
  /\ pos' = [pos EXCEPT ![c] = 1]
  /\ phase' = [phase EXCEPT ![c] = "item"]
  /\ statuses' = [statuses EXCEPT ![c] = << >>]
  /\ applied' = [applied EXCEPT ![c] = 0]
  /\ errors' = [errors EXCEPT ![c] = 0]
  /\ UNCHANGED <<answer, trail, serverVars>>

\* Mutant: the first item that fails ends the batch.
StopAtError(c, status) ==
  IF status = "error" THEN Len(rpc[c].items) + 1 ELSE pos[c] + 1

\* The item after this one, whatever became of it.
NextItem(c, status) == pos[c] + 1

\* The current item is over: its result is recorded and counted.
Conclude(c, status) ==
  /\ statuses' = [statuses EXCEPT ![c] = Append(@, status)]
  /\ applied' = [applied EXCEPT ![c] = @ + (IF status = "error" THEN 0 ELSE 1)]
  /\ errors' = [errors EXCEPT ![c] = @ + (IF status = "error" THEN 1 ELSE 0)]
  /\ pos' = [pos EXCEPT ![c] = NextItem(c, status)]
  /\ phase' = [phase EXCEPT ![c] = "item"]
  /\ answer' = [answer EXCEPT ![c] = "none"]

\* An invalid item returns before anything is sent or published.
Refuse(c) ==
  /\ phase[c] = "item" /\ pos[c] <= Len(rpc[c].items)
  /\ ~Valid(c)
  /\ Conclude(c, "error")
  /\ UNCHANGED <<rpc, count, trail, serverVars>>

Issue(c) ==
  /\ phase[c] = "item" /\ pos[c] <= Len(rpc[c].items)
  /\ Valid(c)
  /\ phase' = [phase EXCEPT ![c] = "inflight"]
  /\ UNCHANGED <<rpc, count, pos, answer, statuses, applied, errors, trail, serverVars>>

\* Mutant: a delete that finds nothing is reported as a success.
AbsentIsDeleted(c, ans) ==
  CASE ans = "error" -> "error"
    [] OTHER -> IF rpc[c].op = "delete" THEN "deleted" ELSE "applied"

Outcome(c, ans) ==
  CASE ans = "ok" -> IF rpc[c].op = "delete" THEN "deleted" ELSE "applied"
    [] ans = "notFound" -> "notFound"
    [] OTHER -> "error"

EventOf(c, ans) == [id |-> Id(c), outcome |-> Outcome(c, ans), dryRun |-> Call(c).dryRun]

\* Mutant: failures are not published.
OnlySuccess(c, ans) == IF ans = "error" THEN << >> ELSE << EventOf(c, ans) >>

\* What is published of a call: one event, with what is known of its outcome.
Events(c, ans) == << EventOf(c, ans) >>

PublishOutcome(c, ans) == trail' = [trail EXCEPT ![c] = @ \o Events(c, ans)]

\* The answer is back: it is published and becomes the item's status.
Finish(c) ==
  /\ phase[c] = "answered"
  /\ PublishOutcome(c, answer[c])
  /\ Conclude(c, Outcome(c, answer[c]))
  /\ UNCHANGED <<rpc, count, serverVars>>

\* Mutant: the call to the API server has no timeout.
NoTimeout(c) == phase[c] = "answered"

\* The timeout or the client's context can end a call at any point.
MayGiveUp(c) == phase[c] \in {"inflight", "answered"}

\* The call ends without an answer, served or not: a failure is published.
GiveUp(c) ==
  /\ MayGiveUp(c)
  /\ PublishOutcome(c, "error")
  /\ Conclude(c, "error")
  /\ orphans' = IF phase[c] = "inflight" THEN orphans \cup {Call(c)} ELSE orphans
  /\ UNCHANGED <<rpc, count, store, committed>>

Return(c) ==
  /\ phase[c] = "item" /\ pos[c] > Len(rpc[c].items)
  /\ phase' = [phase EXCEPT ![c] = "idle"]
  /\ UNCHANGED <<rpc, count, pos, answer, statuses, applied, errors, trail, serverVars>>

-----------------------------------------------------------------------------
DeleteRpc(d) == [op |-> "delete", items |-> << d >>, dryRun |-> FALSE]
ApplyRpc(b) == [op |-> "apply", items |-> b.items, dryRun |-> b.dryRun]
Rpcs == { ApplyRpc(b) : b \in Batches } \cup { DeleteRpc(d) : d \in Deletes }

RpcStep(c) == Refuse(c) \/ Issue(c) \/ Finish(c) \/ GiveUp(c) \/ Return(c)

Next ==
  \/ \E c \in Clients :
       \/ RpcStep(c)
       \/ \E ans \in {"ok", "notFound", "error"} : ServerAnswers(c, ans)
       \/ \E r \in Rpcs : Begin(c, r)
  \/ \E call \in orphans :
       \/ OrphanLost(call)
       \/ \E ans \in {"ok", "notFound", "error"} : OrphanServed(call, ans)

Spec == Init /\ [][Next]_vars

\* Handlers run and timeouts fire; the API server need never answer.
FairSpec == Spec /\ \A c \in Clients : WF_vars(RpcStep(c))

-----------------------------------------------------------------------------
(* Properties *)

Running(c) == phase[c] \in {"inflight", "answered"}
Published(c) == { trail[c][i].id : i \in 1..Len(trail[c]) }

\* Every change of the store is in the audit trail, once, or its call is still
\* running and in it not yet: no timeout, cancellation or late answer leaves a
\* gap or repeats an event.
EveryChangeAudited ==
  /\ \A id \in committed : LET c == id[1] IN id \in Published(c) \/ (Running(c) /\ id = Id(c))
  /\ \A c \in Clients :
       /\ Cardinality(Published(c)) = Len(trail[c])
       /\ Running(c) => Id(c) \notin Published(c)

\* The trail calls an object deleted, or applied and not in a dry run, only if
\* this very call changed the store; and what was asked for as a dry run, by
\* the item or by its batch, changes nothing, not even when its request is
\* served after a timeout.
OutcomesAreTrue ==
  /\ \A c \in Clients : \A i \in 1..Len(trail[c]) :
       LET e == trail[c][i] IN
       e.outcome \in {"applied", "deleted"} => (e.id \in committed <=> ~e.dryRun)
  /\ \A id \in committed : LET r == rpc[id[1]] IN
       (id[2] = count[id[1]] /\ r.op = "apply") => ~r.dryRun /\ ~r.items[id[3]].dryRun

\* The RPCs implement the audited store: what a call changes and what the trail
\* says of it agree, whichever batch it is an item of, however it is answered,
\* and whatever became of it after its timeout.
OpenCall(c) == IF Running(c) THEN {Call(c)} ELSE {}
Ledger == INSTANCE AuditedStore
            WITH Ids <- Clients \X Nat \X Nat,
                 Outcomes <- {"applied", "deleted", "notFound", "error"},
                 Successes <- {"applied", "deleted"},
                 objects <- store, changed <- committed, loose <- orphans, events <- trail,
                 open <- [c \in Clients |-> OpenCall(c)]

ImplementsLedger == Ledger!AbsSpec

\* While an RPC works on an item the items before it, and no others, have a
\* result; when it is over all have, and the counters of a batch add up to
\* their number, whatever failed on the way.
BatchAddsUp ==
  \A c \in Clients :
    /\ pos[c] = Len(statuses[c]) + 1
    /\ phase[c] = "idle" =>
         /\ Len(statuses[c]) = Len(rpc[c].items)
         /\ applied[c] + errors[c] = Len(rpc[c].items)
         /\ errors[c] = Cardinality({ i \in 1..Len(statuses[c]) : statuses[c][i] = "error" })

\* "so a slow apiserver cannot stall request processing": an RPC returns
\* although the API server never answers.
RpcReturns == \A c \in Clients : phase[c] # "idle" ~> phase[c] = "idle"

\* ResourceDelete reports notFound for "the already-gone case": the object that
\* ResourceApply puts in place under the same kind, name and namespace, that is
\* none, is not there when the server answers.
SameIdentity(d) == [DeleteTarget(d) EXCEPT !.ns = IF Storable(DeleteTarget(d)) THEN @ ELSE "default"]
NotFoundMeansGone ==
  [][\A c \in Clients : (answer[c] # "notFound" /\ answer'[c] = "notFound")
        => SameIdentity(Item(c)) \notin store]_vars
=============================================================================
