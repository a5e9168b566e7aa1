------------------------- MODULE ResourceOpsProofs -------------------------
(***************************************************************************)
(* Proofs about ResourceOps, for any number of clients, any requests and   *)
(* any kinds.  The inductive invariant is built in layers, each proved     *)
(* with the help of the ones before it:                                    *)
(*   TypeInv     the state has its type;                                   *)
(*   BatchInv    the results and counters of an RPC agree with the item it *)
(*               works on;                                                 *)
(*   TrailInv    the calls of a client are numbered, by RPC and by item,   *)
(*               and its trail holds each call at most once, all of them   *)
(*               earlier than the current one; a call given up is in it,   *)
(*               as an error;                                              *)
(*   CommitInv   a call that changed the store is in the trail, or is the  *)
(*               current one and answered with success;                    *)
(*   DryInv      a call given up, or that changed the store, asks for what *)
(*               its item and its batch ask for;                           *)
(*   OutcomeInv  what the trail says of a call is true of the store;       *)
(*   LooseInv    a call that is over and not served has changed nothing.   *)
(***************************************************************************)
EXTENDS ResourceOps, FiniteSetTheorems, SequenceTheorems, TLAPS

Status == {"applied", "deleted", "notFound", "error"}
Answer == {"none", "ok", "notFound", "error"}
Phase == {"idle", "item", "inflight", "answered"}
CallId == Clients \X Nat \X Nat
Event == [id : CallId, outcome : Status, dryRun : BOOLEAN]

LEMMA CallIdParts ==
  \A id \in CallId : id[1] \in Clients /\ id[2] \in Nat /\ id[3] \in Nat
  BY DEF CallId

LEMMA IdParts ==
  ASSUME NEW c PROVE Id(c)[1] = c /\ Id(c)[2] = count[c] /\ Id(c)[3] = pos[c]
  BY DEF Id

-----------------------------------------------------------------------------
(* Types *)

TypeInv ==
  /\ rpc \in [Clients -> Rpcs \cup {NoRpc}]
  /\ count \in [Clients -> Nat] /\ pos \in [Clients -> Nat]
  /\ phase \in [Clients -> Phase] /\ answer \in [Clients -> Answer]
  /\ statuses \in [Clients -> Seq(Status)]
  /\ applied \in [Clients -> Nat] /\ errors \in [Clients -> Nat]
  /\ trail \in [Clients -> Seq(Event)]
  /\ committed \subseteq CallId
  /\ \A call \in orphans : call.id \in CallId

LEMMA RpcShape ==
  ASSUME NEW r \in Rpcs \cup {NoRpc}
  PROVE  /\ r.op \in {"none", "apply", "delete"} /\ r.dryRun \in BOOLEAN
         /\ Len(r.items) \in Nat
         /\ r.op = "apply" => \A k \in 1..Len(r.items) : r.items[k].dryRun \in BOOLEAN
<1>1. CASE r = NoRpc
  BY <1>1 DEF NoRpc
<1>2. ASSUME NEW b \in Batches, r = ApplyRpc(b)
      PROVE  /\ r.op = "apply" /\ r.dryRun \in BOOLEAN /\ Len(r.items) \in Nat
             /\ \A k \in 1..Len(r.items) : r.items[k].dryRun \in BOOLEAN
  BY <1>2, RequestAssumption DEF ApplyRpc
<1>3. ASSUME NEW d \in Deletes, r = DeleteRpc(d)
      PROVE  r.op = "delete" /\ r.dryRun \in BOOLEAN /\ Len(r.items) \in Nat
  BY <1>3 DEF DeleteRpc
<1> QED
  BY <1>1, <1>2, <1>3 DEF Rpcs

LEMMA OutcomeType ==
  ASSUME NEW c \in Clients, NEW ans PROVE Outcome(c, ans) \in Status
  BY DEF Outcome, Status

\* The event of a call, for a client that is at one of its items.
LEMMA EventType ==
  ASSUME TypeInv, NEW c \in Clients, NEW ans, 1 <= pos[c], pos[c] <= Len(rpc[c].items)
  PROVE  /\ Id(c) \in CallId /\ EventOf(c, ans) \in Event
         /\ Call(c).id = Id(c) /\ EventOf(c, ans).id = Id(c)
         /\ EventOf(c, ans).outcome = Outcome(c, ans)
         /\ EventOf(c, ans).dryRun = Call(c).dryRun
<1>1. Id(c) \in CallId
  BY DEF TypeInv, Id, CallId
<1>2. Call(c).id = Id(c) /\ Call(c).dryRun \in BOOLEAN
  BY RpcShape DEF TypeInv, Call, Flag, Item
<1> QED
  BY <1>1, <1>2, OutcomeType DEF EventOf, Event

\* What publishing does to the trails.
LEMMA PublishEffect ==
  ASSUME TypeInv, NEW c \in Clients, NEW ans, 1 <= pos[c], pos[c] <= Len(rpc[c].items),
         PublishOutcome(c, ans)
  PROVE  /\ trail' \in [Clients -> Seq(Event)]
         /\ trail'[c] = Append(trail[c], EventOf(c, ans))
         /\ \A d \in Clients \ {c} : trail'[d] = trail[d]
<1>1. trail[c] \in Seq(Event) /\ EventOf(c, ans) \in Event
  BY EventType DEF TypeInv
<1>2. trail[c] \o << EventOf(c, ans) >> = Append(trail[c], EventOf(c, ans))
  BY <1>1, AppendIsConcat
<1>3. Append(trail[c], EventOf(c, ans)) \in Seq(Event)
  BY <1>1, AppendProperties
<1> QED
  BY <1>2, <1>3 DEF TypeInv, PublishOutcome, Events

LEMMA ConcludeType ==
  ASSUME TypeInv, NEW c \in Clients, NEW status \in Status, Conclude(c, status)
  PROVE  /\ statuses' \in [Clients -> Seq(Status)]
         /\ applied' \in [Clients -> Nat] /\ errors' \in [Clients -> Nat]
         /\ pos' \in [Clients -> Nat]
         /\ phase' \in [Clients -> Phase] /\ answer' \in [Clients -> Answer]
<1>1. Append(statuses[c], status) \in Seq(Status)
  BY AppendProperties DEF TypeInv
<1>2. statuses' \in [Clients -> Seq(Status)]
  BY <1>1 DEF TypeInv, Conclude
<1>3. applied' \in [Clients -> Nat] /\ errors' \in [Clients -> Nat] /\ pos' \in [Clients -> Nat]
  BY SMTT(30) DEF TypeInv, Conclude, NextItem
<1>4. phase' \in [Clients -> Phase] /\ answer' \in [Clients -> Answer]
  BY DEF TypeInv, Conclude, Phase, Answer
<1> QED
  BY <1>2, <1>3, <1>4

-----------------------------------------------------------------------------
(* Batches: results and counters *)

Failed(s) == {i \in 1..Len(s) : s[i] = "error"}

BatchOk(c) ==
  /\ pos[c] = Len(statuses[c]) + 1
  /\ applied[c] + errors[c] = Len(statuses[c])
  /\ errors[c] = Cardinality(Failed(statuses[c]))
  /\ pos[c] <= Len(rpc[c].items) + 1
  /\ Running(c) => pos[c] <= Len(rpc[c].items)
  /\ phase[c] = "idle" => pos[c] = Len(rpc[c].items) + 1

BatchInv == \A c \in Clients : BatchOk(c)

LEMMA FailedAppend ==
  ASSUME NEW s \in Seq(Status), NEW status \in Status
  PROVE  Cardinality(Failed(Append(s, status)))
           = Cardinality(Failed(s)) + (IF status = "error" THEN 1 ELSE 0)
<1> DEFINE t == Append(s, status)
<1>1. /\ Len(t) = Len(s) + 1 /\ Len(s) \in Nat
      /\ \A i \in 1..Len(s) : t[i] = s[i]
      /\ t[Len(s) + 1] = status
  BY AppendProperties, LenProperties
<1>2. Failed(s) \subseteq 1..Len(s) /\ IsFiniteSet(1..Len(s))
  BY <1>1, FS_Interval DEF Failed
<1>3. IsFiniteSet(Failed(s))
  BY <1>2, FS_Subset
<1>4. Cardinality(Failed(s)) \in Nat
  BY <1>3, FS_CardinalityType
<1>5. CASE status = "error"
  <2>1. Failed(t) = Failed(s) \cup {Len(s) + 1}
    BY <1>1, <1>5 DEF Failed
  <2>2. Len(s) + 1 \notin Failed(s)
    BY <1>1 DEF Failed
  <2> QED
    BY <1>3, <1>4, <1>5, <2>1, <2>2, FS_AddElement
<1>6. CASE status # "error"
  <2>1. Failed(t) = Failed(s)
    BY <1>1, <1>6 DEF Failed
  <2> QED
    BY <1>4, <1>6, <2>1
<1> QED
  BY <1>5, <1>6

LEMMA EmptyHasNoFailure == Failed(<< >>) = {} /\ Cardinality(Failed(<< >>)) = 0
  BY FS_EmptySet DEF Failed

\* What the three ways to conclude an item share.
LEMMA ConcludeKeepsBatch ==
  ASSUME TypeInv, BatchInv, NEW c \in Clients, NEW status \in Status,
         Conclude(c, status), UNCHANGED rpc, pos[c] <= Len(rpc[c].items)
  PROVE  BatchInv'
<1>1. /\ statuses'[c] = Append(statuses[c], status) /\ pos'[c] = pos[c] + 1
      /\ applied'[c] = applied[c] + (IF status = "error" THEN 0 ELSE 1)
      /\ errors'[c] = errors[c] + (IF status = "error" THEN 1 ELSE 0)
      /\ phase'[c] = "item"
      /\ \A d \in Clients \ {c} : /\ statuses'[d] = statuses[d] /\ pos'[d] = pos[d]
                                  /\ applied'[d] = applied[d] /\ errors'[d] = errors[d]
                                  /\ phase'[d] = phase[d]
  BY DEF TypeInv, Conclude, NextItem
<1>2. /\ statuses[c] \in Seq(Status) /\ applied[c] \in Nat /\ errors[c] \in Nat /\ pos[c] \in Nat
      /\ Len(statuses[c]) \in Nat
      /\ Len(rpc[c].items) \in Nat
  BY RpcShape DEF TypeInv
<1>3. Len(statuses'[c]) = Len(statuses[c]) + 1
  BY <1>1, <1>2, AppendProperties
<1>4. errors'[c] = Cardinality(Failed(statuses'[c]))
  BY <1>1, <1>2, FailedAppend DEF BatchInv, BatchOk
<1>5. applied'[c] + errors'[c] = Len(statuses'[c])
  BY SMTT(30), <1>1, <1>2, <1>3 DEF BatchInv, BatchOk
<1>6. BatchOk(c)'
  BY <1>1, <1>2, <1>3, <1>4, <1>5 DEF BatchInv, BatchOk, Running
<1>7. \A d \in Clients \ {c} : BatchOk(d)'
  BY <1>1 DEF BatchInv, BatchOk, Running
<1> QED
  BY <1>6, <1>7 DEF BatchInv

LEMMA BatchInvInit == Init => TypeInv /\ BatchInv
<1> SUFFICES ASSUME Init PROVE TypeInv /\ BatchInv
  OBVIOUS
<1>1. TypeInv
  BY DEF Init, TypeInv, Phase, Answer
<1>2. BatchInv
  <2> SUFFICES ASSUME NEW c \in Clients
               PROVE  /\ pos[c] = 1 /\ statuses[c] = << >> /\ applied[c] = 0 /\ errors[c] = 0
                      /\ phase[c] = "idle" /\ rpc[c].items = << >>
    BY EmptyHasNoFailure DEF BatchInv, BatchOk, Running
  <2> QED
    BY DEF Init, NoRpc
<1> QED
  BY <1>1, <1>2

LEMMA TypeInvStep == TypeInv /\ BatchInv /\ [Next]_vars => TypeInv'
<1> SUFFICES ASSUME TypeInv, BatchInv, [Next]_vars PROVE TypeInv'
  OBVIOUS
<1>0. \A c \in Clients : /\ pos[c] \in Nat /\ pos[c] >= 1
                         /\ Running(c) => pos[c] <= Len(rpc[c].items)
  BY DEF TypeInv, BatchInv, BatchOk
<1>1. ASSUME NEW c \in Clients, Refuse(c) PROVE TypeInv'
  BY <1>1, ConcludeType DEF Refuse, serverVars, TypeInv, Status
<1>2. ASSUME NEW c \in Clients, Issue(c) PROVE TypeInv'
  BY <1>2 DEF Issue, serverVars, TypeInv, Phase
<1>3. ASSUME NEW c \in Clients, Finish(c) PROVE TypeInv'
  <2>1. pos[c] <= Len(rpc[c].items)
    BY <1>0, <1>3 DEF Finish, Running
  <2>2. trail' \in [Clients -> Seq(Event)]
    BY <1>0, <1>3, <2>1, PublishEffect DEF Finish
  <2> QED
    BY <1>3, <2>2, ConcludeType, OutcomeType DEF Finish, serverVars, TypeInv
<1>4. ASSUME NEW c \in Clients, GiveUp(c) PROVE TypeInv'
  <2>1. pos[c] <= Len(rpc[c].items)
    BY <1>0, <1>4 DEF GiveUp, MayGiveUp, Running
  <2>2. trail' \in [Clients -> Seq(Event)]
    BY <1>0, <1>4, <2>1, PublishEffect DEF GiveUp
  <2>3. \A call \in orphans' : call.id \in CallId
    BY <1>0, <1>4, <2>1, EventType DEF GiveUp, TypeInv
  <2>4. "error" \in Status
    BY DEF Status
  <2> QED
    BY <1>4, <2>2, <2>3, <2>4, ConcludeType DEF GiveUp, TypeInv
<1>5. ASSUME NEW c \in Clients, Return(c) PROVE TypeInv'
  BY <1>5 DEF Return, serverVars, TypeInv, Phase
<1>6. ASSUME NEW c \in Clients, NEW ans \in {"ok", "notFound", "error"}, ServerAnswers(c, ans)
      PROVE  TypeInv'
  <2>1. Call(c).id \in CallId
    BY <1>0, <1>6, EventType DEF ServerAnswers, Running
  <2>2. committed' \subseteq CallId
    BY <1>6, <2>1 DEF ServerAnswers, Serve, TypeInv
  <2>3. answer' \in [Clients -> Answer] /\ phase' \in [Clients -> Phase]
    BY <1>6 DEF ServerAnswers, TypeInv, Answer, Phase
  <2> QED
    BY <1>6, <2>2, <2>3 DEF ServerAnswers, TypeInv
<1>7. ASSUME NEW c \in Clients, NEW r \in Rpcs, Begin(c, r) PROVE TypeInv'
  <2>1. rpc' \in [Clients -> Rpcs \cup {NoRpc}] /\ count' \in [Clients -> Nat]
    BY <1>7 DEF Begin, TypeInv
  <2>2. statuses' \in [Clients -> Seq(Status)] /\ phase' \in [Clients -> Phase]
    BY <1>7 DEF Begin, TypeInv, Phase
  <2> QED
    BY <1>7, <2>1, <2>2 DEF Begin, serverVars, TypeInv
<1>8. ASSUME NEW call \in orphans, OrphanLost(call) PROVE TypeInv'
  BY <1>8 DEF OrphanLost, rpcVars, TypeInv
<1>9. ASSUME NEW call \in orphans, NEW ans \in {"ok", "notFound", "error"}, OrphanServed(call, ans)
      PROVE  TypeInv'
  <2>1. committed' \subseteq CallId
    <3>1. call.id \in CallId /\ committed \subseteq CallId
      BY DEF TypeInv
    <3>2. committed' = committed \/ committed' = committed \cup {call.id}
      BY <1>9 DEF OrphanServed, Serve
    <3> QED
      BY <3>1, <3>2
  <2>2. \A o \in orphans' : o.id \in CallId
    BY <1>9 DEF OrphanServed, TypeInv
  <2>3. UNCHANGED <<rpc, count, pos, phase, answer, statuses, applied, errors, trail>>
    BY <1>9 DEF OrphanServed, rpcVars
  <2> QED
    BY <2>1, <2>2, <2>3 DEF TypeInv
<1>10. CASE UNCHANGED vars
  BY <1>10 DEF vars, rpcVars, serverVars, TypeInv
<1> QED
  BY <1>1, <1>2, <1>3, <1>4, <1>5, <1>6, <1>7, <1>8, <1>9, <1>10 DEF Next, RpcStep

LEMMA BatchInvStep == TypeInv /\ BatchInv /\ [Next]_vars => BatchInv'
<1> SUFFICES ASSUME TypeInv, BatchInv, [Next]_vars PROVE BatchInv'
  OBVIOUS
<1>0. \A c \in Clients : Len(rpc[c].items) \in Nat
  BY RpcShape DEF TypeInv
<1>1. ASSUME NEW c \in Clients, Refuse(c) \/ Finish(c) \/ GiveUp(c) PROVE BatchInv'
  <2>1. \E status \in Status : Conclude(c, status)
    BY <1>1, OutcomeType DEF Refuse, Finish, GiveUp, Status
  <2>2. UNCHANGED rpc /\ pos[c] <= Len(rpc[c].items)
    BY <1>1 DEF Refuse, Finish, GiveUp, MayGiveUp, BatchInv, BatchOk, Running
  <2> QED
    BY <2>1, <2>2, ConcludeKeepsBatch
<1>2. ASSUME NEW c \in Clients, Issue(c) PROVE BatchInv'
  BY <1>2 DEF Issue, BatchInv, BatchOk, Running, TypeInv
<1>3. ASSUME NEW c \in Clients, Return(c) PROVE BatchInv'
  BY SMTT(30), <1>0, <1>3 DEF Return, BatchInv, BatchOk, Running, TypeInv
<1>4. ASSUME NEW c \in Clients, NEW ans \in {"ok", "notFound", "error"}, ServerAnswers(c, ans)
      PROVE  BatchInv'
  BY <1>4 DEF ServerAnswers, BatchInv, BatchOk, Running, TypeInv
<1>5. ASSUME NEW c \in Clients, NEW r \in Rpcs, Begin(c, r) PROVE BatchInv'
  <2>1. /\ pos'[c] = 1 /\ statuses'[c] = << >> /\ applied'[c] = 0 /\ errors'[c] = 0
        /\ phase'[c] = "item" /\ rpc'[c] = r
        /\ \A d \in Clients \ {c} : /\ statuses'[d] = statuses[d] /\ pos'[d] = pos[d]
                                    /\ applied'[d] = applied[d] /\ errors'[d] = errors[d]
                                    /\ phase'[d] = phase[d] /\ rpc'[d] = rpc[d]
    BY <1>5 DEF Begin, TypeInv
  <2>2. Len(r.items) \in Nat
    BY RpcShape
  <2>3. Len(<< >>) = 0 /\ BatchOk(c)'
    BY <2>1, <2>2, EmptyHasNoFailure DEF BatchOk, Running
  <2>4. \A d \in Clients \ {c} : BatchOk(d)'
    BY <2>1 DEF BatchInv, BatchOk, Running
  <2> QED
    BY <2>3, <2>4 DEF BatchInv
<1>6. ASSUME UNCHANGED rpcVars PROVE BatchInv'
  BY <1>6 DEF rpcVars, BatchInv, BatchOk, Running
<1> QED
  BY <1>1, <1>2, <1>3, <1>4, <1>5, <1>6
  DEF Next, RpcStep, OrphanLost, OrphanServed, vars

\* Whatever fails in a batch, every item gets its result and the counters of
\* the response add up to the number of items.
THEOREM BatchesAddUp == Spec => []BatchAddsUp
<1>1. TypeInv /\ BatchInv => BatchAddsUp
  <2> SUFFICES ASSUME TypeInv, BatchInv, NEW c \in Clients
               PROVE  /\ pos[c] = Len(statuses[c]) + 1
                      /\ phase[c] = "idle" =>
                           /\ Len(statuses[c]) = Len(rpc[c].items)
                           /\ applied[c] + errors[c] = Len(rpc[c].items)
                           /\ errors[c] = Cardinality(Failed(statuses[c]))
    BY DEF BatchAddsUp, Failed
  <2>1. Len(rpc[c].items) \in Nat /\ Len(statuses[c]) \in Nat
    BY RpcShape DEF TypeInv
  <2> QED
    BY <2>1 DEF BatchInv, BatchOk
<1>2. TypeInv /\ BatchInv /\ [Next]_vars => (TypeInv /\ BatchInv)'
  BY TypeInvStep, BatchInvStep
<1> QED
  BY <1>1, <1>2, BatchInvInit, PTL DEF Spec

-----------------------------------------------------------------------------
(* The trail *)

\* A call of client c that comes before its current one.
Earlier(id, c) ==
  /\ id \in CallId /\ id[1] = c
  /\ id[2] < count[c] \/ (id[2] = count[c] /\ id[3] < pos[c])

TrailOk(c) ==
  /\ \A id \in Published(c) : Earlier(id, c)
  /\ IsFiniteSet(Published(c)) /\ Cardinality(Published(c)) = Len(trail[c])

GivenUpOk(call) ==
  LET c == call.id[1] IN
  /\ call.id \in Published(c)
  /\ \A i \in 1..Len(trail[c]) : trail[c][i].id = call.id => trail[c][i].outcome = "error"

TrailInv ==
  /\ \A c \in Clients : TrailOk(c)
  /\ \A call \in orphans : GivenUpOk(call)

LEMMA CurrentIsNew ==
  ASSUME TypeInv, TrailInv, NEW c \in Clients
  PROVE  Id(c) \notin Published(c)
<1>1. count[c] \in Nat /\ pos[c] \in Nat
  BY DEF TypeInv
<1>2. ~Earlier(Id(c), c)
  BY <1>1, IdParts DEF Earlier
<1> QED
  BY <1>2 DEF TrailInv, TrailOk

LEMMA PublishedOfCall ==
  ASSUME TypeInv, BatchInv, NEW c \in Clients, NEW ans, Running(c), PublishOutcome(c, ans)
  PROVE  /\ Len(trail[c]) \in Nat /\ Len(trail'[c]) = Len(trail[c]) + 1
         /\ \A i \in 1..Len(trail[c]) : trail'[c][i] = trail[c][i]
         /\ trail'[c][Len(trail[c]) + 1] = EventOf(c, ans)
         /\ Published(c)' = Published(c) \cup {Id(c)}
         /\ \A d \in Clients \ {c} : trail'[d] = trail[d] /\ Published(d)' = Published(d)
<1>1. 1 <= pos[c] /\ pos[c] <= Len(rpc[c].items)
  BY DEF TypeInv, BatchInv, BatchOk
<1>2. /\ trail[c] \in Seq(Event) /\ EventOf(c, ans) \in Event
      /\ EventOf(c, ans).id = Id(c)
      /\ trail'[c] = Append(trail[c], EventOf(c, ans))
      /\ \A d \in Clients \ {c} : trail'[d] = trail[d]
  BY <1>1, EventType, PublishEffect DEF TypeInv
<1>3. /\ Len(trail[c]) \in Nat /\ Len(trail'[c]) = Len(trail[c]) + 1
      /\ \A i \in 1..Len(trail[c]) : trail'[c][i] = trail[c][i]
      /\ trail'[c][Len(trail[c]) + 1] = EventOf(c, ans)
  BY <1>2, AppendProperties
<1>4. Published(c)' = Published(c) \cup {Id(c)}
  BY <1>2, <1>3 DEF Published
<1> QED
  BY <1>2, <1>3, <1>4 DEF Published

LEMMA TrailInvInit == Init => TrailInv
<1> SUFFICES ASSUME Init PROVE TrailInv
  OBVIOUS
<1>1. \A c \in Clients : trail[c] = << >> /\ Published(c) = {}
  BY DEF Init, Published
<1> QED
  BY <1>1, FS_EmptySet DEF Init, TrailInv, TrailOk

\* A step that publishes nothing and does not go back keeps the trail in order.
LEMMA QuietKeepsTrail ==
  ASSUME TypeInv, TrailInv, UNCHANGED trail, orphans' \subseteq orphans,
         \A c \in Clients : /\ pos'[c] \in Nat /\ count'[c] \in Nat
                            /\ \/ count'[c] > count[c]
                               \/ count'[c] = count[c] /\ pos'[c] >= pos[c]
  PROVE  TrailInv'
<1>1. \A c : Published(c)' = Published(c)
  BY DEF Published
<1>2. ASSUME NEW c \in Clients PROVE TrailOk(c)'
  <2>1. \A id \in Published(c) : Earlier(id, c) => Earlier(id, c)'
    <3> SUFFICES ASSUME NEW id \in CallId, id[1] = c,
                        id[2] < count[c] \/ (id[2] = count[c] /\ id[3] < pos[c])
                 PROVE  id[2] < count'[c] \/ (id[2] = count'[c] /\ id[3] < pos'[c])
      BY DEF Earlier
    <3>1. id[2] \in Nat /\ id[3] \in Nat /\ count[c] \in Nat /\ pos[c] \in Nat
      BY CallIdParts DEF TypeInv
    <3> QED
      BY <3>1
  <2> QED
    BY <1>1, <2>1 DEF TrailInv, TrailOk
<1>3. \A call \in orphans : GivenUpOk(call) => GivenUpOk(call)'
  BY <1>1 DEF GivenUpOk
<1> QED
  BY <1>2, <1>3 DEF TrailInv

\* The end of a call, with an answer or without.
LEMMA CallEndKeepsTrail ==
  ASSUME TypeInv, BatchInv, TrailInv, NEW c \in Clients, NEW ans, NEW status, Running(c),
         PublishOutcome(c, ans), Conclude(c, status), UNCHANGED count,
         \/ orphans' = orphans
         \/ ans = "error" /\ orphans' = orphans \cup {Call(c)}
  PROVE  TrailInv'
<1> PICK me : me = Id(c)
  OBVIOUS
<1> PICK mine : mine = Call(c)
  OBVIOUS
<1>1. /\ Len(trail[c]) \in Nat /\ Len(trail'[c]) = Len(trail[c]) + 1
      /\ \A i \in 1..Len(trail[c]) : trail'[c][i] = trail[c][i]
      /\ trail'[c][Len(trail[c]) + 1] = EventOf(c, ans)
      /\ Published(c)' = Published(c) \cup {me}
      /\ \A d \in Clients \ {c} : trail'[d] = trail[d] /\ Published(d)' = Published(d)
  BY PublishedOfCall
<1>2. /\ pos'[c] = pos[c] + 1 /\ \A d \in Clients \ {c} : pos'[d] = pos[d]
      /\ pos[c] \in Nat /\ count[c] \in Nat
  BY DEF TypeInv, Conclude, NextItem
<1>3. /\ EventOf(c, ans).id = me /\ EventOf(c, ans).outcome = Outcome(c, ans)
      /\ mine.id = me /\ me \in CallId
  <2>1. 1 <= pos[c] /\ pos[c] <= Len(rpc[c].items)
    BY DEF TypeInv, BatchInv, BatchOk
  <2> QED
    BY <2>1, EventType
<1>4. me \notin Published(c) /\ me[1] = c /\ me[2] = count[c] /\ me[3] = pos[c]
  BY CurrentIsNew, IdParts
<1>5. TrailOk(c)'
  <2>1. \A id \in Published(c)' : Earlier(id, c)'
    <3>1. Earlier(me, c)'
      BY <1>2, <1>3, <1>4 DEF Earlier
    <3>2. \A id \in Published(c) : Earlier(id, c)'
      <4> SUFFICES ASSUME NEW id \in Published(c) PROVE Earlier(id, c)'
        OBVIOUS
      <4>1. Earlier(id, c)
        BY DEF TrailInv, TrailOk
      <4>2. id[2] \in Nat /\ id[3] \in Nat
        BY <4>1, CallIdParts DEF Earlier
      <4> QED
        BY <1>2, <4>1, <4>2 DEF Earlier
    <3> QED
      BY <1>1, <3>1, <3>2
  <2>2. /\ IsFiniteSet(Published(c) \cup {me})
        /\ Cardinality(Published(c) \cup {me}) = Cardinality(Published(c)) + 1
    BY <1>4, FS_AddElement DEF TrailInv, TrailOk
  <2> QED
    BY <1>1, <2>1, <2>2 DEF TrailInv, TrailOk
<1>6. ASSUME NEW d \in Clients \ {c} PROVE TrailOk(d)'
  BY <1>1, <1>2 DEF TrailInv, TrailOk, Earlier
<1>7. ASSUME NEW call \in orphans PROVE GivenUpOk(call)'
  <2>1. GivenUpOk(call) /\ call.id[1] \in Clients
    BY DEF TrailInv, TypeInv, CallId
  <2>2. CASE call.id[1] = c
    <3>1. call.id # me /\ call.id \in Published(c)'
      BY <1>1, <1>4, <2>1, <2>2 DEF GivenUpOk
    <3>2. \A i \in 1..Len(trail'[c]) : trail'[c][i].id = call.id => trail'[c][i].outcome = "error"
      BY <1>1, <1>3, <2>1, <2>2, <3>1 DEF GivenUpOk
    <3> QED
      BY <2>2, <3>1, <3>2 DEF GivenUpOk
  <2>3. CASE call.id[1] # c
    BY <1>1, <2>1, <2>3 DEF GivenUpOk
  <2> QED
    BY <2>2, <2>3
<1>8. CASE ans = "error" /\ orphans' = orphans \cup {Call(c)}
  <2>1. Outcome(c, ans) = "error"
    BY <1>8 DEF Outcome
  <2>2. \A i \in 1..Len(trail[c]) : trail[c][i].id # me
    BY <1>4 DEF Published
  <2>3. \A i \in 1..Len(trail'[c]) : trail'[c][i].id = me => trail'[c][i].outcome = "error"
    <3> SUFFICES ASSUME NEW i \in 1..Len(trail'[c]), trail'[c][i].id = me
                 PROVE  trail'[c][i].outcome = "error"
      OBVIOUS
    <3>1. i \notin 1..Len(trail[c])
      BY <1>1, <2>2
    <3>2. i = Len(trail[c]) + 1
      BY <1>1, <3>1
    <3> QED
      BY <1>1, <1>3, <2>1, <3>2
  <2>4. GivenUpOk(mine)'
    BY <1>1, <1>3, <1>4, <2>3 DEF GivenUpOk
  <2> QED
    BY <1>5, <1>6, <1>7, <1>8, <2>4 DEF TrailInv
<1>9. CASE orphans' = orphans
  BY <1>5, <1>6, <1>7, <1>9 DEF TrailInv
<1> QED
  BY <1>8, <1>9

LEMMA TrailInvStep == TypeInv /\ BatchInv /\ TrailInv /\ [Next]_vars => TrailInv'
<1> SUFFICES ASSUME TypeInv, BatchInv, TrailInv, [Next]_vars PROVE TrailInv'
  OBVIOUS
<1>1. ASSUME NEW c \in Clients, Finish(c) PROVE TrailInv'
  BY <1>1, CallEndKeepsTrail DEF Finish, Running, serverVars
<1>2. ASSUME NEW c \in Clients, GiveUp(c) PROVE TrailInv'
  BY <1>2, CallEndKeepsTrail DEF GiveUp, MayGiveUp, Running
<1>3. ASSUME NEW c \in Clients, Refuse(c) PROVE TrailInv'
  <2>1. /\ UNCHANGED <<trail, orphans, count>>
        /\ pos' = [pos EXCEPT ![c] = @ + 1]
    BY <1>3 DEF Refuse, Conclude, NextItem, serverVars
  <2>2. \A d \in Clients : pos'[d] \in Nat /\ count'[d] \in Nat /\ pos'[d] >= pos[d]
    BY <2>1 DEF TypeInv
  <2> QED
    BY <2>1, <2>2, QuietKeepsTrail
<1>4. ASSUME NEW c \in Clients, NEW r \in Rpcs, Begin(c, r) PROVE TrailInv'
  <2>1. /\ UNCHANGED <<trail, orphans>>
        /\ count' = [count EXCEPT ![c] = @ + 1] /\ pos' = [pos EXCEPT ![c] = 1]
    BY <1>4 DEF Begin, serverVars
  <2> QED
    BY <2>1, QuietKeepsTrail DEF TypeInv
<1>5. ASSUME UNCHANGED <<trail, count, pos>>, orphans' \subseteq orphans PROVE TrailInv'
  BY <1>5, QuietKeepsTrail DEF TypeInv
<1> QED
  BY <1>1, <1>2, <1>3, <1>4, <1>5
  DEF Next, RpcStep, Issue, Return, ServerAnswers, OrphanLost, OrphanServed, rpcVars, serverVars, vars

-----------------------------------------------------------------------------
(* Changes of the store *)

\* The current call of c is answered with success and not published yet.
Succeeded(c) == phase[c] = "answered" /\ answer[c] = "ok"

CommitInv ==
  \A id \in committed : id \in Published(id[1]) \/ (id = Id(id[1]) /\ Succeeded(id[1]))

\* The RPC of d is left alone.
Untouched(d) == UNCHANGED <<rpc[d], count[d], pos[d], phase[d], answer[d], trail[d]>>

OwnStep(c) ==
  \/ RpcStep(c)
  \/ \E ans \in {"ok", "notFound", "error"} : ServerAnswers(c, ans)
  \/ \E r \in Rpcs : Begin(c, r)

\* An RPC's own steps leave the other RPCs alone.
LEMMA OthersUntouched ==
  ASSUME TypeInv, NEW c \in Clients, OwnStep(c), NEW d \in Clients, d # c
  PROVE  Untouched(d)
<1>1. CASE Refuse(c) \/ Issue(c) \/ Return(c)
  BY <1>1 DEF Untouched, Refuse, Issue, Return, Conclude, TypeInv
<1>2. CASE Finish(c) \/ GiveUp(c)
  BY <1>2 DEF Untouched, Finish, GiveUp, Conclude, PublishOutcome, TypeInv
<1>3. ASSUME NEW ans \in {"ok", "notFound", "error"}, ServerAnswers(c, ans) PROVE Untouched(d)
  BY <1>3 DEF Untouched, ServerAnswers, TypeInv
<1>4. ASSUME NEW r \in Rpcs, Begin(c, r) PROVE Untouched(d)
  BY <1>4 DEF Untouched, Begin, TypeInv
<1> QED
  BY <1>1, <1>2, <1>3, <1>4 DEF OwnStep, RpcStep

LEMMA UntouchedMeans ==
  ASSUME NEW d, Untouched(d)
  PROVE  UNCHANGED <<Id(d), Call(d), Succeeded(d), Published(d)>>
  BY DEF Untouched, Id, Call, Item, Succeeded, Published

LEMMA CommitInvInit == Init => CommitInv
  BY DEF Init, CommitInv

LEMMA CommitInvStep ==
  TypeInv /\ BatchInv /\ TrailInv /\ CommitInv /\ [Next]_vars => CommitInv'
<1> SUFFICES ASSUME TypeInv, BatchInv, TrailInv, CommitInv, [Next]_vars,
                    NEW id \in committed'
             PROVE  (id \in Published(id[1]) \/ (id = Id(id[1]) /\ Succeeded(id[1])))'
  BY DEF CommitInv
<1>1. ASSUME NEW c \in Clients, OwnStep(c), id \in committed, id[1] # c
      PROVE  (id \in Published(id[1]) \/ (id = Id(id[1]) /\ Succeeded(id[1])))'
  <2>1. id[1] \in Clients
    BY <1>1, CallIdParts DEF TypeInv
  <2> QED
    BY <1>1, <2>1, OthersUntouched, UntouchedMeans DEF CommitInv
<1>2. ASSUME NEW c \in Clients, Finish(c) \/ GiveUp(c)
      PROVE  (id \in Published(id[1]) \/ (id = Id(id[1]) /\ Succeeded(id[1])))'
  <2>1. Published(c)' = Published(c) \cup {Id(c)}
    BY <1>2, PublishedOfCall DEF Finish, GiveUp, MayGiveUp, Running
  <2>2. id \in committed
    BY <1>2 DEF Finish, GiveUp, serverVars
  <2> QED
    BY <1>1, <1>2, <2>1, <2>2 DEF OwnStep, RpcStep, CommitInv
<1>3. ASSUME NEW c \in Clients, \/ Refuse(c) \/ Issue(c) \/ Return(c)
                               \/ \E r \in Rpcs : Begin(c, r)
      PROVE  (id \in Published(id[1]) \/ (id = Id(id[1]) /\ Succeeded(id[1])))'
  <2>1. id \in committed /\ trail' = trail /\ phase[c] # "answered"
    BY <1>3 DEF Refuse, Issue, Return, Begin, serverVars
  <2>2. Published(c)' = Published(c) /\ ~Succeeded(c)
    BY <2>1 DEF Published, Succeeded
  <2> QED
    BY <1>1, <1>3, <2>1, <2>2 DEF OwnStep, RpcStep, CommitInv
<1>4. ASSUME NEW c \in Clients, NEW ans \in {"ok", "notFound", "error"}, ServerAnswers(c, ans)
      PROVE  (id \in Published(id[1]) \/ (id = Id(id[1]) /\ Succeeded(id[1])))'
  <2>1. /\ trail' = trail /\ Id(c)' = Id(c) /\ phase[c] = "inflight"
        /\ phase'[c] = "answered" /\ answer'[c] = ans
    BY <1>4 DEF ServerAnswers, Id, TypeInv
  <2>2. Published(c)' = Published(c) /\ ~Succeeded(c)
    BY <2>1 DEF Published, Succeeded
  <2>3. CASE id \in committed
    BY <1>1, <1>4, <2>2, <2>3 DEF OwnStep, CommitInv
  <2>4. CASE id \notin committed
    <3>1. id = Call(c).id /\ ans = "ok"
      BY <1>4, <2>4 DEF ServerAnswers, Serve
    <3>2. id = Id(c) /\ id[1] = c
      BY <3>1, IdParts DEF Call
    <3> QED
      BY <2>1, <3>1, <3>2 DEF Succeeded
  <2> QED
    BY <2>3, <2>4
<1>5. ASSUME NEW call \in orphans, NEW ans \in {"ok", "notFound", "error"}, OrphanServed(call, ans)
      PROVE  (id \in Published(id[1]) \/ (id = Id(id[1]) /\ Succeeded(id[1])))'
  <2>1. id \in committed \/ id = call.id
    BY <1>5 DEF OrphanServed, Serve
  <2>2. call.id \in Published(call.id[1])
    BY DEF TrailInv, GivenUpOk
  <2>3. id \in Published(id[1]) \/ (id = Id(id[1]) /\ Succeeded(id[1]))
    BY <2>1, <2>2 DEF CommitInv
  <2> QED
    BY <1>5, <2>3 DEF OrphanServed, rpcVars, Published, Id, Succeeded
<1>6. CASE UNCHANGED vars \/ \E call \in orphans : OrphanLost(call)
  <2>1. UNCHANGED rpcVars /\ id \in committed
    BY <1>6 DEF OrphanLost, vars, serverVars
  <2> QED
    BY <2>1 DEF rpcVars, CommitInv, Published, Id, Succeeded
<1> QED
  BY <1>2, <1>3, <1>4, <1>5, <1>6 DEF Next, RpcStep

\* No timeout, cancellation or late answer leaves a change of the store out of
\* the audit trail, or in it twice.
THEOREM ChangesAreAudited == Spec => []EveryChangeAudited
<1> DEFINE Inv == TypeInv /\ BatchInv /\ TrailInv /\ CommitInv
<1>1. Inv => EveryChangeAudited
  BY CurrentIsNew DEF EveryChangeAudited, TrailInv, TrailOk, CommitInv, Succeeded, Running
<1>2. Init => Inv
  BY BatchInvInit, TrailInvInit, CommitInvInit
<1>3. Inv /\ [Next]_vars => Inv'
  BY TypeInvStep, BatchInvStep, TrailInvStep, CommitInvStep
<1> QED
  BY <1>1, <1>2, <1>3, PTL DEF Spec

-----------------------------------------------------------------------------
(* Dry runs *)

\* dry is what the apply id, if it is of the last RPC of its client, asks for.
Asks(id, dry) ==
  LET r == rpc[id[1]] IN
  id[2] = count[id[1]] /\ r.op = "apply" => (dry <=> Flag(r.dryRun, r.items[id[3]].dryRun))

DryInv ==
  /\ \A call \in orphans : Asks(call.id, call.dryRun)
  /\ \A id \in committed : Asks(id, FALSE)

LEMMA CurrentAsks ==
  ASSUME NEW c \in Clients, NEW call, call = Call(c), NEW id, id = Id(c)
  PROVE  call.id = id /\ Asks(id, call.dryRun)
<1>1. id[1] = c /\ id[3] = pos[c]
  BY IdParts
<1>2. CASE rpc[c].op = "apply"
  BY <1>1, <1>2 DEF Asks, Call, Item
<1>3. CASE rpc[c].op # "apply"
  BY <1>1, <1>3 DEF Asks, Call
<1> QED
  BY <1>2, <1>3

\* A later RPC of the client leaves nothing to ask.
LEMMA AsksKept ==
  ASSUME TypeInv, NEW id \in CallId, NEW dry, Asks(id, dry),
         \/ UNCHANGED <<rpc[id[1]], count[id[1]]>>
         \/ id[2] < count'[id[1]] /\ count'[id[1]] \in Nat
  PROVE  Asks(id, dry)'
  BY CallIdParts DEF Asks

LEMMA DryInvInit == Init => DryInv
  BY DEF Init, DryInv

\* A step that begins no RPC keeps what is asked for.
LEMMA SameRpcsKeepDry ==
  ASSUME TypeInv, DryInv, UNCHANGED <<rpc, count>>,
         \A call \in orphans' \ orphans : Asks(call.id, call.dryRun),
         \A id \in committed' \ committed : Asks(id, FALSE)
  PROVE  DryInv'
<1>1. \A id, dry : Asks(id, dry) => Asks(id, dry)'
  BY DEF Asks
<1> QED
  BY <1>1 DEF DryInv

LEMMA DryInvStep ==
  TypeInv /\ BatchInv /\ TrailInv /\ CommitInv /\ DryInv /\ [Next]_vars => DryInv'
<1> SUFFICES ASSUME TypeInv, BatchInv, TrailInv, CommitInv, DryInv, [Next]_vars PROVE DryInv'
  OBVIOUS
<1>1. ASSUME NEW c \in Clients, GiveUp(c) PROVE DryInv'
  <2> PICK mine : mine = Call(c)
    OBVIOUS
  <2>1. Asks(mine.id, mine.dryRun)
    BY CurrentAsks
  <2> QED
    BY <1>1, <2>1, SameRpcsKeepDry DEF GiveUp
<1>2. ASSUME NEW c \in Clients, NEW ans \in {"ok", "notFound", "error"}, ServerAnswers(c, ans)
      PROVE  DryInv'
  <2> PICK mine : mine = Call(c)
    OBVIOUS
  <2>1. Asks(mine.id, mine.dryRun)
    BY CurrentAsks
  <2>2. \A id \in committed' \ committed : id = mine.id /\ ~mine.dryRun
    BY <1>2 DEF ServerAnswers, Serve
  <2>3. \A id \in committed' \ committed : Asks(id, FALSE)
    BY <2>1, <2>2 DEF Asks
  <2> QED
    BY <1>2, <2>3, SameRpcsKeepDry DEF ServerAnswers
<1>3. ASSUME NEW call \in orphans, NEW ans \in {"ok", "notFound", "error"}, OrphanServed(call, ans)
      PROVE  DryInv'
  <2>1. Asks(call.id, call.dryRun)
    BY DEF DryInv
  <2>2. \A id \in committed' \ committed : id = call.id /\ ~call.dryRun
    BY <1>3 DEF OrphanServed, Serve
  <2>3. \A id \in committed' \ committed : Asks(id, FALSE)
    BY <2>1, <2>2 DEF Asks
  <2> QED
    BY <1>3, <2>3, SameRpcsKeepDry DEF OrphanServed, rpcVars
<1>4. ASSUME NEW c \in Clients, NEW r \in Rpcs, Begin(c, r) PROVE DryInv'
  <2>1. /\ count[c] \in Nat /\ count'[c] = count[c] + 1 /\ phase[c] = "idle"
        /\ \A d \in Clients \ {c} : UNCHANGED <<rpc[d], count[d]>>
        /\ orphans' = orphans /\ committed' = committed
    BY <1>4 DEF Begin, serverVars, TypeInv
  <2>2. ASSUME NEW id \in CallId, id \in Published(id[1]), NEW dry, Asks(id, dry)
        PROVE  Asks(id, dry)'
    <3>1. id[1] \in Clients /\ id[2] \in Nat
      BY CallIdParts
    <3>2. CASE id[1] = c
      <4>1. Earlier(id, c)
        BY <2>2, <3>2 DEF TrailInv, TrailOk
      <4> QED
        BY <2>1, <2>2, <3>1, <3>2, <4>1, AsksKept DEF Earlier
    <3>3. CASE id[1] # c
      BY <2>1, <2>2, <3>1, <3>3, AsksKept
    <3> QED
      BY <3>2, <3>3
  <2>3. \A call \in orphans : Asks(call.id, call.dryRun)'
    BY <2>2 DEF DryInv, TypeInv, TrailInv, GivenUpOk
  <2>4. ASSUME NEW id \in committed PROVE Asks(id, FALSE)'
    <3>1. id \in CallId /\ id[1] \in Clients /\ Asks(id, FALSE)
      BY CallIdParts DEF DryInv, TypeInv
    <3>2. CASE id \in Published(id[1])
      BY <2>2, <3>1, <3>2
    <3>3. CASE id \notin Published(id[1])
      <4>1. id[1] # c
        BY <2>1, <3>3 DEF CommitInv, Succeeded
      <4> QED
        BY <2>1, <3>1, <4>1, AsksKept
    <3> QED
      BY <3>2, <3>3
  <2> QED
    BY <2>1, <2>3, <2>4 DEF DryInv
<1>5. ASSUME UNCHANGED <<rpc, count, committed>>, orphans' \subseteq orphans PROVE DryInv'
  BY <1>5, SameRpcsKeepDry
<1>6. ASSUME NEW c \in Clients, Refuse(c) \/ Issue(c) \/ Finish(c) \/ Return(c) PROVE DryInv'
  BY <1>5, <1>6 DEF Refuse, Issue, Finish, Return, serverVars
<1> QED
  BY <1>1, <1>2, <1>3, <1>4, <1>5, <1>6
  DEF Next, RpcStep, OrphanLost, rpcVars, serverVars, vars

-----------------------------------------------------------------------------
(* Outcomes *)

EventTrue(e) == e.outcome \in {"applied", "deleted"} => (e.id \in committed <=> ~e.dryRun)

TrailTrue(c) == \A i \in 1..Len(trail[c]) : EventTrue(trail[c][i])

OutcomeInv ==
  /\ \A c \in Clients : TrailTrue(c)
  /\ \A c \in Clients : Succeeded(c) => (Id(c) \in committed <=> ~Call(c).dryRun)

LEMMA OutcomeInvInit == Init => OutcomeInv
  BY DEF Init, OutcomeInv, TrailTrue, Succeeded

\* A call that is not answered yet has changed nothing.
LEMMA UnansweredIsFresh ==
  ASSUME TypeInv, TrailInv, CommitInv, NEW c \in Clients, ~Succeeded(c)
  PROVE  Id(c) \notin committed
<1>1. Id(c)[1] = c
  BY IdParts
<1> QED
  BY <1>1, CurrentIsNew DEF CommitInv

\* No trail calls the call id a success.
NoSuccess(id) ==
  \A c \in Clients : \A i \in 1..Len(trail[c]) :
    trail[c][i].id = id => trail[c][i].outcome \notin {"applied", "deleted"}

\* A change of the store by such a call leaves the trails true.
LEMMA ChangeKeepsTrails ==
  ASSUME OutcomeInv, trail' = trail, NEW id, committed' \in {committed, committed \cup {id}},
         NoSuccess(id)
  PROVE  \A c \in Clients : TrailTrue(c)'
<1> SUFFICES ASSUME NEW c \in Clients, NEW i \in 1..Len(trail[c]), NEW e, e = trail[c][i]
             PROVE  EventTrue(e)'
  BY DEF TrailTrue
<1>1. EventTrue(e)
  BY DEF OutcomeInv, TrailTrue
<1> QED
  BY <1>1 DEF EventTrue, NoSuccess

\* What is in c's trail is a call of c.
LEMMA TrailIsOwn ==
  ASSUME TypeInv, TrailInv, NEW c \in Clients, NEW i \in 1..Len(trail[c])
  PROVE  trail[c][i].id \in Published(c) /\ trail[c][i].id[1] = c
  BY DEF TrailInv, TrailOk, Published, Earlier

LEMMA OutcomeInvStep ==
  TypeInv /\ BatchInv /\ TrailInv /\ CommitInv /\ OutcomeInv /\ [Next]_vars => OutcomeInv'
<1> SUFFICES ASSUME TypeInv, BatchInv, TrailInv, CommitInv, OutcomeInv, [Next]_vars
             PROVE  OutcomeInv'
  OBVIOUS
<1>1. ASSUME NEW c \in Clients, OwnStep(c), NEW d \in Clients, d # c,
             Id(d) \in committed' <=> Id(d) \in committed
      PROVE  (Succeeded(d) => (Id(d) \in committed <=> ~Call(d).dryRun))'
  BY <1>1, OthersUntouched, UntouchedMeans DEF OutcomeInv
<1>2. ASSUME NEW c \in Clients, NEW ans, Running(c), PublishOutcome(c, ans), RpcStep(c),
             ans = "ok" => Succeeded(c), phase'[c] = "item", committed' = committed
      PROVE  OutcomeInv'
  <2>1. /\ Len(trail[c]) \in Nat /\ Len(trail'[c]) = Len(trail[c]) + 1
        /\ \A i \in 1..Len(trail[c]) : trail'[c][i] = trail[c][i]
        /\ trail'[c][Len(trail[c]) + 1] = EventOf(c, ans)
        /\ \A d \in Clients \ {c} : trail'[d] = trail[d]
    BY <1>2, PublishedOfCall
  <2> PICK e : e = EventOf(c, ans)
    OBVIOUS
  <2>2. e.outcome = Outcome(c, ans) /\ e.id = Id(c) /\ e.dryRun = Call(c).dryRun
    BY DEF EventOf
  <2>3. e.outcome \in {"applied", "deleted"} => Succeeded(c)
    BY <1>2, <2>2 DEF Outcome
  <2>4. EventTrue(e)
    BY <2>2, <2>3 DEF EventTrue, OutcomeInv
  <2>5. ASSUME NEW f, EventTrue(f) PROVE EventTrue(f)'
    BY <1>2, <2>5 DEF EventTrue
  <2>6. TrailTrue(c)'
    <3> SUFFICES ASSUME NEW i \in 1..Len(trail'[c]), NEW f, f = trail'[c][i]
                 PROVE  EventTrue(f)'
      BY DEF TrailTrue
    <3>1. CASE i \in 1..Len(trail[c])
      BY <2>1, <2>5, <3>1 DEF OutcomeInv, TrailTrue
    <3>2. CASE i = Len(trail[c]) + 1
      BY <2>1, <2>4, <2>5, <3>2
    <3> QED
      BY <2>1, <3>1, <3>2
  <2>7. \A d \in Clients \ {c} : TrailTrue(d)'
    <3> SUFFICES ASSUME NEW d \in Clients \ {c}, NEW i \in 1..Len(trail[d]), NEW f, f = trail[d][i]
                 PROVE  EventTrue(f)'
      BY <2>1 DEF TrailTrue
    <3> QED
      BY <2>5 DEF OutcomeInv, TrailTrue
  <2>8. ~Succeeded(c)'
    BY <1>2 DEF Succeeded
  <2>9. OwnStep(c)
    BY <1>2 DEF OwnStep
  <2> QED
    BY <1>1, <1>2, <2>6, <2>7, <2>8, <2>9 DEF OutcomeInv
<1>3. ASSUME NEW c \in Clients, Finish(c) PROVE OutcomeInv'
  <2>1. /\ Running(c) /\ PublishOutcome(c, answer[c]) /\ RpcStep(c)
        /\ answer[c] = "ok" => Succeeded(c)
        /\ phase'[c] = "item" /\ committed' = committed
    BY <1>3 DEF Finish, Running, RpcStep, Succeeded, Conclude, serverVars, TypeInv
  <2> QED
    BY <1>2, <2>1
<1>4. ASSUME NEW c \in Clients, GiveUp(c) PROVE OutcomeInv'
  <2>1. /\ Running(c) /\ PublishOutcome(c, "error") /\ RpcStep(c)
        /\ phase'[c] = "item" /\ committed' = committed
    BY <1>4 DEF GiveUp, MayGiveUp, Running, RpcStep, Conclude, TypeInv
  <2> QED
    BY <1>2, <2>1
<1>5. ASSUME NEW c \in Clients,
             \/ Refuse(c) \/ Issue(c) \/ Return(c)
             \/ \E r \in Rpcs : Begin(c, r)
      PROVE  OutcomeInv'
  <2>1. /\ trail' = trail /\ committed' = committed /\ OwnStep(c)
        /\ phase'[c] # "answered"
    BY <1>5 DEF OwnStep, RpcStep, Refuse, Issue, Return, Begin, Conclude, serverVars, TypeInv
  <2>2. \A d \in Clients : TrailTrue(d)'
    BY <2>1, ChangeKeepsTrails DEF OutcomeInv, TrailTrue, EventTrue
  <2>3. ~Succeeded(c)'
    BY <2>1 DEF Succeeded
  <2> QED
    BY <1>1, <2>1, <2>2, <2>3 DEF OutcomeInv
<1>6. ASSUME NEW c \in Clients, NEW ans \in {"ok", "notFound", "error"}, ServerAnswers(c, ans)
      PROVE  OutcomeInv'
  <2> PICK me : me = Id(c)
    OBVIOUS
  <2>1. /\ trail' = trail /\ me[1] = c /\ Call(c).id = me
        /\ UNCHANGED <<Id(c), Call(c)>>
        /\ phase[c] = "inflight" /\ phase'[c] = "answered" /\ answer'[c] = ans
    BY <1>6, IdParts DEF ServerAnswers, Id, Call, Item, TypeInv
  <2>2. \/ committed' = committed /\ (ans # "ok" \/ Call(c).dryRun)
        \/ committed' = committed \cup {me} /\ ans = "ok" /\ ~Call(c).dryRun
    BY <1>6, <2>1 DEF ServerAnswers, Serve
  <2>3. me \notin committed
    BY <2>1, UnansweredIsFresh DEF Succeeded
  <2>4. \A d \in Clients : \A i \in 1..Len(trail[d]) : trail[d][i].id # me
    BY <2>1, TrailIsOwn, CurrentIsNew
  <2>5. \A d \in Clients : TrailTrue(d)'
    <3>1. committed' \in {committed, committed \cup {me}}
      BY <2>2
    <3>2. NoSuccess(me)
      BY <2>4 DEF NoSuccess
    <3> QED
      BY <2>1, <3>1, <3>2, ChangeKeepsTrails
  <2>6. (Succeeded(c) => (Id(c) \in committed <=> ~Call(c).dryRun))'
    BY <2>1, <2>2, <2>3 DEF Succeeded
  <2>7. ASSUME NEW d \in Clients, d # c
        PROVE  (Succeeded(d) => (Id(d) \in committed <=> ~Call(d).dryRun))'
    <3>1. Id(d) # me /\ OwnStep(c)
      BY <1>6, <2>1, <2>7, IdParts DEF OwnStep
    <3> QED
      BY <1>1, <2>2, <2>7, <3>1
  <2> QED
    BY <2>5, <2>6, <2>7 DEF OutcomeInv
<1>7. ASSUME NEW call \in orphans, NEW ans \in {"ok", "notFound", "error"}, OrphanServed(call, ans)
      PROVE  OutcomeInv'
  <2>1. /\ UNCHANGED rpcVars /\ trail' = trail
        /\ committed' \in {committed, committed \cup {call.id}}
    BY <1>7 DEF OrphanServed, Serve, rpcVars
  <2>2. /\ call.id[1] \in Clients
        /\ call.id \in Published(call.id[1])
        /\ \A i \in 1..Len(trail[call.id[1]]) :
             trail[call.id[1]][i].id = call.id => trail[call.id[1]][i].outcome = "error"
    BY CallIdParts DEF TypeInv, TrailInv, GivenUpOk
  <2>3. \A d \in Clients : \A i \in 1..Len(trail[d]) :
          trail[d][i].id = call.id => trail[d][i].outcome = "error"
    BY <2>2, TrailIsOwn
  <2>4. \A d \in Clients : TrailTrue(d)'
    <3>1. NoSuccess(call.id)
      BY <2>3 DEF NoSuccess
    <3> QED
      BY <2>1, <3>1, ChangeKeepsTrails
  <2>5. ASSUME NEW d \in Clients
        PROVE  (Succeeded(d) => (Id(d) \in committed <=> ~Call(d).dryRun))'
    <3>1. Id(d) # call.id
      BY <2>2, CurrentIsNew, IdParts
    <3>2. UNCHANGED <<Succeeded(d), Id(d), Call(d)>>
      BY <2>1 DEF rpcVars, Succeeded, Id, Call, Item
    <3> QED
      BY <2>1, <3>1, <3>2 DEF OutcomeInv
  <2> QED
    BY <2>4, <2>5 DEF OutcomeInv
<1>8. CASE UNCHANGED <<rpcVars, committed>>
  BY <1>8 DEF rpcVars, OutcomeInv, TrailTrue, EventTrue, Succeeded, Id, Call, Item
<1> QED
  BY <1>3, <1>4, <1>5, <1>6, <1>7, <1>8 DEF Next, RpcStep, OrphanLost, serverVars, vars

\* The trail calls an object applied or deleted exactly if the call changed the
\* store, and nothing asked for as a dry run changes it, served late or not.
THEOREM TrailsAreTrue == Spec => []OutcomesAreTrue
<1> DEFINE Inv == TypeInv /\ BatchInv /\ TrailInv /\ CommitInv /\ DryInv /\ OutcomeInv
<1>1. Inv => OutcomesAreTrue
  BY DEF DryInv, Asks, Flag, OutcomeInv, TrailTrue, EventTrue, OutcomesAreTrue
<1>2. Init => Inv
  BY BatchInvInit, TrailInvInit, CommitInvInit, DryInvInit, OutcomeInvInit
<1>3. Inv /\ [Next]_vars => Inv'
  BY TypeInvStep, BatchInvStep, TrailInvStep, CommitInvStep, DryInvStep, OutcomeInvStep
<1> QED
  BY <1>1, <1>2, <1>3, PTL DEF Spec

-----------------------------------------------------------------------------
(* The audited store *)

\* A call that is over but not served has changed nothing yet, and is alone with
\* its identity: it can change the store once at most.
LooseInv ==
  /\ \A call \in orphans : call.id \notin committed
  /\ \A a, b \in orphans : a.id = b.id => a = b

LEMMA LooseInvInit == Init => LooseInv
  BY DEF Init, LooseInv

\* The current call of an RPC is none of those that are over.
LEMMA CurrentIsNotLoose ==
  ASSUME TypeInv, TrailInv, NEW c \in Clients, NEW call \in orphans
  PROVE  call.id # Id(c)
<1>1. call.id \in Published(call.id[1])
  BY DEF TrailInv, GivenUpOk
<1>2. Id(c)[1] = c /\ Id(c) \notin Published(c)
  BY IdParts, CurrentIsNew
<1> QED
  BY <1>1, <1>2

LEMMA CallHasId == ASSUME NEW c PROVE Call(c).id = Id(c)
  BY DEF Call

LEMMA LooseInvStep ==
  TypeInv /\ TrailInv /\ CommitInv /\ LooseInv /\ [Next]_vars => LooseInv'
<1> SUFFICES ASSUME TypeInv, TrailInv, CommitInv, LooseInv, [Next]_vars PROVE LooseInv'
  OBVIOUS
<1>1. ASSUME NEW c \in Clients, GiveUp(c), phase[c] = "inflight" PROVE LooseInv'
  <2> PICK mine : mine = Call(c)
    OBVIOUS
  <2>1. orphans' = orphans \cup {mine} /\ committed' = committed
    BY <1>1 DEF GiveUp
  <2>2. mine.id = Id(c) /\ Id(c) \notin committed
    BY <1>1, CallHasId, UnansweredIsFresh DEF Succeeded
  <2>3. \A call \in orphans : call.id # mine.id
    BY <2>2, CurrentIsNotLoose
  <2> QED
    BY <2>1, <2>2, <2>3 DEF LooseInv
<1>2. ASSUME NEW c \in Clients, NEW ans \in {"ok", "notFound", "error"}, ServerAnswers(c, ans)
      PROVE  LooseInv'
  <2> PICK me : me = Id(c)
    OBVIOUS
  <2>1. orphans' = orphans /\ committed' \subseteq committed \cup {me}
    BY <1>2, CallHasId DEF ServerAnswers, Serve
  <2>2. \A call \in orphans : call.id # me
    BY CurrentIsNotLoose
  <2> QED
    BY <2>1, <2>2 DEF LooseInv
<1>3. ASSUME NEW call \in orphans, NEW ans \in {"ok", "notFound", "error"}, OrphanServed(call, ans)
      PROVE  LooseInv'
  <2>1. orphans' = orphans \ {call} /\ committed' \subseteq committed \cup {call.id}
    BY <1>3 DEF OrphanServed, Serve
  <2> QED
    BY <2>1 DEF LooseInv
<1>4. ASSUME orphans' \subseteq orphans, committed' = committed PROVE LooseInv'
  BY <1>4 DEF LooseInv
<1>5. ASSUME NEW c \in Clients,
             \/ Refuse(c) \/ Issue(c) \/ Finish(c) \/ Return(c)
             \/ GiveUp(c) /\ phase[c] # "inflight"
             \/ \E r \in Rpcs : Begin(c, r)
      PROVE  LooseInv'
  BY <1>4, <1>5 DEF Refuse, Issue, Finish, Return, GiveUp, Begin, serverVars
<1>6. CASE UNCHANGED vars \/ \E call \in orphans : OrphanLost(call)
  BY <1>4, <1>6 DEF OrphanLost, vars, serverVars
<1> QED
  BY <1>1, <1>2, <1>3, <1>5, <1>6 DEF Next, RpcStep

LedgerInv == TypeInv /\ BatchInv /\ TrailInv /\ CommitInv /\ OutcomeInv /\ LooseInv

OpenNow == [c \in Clients |-> OpenCall(c)]

\* What is open changes for the RPC that moves, and for no other.
LEMMA OpenOfMover ==
  ASSUME TypeInv, NEW c \in Clients, OwnStep(c)
  PROVE  OpenNow' = [OpenNow EXCEPT ![c] = OpenCall(c)']
<1>1. \A d \in Clients : d # c => OpenCall(d)' = OpenCall(d)
  BY OthersUntouched, UntouchedMeans DEF Untouched, OpenCall, Running
<1> QED
  BY <1>1 DEF OpenNow

LEMMA LedgerInit == Init => Ledger!AbsInit
  BY DEF Init, Ledger!AbsInit, OpenCall, Running

\* The identity of a call that is about to be issued was never used.
LEMMA IssuedIsNew ==
  ASSUME LedgerInv, NEW c \in Clients, phase[c] = "item"
  PROVE  Id(c) \notin committed \cup Ledger!Reported \cup Ledger!IdsOf(Ledger!OpenCalls)
                        \cup Ledger!IdsOf(orphans)
<1> PICK me : me = Id(c)
  OBVIOUS
<1>1. me \notin committed
  BY UnansweredIsFresh DEF LedgerInv, Succeeded
<1>2. me \notin Ledger!Reported
  <2> SUFFICES ASSUME NEW d \in Clients, NEW i \in 1..Len(trail[d]), trail[d][i].id = me
               PROVE  FALSE
    BY DEF Ledger!Reported
  <2>1. me \in Published(d) /\ me[1] = d
    BY TrailIsOwn DEF LedgerInv
  <2> QED
    BY <2>1, IdParts, CurrentIsNew DEF LedgerInv
<1>3. me \notin Ledger!IdsOf(Ledger!OpenCalls)
  <2> SUFFICES ASSUME NEW d \in Clients, NEW call \in OpenCall(d), call.id = me
               PROVE  FALSE
    BY DEF Ledger!IdsOf, Ledger!OpenCalls
  <2>1. Running(d) /\ Id(d) = me
    BY CallHasId DEF OpenCall
  <2> QED
    BY <2>1, IdParts DEF Running
<1>4. me \notin Ledger!IdsOf(orphans)
  BY CurrentIsNotLoose DEF LedgerInv, Ledger!IdsOf
<1> QED
  BY <1>1, <1>2, <1>3, <1>4

\* The end of a call is its report.
LEMMA EndIsReport ==
  ASSUME LedgerInv, NEW c \in Clients, Running(c), OwnStep(c), NEW ans \in Answer,
         PublishOutcome(c, ans), phase'[c] = "item", UNCHANGED <<store, committed>>,
         ans = "ok" => Succeeded(c),
         \/ orphans' = orphans
         \/ ans = "error" /\ ~Succeeded(c) /\ orphans' = orphans \cup {Call(c)}
  PROVE  Ledger!Report(c, Call(c), Outcome(c, ans))
<1> PICK mine : mine = Call(c)
  OBVIOUS
<1> PICK o : o = Outcome(c, ans)
  OBVIOUS
<1>1. mine.id = Id(c) /\ mine \in OpenNow[c]
  BY CallHasId DEF OpenNow, OpenCall
<1>2. o \in {"applied", "deleted"} => (mine.id \in committed <=> ~mine.dryRun)
  BY <1>1 DEF Outcome, LedgerInv, OutcomeInv
<1>3. OpenNow' = [OpenNow EXCEPT ![c] = {}]
  <2>1. OpenCall(c)' = {}
    BY DEF OpenCall, Running
  <2> QED
    BY <2>1, OpenOfMover DEF LedgerInv
<1>4. trail' = [trail EXCEPT ![c] =
                  Append(@, [id |-> mine.id, outcome |-> o, dryRun |-> mine.dryRun])]
  <2> PICK e : e = EventOf(c, ans)
    OBVIOUS
  <2>1. e = [id |-> mine.id, outcome |-> o, dryRun |-> mine.dryRun]
    BY <1>1 DEF EventOf
  <2>2. trail[c] \in Seq(Event) /\ e \in Event
    <3>1. 1 <= pos[c] /\ pos[c] <= Len(rpc[c].items)
      BY DEF LedgerInv, TypeInv, BatchInv, BatchOk
    <3> QED
      BY <3>1, EventType DEF LedgerInv, TypeInv
  <2>3. trail[c] \o << e >> = Append(trail[c], e)
    BY <2>2, AppendIsConcat
  <2> QED
    BY <2>1, <2>3 DEF PublishOutcome, Events
<1>5. \/ orphans' = orphans
      \/ /\ o \notin {"applied", "deleted"} /\ mine.id \notin committed
         /\ orphans' = orphans \cup {mine}
  BY <1>1, UnansweredIsFresh DEF Outcome, LedgerInv
<1> QED
  BY <1>1, <1>2, <1>3, <1>4, <1>5 DEF Ledger!Report, OpenNow

\* Each step of the RPCs and of the API server is one of the audited store, or
\* leaves it as it was.
LEMMA LedgerStep == LedgerInv /\ [Next]_vars => [Ledger!AbsNext]_(Ledger!absVars)
<1> SUFFICES ASSUME LedgerInv, [Next]_vars PROVE [Ledger!AbsNext]_(Ledger!absVars)
  OBVIOUS
<1>1. ASSUME NEW c \in Clients, Issue(c) PROVE Ledger!AbsNext
  <2>1. OwnStep(c) /\ phase[c] = "item" /\ phase'[c] = "inflight" /\ Call(c)' = Call(c)
        /\ UNCHANGED <<store, committed, orphans, trail>>
    BY <1>1 DEF OwnStep, RpcStep, Issue, serverVars, Call, Item, Id, LedgerInv, TypeInv
  <2>2. OpenNow[c] = {} /\ OpenNow' = [OpenNow EXCEPT ![c] = {Call(c)}]
    <3>1. OpenCall(c) = {} /\ OpenCall(c)' = {Call(c)}
      BY <2>1 DEF OpenCall, Running
    <3> QED
      BY <2>1, <3>1, OpenOfMover DEF LedgerInv, OpenNow
  <2>3. Call(c).id \in Clients \X Nat \X Nat /\ Call(c).dryRun \in BOOLEAN
    <3>1. 1 <= pos[c] /\ pos[c] <= Len(rpc[c].items)
      BY <1>1 DEF Issue, LedgerInv, TypeInv, BatchInv, BatchOk
    <3>2. Id(c) \in CallId /\ EventOf(c, "error") \in Event
      BY <3>1, EventType DEF LedgerInv
    <3>3. EventOf(c, "error").dryRun = Call(c).dryRun
      BY DEF EventOf
    <3> QED
      BY <3>2, <3>3, CallHasId DEF CallId, Event
  <2>4. Ledger!Make(c, Call(c))
    BY <2>1, <2>2, <2>3, IssuedIsNew, CallHasId DEF Ledger!Make, OpenNow
  <2>5. Call(c) \in OpenNow'[c]
    BY <2>2 DEF OpenNow
  <2> QED
    BY <2>4, <2>5 DEF Ledger!AbsNext, OpenNow
<1>2. ASSUME NEW c \in Clients, NEW ans, Running(c),
             Ledger!Report(c, Call(c), Outcome(c, ans))
      PROVE  Ledger!AbsNext
  <2>1. Outcome(c, ans) \in {"applied", "deleted", "notFound", "error"}
    BY DEF Outcome
  <2>2. Call(c) \in [d \in Clients |-> OpenCall(d)][c]
    BY <1>2 DEF OpenCall
  <2> QED
    BY <1>2, <2>1, <2>2 DEF Ledger!AbsNext
<1>3. ASSUME NEW c \in Clients, Finish(c) PROVE Ledger!AbsNext
  <2>1. /\ Running(c) /\ OwnStep(c) /\ answer[c] \in Answer /\ PublishOutcome(c, answer[c])
        /\ phase'[c] = "item" /\ UNCHANGED <<store, committed, orphans>>
        /\ answer[c] = "ok" => Succeeded(c)
    BY <1>3 DEF Finish, Running, OwnStep, RpcStep, Succeeded, Conclude, serverVars, LedgerInv, TypeInv
  <2> QED
    BY <1>2, <2>1, EndIsReport
<1>4. ASSUME NEW c \in Clients, GiveUp(c) PROVE Ledger!AbsNext
  <2>1. /\ Running(c) /\ OwnStep(c) /\ "error" \in Answer /\ PublishOutcome(c, "error")
        /\ phase'[c] = "item" /\ UNCHANGED <<store, committed>>
        /\ \/ orphans' = orphans
           \/ ~Succeeded(c) /\ orphans' = orphans \cup {Call(c)}
    BY <1>4 DEF GiveUp, MayGiveUp, Running, OwnStep, RpcStep, Succeeded, Conclude, Answer,
       LedgerInv, TypeInv
  <2> QED
    BY <1>2, <2>1, EndIsReport
<1>5. ASSUME NEW c \in Clients, NEW ans \in {"ok", "notFound", "error"}, ServerAnswers(c, ans)
      PROVE  [Ledger!AbsNext]_(Ledger!absVars)
  <2> PICK mine : mine = Call(c)
    OBVIOUS
  <2>1. /\ OwnStep(c) /\ Running(c) /\ Running(c)' /\ Call(c)' = Call(c)
        /\ UNCHANGED <<orphans, trail>> /\ phase[c] = "inflight"
    BY <1>5 DEF OwnStep, ServerAnswers, Running, Call, Item, Id, LedgerInv, TypeInv
  <2>2. OpenNow' = OpenNow
    <3>1. OpenCall(c)' = OpenCall(c)
      BY <2>1 DEF OpenCall
    <3> QED
      BY <2>1, <3>1, OpenOfMover DEF LedgerInv, OpenNow
  <2>3. CASE ans # "ok" \/ mine.dryRun
    BY <1>5, <2>1, <2>2, <2>3 DEF ServerAnswers, Serve, Ledger!absVars, OpenNow
  <2>4. CASE ans = "ok" /\ ~mine.dryRun
    <3>1. mine.id = Id(c) /\ mine.id \notin committed /\ mine \in OpenNow[c]
      BY <2>1, CallHasId, UnansweredIsFresh DEF LedgerInv, Succeeded, OpenNow, OpenCall
    <3>2. Ledger!ChangedBy(mine)
      BY <1>5, <2>4, <3>1 DEF ServerAnswers, Serve, Ledger!ChangedBy
    <3>3. Ledger!Change(c, mine)
      BY <2>1, <2>2, <3>1, <3>2 DEF Ledger!Change, OpenNow
    <3> QED
      BY <3>1, <3>3 DEF Ledger!AbsNext, OpenNow
  <2> QED
    BY <2>3, <2>4
<1>6. ASSUME NEW call \in orphans, UNCHANGED rpcVars, orphans' = orphans \ {call},
             \/ UNCHANGED <<store, committed>>
             \/ \E ans \in {"ok", "notFound", "error"} : Serve(call, ans)
      PROVE  Ledger!AbsNext
  <2>1. OpenNow' = OpenNow /\ trail' = trail
    BY <1>6 DEF rpcVars, OpenNow, OpenCall, Running, Call, Item, Id
  <2>2. CASE UNCHANGED <<store, committed>>
    <3>1. Ledger!Lose(call)
      BY <1>6, <2>1, <2>2 DEF Ledger!Lose, OpenNow
    <3> QED
      BY <3>1 DEF Ledger!AbsNext
  <2>3. ASSUME NEW ans \in {"ok", "notFound", "error"}, Serve(call, ans),
               ~UNCHANGED <<store, committed>>
        PROVE  Ledger!AbsNext
    <3>1. call.id \notin committed
      BY DEF LedgerInv, LooseInv
    <3>2. Ledger!ChangedBy(call)
      BY <2>3, <3>1 DEF Serve, Ledger!ChangedBy
    <3>3. Ledger!ChangeLate(call)
      BY <1>6, <2>1, <3>2 DEF Ledger!ChangeLate, OpenNow
    <3> QED
      BY <3>3 DEF Ledger!AbsNext
  <2> QED
    BY <1>6, <2>2, <2>3
<1>7. ASSUME NEW call \in orphans,
             \/ OrphanLost(call)
             \/ \E ans \in {"ok", "notFound", "error"} : OrphanServed(call, ans)
      PROVE  Ledger!AbsNext
  BY <1>6, <1>7 DEF OrphanLost, OrphanServed
<1>8. ASSUME NEW c \in Clients,
             Refuse(c) \/ Return(c) \/ \E r \in Rpcs : Begin(c, r)
      PROVE  UNCHANGED Ledger!absVars
  <2>1. /\ OwnStep(c) /\ phase[c] \in {"idle", "item"} /\ phase'[c] \in {"idle", "item"}
        /\ UNCHANGED <<store, committed, orphans, trail>>
    BY <1>8 DEF OwnStep, RpcStep, Refuse, Return, Begin, Conclude, serverVars, LedgerInv, TypeInv
  <2>2. OpenNow' = OpenNow
    <3>1. OpenCall(c)' = OpenCall(c)
      BY <2>1 DEF OpenCall, Running
    <3> QED
      BY <2>1, <3>1, OpenOfMover DEF LedgerInv, OpenNow
  <2> QED
    BY <2>1, <2>2 DEF Ledger!absVars, OpenNow
<1>9. CASE UNCHANGED vars
  BY <1>9 DEF vars, rpcVars, serverVars, Ledger!absVars, OpenCall, Running, Call, Item, Id
<1> QED
  BY <1>1, <1>3, <1>4, <1>5, <1>7, <1>8, <1>9 DEF Next, RpcStep

\* Every behaviour of the RPCs is one of the audited store: whichever batch a
\* call is an item of, and however late it is served, it changes the store at
\* most once, is reported exactly once, and as a success only truthfully.
THEOREM RpcsImplementLedger == Spec => ImplementsLedger
<1>1. Init => LedgerInv
  BY BatchInvInit, TrailInvInit, CommitInvInit, OutcomeInvInit, LooseInvInit DEF LedgerInv
<1>2. LedgerInv /\ [Next]_vars => LedgerInv'
  BY TypeInvStep, BatchInvStep, TrailInvStep, CommitInvStep, OutcomeInvStep, LooseInvStep
  DEF LedgerInv
<1> QED
  BY <1>1, <1>2, LedgerInit, LedgerStep, PTL DEF Spec, ImplementsLedger, Ledger!AbsSpec

-----------------------------------------------------------------------------
(* Why an RPC ends *)

\* Items that have no result yet.
ItemsLeft(c) == Len(rpc[c].items) + 1 - pos[c]

\* Steps an RPC has left at most: three for each such item, less those the current
\* item has behind it, and the return.
StepsLeft(c) ==
  CASE phase[c] = "idle" -> 0
    [] phase[c] = "item" -> 3 * ItemsLeft(c) + 1
    [] phase[c] = "inflight" -> 3 * ItemsLeft(c)
    [] phase[c] = "answered" -> 3 * ItemsLeft(c) - 1

LEMMA StepsLeftAt ==
  ASSUME NEW c
  PROVE  /\ phase[c] = "idle" => StepsLeft(c) = 0
         /\ phase[c] = "item" => StepsLeft(c) = 3 * ItemsLeft(c) + 1
         /\ phase[c] = "inflight" => StepsLeft(c) = 3 * ItemsLeft(c)
         /\ phase[c] = "answered" => StepsLeft(c) = 3 * ItemsLeft(c) - 1
  BY DEF StepsLeft

FewStepsLeft == \A c \in Clients : StepsLeft(c) \in Nat

LEMMA ItemsLeftType ==
  ASSUME TypeInv, BatchInv, NEW c \in Clients
  PROVE  ItemsLeft(c) \in Nat /\ (Running(c) => ItemsLeft(c) > 0)
<1>1. Len(rpc[c].items) \in Nat /\ pos[c] \in Nat
  BY RpcShape DEF TypeInv
<1>2. /\ pos[c] <= Len(rpc[c].items) + 1
      /\ Running(c) => pos[c] <= Len(rpc[c].items)
  BY DEF BatchInv, BatchOk
<1> QED
  BY <1>1, <1>2 DEF ItemsLeft

LEMMA StepsLeftType == TypeInv /\ BatchInv => FewStepsLeft
<1> SUFFICES ASSUME TypeInv, BatchInv, NEW c \in Clients PROVE StepsLeft(c) \in Nat
  BY DEF FewStepsLeft
<1>1. ItemsLeft(c) \in Nat /\ (Running(c) => ItemsLeft(c) > 0)
  BY ItemsLeftType
<1>2. phase[c] \in Phase
  BY DEF TypeInv
<1>3. CASE phase[c] = "idle" \/ phase[c] = "item"
  BY <1>1, <1>3, StepsLeftAt
<1>4. CASE phase[c] = "inflight" \/ phase[c] = "answered"
  <2>1. ItemsLeft(c) > 0
    BY <1>1, <1>4 DEF Running
  <2> QED
    BY <1>1, <1>4, <2>1, StepsLeftAt
<1> QED
  BY <1>2, <1>3, <1>4 DEF Phase

\* Whoever moves, an RPC that has begun has no more steps left than before, and
\* fewer if the step is its own.
Progress(c) ==
  /\ RpcStep(c) => StepsLeft(c)' < StepsLeft(c)
  /\ phase[c] # "idle" => StepsLeft(c)' <= StepsLeft(c)

LEMMA EveryStepProgresses ==
  ASSUME TypeInv, BatchInv, [Next]_vars, NEW c \in Clients
  PROVE  Progress(c)
<1>0. ItemsLeft(c) \in Nat /\ StepsLeft(c) \in Nat
  BY ItemsLeftType, StepsLeftType DEF FewStepsLeft
<1>1. ASSUME Refuse(c) \/ Finish(c) \/ GiveUp(c) PROVE StepsLeft(c)' < StepsLeft(c)
  <2>1. /\ phase[c] = "item" \/ phase[c] = "inflight" \/ phase[c] = "answered"
        /\ phase'[c] = "item" /\ pos'[c] = pos[c] + 1 /\ rpc'[c] = rpc[c]
    BY <1>1 DEF Refuse, Finish, GiveUp, MayGiveUp, Conclude, NextItem, TypeInv
  <2>2. ItemsLeft(c)' = ItemsLeft(c) - 1
    <3> DEFINE n == Len(rpc[c].items)
               p == pos[c]
    <3>1. n \in Nat /\ p \in Nat
      BY RpcShape DEF TypeInv
    <3>2. ItemsLeft(c)' = n + 1 - (p + 1) /\ ItemsLeft(c) = n + 1 - p
      BY <2>1 DEF ItemsLeft
    <3> HIDE DEF n, p
    <3> QED
      BY <3>1, <3>2
  <2>3. StepsLeft(c)' = 3 * (ItemsLeft(c) - 1) + 1
    BY <2>1, <2>2 DEF StepsLeft
  <2>4. StepsLeft(c) >= 3 * ItemsLeft(c) - 1
    BY <1>0, <2>1, StepsLeftAt
  <2> QED
    BY <1>0, <2>3, <2>4
<1>2. ASSUME Issue(c) PROVE StepsLeft(c)' < StepsLeft(c)
  <2>1. phase[c] = "item" /\ phase'[c] = "inflight" /\ ItemsLeft(c)' = ItemsLeft(c)
    BY <1>2 DEF Issue, TypeInv, ItemsLeft
  <2>2. StepsLeft(c)' = 3 * ItemsLeft(c) /\ StepsLeft(c) = 3 * ItemsLeft(c) + 1
    BY <2>1 DEF StepsLeft
  <2> QED
    BY <1>0, <2>2
<1>3. ASSUME Return(c) PROVE StepsLeft(c)' < StepsLeft(c)
  <2>1. phase[c] = "item" /\ phase'[c] = "idle"
    BY <1>3 DEF Return, TypeInv
  <2>2. StepsLeft(c)' = 0 /\ StepsLeft(c) = 3 * ItemsLeft(c) + 1
    BY <2>1 DEF StepsLeft
  <2> QED
    BY <1>0, <2>2
<1>4. ASSUME NEW ans \in {"ok", "notFound", "error"}, ServerAnswers(c, ans)
      PROVE  StepsLeft(c)' < StepsLeft(c)
  <2>1. phase[c] = "inflight" /\ phase'[c] = "answered" /\ ItemsLeft(c)' = ItemsLeft(c)
    BY <1>4 DEF ServerAnswers, TypeInv, ItemsLeft
  <2>2. StepsLeft(c)' = 3 * ItemsLeft(c) - 1 /\ StepsLeft(c) = 3 * ItemsLeft(c)
    BY <2>1 DEF StepsLeft
  <2> QED
    BY <1>0, <2>2
<1>5. ASSUME NEW r \in Rpcs, Begin(c, r) PROVE phase[c] = "idle"
  BY <1>5 DEF Begin
<1>6. ASSUME NEW d \in Clients, d # c, OwnStep(d) PROVE StepsLeft(c)' = StepsLeft(c)
  <2>1. Untouched(c)
    BY <1>6, OthersUntouched
  <2> QED
    BY <2>1 DEF Untouched, StepsLeft, ItemsLeft
<1>7. ASSUME UNCHANGED rpcVars PROVE StepsLeft(c)' = StepsLeft(c)
  BY <1>7 DEF rpcVars, StepsLeft, ItemsLeft
<1>8. RpcStep(c) => StepsLeft(c)' < StepsLeft(c)
  BY <1>1, <1>2, <1>3 DEF RpcStep
<1>9. StepsLeft(c)' \in Nat
  <2>1. (TypeInv /\ BatchInv => FewStepsLeft)'
    BY StepsLeftType, PTL
  <2> QED
    BY <2>1, TypeInvStep, BatchInvStep DEF FewStepsLeft
<1>10. ASSUME phase[c] # "idle" PROVE StepsLeft(c)' <= StepsLeft(c)
  <2>1. CASE \E d \in Clients : OwnStep(d)
    <3> PICK d \in Clients : OwnStep(d)
      BY <2>1
    <3>1. StepsLeft(c)' < StepsLeft(c) \/ StepsLeft(c)' = StepsLeft(c)
      <4>1. CASE d = c
        BY <1>4, <1>5, <1>8, <1>10, <4>1 DEF OwnStep
      <4>2. CASE d # c
        BY <1>6, <4>2
      <4> QED
        BY <4>1, <4>2
    <3> QED
      BY <1>0, <1>9, <3>1
  <2>2. CASE UNCHANGED rpcVars
    BY <1>0, <1>7, <2>2
  <2> QED
    BY <2>1, <2>2 DEF Next, OwnStep, OrphanLost, OrphanServed, vars
<1> QED
  BY <1>8, <1>10 DEF Progress

\* What makes RpcReturns true: an RPC of n items takes at most 3n + 1 steps of its
\* own, answers of the server included, and nothing that other RPCs, the server
\* or late answers do gives it more.
THEOREM RpcsRunOut ==
  Spec => [][FewStepsLeft /\ \A c \in Clients : Progress(c)]_vars
<1>1. Init => TypeInv /\ BatchInv
  BY BatchInvInit
<1>2. TypeInv /\ BatchInv /\ [Next]_vars => (TypeInv /\ BatchInv)'
  BY TypeInvStep, BatchInvStep
<1>3. TypeInv /\ BatchInv /\ [Next]_vars
        => [FewStepsLeft /\ \A c \in Clients : Progress(c)]_vars
  BY StepsLeftType, EveryStepProgresses
<1> QED
  BY <1>1, <1>2, <1>3, PTL DEF Spec
=============================================================================
