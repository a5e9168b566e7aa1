---------------------------- MODULE ReadsProofs ----------------------------
(***************************************************************************)
(* Proofs about the RPCs that read.  Of SiteQueries: time, what was read,  *)
(* names and the graph.  Of StreamRead: the batch and what is cut from it. *)
(* Of ResourceReads: answers of one version, and the client of a watch.    *)
(***************************************************************************)
EXTENDS Reads, FiniteSetTheorems, WellFoundedInduction, NaturalsInduction, SequenceTheorems,
        TLAPS

-----------------------------------------------------------------------------
(* Time *)

Rpcs == {"EoBHealth", "TraceHealth", "ClusterIdentity", "Heartbeat", "ResolveEndpoints",
         "EastWestGraph"}

\* One context for all of their calls.
Bounded == {"EoBHealth", "TraceHealth", "ResolveEndpoints"}

\* Which calls begin a context: of the plans, the first ones and, in the graph,
\* the first list as well.
LEMMA PlanFacts ==
  /\ Len(Plan("EoBHealth")) = 6 /\ Len(Plan("TraceHealth")) = 4
  /\ Len(Plan("ResolveEndpoints")) = 3 /\ Len(Plan("EastWestGraph")) = 4
  /\ \A r \in Bounded : \A p \in 1..Len(Plan(r)) :
       /\ Backend(Plan(r)[p]) = "kube"
       /\ Plan(r)[p] \notin {"bus", "version"}
       /\ BeginsContext(Plan(r)[p]) <=> p = 1
  /\ Plan("EastWestGraph")[1] = "bus"
  /\ \A p \in 2..4 :
       /\ Backend(Plan("EastWestGraph")[p]) = "kube"
       /\ Plan("EastWestGraph")[p] \notin {"bus", "version"}
       /\ BeginsContext(Plan("EastWestGraph")[p]) <=> p = 2
<1>1. Plan("EoBHealth") = << "directives", "operator", "dashboard", "streamstore", "webhook", "agents" >>
  BY DEF Plan
<1>2. Plan("TraceHealth") = << "trace_agent", "trace_pods", "race_agent", "race_pods" >>
  BY DEF Plan
<1>3. Plan("ResolveEndpoints") = << "pods", "services", "nodes" >>
  BY DEF Plan
<1>4. Plan("EastWestGraph") = << "bus", "pods", "services", "nodes" >>
  BY DEF Plan
<1>5. /\ Len(Plan("EoBHealth")) = 6 /\ Len(Plan("TraceHealth")) = 4
      /\ Len(Plan("ResolveEndpoints")) = 3 /\ Len(Plan("EastWestGraph")) = 4
  BY <1>1, <1>2, <1>3, <1>4
<1>6. ASSUME NEW p \in 1..6
      PROVE  /\ Backend(Plan("EoBHealth")[p]) = "kube"
             /\ Plan("EoBHealth")[p] \notin {"bus", "version"}
             /\ BeginsContext(Plan("EoBHealth")[p]) <=> p = 1
  BY <1>1 DEF Backend, BeginsContext
<1>7. ASSUME NEW p \in 1..4
      PROVE  /\ Backend(Plan("TraceHealth")[p]) = "kube"
             /\ Plan("TraceHealth")[p] \notin {"bus", "version"}
             /\ BeginsContext(Plan("TraceHealth")[p]) <=> p = 1
  BY <1>2 DEF Backend, BeginsContext
<1>8. ASSUME NEW p \in 1..3
      PROVE  /\ Backend(Plan("ResolveEndpoints")[p]) = "kube"
             /\ Plan("ResolveEndpoints")[p] \notin {"bus", "version"}
             /\ BeginsContext(Plan("ResolveEndpoints")[p]) <=> p = 1
  BY <1>3 DEF Backend, BeginsContext
<1>9. Plan("EastWestGraph")[1] = "bus"
  BY <1>4
<1>10. ASSUME NEW p \in 2..4
       PROVE  /\ Backend(Plan("EastWestGraph")[p]) = "kube"
              /\ Plan("EastWestGraph")[p] \notin {"bus", "version"}
              /\ BeginsContext(Plan("EastWestGraph")[p]) <=> p = 2
  BY <1>4 DEF Backend, BeginsContext
<1> QED
  BY <1>5, <1>6, <1>7, <1>8, <1>9, <1>10 DEF Bounded

LEMMA CallsOfBounded ==
  ASSUME query.rpc \in Bounded
  PROVE  /\ Calls = Plan(query.rpc) /\ Len(Calls) \in {3, 4, 6}
         /\ \A p \in 1..Len(Calls) : /\ Wired(p) <=> "kube" \in wired
                                     /\ p # 1 => DeadlineOf(Calls[p]) = deadline
                                     /\ p = 1 => DeadlineOf(Calls[p]) = now + k8sCallTimeout
<1>1. Calls = Plan(query.rpc) /\ query.rpc # "Heartbeat" /\ SharesContext
  BY DEF Bounded, Calls, SharesContext
<1>2. Len(Calls) \in {3, 4, 6}
  BY <1>1, PlanFacts DEF Bounded
<1>3. ASSUME NEW p \in 1..Len(Calls)
      PROVE  /\ Wired(p) <=> "kube" \in wired
             /\ p # 1 => DeadlineOf(Calls[p]) = deadline
             /\ p = 1 => DeadlineOf(Calls[p]) = now + k8sCallTimeout
  <2>1. PICK x : x = Calls[p]
    OBVIOUS
  <2>2. Backend(x) = "kube" /\ x \notin {"bus", "version"} /\ (BeginsContext(x) <=> p = 1)
    BY <1>1, <1>3, <2>1, PlanFacts
  <2>3. Wired(p) <=> "kube" \in wired
    BY <2>1, <2>2 DEF Wired
  <2>4. CASE p = 1
    BY <1>1, <2>1, <2>2, <2>3, <2>4 DEF DeadlineOf
  <2>5. CASE p # 1
    BY <1>1, <2>1, <2>2, <2>3, <2>5 DEF DeadlineOf
  <2> QED
    BY <2>4, <2>5
<1> QED
  BY <1>1, <1>2, <1>3

LEMMA CallsOfGraph ==
  ASSUME query.rpc = "EastWestGraph"
  PROVE  /\ "bus" \notin wired => Len(Calls) = 0
         /\ "bus" \in wired =>
              /\ Calls = Plan("EastWestGraph") /\ Len(Calls) = 4
              /\ Wired(1) /\ DeadlineOf(Calls[1]) = now + connectTimeout
              /\ \A p \in 2..4 : Wired(p) <=> "kube" \in wired
              /\ DeadlineOf(Calls[2]) = now + k8sCallTimeout
              /\ DeadlineOf(Calls[3]) = deadline /\ DeadlineOf(Calls[4]) = deadline
<1>1. "bus" \notin wired => Len(Calls) = 0
  BY DEF Calls
<1> SUFFICES ASSUME "bus" \in wired
             PROVE  /\ Calls = Plan("EastWestGraph") /\ Len(Calls) = 4
                    /\ Wired(1) /\ DeadlineOf(Calls[1]) = now + connectTimeout
                    /\ \A p \in 2..4 : Wired(p) <=> "kube" \in wired
                    /\ DeadlineOf(Calls[2]) = now + k8sCallTimeout
                    /\ DeadlineOf(Calls[3]) = deadline /\ DeadlineOf(Calls[4]) = deadline
  BY <1>1
<1>2. Calls = Plan("EastWestGraph") /\ Len(Calls) = 4 /\ SharesContext
  BY PlanFacts DEF Calls, SharesContext
<1>3. Wired(1) /\ DeadlineOf(Calls[1]) = now + connectTimeout
  <2>1. PICK x : x = Calls[1] /\ x = "bus"
    BY <1>2, PlanFacts
  <2>2. Wired(1)
    BY <2>1 DEF Wired, Backend
  <2>3. BeginsContext("bus") /\ query.rpc # "Heartbeat"
    BY DEF BeginsContext
  <2>4. DeadlineOf("bus") = now + connectTimeout
    BY <2>3 DEF DeadlineOf
  <2> QED
    BY <2>1, <2>2, <2>4
<1>4. ASSUME NEW p \in 2..4
      PROVE  /\ Wired(p) <=> "kube" \in wired
             /\ p # 2 => DeadlineOf(Calls[p]) = deadline
             /\ p = 2 => DeadlineOf(Calls[p]) = now + k8sCallTimeout
  <2>1. PICK x : x = Calls[p]
    OBVIOUS
  <2>2. Backend(x) = "kube" /\ x \notin {"bus", "version"} /\ (BeginsContext(x) <=> p = 2)
    BY <1>2, <2>1, PlanFacts
  <2>3. Wired(p) <=> "kube" \in wired
    BY <2>1, <2>2 DEF Wired
  <2>4. CASE p = 2
    BY <1>2, <2>1, <2>2, <2>3, <2>4 DEF DeadlineOf
  <2>5. CASE p # 2
    BY <1>2, <2>1, <2>2, <2>3, <2>5 DEF DeadlineOf
  <2> QED
    BY <2>4, <2>5
<1> QED
  BY <1>2, <1>3, <1>4

\* By when a call of the graph's RPC must have answered.
GraphDeadline(p) == connectTimeout + IF p = 1 THEN 0 ELSE maxWindow + k8sCallTimeout

TimesInv ==
  /\ query \in Queries /\ now \in Nat /\ deadline \in Nat
  /\ pc \in {"idle", "calling", "sampling", "assembling", "answered"}
  /\ pc = "idle" => now = 0
  /\ pc = "calling" => pos \in 1..Len(Calls) /\ Wired(pos)
  /\ pc = "sampling" => query.rpc = "EastWestGraph" /\ pos = 1 /\ "bus" \in wired
  /\ query.rpc \in Bounded =>
       now <= k8sCallTimeout /\ (pc = "calling" => now <= deadline /\ deadline <= k8sCallTimeout)
  /\ query.rpc = "EastWestGraph" =>
       /\ now <= GraphDeadline(2)
       /\ pc = "calling" => now <= deadline /\ deadline <= GraphDeadline(pos)
       /\ pc = "sampling" => now <= deadline /\ deadline <= connectTimeout + maxWindow

LEMMA Times ==
  /\ k8sCallTimeout \in Nat /\ heartbeatProbeTimeout \in Nat /\ connectTimeout \in Nat
  /\ maxWindow \in Nat /\ defaultWindow \in Nat /\ Unlimited \in Nat
  BY TimesAssumption

LEMMA DeadlineType ==
  ASSUME now \in Nat, deadline \in Nat, NEW x
  PROVE  DeadlineOf(x) \in Nat
<1>1. /\ Unlimited \in Nat /\ now + connectTimeout \in Nat /\ now + heartbeatProbeTimeout \in Nat
      /\ deadline \in Nat /\ now + k8sCallTimeout \in Nat
  BY Times
<1>2. DeadlineOf(x) \in {Unlimited, now + connectTimeout, now + heartbeatProbeTimeout, deadline,
                        now + k8sCallTimeout}
  BY DEF DeadlineOf
<1> QED
  BY <1>1, <1>2

LEMMA LenCalls == query \in Queries => Len(Calls) \in 0..6
<1> SUFFICES ASSUME query \in Queries PROVE Len(Calls) \in 0..6
  OBVIOUS
<1>1. query.rpc \in Rpcs
  BY QueriesAssumption DEF Rpcs
<1>2. Len(Plan("ClusterIdentity")) = 2 /\ Len(Plan("Heartbeat")) = 4
  <2>1. Plan("ClusterIdentity") = << "version", "operator" >>
    BY DEF Plan
  <2>2. Plan("Heartbeat") = << "version", "directives", "operator", "streams" >>
    BY DEF Plan
  <2> QED
    BY <2>1, <2>2
<1>3. Len(Plan(query.rpc)) \in 0..6
  BY <1>1, <1>2, PlanFacts DEF Rpcs
<1>4. CASE query.rpc = "EastWestGraph"
  BY <1>4, CallsOfGraph
<1>5. CASE query.rpc # "EastWestGraph"
  BY <1>3, <1>5 DEF Calls
<1> QED
  BY <1>4, <1>5

LEMMA NextCalls ==
  ASSUME query \in Queries, NEW p \in Nat \ {0}, NEW q, NextCall(p, q)
  PROVE  /\ q \in Nat \ {0} /\ q >= p /\ (q <= Len(Calls) => Wired(q))
         /\ \A r \in Nat : p <= r /\ r < q => ~Wired(r)
<1>1. Len(Calls) \in Nat
  BY LenCalls
<1>2. q \in Nat \ {0} /\ q >= p /\ (q <= Len(Calls) => Wired(q))
  BY <1>1 DEF NextCall
<1>3. \A r \in p .. q - 1 : ~Wired(r)
  BY Zenon DEF NextCall
<1>4. ASSUME NEW r \in Nat, p <= r, r < q PROVE r \in p .. q - 1
  BY <1>2, <1>4
<1> QED
  BY <1>2, <1>3, <1>4

LEMMA Proceeds ==
  ASSUME query \in Queries, NEW p \in Nat \ {0}, Proceed(p), NEW q, q = pos'
  PROVE  /\ q \in Nat \ {0} /\ q >= p
         /\ q <= Len(Calls) => pc' = "calling" /\ Wired(q) /\ deadline' = DeadlineOf(Calls[q])
         /\ ~(q <= Len(Calls)) => pc' \in {"assembling", "answered"} /\ deadline' = now
         /\ \A r \in Nat : p <= r /\ r < q => ~Wired(r)
<1>1. NextCall(p, q)
  BY DEF Proceed
<1>2. /\ q \in Nat \ {0} /\ q >= p /\ (q <= Len(Calls) => Wired(q))
      /\ \A r \in Nat : p <= r /\ r < q => ~Wired(r)
  BY <1>1, NextCalls
<1>3. q <= Len(Calls) => pc' = "calling" /\ deadline' = DeadlineOf(Calls[q])
  BY DEF Proceed
<1>4. ~(q <= Len(Calls)) => pc' \in {"assembling", "answered"} /\ deadline' = now
  BY DEF Proceed
<1> QED
  BY <1>2, <1>3, <1>4

\* When a call is made, the one before it has been made and its backend wired.
MayProceed(p) ==
  \/ p = 1 /\ now = 0
  \/ p = 2 /\ pc = "sampling"
  \/ p \in {pos + 1, pos + 2} /\ pc = "calling" /\ (query.rpc = "EastWestGraph" => pos # 1)

LEMMA ProceedKeepsTimes ==
  ASSUME TimesInv, NEW p \in Nat \ {0}, Proceed(p), MayProceed(p), UNCHANGED <<wired, query, now>>
  PROVE  TimesInv'
<1>1. PICK q : q = pos'
  OBVIOUS
<1>2. /\ q \in Nat \ {0} /\ q >= p
      /\ q <= Len(Calls) => pc' = "calling" /\ Wired(q) /\ deadline' = DeadlineOf(Calls[q])
      /\ ~(q <= Len(Calls)) => pc' \in {"assembling", "answered"} /\ deadline' = now
      /\ \A r \in Nat : p <= r /\ r < q => ~Wired(r)
  BY <1>1, Proceeds DEF TimesInv
<1>3. query \in Queries /\ now \in Nat /\ deadline \in Nat /\ Len(Calls) \in 0..6
  BY LenCalls DEF TimesInv
<1>4. Calls' = Calls /\ (Wired(q) => Wired(pos)')
  BY <1>1 DEF Calls, Wired
<1>5. deadline' \in Nat
  BY <1>2, <1>3, DeadlineType
<1>6. pc' = "calling" <=> q <= Len(Calls)
  BY <1>2
<1>7. pc' = "calling" => pos' \in 1..Len(Calls) /\ Wired(pos)'
  BY <1>1, <1>2, <1>3, <1>4, <1>6
<1>8. ASSUME query.rpc \in Bounded
      PROVE  now <= k8sCallTimeout /\ (pc' = "calling" => now <= deadline' /\ deadline' <= k8sCallTimeout)
  <2>1. now <= k8sCallTimeout
    BY <1>8 DEF TimesInv
  <2> SUFFICES ASSUME pc' = "calling" PROVE now <= deadline' /\ deadline' <= k8sCallTimeout
    BY <2>1
  <2>2. q \in 1..Len(Calls) /\ deadline' = DeadlineOf(Calls[q]) /\ "kube" \in wired
    BY <1>2, <1>3, <1>6, <1>8, CallsOfBounded
  <2>3. CASE p = 1 /\ now = 0
    <3>1. q = 1
      BY <1>2, <1>3, <1>8, <2>2, <2>3, CallsOfBounded
    <3>2. deadline' = now + k8sCallTimeout
      BY <1>8, <2>2, <3>1, CallsOfBounded
    <3> QED
      BY <2>3, <3>2, Times
  <2>4. CASE pc = "calling" /\ p \in {pos + 1, pos + 2}
    <3>1. pos \in Nat /\ pos >= 1 /\ now <= deadline /\ deadline <= k8sCallTimeout
      BY <1>3, <1>8, <2>4 DEF TimesInv
    <3>2. q # 1
      BY <1>2, <2>4, <3>1
    <3>3. deadline' = deadline
      BY <1>8, <2>2, <3>2, CallsOfBounded
    <3> QED
      BY <3>1, <3>3
  <2>5. pc # "sampling"
    BY <1>8 DEF TimesInv, Bounded
  <2> QED
    BY <2>3, <2>4, <2>5 DEF MayProceed
<1>9. ASSUME query.rpc = "EastWestGraph"
      PROVE  now <= GraphDeadline(2)
             /\ (pc' = "calling" => now <= deadline' /\ deadline' <= GraphDeadline(pos'))
  <2>1. now <= GraphDeadline(2)
    BY <1>9 DEF TimesInv
  <2> SUFFICES ASSUME pc' = "calling" PROVE now <= deadline' /\ deadline' <= GraphDeadline(q)
    BY <1>1, <2>1
  <2>2. q \in 1..Len(Calls) /\ deadline' = DeadlineOf(Calls[q])
    BY <1>2, <1>3, <1>6
  <2>3. /\ "bus" \in wired /\ q \in 1..4 /\ Wired(1) /\ DeadlineOf(Calls[1]) = now + connectTimeout
        /\ \A r \in 2..4 : Wired(r) <=> "kube" \in wired
        /\ DeadlineOf(Calls[2]) = now + k8sCallTimeout
        /\ DeadlineOf(Calls[3]) = deadline /\ DeadlineOf(Calls[4]) = deadline
    BY <1>3, <1>9, <2>2, CallsOfGraph
  <2>4. CASE p = 1 /\ now = 0
    <3>1. q = 1
      BY <1>2, <2>3, <2>4
    <3> QED
      BY <2>2, <2>3, <2>4, <3>1, Times DEF GraphDeadline
  <2>5. CASE p = 2 /\ pc = "sampling"
    <3>1. now <= connectTimeout + maxWindow
      BY <1>3, <1>9, <2>5, Times DEF TimesInv
    <3>2. q = 2
      BY <1>2, <2>2, <2>3, <2>5
    <3> QED
      BY <1>3, <2>2, <2>3, <3>1, <3>2, Times DEF GraphDeadline
  <2>6. CASE p \in {pos + 1, pos + 2} /\ pc = "calling" /\ pos # 1
    <3>1. pos \in Nat /\ pos >= 2 /\ now <= deadline /\ deadline <= GraphDeadline(2)
      BY <1>3, <1>9, <2>6 DEF TimesInv, GraphDeadline
    <3>2. q \in {3, 4}
      BY <1>2, <2>3, <2>6, <3>1
    <3>3. deadline' = deadline
      BY <2>2, <2>3, <3>2
    <3> QED
      BY <3>1, <3>2, <3>3 DEF GraphDeadline
  <2> QED
    BY <1>9, <2>4, <2>5, <2>6 DEF MayProceed
<1>10. pc' \in {"calling", "assembling", "answered"}
  BY <1>2
<1> QED
  BY <1>3, <1>4, <1>5, <1>7, <1>8, <1>9, <1>10 DEF TimesInv

LEMMA WindowBound == query \in Queries => window \in Nat /\ window <= maxWindow
<1> SUFFICES ASSUME query \in Queries PROVE window \in Nat /\ window <= maxWindow
  OBVIOUS
<1>1. query.window \in Int
  BY QueriesAssumption
<1>2. defaultWindow \in Nat /\ maxWindow \in Nat /\ defaultWindow <= maxWindow
  BY TimesAssumption
<1>3. PICK w \in Nat : w = IF query.window <= 0 THEN defaultWindow ELSE query.window
  BY <1>1, <1>2
<1>4. window = IF w > maxWindow THEN maxWindow ELSE w
  BY <1>3 DEF window
<1> QED
  BY <1>2, <1>3, <1>4

LEMMA TimesInvStep == TimesInv /\ [Next]_vars => TimesInv'
<1> SUFFICES ASSUME TimesInv, [Next]_vars PROVE TimesInv'
  OBVIOUS
<1>0. /\ query \in Queries /\ now \in Nat /\ deadline \in Nat
      /\ pc \in {"idle", "calling", "sampling", "assembling", "answered"}
      /\ pc = "calling" => pos \in 1..Len(Calls)
      /\ pc = "sampling" => pos = 1
  BY DEF TimesInv
<1>0a. pc = "calling" => pos \in Nat \ {0}
  BY <1>0, LenCalls
<1>1. CASE Begin
  <2>1. Proceed(1) /\ MayProceed(1) /\ UNCHANGED <<wired, query, now>>
    BY <1>1 DEF Begin, MayProceed, TimesInv
  <2> QED
    BY <2>1, ProceedKeepsTimes
<1>2. ASSUME NEW x, NEW found, Asking(x), x # "bus", Proceed(After(x, found)), UNCHANGED <<cluster, now>>
      PROVE  TimesInv'
  <2>1. pc = "calling" /\ Calls[pos] = x
    BY <1>2 DEF Asking
  <2>2. query.rpc = "EastWestGraph" => pos # 1
    <3> SUFFICES ASSUME query.rpc = "EastWestGraph" PROVE Calls[1] = "bus"
      BY <1>2, <2>1
    <3>1. "bus" \in wired
      BY <1>0, <2>1, CallsOfGraph
    <3> QED
      BY <3>1, CallsOfGraph, PlanFacts
  <2>3. PICK p : p = After(x, found)
    OBVIOUS
  <2>4. p \in {pos + 1, pos + 2} /\ p \in Nat \ {0}
    BY <1>0a, <2>1, <2>3 DEF After
  <2>5. Proceed(p) /\ MayProceed(p) /\ UNCHANGED <<wired, query, now>>
    BY <1>2, <2>1, <2>2, <2>3, <2>4 DEF MayProceed, cluster
  <2> QED
    BY <2>4, <2>5, ProceedKeepsTimes
<1>3. ASSUME NEW x \in DOMAIN Values, CallAnswers(x) PROVE TimesInv'
  <2>1. Asking(x) /\ x # "bus" /\ Proceed(After(x, site[x] # Absent)) /\ UNCHANGED <<cluster, now>>
    BY <1>3 DEF CallAnswers
  <2>2. PICK found : found = (site[x] # Absent)
    OBVIOUS
  <2> QED
    BY <1>2, <2>1, <2>2
<1>4. ASSUME NEW x \in DOMAIN Values, CallFails(x) PROVE TimesInv'
  <2>1. Asking(x) /\ x # "bus" /\ Proceed(After(x, FALSE)) /\ UNCHANGED <<cluster, now>>
    BY <1>4 DEF CallFails
  <2> QED
    BY <1>2, <2>1
<1>5. CASE BusConnects
  <2>1. /\ pc = "calling" /\ Calls[pos] = "bus" /\ now < deadline /\ pc' = "sampling"
        /\ deadline' = now + window /\ UNCHANGED <<wired, query, pos, now>>
    BY <1>5 DEF BusConnects, Asking, InTime, cluster
  <2>2. query.rpc = "EastWestGraph" /\ pos = 1 /\ "bus" \in wired
    <3>1. query.rpc \notin Bounded
      BY <1>0, <2>1, CallsOfBounded, PlanFacts
    <3>2. query.rpc = "EastWestGraph"
      <4>1. query.rpc \in Rpcs
        BY <1>0, QueriesAssumption DEF Rpcs
      <4>2. query.rpc # "ClusterIdentity"
        <5> SUFFICES ASSUME query.rpc = "ClusterIdentity" PROVE FALSE
          OBVIOUS
        <5>1. Calls = << "version", "operator" >>
          BY DEF Calls, Plan
        <5> QED
          BY <1>0, <2>1, <5>1
      <4>3. query.rpc # "Heartbeat"
        <5> SUFFICES ASSUME query.rpc = "Heartbeat" PROVE FALSE
          OBVIOUS
        <5>1. Calls = << "version", "directives", "operator", "streams" >>
          BY DEF Calls, Plan
        <5> QED
          BY <1>0, <2>1, <5>1
      <4> QED
        BY <3>1, <4>1, <4>2, <4>3 DEF Rpcs, Bounded
    <3>3. "bus" \in wired /\ pos \in 1..4 /\ Calls = Plan("EastWestGraph")
      BY <1>0, <2>1, <3>2, CallsOfGraph
    <3>4. pos \notin 2..4
      BY <2>1, <3>3, PlanFacts
    <3> QED
      BY <3>2, <3>3, <3>4
  <2>3. now <= connectTimeout /\ connectTimeout \in Nat
    BY <1>0, <2>1, <2>2, Times DEF TimesInv, GraphDeadline
  <2>4. deadline' \in Nat /\ now <= deadline' /\ deadline' <= connectTimeout + maxWindow
    BY <1>0, <2>1, <2>3, WindowBound, Times
  <2>5. query.rpc \notin Bounded
    BY <2>2 DEF Bounded
  <2> QED
    BY <1>0, <2>1, <2>2, <2>4, <2>5 DEF TimesInv
<1>6. CASE BusFails \/ Assemble
  BY <1>6 DEF BusFails, Assemble, cluster, TimesInv
<1>7. ASSUME NEW m \in Events, Sampled(m) PROVE TimesInv'
  BY <1>7 DEF Sampled, cluster, TimesInv
<1>8. CASE SampleEnds
  <2>1. pos = 1 /\ pc = "sampling" /\ Proceed(pos + 1) /\ UNCHANGED <<wired, query, now>>
    BY <1>0, <1>8 DEF SampleEnds, cluster
  <2>2. Proceed(2) /\ MayProceed(2)
    <3>1. pos + 1 = 2
      BY <2>1
    <3> QED
      BY <2>1, <3>1 DEF MayProceed
  <2> QED
    BY <2>1, <2>2, ProceedKeepsTimes
<1>9. CASE Tick
  <2>1. /\ now' = now + 1 /\ now < deadline /\ pc \in {"calling", "sampling"}
        /\ UNCHANGED <<wired, query, pc, pos, deadline>>
    BY <1>9 DEF Tick, InTime, cluster
  <2>2. now' \in Nat /\ now' <= deadline
    BY <1>0, <2>1
  <2>3. Calls' = Calls /\ (Wired(pos) => Wired(pos)')
    BY <2>1 DEF Calls, Wired
  <2>4. query.rpc \in Bounded => now' <= k8sCallTimeout
    BY <1>0, <2>1, <2>2, Times DEF TimesInv, Bounded
  <2>5. query.rpc = "EastWestGraph" => deadline <= GraphDeadline(2)
    <3> SUFFICES ASSUME query.rpc = "EastWestGraph" PROVE deadline <= GraphDeadline(2)
      OBVIOUS
    <3>1. CASE pc = "sampling"
      BY <1>0, <3>1, Times DEF TimesInv, GraphDeadline
    <3>2. CASE pc = "calling"
      <4>1. deadline <= GraphDeadline(pos)
        BY <3>2 DEF TimesInv
      <4> QED
        BY <1>0, <4>1, Times DEF GraphDeadline
    <3> QED
      BY <2>1, <3>1, <3>2
  <2>6. query.rpc = "EastWestGraph" => now' <= GraphDeadline(2)
    BY <1>0, <2>2, <2>5, Times DEF GraphDeadline
  <2> QED
    BY <1>0, <2>1, <2>2, <2>3, <2>4, <2>6 DEF TimesInv
<1>10. ASSUME NEW x \in DOMAIN Values, SiteChanges(x) PROVE TimesInv'
  <2>1. UNCHANGED <<wired, query, pc, pos, now, deadline>>
    BY <1>10 DEF SiteChanges
  <2>2. Calls' = Calls /\ (Wired(pos) => Wired(pos)')
    BY <2>1 DEF Calls, Wired
  <2> QED
    BY <2>1, <2>2 DEF TimesInv
<1>11. CASE UNCHANGED vars
  <2>1. UNCHANGED <<wired, query, pc, pos, now, deadline>>
    BY <1>11 DEF vars, cluster
  <2>2. Calls' = Calls /\ (Wired(pos) => Wired(pos)')
    BY <2>1 DEF Calls, Wired
  <2> QED
    BY <2>1, <2>2 DEF TimesInv
<1> QED
  BY <1>1, <1>3, <1>4, <1>5, <1>6, <1>7, <1>8, <1>9, <1>10, <1>11 DEF Next, Step

LEMMA TimesInvInit == Init => TimesInv
<1> SUFFICES ASSUME Init PROVE TimesInv
  OBVIOUS
<1>1. query \in Queries /\ now = 0 /\ deadline = 0 /\ pc = "idle"
  BY DEF Init
<1>2. 0 <= k8sCallTimeout /\ 0 <= GraphDeadline(2)
  BY Times DEF GraphDeadline
<1> QED
  BY <1>1, <1>2 DEF TimesInv

\* A slow API server, or bus, does not hold a report up beyond its timeouts.
THEOREM ReportsAreTimely == Spec => []AnswersInTime
<1>1. TimesInv => AnswersInTime
  <2> SUFFICES ASSUME TimesInv PROVE AnswersInTime
    OBVIOUS
  <2>1. query.rpc \in {"EoBHealth", "TraceHealth", "ResolveEndpoints"} => now <= k8sCallTimeout
    BY DEF TimesInv, Bounded
  <2>2. query.rpc = "EastWestGraph" => now <= connectTimeout + maxWindow + k8sCallTimeout
    BY Times DEF TimesInv, GraphDeadline
  <2> QED
    BY <2>1, <2>2 DEF AnswersInTime
<1> QED
  BY <1>1, TimesInvInit, TimesInvStep, PTL DEF Spec

-----------------------------------------------------------------------------
(* What was read *)

WasInv ==
  /\ DOMAIN site = DOMAIN Values /\ DOMAIN was = DOMAIN Values
  /\ \A x \in DOMAIN Values : site[x] \in was[x] /\ was[x] \subseteq Values[x]
  /\ pc = "idle" => DOMAIN got = {}
  /\ DOMAIN got \subseteq DOMAIN Values
  /\ \A x \in DOMAIN got : got[x] \in was[x]

LEMMA WasInvInit == Init => WasInv
<1> SUFFICES ASSUME Init PROVE WasInv
  OBVIOUS
<1>1. site = Usual /\ was = [x \in DOMAIN Usual |-> {Usual[x]}] /\ got = << >>
  BY DEF Init
<1>2. DOMAIN got = {}
  BY <1>1
<1> QED
  BY <1>1, <1>2, ValuesAssumption DEF WasInv

LEMMA WasInvStep == WasInv /\ [Next]_vars => WasInv'
<1> SUFFICES ASSUME WasInv, [Next]_vars PROVE WasInv'
  OBVIOUS
<1>1. CASE Begin
  <2>1. /\ pc = "idle" /\ was' = [x \in DOMAIN site |-> {site[x]}] /\ UNCHANGED <<site, got>>
    BY <1>1 DEF Begin
  <2> QED
    BY <2>1 DEF WasInv
<1>2. ASSUME NEW x \in DOMAIN Values, CallAnswers(x) PROVE WasInv'
  <2>1. /\ got' = Put(got, x, site[x]) /\ UNCHANGED <<site, was>>
        /\ Proceed(After(x, site[x] # Absent))
    BY <1>2 DEF CallAnswers, cluster
  <2>2. pc' # "idle"
    BY <2>1 DEF Proceed
  <2>3. DOMAIN got' = DOMAIN got \cup {x} /\ \A y \in DOMAIN got' : got'[y] \in was[y]
    BY <2>1 DEF Put, WasInv
  <2> QED
    BY <2>1, <2>2, <2>3 DEF WasInv
<1>3. ASSUME NEW x \in DOMAIN Values, CallFails(x) PROVE WasInv'
  <2>1. UNCHANGED <<site, was, got>> /\ Proceed(After(x, FALSE))
    BY <1>3 DEF CallFails, cluster
  <2>2. pc' # "idle"
    BY <2>1 DEF Proceed
  <2> QED
    BY <2>1, <2>2 DEF WasInv
<1>4. CASE BusConnects
  BY <1>4 DEF BusConnects, cluster, WasInv
<1>5. CASE BusFails
  BY <1>5 DEF BusFails, cluster, WasInv
<1>6. ASSUME NEW m \in Events, Sampled(m) PROVE WasInv'
  BY <1>6 DEF Sampled, cluster, WasInv
<1>7. CASE SampleEnds
  <2>1. UNCHANGED <<site, was, got>> /\ Proceed(pos + 1)
    BY <1>7 DEF SampleEnds, cluster
  <2>2. pc' # "idle"
    BY <2>1 DEF Proceed
  <2> QED
    BY <2>1, <2>2 DEF WasInv
<1>8. CASE Assemble
  BY <1>8 DEF Assemble, cluster, WasInv
<1>9. CASE Tick
  BY <1>9 DEF Tick, cluster, WasInv
<1>10. ASSUME NEW x \in DOMAIN Values, SiteChanges(x) PROVE WasInv'
  <2>1. PICK v \in Values[x] : /\ site' = [site EXCEPT ![x] = v]
                               /\ was' = [was EXCEPT ![x] = @ \cup {v}]
    BY <1>10 DEF SiteChanges
  <2>2. UNCHANGED <<pc, got>>
    BY <1>10 DEF SiteChanges
  <2>3. /\ DOMAIN site' = DOMAIN Values /\ DOMAIN was' = DOMAIN Values
        /\ \A y \in DOMAIN Values : was[y] \subseteq was'[y] /\ was'[y] \subseteq Values[y]
        /\ \A y \in DOMAIN Values : site'[y] \in was'[y]
    BY <2>1 DEF WasInv
  <2> QED
    BY <2>2, <2>3 DEF WasInv
<1>11. CASE UNCHANGED vars
  BY <1>11 DEF vars, cluster, WasInv
<1> QED
  BY <1>1, <1>2, <1>3, <1>4, <1>5, <1>6, <1>7, <1>8, <1>9, <1>10, <1>11 DEF Next, Step

\* A set of indices has a last one.
LEMMA LastIndex ==
  ASSUME NEW n \in Nat, NEW ks \in SUBSET (1..n), ks # {}
  PROVE  Max(ks) \in ks
<1>1. PICK R : R = OpToRel(<, Nat)
  OBVIOUS
<1>2. PICK Z : Z = {n - k : k \in ks}
  OBVIOUS
<1>3. Z \subseteq Nat /\ Z # {}
  <2>1. \A k \in ks : n - k \in Nat /\ n - k \in Z
    BY <1>2
  <2> QED
    BY <1>2, <2>1
<1>4. IsWellFoundedOn(R, Nat)
  BY <1>1, NatLessThanWellFounded
<1>5. PICK z \in Z : \A y \in Z : ~(<<y, z>> \in R)
  BY <1>3, <1>4, WFMin
<1>6. PICK k \in ks : z = n - k
  BY <1>2, <1>5
<1>7. ASSUME NEW j \in ks PROVE k >= j
  <2>1. PICK y \in Z : y = n - j
    BY <1>2
  <2>2. R = {p \in Nat \X Nat : p[1] < p[2]}
    BY <1>1 DEF OpToRel
  <2>3. ~(y < z)
    BY <1>3, <1>5, <2>2
  <2> QED
    BY <1>6, <2>1, <2>3
<1> QED
  BY <1>6, <1>7 DEF Max

LEMMA LatestWasListed ==
  ASSUME WasInv, NEW x \in {"pods", "services", "nodes"}, NEW ks \in SUBSET DOMAIN ListOf(x), ks # {}
  PROVE  Max(ks) \in ks /\ ListOf(x) \in was[x]
<1>1. x \in DOMAIN got /\ ListOf(x) = got[x]
  <2>1. DOMAIN << >> = {}
    OBVIOUS
  <2> QED
    BY <2>1 DEF ListOf, Read
<1>2. ListOf(x) \in was[x] /\ ListOf(x) \in Values[x] /\ x \in DOMAIN Values
  BY <1>1 DEF WasInv
<1>3. PICK n \in Nat : DOMAIN ListOf(x) = 1..n
  BY <1>2, ValuesAssumption DEF IsList
<1> QED
  BY <1>2, <1>3, LastIndex

\* At some moment of the call an object of that name was listed with the address.
WasListed(x, name, ip, port) ==
  \E list \in was[x] : \E k \in DOMAIN list :
    /\ list[k].name = name /\ list[k].ip = ip
    /\ x = "pods" /\ list[k].hostNetwork => port \in list[k].ports

NamedTruly(r, ip, port) ==
  \/ r.kind = "pod" /\ WasListed("pods", r.name, ip, port)
  \/ r.kind = "service" /\ WasListed("services", r.name, ip, port)
  \/ r.kind = "node" /\ WasListed("nodes", r.name, ip, port)
  \/ r.kind = "external" /\ r.name = ""

LEMMA ResolvedTruly ==
  ASSUME WasInv, NEW ip, NEW port, NEW r, r = resolve(ip, port)
  PROVE  NamedTruly(r, ip, port)
<1>1. ASSUME NEW ks \in SUBSET DOMAIN ListOf("pods"), ks # {},
             \A k \in ks : PodAt(ListOf("pods")[k], ip, port)
      PROVE  WasListed("pods", ListOf("pods")[Max(ks)].name, ip, port)
  <2>1. Max(ks) \in ks /\ ListOf("pods") \in was["pods"]
    BY <1>1, LatestWasListed
  <2>2. PICK k \in DOMAIN ListOf("pods") : k = Max(ks) /\ PodAt(ListOf("pods")[k], ip, port)
    BY <1>1, <2>1
  <2>3. ListOf("pods")[k].ip = ip /\ (ListOf("pods")[k].hostNetwork => port \in ListOf("pods")[k].ports)
    BY <2>2 DEF PodAt
  <2> QED
    BY <2>1, <2>2, <2>3 DEF WasListed
<1>2. ASSUME NEW x \in {"services", "nodes"}, NEW ks \in SUBSET DOMAIN ListOf(x), ks # {},
             \A k \in ks : ListOf(x)[k].ip = ip
      PROVE  WasListed(x, ListOf(x)[Max(ks)].name, ip, port)
  <2>1. Max(ks) \in ks /\ ListOf(x) \in was[x]
    BY <1>2, LatestWasListed
  <2>2. PICK k \in DOMAIN ListOf(x) : k = Max(ks) /\ ListOf(x)[k].ip = ip
    BY <1>2, <2>1
  <2> QED
    BY <2>1, <2>2 DEF WasListed
<1>3. PICK own : own = { k \in DOMAIN ListOf("pods") :
        ListOf("pods")[k].hostNetwork = FALSE /\ PodAt(ListOf("pods")[k], ip, port) }
  OBVIOUS
<1>4. PICK host : host = { k \in DOMAIN ListOf("pods") :
        ListOf("pods")[k].hostNetwork = TRUE /\ PodAt(ListOf("pods")[k], ip, port) }
  OBVIOUS
<1>5. PICK services : services = { k \in DOMAIN ListOf("services") : ListOf("services")[k].ip = ip }
  OBVIOUS
<1>6. PICK nodes : nodes = { k \in DOMAIN ListOf("nodes") : ListOf("nodes")[k].ip = ip }
  OBVIOUS
<1>7. r = IF own # {} THEN [kind |-> "pod", name |-> ListOf("pods")[Max(own)].name]
          ELSE IF services # {} THEN [kind |-> "service", name |-> ListOf("services")[Max(services)].name]
          ELSE IF host # {} THEN [kind |-> "pod", name |-> ListOf("pods")[Max(host)].name]
          ELSE IF nodes # {} THEN [kind |-> "node", name |-> ListOf("nodes")[Max(nodes)].name]
          ELSE [kind |-> "external", name |-> ""]
  BY <1>3, <1>4, <1>5, <1>6 DEF resolve
<1>8. /\ own # {} => WasListed("pods", ListOf("pods")[Max(own)].name, ip, port)
      /\ host # {} => WasListed("pods", ListOf("pods")[Max(host)].name, ip, port)
  BY <1>1, <1>3, <1>4
<1>9. /\ services # {} => WasListed("services", ListOf("services")[Max(services)].name, ip, port)
      /\ nodes # {} => WasListed("nodes", ListOf("nodes")[Max(nodes)].name, ip, port)
  BY <1>2, <1>5, <1>6
<1>10. CASE own # {}
  <2>1. r.kind = "pod" /\ r.name = ListOf("pods")[Max(own)].name
    BY <1>7, <1>10
  <2> QED
    BY <1>8, <1>10, <2>1 DEF NamedTruly
<1>11. CASE own = {} /\ services # {}
  <2>1. r.kind = "service" /\ r.name = ListOf("services")[Max(services)].name
    BY <1>7, <1>11
  <2> QED
    BY <1>9, <1>11, <2>1 DEF NamedTruly
<1>12. CASE own = {} /\ services = {} /\ host # {}
  <2>1. r.kind = "pod" /\ r.name = ListOf("pods")[Max(host)].name
    BY <1>7, <1>12
  <2> QED
    BY <1>8, <1>12, <2>1 DEF NamedTruly
<1>13. CASE own = {} /\ services = {} /\ host = {} /\ nodes # {}
  <2>1. r.kind = "node" /\ r.name = ListOf("nodes")[Max(nodes)].name
    BY <1>7, <1>13
  <2> QED
    BY <1>9, <1>13, <2>1 DEF NamedTruly
<1>14. CASE own = {} /\ services = {} /\ host = {} /\ nodes = {}
  <2>1. PICK none : none = ""
    OBVIOUS
  <2>2. r = [kind |-> "external", name |-> none]
    BY Zenon, <1>7, <1>14, <2>1
  <2>3. r.kind = "external" /\ r.name = none
    BY <2>2
  <2> QED
    BY Zenon, <2>1, <2>3 DEF NamedTruly
<1> QED
  BY <1>10, <1>11, <1>12, <1>13, <1>14

\* An address is given only a name that was listed with it during the call.
THEOREM NamesAreTrue == Spec => []NamesWereTrue
<1>1. WasInv => NamesWereTrue
  <2> SUFFICES ASSUME WasInv, NEW a \in Addressed, NEW r, r = resolve(a.ip, a.port)
               PROVE  CASE r.kind = "pod" -> WasListed("pods", r.name, a.ip, a.port)
                        [] r.kind = "service" -> WasListed("services", r.name, a.ip, a.port)
                        [] r.kind = "node" -> WasListed("nodes", r.name, a.ip, a.port)
                        [] OTHER -> r.name = ""
    BY DEF NamesWereTrue, WasListed
  <2>1. NamedTruly(r, a.ip, a.port)
    BY ResolvedTruly
  <2> QED
    BY Zenon, <2>1 DEF NamedTruly
<1> QED
  BY <1>1, WasInvInit, WasInvStep, PTL DEF Spec

-----------------------------------------------------------------------------
(* The east-west graph *)

\* The messages of edge e among those counted.
Of(h, e) == { i \in DOMAIN h : HasDestination(h[i]) /\ EdgeOf(h[i]) = e }

LEMMA OfType ==
  ASSUME NEW h \in Seq(Events), NEW e
  PROVE  IsFiniteSet(Of(h, e)) /\ Cardinality(Of(h, e)) \in Nat
<1>1. Of(h, e) \subseteq 1..Len(h) /\ Len(h) \in Nat
  BY DEF Of
<1>2. IsFiniteSet(1..Len(h))
  BY <1>1, FS_Interval
<1> QED
  BY <1>1, <1>2, FS_Subset, FS_CardinalityType

LEMMA OfMore ==
  ASSUME NEW h \in Seq(Events), NEW m \in Events, NEW e
  PROVE  Cardinality(Of(Append(h, m), e)) =
           IF HasDestination(m) /\ EdgeOf(m) = e
           THEN Cardinality(Of(h, e)) + 1 ELSE Cardinality(Of(h, e))
<1>1. PICK g : g = Append(h, m)
  OBVIOUS
<1>2. /\ DOMAIN g = DOMAIN h \cup {Len(h) + 1} /\ Len(h) + 1 \notin DOMAIN h
      /\ g[Len(h) + 1] = m /\ \A i \in DOMAIN h : g[i] = h[i]
  BY <1>1
<1>3. CASE HasDestination(m) /\ EdgeOf(m) = e
  <2>1. Of(g, e) = Of(h, e) \cup {Len(h) + 1} /\ Len(h) + 1 \notin Of(h, e)
    BY <1>2, <1>3 DEF Of
  <2> QED
    BY <1>1, <1>3, <2>1, OfType, FS_AddElement
<1>4. CASE ~(HasDestination(m) /\ EdgeOf(m) = e)
  <2>1. Of(g, e) = Of(h, e)
    BY <1>2, <1>4 DEF Of
  <2> QED
    BY <1>1, <1>4, <2>1
<1> QED
  BY <1>3, <1>4

\* An edge nothing was counted for.
LEMMA OfNone ==
  ASSUME NEW h, NEW e, \A i \in DOMAIN h : HasDestination(h[i]) => EdgeOf(h[i]) # e
  PROVE  Cardinality(Of(h, e)) = 0
<1>1. Of(h, e) = {}
  BY DEF Of
<1> QED
  BY <1>1, FS_EmptySet

Accounted ==
  /\ heard \in Seq(Events) /\ Len(heard) = seen
  /\ \A i \in DOMAIN heard : HasDestination(heard[i]) => EdgeOf(heard[i]) \in DOMAIN edges
  /\ \A e \in DOMAIN edges : edges[e] = Cardinality(Of(heard, e)) /\ edges[e] > 0
  /\ IsFiniteSet(DOMAIN edges)

\* The edges s are listed by count, none twice, and the graph has none heavier.
Ranked(s) ==
  /\ DOMAIN s = 1..Len(s) /\ \A i \in DOMAIN s : s[i] \in DOMAIN edges
  /\ \A i, j \in DOMAIN s : i < j => s[i] # s[j] /\ edges[s[i]] >= edges[s[j]]
  /\ \A i \in DOMAIN s, f \in DOMAIN edges \ ToSet(s) : edges[s[i]] >= edges[f]
  /\ Len(s) = Min({maxEdges, Cardinality(DOMAIN edges)})

\* Without a bus the answer is the empty graph.
Shown ==
  query.rpc = "EastWestGraph" =>
    /\ "bus" \notin wired => pc \in {"idle", "answered"}
    /\ pc = "idle" \/ "bus" \notin wired => DOMAIN edges = {} /\ shown = << >>
    /\ pc = "answered" /\ failed = {} => Ranked(shown)

LEMMA AccountedInit == Init => Accounted
<1> SUFFICES ASSUME Init PROVE Accounted
  OBVIOUS
<1>1. seen = 0 /\ heard = << >> /\ edges = << >>
  BY DEF Init
<1>2. heard \in Seq(Events) /\ Len(heard) = 0 /\ DOMAIN heard = {} /\ DOMAIN edges = {}
  BY <1>1
<1> QED
  BY <1>1, <1>2, FS_EmptySet DEF Accounted

LEMMA AccountedStep == Accounted /\ [Next]_vars => Accounted'
<1> SUFFICES ASSUME Accounted, [Next]_vars PROVE Accounted'
  OBVIOUS
<1>1. ASSUME NEW m \in Events, Sampled(m) PROVE Accounted'
  <2>1. PICK h \in Seq(Events) : h = heard
    BY DEF Accounted
  <2>2. /\ heard' = Append(h, m) /\ seen' = seen + 1
        /\ edges' = IF HasDestination(m) THEN Put(edges, EdgeOf(m), Counted(EdgeOf(m))) ELSE edges
    BY <1>1, <2>1 DEF Sampled
  <2>3. PICK g : g = Append(h, m)
    OBVIOUS
  <2>4. /\ g \in Seq(Events) /\ Len(g) = Len(h) + 1 /\ DOMAIN g = DOMAIN h \cup {Len(h) + 1}
        /\ g[Len(h) + 1] = m /\ \A i \in DOMAIN h : g[i] = h[i]
    BY <2>3
  <2>5. heard' \in Seq(Events) /\ Len(heard') = seen'
    BY <2>1, <2>2, <2>3, <2>4 DEF Accounted
  <2>6. CASE HasDestination(m)
    <3>1. PICK e : e = EdgeOf(m)
      OBVIOUS
    <3>2. DOMAIN edges' = DOMAIN edges \cup {e} /\ edges'[e] = Counted(e)
          /\ \A f \in DOMAIN edges : f # e => edges'[f] = edges[f]
      BY <2>2, <2>6, <3>1 DEF Put
    <3>3. \A i \in DOMAIN g : HasDestination(g[i]) => EdgeOf(g[i]) \in DOMAIN edges'
      BY <2>1, <2>4, <3>1, <3>2 DEF Accounted
    <3>4. edges'[e] = Cardinality(Of(h, e)) + 1
      <4>1. CASE e \in DOMAIN edges
        BY <2>1, <3>2, <4>1 DEF Counted, Accounted
      <4>2. CASE e \notin DOMAIN edges
        <5>1. Cardinality(Of(h, e)) = 0
          BY <2>1, <4>2, OfNone DEF Accounted
        <5> QED
          BY <3>2, <4>2, <5>1 DEF Counted
      <4> QED
        BY <4>1, <4>2
    <3>5. edges'[e] = Cardinality(Of(g, e)) /\ edges'[e] > 0
      BY <2>1, <2>3, <2>6, <3>1, <3>4, OfMore, OfType
    <3>6. \A f \in DOMAIN edges : f # e => edges'[f] = Cardinality(Of(g, f)) /\ edges'[f] > 0
      BY <2>1, <2>3, <3>1, <3>2, OfMore DEF Accounted
    <3>7. IsFiniteSet(DOMAIN edges')
      BY <3>2, FS_AddElement DEF Accounted
    <3> QED
      BY <2>2, <2>3, <2>5, <3>2, <3>3, <3>5, <3>6, <3>7 DEF Accounted
  <2>7. CASE ~HasDestination(m)
    <3>1. \A i \in DOMAIN g : HasDestination(g[i]) => EdgeOf(g[i]) \in DOMAIN edges
      BY <2>1, <2>4, <2>7 DEF Accounted
    <3>2. \A e \in DOMAIN edges : edges[e] = Cardinality(Of(g, e)) /\ edges[e] > 0
      BY <2>1, <2>3, <2>7, OfMore DEF Accounted
    <3> QED
      BY <2>2, <2>3, <2>5, <2>7, <3>1, <3>2 DEF Accounted
  <2> QED
    BY <2>6, <2>7
<1>2. ASSUME UNCHANGED <<seen, edges, heard>> PROVE Accounted'
  BY <1>2 DEF Accounted
<1>3. ~(\E m \in Events : Sampled(m)) => UNCHANGED <<seen, edges, heard>>
  BY DEF Next, Step, Begin, CallAnswers, CallFails, BusConnects, BusFails, SampleEnds, Assemble, Tick,
         SiteChanges, vars, graph
<1> QED
  BY <1>1, <1>2, <1>3

LEMMA ShownInit == Init => Shown
<1> SUFFICES ASSUME Init PROVE Shown
  OBVIOUS
<1>1. pc = "idle" /\ edges = << >> /\ shown = << >>
  BY DEF Init
<1>2. DOMAIN edges = {}
  BY <1>1
<1> QED
  BY <1>1, <1>2 DEF Shown

LEMMA MaxEdgesType == query \in Queries => maxEdges \in Nat \ {0}
  BY QueriesAssumption, TimesAssumption DEF maxEdges

LEMMA Least ==
  ASSUME NEW m \in Nat, NEW n \in Nat
  PROVE  Min({m, n}) = IF n > m THEN m ELSE n
<1>1. PICK k \in {m, n} : k <= m /\ k <= n /\ k = IF n > m THEN m ELSE n
  OBVIOUS
<1>2. \A x \in {m, n} : (\A y \in {m, n} : x <= y) => x = k
  BY <1>1
<1>3. \A y \in {m, n} : k <= y
  BY <1>1
<1> QED
  BY <1>1, <1>2, <1>3 DEF Min

LEMMA EmptyGraph ==
  ASSUME query \in Queries, DOMAIN edges = {}
  PROVE  Ranked(<< >>)
<1>1. Cardinality({}) = 0
  BY FS_EmptySet
<1>2. PICK m : m = maxEdges
  OBVIOUS
<1>3. m \in Nat \ {0} /\ Min({m, 0}) = 0
  BY <1>2, MaxEdgesType, Least
<1>4. PICK s : s = << >>
  OBVIOUS
<1>5. Len(s) = 0 /\ DOMAIN s = {} /\ 1..0 = {}
  BY <1>4
<1> QED
  BY <1>1, <1>2, <1>3, <1>4, <1>5 DEF Ranked

\* What the sort and the cut leave.
LEMMA CutRanked ==
  ASSUME query \in Queries, IsFiniteSet(DOMAIN edges),
         NEW all \in Bijection(1..Cardinality(DOMAIN edges), DOMAIN edges), HeaviestFirst(all)
  PROVE  Ranked(IF Len(all) > maxEdges THEN SubSeq(all, 1, maxEdges) ELSE all)
<1>1. PICK n : n = Cardinality(DOMAIN edges)
  OBVIOUS
<1>2. PICK m : m = maxEdges
  OBVIOUS
<1>3. PICK D : D = DOMAIN edges
  OBVIOUS
<1>4. n \in Nat /\ m \in Nat \ {0}
  BY <1>1, <1>2, MaxEdgesType, FS_CardinalityType
<1>5. /\ all \in [1..n -> D]
      /\ \A i, j \in 1..n : all[i] = all[j] => i = j
      /\ \A f \in D : \E i \in 1..n : all[i] = f
  BY <1>1, <1>3 DEF Bijection, Injection, Surjection, IsInjective
<1>6. all \in Seq(D) /\ Len(all) = n
  BY <1>4, <1>5, SeqDef
<1>7. \A i, j \in 1..n : i < j => all[i] # all[j] /\ edges[all[i]] >= edges[all[j]]
  BY <1>4, <1>5 DEF HeaviestFirst
<1>8. Min({m, n}) = IF n > m THEN m ELSE n
  BY <1>4, Least
<1>9. CASE ~(n > m)
  <2>1. DOMAIN all = 1..n /\ ToSet(all) = D
    BY <1>5 DEF ToSet
  <2>2. Ranked(all)
    BY <1>1, <1>2, <1>3, <1>5, <1>6, <1>7, <1>8, <1>9, <2>1 DEF Ranked
  <2> QED
    BY <1>2, <1>6, <1>9, <2>2
<1>10. CASE n > m
  <2>1. PICK s : s = SubSeq(all, 1, m)
    OBVIOUS
  <2>2. Len(s) = m /\ DOMAIN s = 1..m /\ \A i \in 1..m : s[i] = all[i]
    <3>1. 1 <= m /\ m <= Len(all)
      BY <1>4, <1>6, <1>10
    <3>2. /\ SubSeq(all, 1, m) \in Seq(D) /\ Len(SubSeq(all, 1, m)) = m
          /\ \A i \in 1..m : SubSeq(all, 1, m)[i] = all[i]
      BY <1>4, <1>6, <3>1
    <3> QED
      BY <2>1, <3>2
  <2>3. \A i \in 1..m : i \in 1..n
    BY <1>4, <1>10
  <2>4. ASSUME NEW i \in 1..m, NEW f \in D \ ToSet(s) PROVE edges[s[i]] >= edges[f]
    <3>1. PICK k \in 1..n : all[k] = f
      BY <1>5
    <3>2. k \notin 1..m
      BY <2>2, <2>4, <3>1 DEF ToSet
    <3>3. i < k
      BY <1>4, <3>2
    <3> QED
      BY <1>7, <2>2, <2>3, <3>1, <3>3
  <2>5. Len(s) = Min({maxEdges, Cardinality(DOMAIN edges)})
    BY <1>1, <1>2, <1>8, <1>10, <2>2
  <2>6. \A i \in 1..m : s[i] \in D
    BY <1>5, <2>2, <2>3
  <2>7. \A i, j \in 1..m : i < j => s[i] # s[j] /\ edges[s[i]] >= edges[s[j]]
    BY <1>7, <2>2, <2>3
  <2>8. Ranked(s)
    BY <1>3, <2>2, <2>4, <2>5, <2>6, <2>7 DEF Ranked
  <2> QED
    BY <1>2, <1>6, <1>10, <2>1, <2>8
<1> QED
  BY <1>9, <1>10

LEMMA ShownStep == TimesInv /\ Accounted /\ Shown /\ [Next]_vars => Shown'
<1> SUFFICES ASSUME TimesInv, Accounted, Shown, [Next]_vars PROVE Shown'
  OBVIOUS
<1>1. UNCHANGED <<wired, query>>
  BY DEF Next, Step, Begin, CallAnswers, CallFails, BusConnects, BusFails, Sampled, SampleEnds, Assemble,
         Tick, SiteChanges, vars, cluster
<1> SUFFICES ASSUME query.rpc = "EastWestGraph" PROVE Shown'
  BY <1>1 DEF Shown
<1>2. /\ query \in Queries
      /\ pc = "calling" => pos \in 1..Len(Calls)
      /\ pc = "sampling" => pos = 1 /\ "bus" \in wired
  BY DEF TimesInv
<1>3. maxEdges' = maxEdges
  BY <1>1 DEF maxEdges
<1>4. CASE Begin
  <2>1. Proceed(1) /\ UNCHANGED <<edges, shown>> /\ DOMAIN edges = {} /\ shown = << >>
    BY <1>4 DEF Begin, graph, Shown
  <2>2. PICK q : q = pos'
    OBVIOUS
  <2>3. /\ q \in Nat \ {0} /\ (q <= Len(Calls) => pc' = "calling")
        /\ ~(q <= Len(Calls)) => pc' \in {"assembling", "answered"}
        /\ \A r \in Nat : 1 <= r /\ r < q => ~Wired(r)
    BY <1>2, <2>1, <2>2, Proceeds
  <2>4. CASE "bus" \in wired
    <3>1. q = 1 /\ Len(Calls) = 4
      BY <2>3, <2>4, CallsOfGraph
    <3>2. pc' = "calling"
      BY <2>3, <3>1
    <3> QED
      BY <1>1, <2>1, <2>4, <3>2 DEF Shown
  <2>5. CASE "bus" \notin wired
    <3>1. pc' = "answered"
      <4>1. Len(Calls) = 0
        BY <2>5, CallsOfGraph
      <4>2. ~(q <= Len(Calls))
        BY <2>3, <4>1
      <4> QED
        BY <2>1, <2>2, <4>2 DEF Proceed
    <3>2. Ranked(shown)
      BY <1>2, <2>1, EmptyGraph
    <3>3. Ranked(shown)'
      BY <1>3, <2>1, <3>2 DEF Ranked
    <3> QED
      BY <1>1, <1>3, <2>1, <2>5, <3>1, <3>2, <3>3 DEF Shown
  <2> QED
    BY <2>4, <2>5
<1>5. ASSUME pc \in {"calling", "sampling"}, pc' \in {"calling", "sampling", "assembling"} PROVE Shown'
  BY <1>1, <1>5 DEF Shown
<1>6. ASSUME NEW p, Proceed(p), p > 1, pc \in {"calling", "sampling"} PROVE Shown'
  <2>1. pc' \in {"calling", "assembling"}
    BY <1>6 DEF Proceed
  <2> QED
    BY <1>5, <1>6, <2>1
<1>7. ASSUME NEW x, NEW found, Asking(x), Proceed(After(x, found)) PROVE Shown'
  <2>1. pc = "calling" /\ Len(Calls) \in Nat
    BY <1>2, <1>7, LenCalls DEF Asking
  <2>2. After(x, found) > 1
    BY <1>2, <2>1 DEF After
  <2> QED
    BY <1>6, <1>7, <2>1, <2>2
<1>8. ASSUME NEW x \in DOMAIN Values, CallAnswers(x) PROVE Shown'
  <2>1. PICK found : found = (site[x] # Absent)
    OBVIOUS
  <2>2. Asking(x) /\ Proceed(After(x, found))
    BY <1>8, <2>1 DEF CallAnswers
  <2> QED
    BY <1>7, <2>2
<1>9. ASSUME NEW x \in DOMAIN Values, CallFails(x) PROVE Shown'
  <2>1. Asking(x) /\ Proceed(After(x, FALSE))
    BY <1>9 DEF CallFails
  <2> QED
    BY <1>7, <2>1
<1>10. CASE BusConnects
  <2>1. pc = "calling" /\ pc' = "sampling"
    BY <1>10 DEF BusConnects, Asking
  <2> QED
    BY <1>5, <2>1
<1>11. CASE BusFails
  <2>1. pc = "calling" /\ pc' = "answered" /\ failed' = {"bus"} /\ failed' # {}
    BY <1>11 DEF BusFails, Asking
  <2> QED
    BY <1>1, <2>1 DEF Shown
<1>12. ASSUME NEW m \in Events, Sampled(m) PROVE Shown'
  <2>1. pc = "sampling" /\ pc' = "sampling"
    BY <1>12 DEF Sampled
  <2> QED
    BY <1>5, <2>1
<1>13. CASE SampleEnds
  <2>1. pc = "sampling" /\ Proceed(pos + 1) /\ pos + 1 > 1
    BY <1>2, <1>13 DEF SampleEnds
  <2> QED
    BY <1>6, <2>1
<1>14. CASE Assemble
  <2>1. /\ pc = "assembling" /\ pc' = "answered" /\ edges' = edges
        /\ \E all \in Bijection(1..Cardinality(DOMAIN edges), DOMAIN edges) :
             /\ HeaviestFirst(all)
             /\ shown' = IF Len(all) > maxEdges THEN SubSeq(all, 1, maxEdges) ELSE all
    BY <1>14 DEF Assemble
  <2>2. Ranked(shown)'
    <3>1. PICK all \in Bijection(1..Cardinality(DOMAIN edges), DOMAIN edges) :
            /\ HeaviestFirst(all)
            /\ shown' = IF Len(all) > maxEdges THEN SubSeq(all, 1, maxEdges) ELSE all
      BY <2>1
    <3>2. Ranked(IF Len(all) > maxEdges THEN SubSeq(all, 1, maxEdges) ELSE all)
      BY <1>2, <3>1, CutRanked DEF Accounted
    <3>3. PICK s : s = IF Len(all) > maxEdges THEN SubSeq(all, 1, maxEdges) ELSE all
      OBVIOUS
    <3>4. Ranked(s) /\ shown' = s
      BY <3>1, <3>2, <3>3
    <3> QED
      BY <1>3, <2>1, <3>4 DEF Ranked
  <2>3. "bus" \in wired
    BY <2>1 DEF Shown
  <2> QED
    BY <1>1, <1>3, <2>1, <2>2, <2>3 DEF Shown
<1>15. ASSUME UNCHANGED <<pc, edges, shown, failed>> PROVE Shown'
  <2>1. Ranked(shown) => Ranked(shown)'
    BY <1>3, <1>15 DEF Ranked
  <2> QED
    BY <1>1, <1>3, <1>15, <2>1 DEF Shown
<1>16. CASE Tick
  BY <1>15, <1>16 DEF Tick, graph
<1>17. ASSUME NEW x \in DOMAIN Values, SiteChanges(x) PROVE Shown'
  BY <1>15, <1>17 DEF SiteChanges, graph
<1>18. CASE UNCHANGED vars
  BY <1>15, <1>18 DEF vars, graph
<1> QED
  BY <1>4, <1>8, <1>9, <1>10, <1>11, <1>12, <1>13, <1>14, <1>16, <1>17, <1>18 DEF Next, Step

\* The graph counts each message once, under its own edge, and the response has
\* the heaviest edges, in order.
THEOREM GraphsAddUp == Spec => []GraphAddsUp
<1>1. Accounted /\ Shown => GraphAddsUp
  <2> SUFFICES ASSUME Accounted, Shown, pc = "answered", query.rpc = "EastWestGraph", failed = {}
               PROVE  GraphAddsUp
    BY DEF GraphAddsUp
  <2> DEFINE Connects == { i \in DOMAIN heard : HasDestination(heard[i]) }
             Heard == { EdgeOf(heard[i]) : i \in Connects }
             Count(e) == Cardinality({ i \in Connects : EdgeOf(heard[i]) = e })
  <2>1. Ranked(shown) /\ Len(heard) = seen
    BY DEF Shown, Accounted
  <2>2. \A e : { i \in Connects : EdgeOf(heard[i]) = e } = Of(heard, e)
    BY DEF Of
  <2>3. \A e \in DOMAIN edges : edges[e] = Count(e) /\ Count(e) > 0
    BY <2>2 DEF Accounted
  <2>4. Heard = DOMAIN edges
    <3>1. Heard \subseteq DOMAIN edges
      BY DEF Accounted
    <3>2. ASSUME NEW e \in DOMAIN edges, e \notin Heard PROVE FALSE
      <4>1. \A i \in DOMAIN heard : HasDestination(heard[i]) => EdgeOf(heard[i]) # e
        BY <3>2
      <4>2. Cardinality(Of(heard, e)) = 0
        BY <4>1, OfNone
      <4>3. Count(e) = 0
        BY <2>2, <4>2
      <4> QED
        BY <2>3, <4>3
    <3> QED
      BY <3>1, <3>2
  <2>5. PICK c : c = [e \in DOMAIN edges |-> Count(e)]
    OBVIOUS
  <2>6. \A e \in Heard : edges[e] = c[e] /\ c[e] = Count(e)
    BY <2>3, <2>4, <2>5
  <2>7. \A i \in DOMAIN shown : shown[i] \in Heard
    BY <2>1, <2>4 DEF Ranked
  <2> HIDE DEF Connects, Heard, Count
  <2>8. /\ ToSet(shown) \subseteq Heard
        /\ \A i \in DOMAIN shown : edges[shown[i]] = c[shown[i]]
    BY <2>6, <2>7 DEF ToSet
  <2>9. \A i, j \in DOMAIN shown :
          i < j => shown[i] # shown[j] /\ c[shown[i]] >= c[shown[j]]
    BY <2>1, <2>6, <2>7 DEF Ranked
  <2>10. \A e \in ToSet(shown), f \in Heard \ ToSet(shown) : c[e] >= c[f]
    <3> TAKE e \in ToSet(shown), f \in Heard \ ToSet(shown)
    <3>1. PICK i \in DOMAIN shown : e = shown[i]
      BY DEF ToSet
    <3>2. edges[e] >= edges[f]
      BY <2>1, <2>4, <3>1 DEF Ranked
    <3>3. edges[e] = c[e] /\ edges[f] = c[f]
      BY <2>6, <2>7, <3>1
    <3> QED
      BY <3>2, <3>3
  <2>11. Len(shown) = Min({maxEdges, Cardinality(Heard)})
    BY <2>1, <2>4 DEF Ranked
  <2>12. /\ \A i \in DOMAIN shown : edges[shown[i]] = Count(shown[i])
         /\ \A i, j \in DOMAIN shown :
              i < j => shown[i] # shown[j] /\ Count(shown[i]) >= Count(shown[j])
         /\ \A e \in ToSet(shown), f \in Heard \ ToSet(shown) : Count(e) >= Count(f)
    BY <2>6, <2>7, <2>8, <2>9, <2>10
  <2> QED
    BY <2>1, <2>8, <2>11, <2>12 DEF GraphAddsUp, Connects, Heard, Count
<1> QED
  BY <1>1, TimesInvInit, TimesInvStep, AccountedInit, AccountedStep, ShownInit, ShownStep, PTL DEF Spec

-----------------------------------------------------------------------------
(* Loops over lists are recursive functions.  The library's induction      *)
(* theorems take an operator; WFMin on the numbers gives one that takes a  *)
(* set.                                                                    *)

LEMMA SetInduction ==
  ASSUME NEW T, 0 \in T, \A n \in Nat : n \in T => n + 1 \in T
  PROVE  \A n \in Nat : n \in T
<1> SUFFICES ASSUME Nat \ T # {} PROVE FALSE
  OBVIOUS
<1>1. PICK R : R = OpToRel(<, Nat)
  OBVIOUS
<1>2. PICK Z : Z = Nat \ T
  OBVIOUS
<1>3. IsWellFoundedOn(R, Nat)
  BY <1>1, NatLessThanWellFounded
<1>4. Z \subseteq Nat /\ Z # {}
  BY <1>2
<1>5. \E x \in Z : \A y \in Z : ~(<<y, x>> \in R)
  BY <1>3, <1>4, WFMin
<1>6. PICK x \in Z : \A y \in Z : ~(<<y, x>> \in R)
  BY <1>5
<1>7. x # 0 /\ x - 1 \in Nat /\ x - 1 \notin T
  BY <1>2, <1>6
<1>8. <<x - 1, x>> \in R
  <2>1. R = {p \in Nat \X Nat : p[1] < p[2]}
    BY <1>1 DEF OpToRel
  <2> QED
    BY <1>4, <1>7, <2>1
<1> QED
  BY <1>2, <1>6, <1>7, <1>8

\* A function on 0..N is defined by its first value and a step from each value to the next.
Recursive(f, N, base, step) == f = [n \in 0..N |-> IF n = 0 THEN base ELSE step[n][f[n - 1]]]

LEMMA RecursiveFunction ==
  ASSUME NEW N \in Nat, NEW S, NEW base \in S, NEW step \in [1..N -> [S -> S]]
  PROVE  \E f \in [0..N -> S] : Recursive(f, N, base, step)
<1> DEFINE Good(m, f) == /\ f \in [0..m -> S] /\ f[0] = base
                         /\ \A n \in 1..m : f[n] = step[n][f[n - 1]]
           T == {m \in Nat : m <= N => \E f \in [0..m -> S] : Good(m, f)}
<1>1. 0 \in T
  <2>1. Good(0, [n \in 0..0 |-> base])
    OBVIOUS
  <2> QED
    BY <2>1
<1>2. ASSUME NEW m \in Nat, m \in T PROVE m + 1 \in T
  <2> SUFFICES ASSUME m + 1 <= N PROVE \E f \in [0..(m + 1) -> S] : Good(m + 1, f)
    OBVIOUS
  <2>1. PICK f \in [0..m -> S] : Good(m, f)
    BY <1>2
  <2>2. PICK g : g = [n \in 0..(m + 1) |-> IF n <= m THEN f[n] ELSE step[m + 1][f[m]]]
    OBVIOUS
  <2>3. f[m] \in S /\ m + 1 \in 1..N
    BY <2>1
  <2>4. step[m + 1][f[m]] \in S
    BY <2>3
  <2>5. g \in [0..(m + 1) -> S] /\ g[0] = base
    BY <2>1, <2>2, <2>4
  <2>6. ASSUME NEW n \in 1..(m + 1) PROVE g[n] = step[n][g[n - 1]]
    <3>1. CASE n <= m
      BY <2>1, <2>2, <3>1
    <3>2. CASE n = m + 1
      BY <2>1, <2>2, <3>2
    <3> QED
      BY <3>1, <3>2
  <2> QED
    BY <2>5, <2>6
<1>3. N \in T
  <2> HIDE DEF T
  <2> QED
    BY <1>1, <1>2, SetInduction
<1>4. PICK f \in [0..N -> S] : Good(N, f)
  BY <1>3
<1>5. Recursive(f, N, base, step)
  BY <1>4 DEF Recursive
<1> QED
  BY <1>4, <1>5

\* The loop of StreamRead: of r, what is in P.
Filtered(f, r, P) ==
  f = [k \in 0..Len(r) |-> IF k = 0 THEN << >>
                           ELSE IF r[k] \in P THEN Append(f[k - 1], r[k]) ELSE f[k - 1]]

LEMMA FilteredExists ==
  ASSUME NEW r \in Seq(Nat), NEW P
  PROVE  \E f : Filtered(f, r, P)
<1>1. PICK N, S : N = Len(r) /\ S = Seq(Nat)
  OBVIOUS
<1>2. N \in Nat /\ << >> \in S /\ \A k \in 1..N : r[k] \in Nat
  BY <1>1
<1>3. PICK step : step = [k \in 1..N |-> [s \in S |-> IF r[k] \in P THEN Append(s, r[k]) ELSE s]]
  OBVIOUS
<1>4. step \in [1..N -> [S -> S]]
  <2>1. \A k \in 1..N : \A s \in S : Append(s, r[k]) \in S
    BY <1>1, <1>2
  <2> QED
    BY <1>3, <2>1
<1>5. PICK base : base = << >>
  OBVIOUS
<1>6. PICK f \in [0..N -> S] : Recursive(f, N, base, step)
  BY <1>2, <1>4, <1>5, RecursiveFunction
<1>7. \A k \in 1..N : step[k][f[k - 1]] = IF r[k] \in P THEN Append(f[k - 1], r[k]) ELSE f[k - 1]
  <2>1. \A k \in 1..N : f[k - 1] \in S
    BY <1>2
  <2> QED
    BY <1>3, <2>1
<1>8. f = [k \in 0..N |-> IF k = 0 THEN base ELSE IF r[k] \in P THEN Append(f[k - 1], r[k]) ELSE f[k - 1]]
  <2>1. ASSUME NEW k \in 0..N
        PROVE  f[k] = IF k = 0 THEN base ELSE IF r[k] \in P THEN Append(f[k - 1], r[k]) ELSE f[k - 1]
    <3>1. f[k] = IF k = 0 THEN base ELSE step[k][f[k - 1]]
      BY <1>6 DEF Recursive
    <3>2. k # 0 => k \in 1..N
      BY <1>2
    <3> QED
      BY <1>7, <3>1, <3>2
  <2>2. f = [k \in 0..N |-> f[k]]
    BY <1>6
  <2> QED
    BY <2>1, <2>2
<1>9. Filtered(f, r, P)
  BY <1>1, <1>5, <1>8 DEF Filtered
<1> QED
  BY <1>9

Increasing(s) == \A i, j \in 1..Len(s) : i < j => s[i] < s[j]

LEMMA IncreasingAppend ==
  ASSUME NEW s \in Seq(Nat), Increasing(s), NEW y \in Nat, \A i \in 1..Len(s) : s[i] < y
  PROVE  Increasing(Append(s, y))
<1>1. PICK t : t = Append(s, y)
  OBVIOUS
<1>2. /\ Len(s) \in Nat /\ Len(t) = Len(s) + 1 /\ t[Len(s) + 1] = y
      /\ \A i \in 1..Len(s) : t[i] = s[i]
  BY <1>1
<1> SUFFICES ASSUME NEW i \in 1..Len(t), NEW j \in 1..Len(t), i < j PROVE t[i] < t[j]
  BY <1>1 DEF Increasing
<1>3. PICK k : k = Len(s) /\ Len(t) = k + 1
  BY <1>2
<1>4. k \in Nat /\ i \in 1..k /\ (j = k + 1 \/ j \in 1..k)
  BY <1>2, <1>3
<1> QED
  BY <1>2, <1>3, <1>4 DEF Increasing

\* x is among the first n of s.
Among(x, s, n) == \E i \in 1..n : s[i] = x

LEMMA FilteredProperties ==
  ASSUME NEW r \in Seq(Nat), Increasing(r), NEW P, NEW f, Filtered(f, r, P),
         NEW kept, kept = f[Len(r)]
  PROVE  /\ kept \in Seq(Nat) /\ Increasing(kept)
         /\ \A x \in Nat : Among(x, kept, Len(kept)) <=> x \in P /\ Among(x, r, Len(r))
<1> DEFINE Good(n) == /\ f[n] \in Seq(Nat)
                      /\ Increasing(f[n])
                      /\ \A x \in Nat : Among(x, f[n], Len(f[n])) <=> x \in P /\ Among(x, r, n)
<1>1. PICK T : T = {n \in Nat : n <= Len(r) => Good(n)}
  OBVIOUS
<1>2. Good(0)
  <2>1. f[0] = << >>
    BY DEF Filtered
  <2>2. PICK e : e = << >>
    OBVIOUS
  <2>3. e \in Seq(Nat) /\ Len(e) = 0
    BY <2>2
  <2>4. Increasing(e) /\ \A x : ~Among(x, e, Len(e)) /\ ~Among(x, r, 0)
    BY <2>3 DEF Increasing, Among
  <2> QED
    BY <2>1, <2>2, <2>3, <2>4
<1>3. ASSUME NEW n \in Nat, n + 1 <= Len(r), Good(n) PROVE Good(n + 1)
  <2>1. PICK s, t, y : s = f[n] /\ t = f[n + 1] /\ y = r[n + 1]
    OBVIOUS
  <2>2. t = IF y \in P THEN Append(s, y) ELSE s
    <3>1. n + 1 \in 0..Len(r) /\ n + 1 # 0 /\ (n + 1) - 1 = n
      BY <1>3
    <3> QED
      BY <2>1, <3>1 DEF Filtered
  <2>3. /\ s \in Seq(Nat) /\ Increasing(s) /\ y \in Nat
        /\ \A x \in Nat : Among(x, s, Len(s)) <=> x \in P /\ Among(x, r, n)
    BY <1>3, <2>1
  <2>4. \A x : Among(x, r, n + 1) <=> Among(x, r, n) \/ x = y
    BY <1>3, <2>1 DEF Among
  <2>5. \A x : Among(x, r, n) => x < y
    <3> SUFFICES ASSUME NEW i \in 1..n PROVE r[i] < y
      BY DEF Among
    <3>1. i \in 1..Len(r) /\ n + 1 \in 1..Len(r) /\ i < n + 1
      BY <1>3
    <3> QED
      BY <2>1, <3>1 DEF Increasing
  <2>6. CASE y \in P
    <3>1. t \in Seq(Nat) /\ Len(t) = Len(s) + 1 /\ t[Len(s) + 1] = y /\ \A i \in 1..Len(s) : t[i] = s[i]
      BY <2>2, <2>3, <2>6
    <3>2. \A i \in 1..Len(s) : s[i] < y
      <4> TAKE i \in 1..Len(s)
      <4>1. s[i] \in Nat /\ Among(s[i], s, Len(s))
        BY <2>3 DEF Among
      <4> QED
        BY <2>3, <2>5, <4>1
    <3>3. Increasing(t)
      BY <2>2, <2>3, <2>6, <3>2, IncreasingAppend
    <3>4. \A x : Among(x, t, Len(t)) <=> Among(x, s, Len(s)) \/ x = y
      <4>1. Len(s) \in Nat /\ 1..Len(t) = 1..Len(s) \cup {Len(s) + 1}
        BY <2>3, <3>1
      <4> QED
        BY <3>1, <4>1 DEF Among
    <3>5. \A x \in Nat : Among(x, t, Len(t)) <=> x \in P /\ Among(x, r, n + 1)
      BY <2>3, <2>4, <2>6, <3>4
    <3> QED
      BY <2>1, <3>1, <3>3, <3>5
  <2>7. CASE y \notin P
    <3>1. \A x \in Nat : Among(x, t, Len(t)) <=> x \in P /\ Among(x, r, n + 1)
      BY <2>2, <2>3, <2>4, <2>7
    <3> QED
      BY <2>1, <2>2, <2>3, <2>7, <3>1
  <2> QED
    BY <2>6, <2>7
<1> HIDE DEF Good
<1>4. 0 \in T /\ \A n \in Nat : n \in T => n + 1 \in T
  BY <1>1, <1>2, <1>3
<1>5. Good(Len(r))
  BY <1>1, <1>4, SetInduction
<1> QED
  BY <1>5 DEF Good

-----------------------------------------------------------------------------
(* A bounded read of a stream *)

\* What the batch has passed by: message n was returned, or had no place in the
\* response, or had expired.
Passed(n) ==
  \/ Among(n, raw, Len(raw))
  \/ n \in NoMetadata \/ Stream!After(n)
  \/ n < first

ReadInv ==
  /\ req \in Stream!Requests
  /\ first \in Nat \ {0} /\ last \in Nat /\ start \in Nat /\ next \in Nat
  /\ reading \in {"called", "fetching", "fetched", "done"}
  /\ reading = "called" => raw = << >> /\ answer = "none"
  /\ reading = "fetching" => start >= req.since /\ next >= start
  /\ answer = "ok" => reading = "done"
  /\ raw \in Seq(Nat) /\ Increasing(raw)
  /\ \A i \in 1..Len(raw) :
       /\ raw[i] \in start .. last /\ raw[i] < next /\ raw[i] >= req.since
       /\ raw[i] \notin NoMetadata /\ ~Stream!After(raw[i])
  /\ \A n \in Nat : start <= n /\ n < next => Passed(n)
  /\ answer = "ok" /\ req.op = "read" => out = Stream!UpToLimit

LEMMA RequestType ==
  ASSUME NEW r \in Stream!Requests
  PROVE  r.limit \in Int /\ r.since \in Nat /\ r.until \in Nat
<1>1. r.limit \in Limits \cup {0} /\ r.since \in Sinces /\ r.until \in Untils
  BY DEF Stream!Requests
<1>2. \A l \in Limits \cup {0} : l \in Int
  BY LimitsAssumption
<1>3. \A n \in Sinces \cup Untils : n \in Nat
  BY MessagesAssumption
<1> QED
  BY <1>1, <1>2, <1>3

LEMMA ReadInvInit == Stream!Init => ReadInv
<1> SUFFICES ASSUME Stream!Init PROVE ReadInv
  OBVIOUS
<1>1. /\ req \in Stream!Requests /\ first = 1 /\ last \in 0..MaxSeq /\ reading = "called"
      /\ start = 0 /\ next = 0 /\ raw = << >> /\ answer = "none"
  BY DEF Stream!Init
<1>2. last \in Nat
  BY <1>1, MessagesAssumption
<1>3. raw \in Seq(Nat) /\ Len(raw) = 0
  BY <1>1
<1>4. Increasing(raw)
  BY <1>3 DEF Increasing
<1> QED
  BY <1>1, <1>2, <1>3, <1>4 DEF ReadInv

LEMMA ReadInvStep == ReadInv /\ [Stream!Next]_streamVars => ReadInv'
<1> SUFFICES ASSUME ReadInv, [Stream!Next]_streamVars PROVE ReadInv'
  OBVIOUS
<1>1. CASE Stream!CallFails \/ Stream!FetchFails
  <2>1. /\ reading' = "done" /\ answer' = "error"
        /\ UNCHANGED <<req, first, last, start, next, raw, out>>
    BY <1>1 DEF Stream!CallFails, Stream!FetchFails, Stream!Fails
  <2> QED
    BY <2>1 DEF ReadInv, Passed, Stream!After
<1>2. CASE Stream!FetchBegins
  <2>1. /\ reading = "called" /\ reading' = "fetching" /\ start' = Stream!Greater(first, req.since)
        /\ next' = start' /\ UNCHANGED <<req, first, last, raw, out, answer>>
    BY <1>2 DEF Stream!FetchBegins
  <2>2. start' \in Nat /\ start' >= req.since
    BY <2>1, RequestType DEF Stream!Greater, ReadInv
  <2>3. raw = << >> /\ Len(raw) = 0
    BY <2>1 DEF ReadInv
  <2>4. \A n \in Nat : ~(start' <= n /\ n < next')
    BY <2>1, <2>2
  <2> QED
    BY <2>1, <2>2, <2>3, <2>4 DEF ReadInv
<1>3. CASE Stream!FetchMessage
  <2>1. PICK n : n = Stream!Available
    OBVIOUS
  <2>2. /\ reading = "fetching" /\ n <= last /\ next' = n + 1
        /\ reading' = IF n \notin NoMetadata /\ Stream!After(n) THEN "fetched" ELSE "fetching"
        /\ raw' = IF n \in NoMetadata \/ Stream!After(n) THEN raw ELSE Append(raw, n)
        /\ UNCHANGED <<req, first, last, start, out, answer>>
    BY <1>3, <2>1 DEF Stream!FetchMessage
  <2>3. /\ n \in Nat /\ n >= next /\ n >= first /\ (n = next \/ n = first)
        /\ start >= req.since /\ next >= start /\ req.since \in Nat
        /\ start \in Nat /\ next \in Nat /\ last \in Nat /\ first \in Nat
    BY <2>1, <2>2, RequestType DEF Stream!Available, Stream!Greater, ReadInv
  <2>4. reading' \in {"fetching", "fetched"}
    BY <2>2
  <2>5. answer # "ok"
    BY <2>2 DEF ReadInv
  <2>6. ASSUME NEW g \in Seq(Nat), g = raw', Increasing(g),
               \A i \in 1..Len(g) :
                 /\ g[i] \in start .. last /\ g[i] < next' /\ g[i] >= req.since
                 /\ g[i] \notin NoMetadata /\ ~Stream!After(g[i]),
               \A m \in Nat : Among(m, raw, Len(raw)) \/ m = n => Passed(m)'
        PROVE  ReadInv'
    <3>1. \A m : Stream!After(m)' <=> Stream!After(m)
      BY <2>2 DEF Stream!After
    <3>2. ASSUME NEW m \in Nat, start <= m, m < n + 1 PROVE Passed(m)'
      <4>1. CASE m < next
        <5>1. Passed(m)
          BY <3>2, <4>1 DEF ReadInv
        <5> QED
          BY <2>2, <2>6, <3>1, <5>1 DEF Passed
      <4>2. CASE next <= m /\ m < n
        BY <2>2, <2>3, <4>2 DEF Passed
      <4>3. CASE m = n
        BY <2>6, <4>3
      <4> QED
        BY <2>3, <3>2, <4>1, <4>2, <4>3
    <3>3. \A i \in 1..Len(g) : ~Stream!After(g[i])'
      BY <2>6, <3>1
    <3> QED
      BY <2>2, <2>3, <2>4, <2>5, <2>6, <3>2, <3>3 DEF ReadInv
  <2>7. CASE n \in NoMetadata \/ Stream!After(n)
    <3>1. raw' = raw
      BY <2>2, <2>7
    <3>2. \A m \in Nat : Among(m, raw, Len(raw)) \/ m = n => Passed(m)'
      BY <2>2, <2>7, <3>1 DEF Passed, Stream!After
    <3>3. \A i \in 1..Len(raw) : /\ raw[i] \in start .. last /\ raw[i] < next /\ raw[i] >= req.since
                                 /\ raw[i] \notin NoMetadata /\ ~Stream!After(raw[i])
      BY DEF ReadInv
    <3>4. raw \in Seq(Nat) /\ Increasing(raw)
      BY DEF ReadInv
    <3>5. \A i \in 1..Len(raw) : raw[i] < next'
      BY <2>2, <2>3, <3>3
    <3> QED
      BY <2>6, <3>1, <3>2, <3>3, <3>4, <3>5
  <2>8. CASE n \notin NoMetadata /\ ~Stream!After(n)
    <3>1. PICK s, t : s = raw /\ t = Append(raw, n) /\ raw' = t
      BY <2>2, <2>8
    <3>2. s \in Seq(Nat) /\ Increasing(s)
      BY <3>1 DEF ReadInv
    <3>3. /\ t \in Seq(Nat) /\ Len(t) = Len(s) + 1 /\ t[Len(s) + 1] = n
          /\ \A i \in 1..Len(s) : t[i] = s[i]
      BY <2>3, <3>1, <3>2
    <3>4. 1..Len(t) = 1..Len(s) \cup {Len(s) + 1}
      BY <3>2, <3>3
    <3>5. \A i \in 1..Len(s) : /\ s[i] \in start .. last /\ s[i] < next /\ s[i] >= req.since
                               /\ s[i] \notin NoMetadata /\ ~Stream!After(s[i])
      BY <3>1 DEF ReadInv
    <3>6. Increasing(t)
      <4>1. \A i \in 1..Len(s) : s[i] < n
        BY <2>3, <3>5
      <4> QED
        BY <3>1, <3>2, <4>1, <2>3, IncreasingAppend
    <3>7. \A i \in 1..Len(t) : /\ t[i] \in start .. last /\ t[i] < next' /\ t[i] >= req.since
                               /\ t[i] \notin NoMetadata /\ ~Stream!After(t[i])
      <4>1. n \in start .. last /\ n < next' /\ n >= req.since
        BY <2>2, <2>3
      <4>2. \A i \in 1..Len(s) : s[i] < next'
        BY <2>2, <2>3, <3>5
      <4> QED
        BY <2>8, <3>3, <3>4, <3>5, <4>1, <4>2
    <3>8. \A m \in Nat : Among(m, raw, Len(raw)) \/ m = n => Passed(m)'
      <4>1. \A m : Among(m, s, Len(s)) \/ m = n => Among(m, t, Len(t))
        BY <3>3, <3>4 DEF Among
      <4> QED
        BY <3>1, <4>1 DEF Passed
    <3> QED
      BY <2>6, <3>1, <3>3, <3>6, <3>7, <3>8
  <2> QED
    BY <2>7, <2>8
<1>4. CASE Stream!FetchEnds
  <2>1. /\ reading = "fetching" /\ reading' = "fetched"
        /\ UNCHANGED <<req, first, last, start, next, raw, out, answer>>
    BY <1>4 DEF Stream!FetchEnds
  <2> QED
    BY <2>1 DEF ReadInv, Passed, Stream!After
<1>5. CASE Stream!Respond
  <2>1. /\ reading' = "done" /\ answer' = "ok" /\ out' = Stream!UpToLimit
        /\ UNCHANGED <<req, first, last, start, next, raw>>
    BY <1>5 DEF Stream!Respond
  <2>2. Stream!UpToLimit' = Stream!UpToLimit
    BY <2>1 DEF Stream!UpToLimit, Stream!Kept, Stream!Passes, Stream!Limit
  <2> QED
    BY <2>1, <2>2 DEF ReadInv, Passed, Stream!After
<1>6. CASE Stream!Describe
  <2>1. /\ reading' = "done" /\ req.op # "read"
        /\ UNCHANGED <<req, first, last, start, next, raw>>
    BY <1>6 DEF Stream!Describe
  <2> QED
    BY <2>1 DEF ReadInv, Passed, Stream!After
<1>7. ASSUME Stream!Published \/ Stream!Expired \/ UNCHANGED streamVars PROVE ReadInv'
  <2>1. /\ last' \in Nat /\ last' >= last /\ first' \in Nat /\ first' >= first
        /\ UNCHANGED <<req, reading, start, next, raw, out, answer>>
    BY <1>7 DEF Stream!Published, Stream!Expired, streamVars, ReadInv
  <2>2. \A n \in Nat : start <= n /\ n < next => Passed(n)'
    BY <2>1 DEF ReadInv, Passed, Stream!After
  <2>3. Stream!UpToLimit' = Stream!UpToLimit
    BY <2>1 DEF Stream!UpToLimit, Stream!Kept, Stream!Passes, Stream!Limit
  <2>4. \A i \in 1..Len(raw) :
          /\ raw[i] \in start .. last' /\ raw[i] < next /\ raw[i] >= req.since
          /\ raw[i] \notin NoMetadata /\ ~Stream!After(raw[i])'
    BY <2>1 DEF ReadInv, Stream!After
  <2> QED
    BY <2>1, <2>2, <2>3, <2>4 DEF ReadInv
<1> QED
  BY <1>1, <1>2, <1>3, <1>4, <1>5, <1>6, <1>7 DEF Stream!Next

LEMMA KeptIsFiltered ==
  ASSUME NEW r \in Seq(Nat), r = raw
  PROVE  \E f : Filtered(f, r, {n \in Nat : Stream!Passes(n)}) /\ Stream!Kept = f[Len(r)]
<1>1. PICK P : P = {n \in Nat : Stream!Passes(n)}
  OBVIOUS
<1> DEFINE Loop(f) == f = [k \in 0..Len(r) |->
                             IF k = 0 THEN << >>
                             ELSE IF Stream!Passes(r[k]) THEN Append(f[k - 1], r[k]) ELSE f[k - 1]]
<1>2. \A k \in 0..Len(r) : k # 0 => (r[k] \in P <=> Stream!Passes(r[k]))
  BY <1>1
<1>3. \A f : Loop(f) <=> Filtered(f, r, P)
  <2> TAKE f
  <2>1. [k \in 0..Len(r) |-> IF k = 0 THEN << >>
                             ELSE IF Stream!Passes(r[k]) THEN Append(f[k - 1], r[k]) ELSE f[k - 1]]
        = [k \in 0..Len(r) |-> IF k = 0 THEN << >>
                               ELSE IF r[k] \in P THEN Append(f[k - 1], r[k]) ELSE f[k - 1]]
    BY <1>2
  <2> QED
    BY <2>1 DEF Filtered
<1>4. \E f : Loop(f)
  BY <1>3, FilteredExists
<1>5. Stream!Kept = (CHOOSE f : Loop(f))[Len(r)]
  BY DEF Stream!Kept
<1> HIDE DEF Loop
<1>6. Loop(CHOOSE f : Loop(f))
  BY <1>4
<1> QED
  BY <1>1, <1>3, <1>5, <1>6

LEMMA LimitType ==
  ASSUME req \in Stream!Requests
  PROVE  Stream!Limit \in Nat \ {0}
<1>1. PICK l : l = req.limit
  OBVIOUS
<1>2. l \in Int
  BY <1>1, RequestType
<1>3. /\ streamReadMaxLimit \in Nat /\ streamReadDefaultLimit \in Nat /\ streamReadDefaultLimit >= 1
      /\ streamReadDefaultLimit <= streamReadMaxLimit
  BY LimitsAssumption
<1>4. PICK m : m = IF l <= 0 THEN streamReadDefaultLimit ELSE l
  OBVIOUS
<1>5. m \in Nat /\ m >= 1
  BY <1>2, <1>3, <1>4
<1>6. Stream!Limit = IF m <= streamReadMaxLimit THEN m ELSE streamReadMaxLimit
  BY <1>1, <1>4 DEF Stream!Limit, Stream!Bounded, Stream!Lesser
<1> QED
  BY <1>3, <1>5, <1>6

\* A bounded read returns what was asked for from the oldest on, without a gap.
THEOREM ReadsHaveNoGap == AllSpec => []ReadsOldestWithoutGap
<1>1. ReadInv => ReadsOldestWithoutGap
  <2> SUFFICES ASSUME ReadInv, answer = "ok", req.op = "read" PROVE Stream!ReadsOldestWithoutGap
    BY DEF ReadsOldestWithoutGap, Stream!ReadsOldestWithoutGap
  <2>1. PICK r, K, O, L : r = raw /\ K = Stream!Kept /\ O = out /\ L = Stream!Limit
    OBVIOUS
  <2>2. L \in Nat \ {0} /\ L = Stream!Bounded(req.limit, streamReadDefaultLimit, streamReadMaxLimit)
    BY <2>1, LimitType DEF Stream!Limit, ReadInv
  <2>3. r \in Seq(Nat) /\ Increasing(r)
    BY <2>1 DEF ReadInv
  <2>4. PICK P : P = {n \in Nat : Stream!Passes(n)}
    OBVIOUS
  <2>5. PICK f : Filtered(f, r, P) /\ K = f[Len(r)]
    BY <2>1, <2>3, <2>4, KeptIsFiltered
  <2>6. /\ K \in Seq(Nat) /\ Increasing(K)
        /\ \A x \in Nat : Among(x, K, Len(K)) <=> x \in P /\ Among(x, r, Len(r))
    BY <2>3, <2>5, FilteredProperties
  <2>7. O = SubSeq(K, 1, IF Len(K) <= L THEN Len(K) ELSE L)
    BY <2>1 DEF ReadInv, Stream!UpToLimit, Stream!Lesser
  <2>8. PICK k, n : k = Len(K) /\ n = IF k <= L THEN k ELSE L
    OBVIOUS
  <2>9. k \in Nat /\ n \in 0..k /\ n <= L
    BY <2>2, <2>6, <2>8
  <2>10. O \in Seq(Nat) /\ Len(O) = n /\ \A i \in 1..n : O[i] = K[i]
    <3>1. O = SubSeq(K, 1, n)
      BY <2>7, <2>8
    <3> QED
      BY <2>6, <2>8, <2>9, <3>1
  <2>11. \A i, j \in 1..n : i < j => O[i] < O[j]
    BY <2>6, <2>8, <2>9, <2>10 DEF Increasing
  <2>12. ASSUME NEW i \in 1..n PROVE O[i] \in Stream!Wanted
    <3>1. PICK x \in Nat : x = O[i] /\ x = K[i]
      BY <2>6, <2>8, <2>9, <2>10
    <3>2. x \in P /\ Among(x, r, Len(r))
      <4>1. Among(x, K, Len(K))
        BY <2>8, <2>9, <3>1 DEF Among
      <4> QED
        BY <2>6, <4>1
    <3>3. /\ x \in start .. last /\ x >= req.since /\ x \notin NoMetadata /\ ~Stream!After(x)
      BY <2>1, <3>2 DEF Among, ReadInv
    <3>4. x \notin Malformed /\ (req.filter => Stream!Match(x))
      BY <2>4, <3>2 DEF Stream!Passes
    <3>5. req.until # 0 => x <= req.until
      BY <3>3, RequestType DEF Stream!After, ReadInv
    <3> QED
      BY <3>1, <3>3, <3>4, <3>5 DEF Stream!Wanted
  <2>13. ASSUME NEW x \in Stream!Wanted, n = L => x <= O[n], n # L => x <= next - 1
         PROVE  Among(x, O, n) \/ x < first
    <3>1. /\ x \in start .. last /\ x \notin NoMetadata /\ x \notin Malformed
          /\ req.filter => Stream!Match(x)
          /\ req.until # 0 => x <= req.until
      BY DEF Stream!Wanted
    <3>2. x \in Nat /\ start <= x /\ next \in Nat
      BY <3>1 DEF ReadInv
    <3>3. ~Stream!After(x) /\ x \in P
      BY <2>4, <3>1, <3>2, RequestType DEF Stream!After, Stream!Passes, ReadInv
    <3>4. x < next
      <4>1. CASE n = L
        <5>1. n \in 1..n
          BY <2>2, <2>9, <4>1
        <5>2. PICK y \in Nat : y = O[n] /\ y = K[n]
          BY <2>6, <2>8, <2>9, <2>10, <5>1
        <5>3. Among(y, r, Len(r))
          <6>1. Among(y, K, Len(K))
            BY <2>8, <2>9, <5>1, <5>2 DEF Among
          <6> QED
            BY <2>6, <6>1
        <5>4. y < next
          BY <2>1, <5>3 DEF Among, ReadInv
        <5> QED
          BY <2>13, <3>2, <4>1, <5>2, <5>4
      <4>2. CASE n # L
        BY <2>13, <3>2, <4>2
      <4> QED
        BY <4>1, <4>2
    <3>5. Passed(x)
      BY <3>2, <3>4 DEF ReadInv
    <3> SUFFICES ASSUME Among(x, r, Len(r)) PROVE Among(x, O, n)
      BY <2>1, <3>1, <3>3, <3>5 DEF Passed
    <3>6. PICK i \in 1..k : K[i] = x
      <4>1. Among(x, K, Len(K))
        BY <2>6, <3>2, <3>3
      <4> QED
        BY <2>8, <4>1 DEF Among
    <3>7. i <= n
      <4>1. CASE n = L
        <5> SUFFICES ASSUME n < i PROVE FALSE
          BY <2>9
        <5>1. n \in 1..k /\ i \in 1..k
          BY <2>2, <2>9, <4>1
        <5>2. K[n] < K[i] /\ K[n] \in Nat
          BY <2>6, <2>8, <5>1 DEF Increasing
        <5>3. O[n] = K[n]
          BY <2>10, <5>1
        <5> QED
          BY <2>13, <3>2, <3>6, <4>1, <5>2, <5>3
      <4>2. CASE n # L
        BY <2>2, <2>8, <2>9, <4>2
      <4> QED
        BY <4>1, <4>2
    <3> QED
      BY <2>9, <2>10, <3>6, <3>7 DEF Among
  <2>14. \A x : Among(x, O, n) <=> x \in ToSet(O)
    BY <2>10 DEF Among, ToSet
  <2>15. ToSet(O) \subseteq Stream!Wanted
    BY <2>12, <2>14 DEF Among
  <2>16. \A x \in Stream!Wanted :
           x <= (IF n = L THEN Last(O) ELSE next - 1) => x \in ToSet(O) \/ x < first
    BY <2>10, <2>13, <2>14 DEF Last
  <2>17. /\ Len(O) <= L
         /\ \A i, j \in 1..Len(O) : i < j => O[i] < O[j]
         /\ ToSet(O) \subseteq Stream!Wanted
         /\ \A x \in Stream!Wanted :
              x <= (IF Len(O) = L THEN Last(O) ELSE next - 1) => x \in ToSet(O) \/ x < first
    BY <2>9, <2>10, <2>11, <2>15, <2>16
  <2>18. O = out /\ L = Stream!Bounded(req.limit, streamReadDefaultLimit, streamReadMaxLimit)
    BY <2>1, <2>2
  <2>19. ToSet(O) = Stream!ToSet(O) /\ Last(O) = Stream!Last(O)
    BY DEF ToSet, Stream!ToSet, Last, Stream!Last
  <2> QED
    BY <2>17, <2>18, <2>19 DEF Stream!ReadsOldestWithoutGap
<1>2. AllInit => ReadInv
  BY ReadInvInit DEF AllInit
<1>3. ReadInv /\ [AllNext]_AllVars => ReadInv'
  <2>1. [AllNext]_AllVars => [Stream!Next]_streamVars
    BY DEF AllNext, AllVars
  <2> QED
    BY <2>1, ReadInvStep
<1> QED
  BY <1>1, <1>2, <1>3, PTL DEF AllSpec

-----------------------------------------------------------------------------
(* Health and identity.  Each call of these RPCs has been made by the time *)
(* of the answer, once, and has either answered or failed.                 *)

HealthRpcs == {"EoBHealth", "TraceHealth", "ClusterIdentity", "Heartbeat"}
Agents == {"trace_agent", "race_agent"}
PodLists == {"trace_pods", "race_pods"}

\* No call is made twice, and each agent's pods are listed right after it.
PlanIsFine(plan) ==
  /\ Len(plan) \in Nat
  /\ \A i, j \in 1..Len(plan) : plan[i] = plan[j] => i = j
  /\ \A i \in 1..Len(plan) : plan[i] # "bus"
  /\ \A i \in 1..Len(plan) : plan[i] \in Agents => i + 1 \in 1..Len(plan) /\ plan[i + 1] \in PodLists

PlanHas(plan, x) == \E i \in 1..Len(plan) : plan[i] = x

LEMMA HealthPlans ==
  /\ PlanIsFine(Plan("EoBHealth"))
  /\ \A x \in {"operator", "dashboard", "streamstore", "webhook", "directives", "agents"} :
       PlanHas(Plan("EoBHealth"), x)
  /\ PlanIsFine(Plan("TraceHealth"))
  /\ \A x \in {"trace_agent", "race_agent"} : PlanHas(Plan("TraceHealth"), x)
  /\ PlanIsFine(Plan("ClusterIdentity"))
  /\ \A x \in {"version", "operator"} : PlanHas(Plan("ClusterIdentity"), x)
  /\ PlanIsFine(Plan("Heartbeat"))
  /\ \A x \in {"version", "directives", "operator", "streams"} : PlanHas(Plan("Heartbeat"), x)
<1>1. PICK p : p = << "directives", "operator", "dashboard", "streamstore", "webhook", "agents" >>
  OBVIOUS
<1>2. PlanIsFine(p)
  BY <1>1 DEF PlanIsFine, Agents
<1>3. \A x \in {"operator", "dashboard", "streamstore", "webhook", "directives", "agents"} : PlanHas(p, x)
  <2>1. Len(p) = 6 /\ p[1] = "directives" /\ p[2] = "operator" /\ p[3] = "dashboard"
        /\ p[4] = "streamstore" /\ p[5] = "webhook" /\ p[6] = "agents"
    BY <1>1
  <2> QED
    BY <2>1 DEF PlanHas
<1>4. PICK q : q = << "trace_agent", "trace_pods", "race_agent", "race_pods" >>
  OBVIOUS
<1>5. PlanIsFine(q)
  BY <1>4 DEF PlanIsFine, Agents, PodLists
<1>6. \A x \in {"trace_agent", "race_agent"} : PlanHas(q, x)
  <2>1. Len(q) = 4 /\ q[1] = "trace_agent" /\ q[3] = "race_agent"
    BY <1>4
  <2> QED
    BY <2>1 DEF PlanHas
<1>7. PICK r : r = << "version", "operator" >>
  OBVIOUS
<1>8. PlanIsFine(r)
  BY <1>7 DEF PlanIsFine, Agents
<1>9. \A x \in {"version", "operator"} : PlanHas(r, x)
  <2>1. Len(r) = 2 /\ r[1] = "version" /\ r[2] = "operator"
    BY <1>7
  <2> QED
    BY <2>1 DEF PlanHas
<1>10. PICK s : s = << "version", "directives", "operator", "streams" >>
  OBVIOUS
<1>11. PlanIsFine(s)
  BY <1>10 DEF PlanIsFine, Agents
<1>12. \A x \in {"version", "directives", "operator", "streams"} : PlanHas(s, x)
  <2>1. Len(s) = 4 /\ s[1] = "version" /\ s[2] = "directives" /\ s[3] = "operator" /\ s[4] = "streams"
    BY <1>10
  <2> QED
    BY <2>1 DEF PlanHas
<1>13. Plan("EoBHealth") = p /\ Plan("TraceHealth") = q /\ Plan("ClusterIdentity") = r
       /\ Plan("Heartbeat") = s
  BY <1>1, <1>4, <1>7, <1>10 DEF Plan
<1> QED
  BY <1>2, <1>3, <1>5, <1>6, <1>8, <1>9, <1>11, <1>12, <1>13

LEMMA CallsOfHealth ==
  query.rpc \in HealthRpcs => Calls = Plan(query.rpc) /\ PlanIsFine(Calls)
  BY HealthPlans DEF HealthRpcs, Calls

\* Of the calls before the next one each has answered or failed, unless its
\* backend is not wired or it was to list the pods of an agent that was not found.
AskedInv ==
  query.rpc \in HealthRpcs =>
    /\ pc \in {"idle", "calling", "answered"}
    /\ pc = "idle" => failed = {}
    /\ pc # "idle" => pos \in Nat
    /\ pc = "answered" => pos > Len(Calls)
    /\ pc # "idle" =>
         /\ \A x \in DOMAIN got \cup failed : \E p \in 1..Len(Calls) : p < pos /\ Calls[p] = x /\ Wired(p)
         /\ \A p \in 1..Len(Calls) : p < pos /\ Wired(p) /\ Calls[p] \notin PodLists =>
              (Calls[p] \in DOMAIN got <=> Calls[p] \notin failed)

LEMMA AskedInvInit == Init => AskedInv
  BY DEF Init, AskedInv

\* A call that answers or fails is settled, and the next one is on its way.
LEMMA CallSettles ==
  ASSUME TimesInv, AskedInv, query.rpc \in HealthRpcs, NEW x, NEW found, Asking(x),
         Proceed(After(x, found)), UNCHANGED <<wired, query>>,
         \/ DOMAIN got' = DOMAIN got \cup {x} /\ failed' = failed
         \/ DOMAIN got' = DOMAIN got /\ failed' = failed \cup {x}
  PROVE  AskedInv'
<1>1. /\ query \in Queries /\ pc = "calling" /\ pos \in 1..Len(Calls) /\ Calls[pos] = x /\ Wired(pos)
      /\ PlanIsFine(Calls) /\ Len(Calls) \in Nat
  BY CallsOfHealth DEF TimesInv, Asking, PlanIsFine
<1>2. PICK p : p = After(x, found)
  OBVIOUS
<1>3. p \in Nat \ {0} /\ p \in {pos + 1, pos + 2} /\ (p = pos + 2 => x \in Agents)
  BY <1>1, <1>2 DEF After, Agents
<1>4. PICK q : q = pos'
  OBVIOUS
<1>5. /\ q \in Nat \ {0} /\ q >= p /\ (q <= Len(Calls) => pc' = "calling")
      /\ \A r \in Nat : p <= r /\ r < q => ~Wired(r)
  BY <1>1, <1>2, <1>3, <1>4, Proceeds
<1>6. ~(q <= Len(Calls)) => pc' = "answered"
  <2>1. query.rpc # "EastWestGraph"
    BY DEF HealthRpcs
  <2> QED
    BY <1>4, <2>1 DEF Proceed
<1>7. Calls' = Calls /\ \A r : Wired(r)' <=> Wired(r)
  BY DEF Calls, Wired
<1>8. x \notin DOMAIN got /\ x \notin failed
  <2> SUFFICES ASSUME x \in DOMAIN got \cup failed PROVE FALSE
    OBVIOUS
  <2>1. PICK r \in 1..Len(Calls) : r < pos /\ Calls[r] = x
    BY <1>1 DEF AskedInv
  <2>2. r = pos
    BY <1>1, <2>1 DEF PlanIsFine
  <2> QED
    BY <1>1, <2>1, <2>2
<1>9. \A y \in DOMAIN got' \cup failed' :
        \E r \in 1..Len(Calls) : r < q /\ Calls[r] = y /\ Wired(r)
  <2> TAKE y \in DOMAIN got' \cup failed'
  <2>1. CASE y = x
    BY <1>1, <1>3, <1>5, <2>1
  <2>2. CASE y # x
    <3>1. PICK r \in 1..Len(Calls) : r < pos /\ Calls[r] = y /\ Wired(r)
      BY <1>1, <2>2 DEF AskedInv
    <3> QED
      BY <1>1, <1>3, <1>5, <3>1
  <2> QED
    BY <2>1, <2>2
<1>10. ASSUME NEW r \in 1..Len(Calls), r < q, Wired(r), Calls[r] \notin PodLists
       PROVE  Calls[r] \in DOMAIN got' <=> Calls[r] \notin failed'
  <2>1. CASE r < pos
    <3>1. Calls[r] # x
      BY <1>1, <2>1 DEF PlanIsFine
    <3>2. Calls[r] \in DOMAIN got <=> Calls[r] \notin failed
      BY <1>1, <1>10, <2>1 DEF AskedInv
    <3> QED
      BY <3>1, <3>2
  <2>2. CASE r = pos
    BY <1>1, <1>8, <2>2
  <2>3. CASE r > pos
    <3>1. r < p
      BY <1>5, <1>10, <1>3
    <3>2. r = pos + 1 /\ x \in Agents
      BY <1>1, <1>3, <2>3, <3>1
    <3> QED
      BY <1>1, <1>10, <3>2 DEF PlanIsFine
  <2> QED
    BY <1>1, <2>1, <2>2, <2>3
<1>11. pc' \in {"calling", "answered"} /\ (pc' = "answered" => q > Len(Calls))
  BY <1>1, <1>5, <1>6
<1> QED
  BY <1>4, <1>5, <1>7, <1>9, <1>10, <1>11 DEF AskedInv

LEMMA AskedInvStep == TimesInv /\ WasInv /\ AskedInv /\ [Next]_vars => AskedInv'
<1> SUFFICES ASSUME TimesInv, WasInv, AskedInv, [Next]_vars PROVE AskedInv'
  OBVIOUS
<1>1. UNCHANGED <<wired, query>>
  BY DEF Next, Step, Begin, CallAnswers, CallFails, BusConnects, BusFails, Sampled, SampleEnds, Assemble,
         Tick, SiteChanges, vars, cluster
<1> SUFFICES ASSUME query.rpc \in HealthRpcs PROVE AskedInv'
  BY <1>1 DEF AskedInv
<1>2. PlanIsFine(Calls) /\ Len(Calls) \in Nat /\ query \in Queries
      /\ pc \in {"idle", "calling", "answered"}
  BY CallsOfHealth DEF PlanIsFine, TimesInv, AskedInv
<1>3. Calls' = Calls /\ \A r : Wired(r)' <=> Wired(r)
  BY <1>1 DEF Calls, Wired
<1>4. CASE Begin
  <2>1. pc = "idle" /\ Proceed(1) /\ UNCHANGED <<got, failed>>
    BY <1>4 DEF Begin
  <2>2. PICK q : q = pos'
    OBVIOUS
  <2>3. /\ q \in Nat \ {0} /\ (q <= Len(Calls) => pc' = "calling")
        /\ \A r \in Nat : 1 <= r /\ r < q => ~Wired(r)
    BY <1>2, <2>1, <2>2, Proceeds
  <2>4. ~(q <= Len(Calls)) => pc' = "answered"
    <3>1. query.rpc # "EastWestGraph"
      BY DEF HealthRpcs
    <3> QED
      BY <2>1, <2>2, <3>1 DEF Proceed
  <2>5. DOMAIN got = {} /\ failed = {}
    BY <2>1 DEF WasInv, AskedInv
  <2>6. pc' \in {"calling", "answered"} /\ (pc' = "answered" => q > Len(Calls))
    BY <1>2, <2>3, <2>4
  <2> QED
    BY <1>2, <1>3, <2>1, <2>2, <2>3, <2>5, <2>6 DEF AskedInv
<1>5. ASSUME NEW x \in DOMAIN Values, CallAnswers(x) PROVE AskedInv'
  <2>1. PICK found : found = (site[x] # Absent)
    OBVIOUS
  <2>2. Asking(x) /\ Proceed(After(x, found)) /\ got' = Put(got, x, site[x]) /\ failed' = failed
    BY <1>5, <2>1 DEF CallAnswers
  <2>3. DOMAIN got' = DOMAIN got \cup {x}
    BY <2>2 DEF Put
  <2> QED
    BY <1>1, <2>2, <2>3, CallSettles
<1>6. ASSUME NEW x \in DOMAIN Values, CallFails(x) PROVE AskedInv'
  <2>1. Asking(x) /\ Proceed(After(x, FALSE)) /\ got' = got /\ failed' = failed \cup {x}
    BY <1>6 DEF CallFails
  <2> QED
    BY <1>1, <2>1, CallSettles
<1>7. ~BusConnects /\ ~BusFails
  <2>1. ~Asking("bus")
    BY <1>2 DEF Asking, TimesInv, PlanIsFine
  <2> QED
    BY <2>1 DEF BusConnects, BusFails
<1>8. ~SampleEnds /\ ~Assemble /\ \A m \in Events : ~Sampled(m)
  BY <1>2 DEF SampleEnds, Assemble, Sampled
<1>9. ASSUME UNCHANGED <<pc, pos, got, failed>> PROVE AskedInv'
  BY <1>1, <1>3, <1>9 DEF AskedInv
<1>10. CASE Tick
  BY <1>9, <1>10 DEF Tick
<1>11. ASSUME NEW x \in DOMAIN Values, SiteChanges(x) PROVE AskedInv'
  BY <1>9, <1>11 DEF SiteChanges
<1>12. CASE UNCHANGED vars
  BY <1>9, <1>12 DEF vars
<1> QED
  BY <1>4, <1>5, <1>6, <1>7, <1>8, <1>10, <1>11, <1>12 DEF Next, Step

\* By the time of the answer a call has either failed or been read.
LEMMA Settled ==
  ASSUME AskedInv, query.rpc \in HealthRpcs, pc = "answered", NEW x,
         PlanHas(Plan(query.rpc), x), x \notin PodLists
  PROVE  /\ Backend(x) \in wired => (Read(x) <=> x \notin failed)
         /\ Read(x) <=> ~Unanswered(x)
<1>1. Calls = Plan(query.rpc) /\ PlanIsFine(Calls)
  BY CallsOfHealth
<1>2. PICK p \in 1..Len(Calls) : Calls[p] = x
  BY <1>1 DEF PlanHas
<1>3. p < pos /\ (Wired(p) <=> Backend(x) \in wired)
  BY <1>1, <1>2 DEF AskedInv, Wired, PlanIsFine
<1>4. Backend(x) \in wired => (Read(x) <=> x \notin failed)
  BY <1>2, <1>3 DEF AskedInv, Read
<1>5. Read(x) => Backend(x) \in wired
  <2> SUFFICES ASSUME x \in DOMAIN got PROVE Backend(x) \in wired
    BY DEF Read
  <2>1. PICK r \in 1..Len(Calls) : Calls[r] = x /\ Wired(r)
    BY DEF AskedInv
  <2> QED
    BY <2>1 DEF Wired
<1> QED
  BY <1>4, <1>5 DEF Unanswered

LEMMA ReadyStatusIs ==
  ASSUME NEW w, NEW ready \in Nat, NEW desired \in Nat, w.ready = ready, w.desired = desired
  PROVE  ReadyStatus(w) = IF desired = 0 THEN "absent" ELSE IF ready < desired THEN "degraded" ELSE "ok"
<1>1. ready >= desired <=> ~(ready < desired)
  OBVIOUS
<1> QED
  BY <1>1 DEF ReadyStatus

LEMMA StatusIsTrue ==
  ASSUME WasInv, NEW x \in Workloads, Read(x) <=> x \notin failed
  PROVE  StatusWasTrue(x)
<1>1. CASE ~Read(x)
  <2>1. ComponentStatus(x) = "error"
    BY <1>1 DEF ComponentStatus, ErrorStatus
  <2> QED
    BY <1>1, <2>1 DEF StatusWasTrue
<1>2. CASE Read(x)
  <2>1. PICK v : v = got[x]
    OBVIOUS
  <2>2. v \in was[x] /\ v \in Values[x] /\ x \in DOMAIN Values
    BY <1>2, <2>1 DEF Read, WasInv
  <2>3. v # Absent => v.ready \in Nat /\ v.desired \in Nat
    BY <2>2, ValuesAssumption
  <2>4. ComponentStatus(x) = IF v = Absent THEN "absent" ELSE ReadyStatus(v)
    BY <1>2, <2>1 DEF ComponentStatus
  <2>5. CASE v = Absent
    <3>1. ComponentStatus(x) = "absent"
      BY <2>4, <2>5
    <3> QED
      BY <1>2, <2>2, <2>5, <3>1 DEF StatusWasTrue
  <2>6. CASE v # Absent
    <3>1. PICK ready \in Nat, desired \in Nat : ready = v.ready /\ desired = v.desired
      BY <2>3, <2>6
    <3>2. ComponentStatus(x) =
            IF desired = 0 THEN "absent" ELSE IF ready < desired THEN "degraded" ELSE "ok"
      BY <2>4, <2>6, <3>1, ReadyStatusIs
    <3>3. CASE desired = 0
      <4>1. ComponentStatus(x) = "absent"
        BY <3>2, <3>3
      <4> QED
        BY <1>2, <2>2, <3>1, <3>3, <4>1 DEF StatusWasTrue
    <3>4. CASE desired # 0 /\ ready < desired
      <4>1. ComponentStatus(x) = "degraded"
        BY <3>2, <3>4
      <4> QED
        BY <1>2, <2>2, <2>6, <3>1, <3>4, <4>1 DEF StatusWasTrue
    <3>5. CASE desired # 0 /\ ~(ready < desired)
      <4>1. ComponentStatus(x) = "ok"
        BY <3>2, <3>5
      <4>2. desired > 0 /\ ready >= desired
        BY <3>5
      <4> QED
        BY <1>2, <2>2, <2>6, <3>1, <4>1, <4>2 DEF StatusWasTrue
    <3> QED
      BY <3>3, <3>4, <3>5
  <2> QED
    BY <2>5, <2>6
<1> QED
  BY <1>1, <1>2

\* The loop of directiveStatus.
Totals(f, ds, field) == f = [k \in 0..Len(ds) |-> IF k = 0 THEN 0 ELSE f[k - 1] + ds[k][field]]

LEMMA TotalIsLast ==
  ASSUME NEW ds, IsList(ds), NEW field, \A k \in 1..Len(ds) : ds[k][field] \in Nat
  PROVE  \E f : Totals(f, ds, field) /\ Total(ds, field) = f[Len(ds)]
<1>1. PICK N : N = Len(ds)
  OBVIOUS
<1>2. N \in Nat /\ \A k \in 1..N : ds[k][field] \in Nat
  BY <1>1 DEF IsList
<1>3. PICK step : step = [k \in 1..N |-> [s \in Nat |-> s + ds[k][field]]]
  OBVIOUS
<1>4. step \in [1..N -> [Nat -> Nat]]
  <2>1. \A k \in 1..N : [s \in Nat |-> s + ds[k][field]] \in [Nat -> Nat]
    <3> TAKE k \in 1..N
    <3>1. PICK d \in Nat : d = ds[k][field]
      BY <1>2
    <3>2. [s \in Nat |-> s + d] \in [Nat -> Nat]
      OBVIOUS
    <3> QED
      BY <3>1, <3>2
  <2> QED
    BY <1>3, <2>1
<1>5. PICK base : base = 0
  OBVIOUS
<1>6. PICK f \in [0..N -> Nat] : Recursive(f, N, base, step)
  BY <1>2, <1>4, <1>5, RecursiveFunction
<1>7. \A k \in 1..N : step[k][f[k - 1]] = f[k - 1] + ds[k][field]
  <2>1. \A k \in 1..N : f[k - 1] \in Nat
    BY <1>2
  <2> QED
    BY <1>3, <2>1
<1>8. f = [k \in 0..N |-> IF k = 0 THEN 0 ELSE f[k - 1] + ds[k][field]]
  BY <1>2, <1>5, <1>6, <1>7 DEF Recursive
<1>9. \E g : Totals(g, ds, field)
  BY <1>1, <1>8 DEF Totals
<1>10. Total(ds, field) = (CHOOSE g : Totals(g, ds, field))[Len(ds)]
  BY DEF Total, Totals
<1>11. Totals(CHOOSE g : Totals(g, ds, field), ds, field)
  BY <1>9
<1> QED
  BY <1>10, <1>11

\* None more is ready than is wanted, so the sums are equal only if all are ready.
LEMMA SumsTell ==
  ASSUME NEW ds, IsList(ds),
         \A k \in DOMAIN ds : ds[k].desired \in Nat /\ ds[k].ready \in 0..ds[k].desired
  PROVE  /\ Total(ds, "ready") \in Nat /\ Total(ds, "desired") \in Nat
         /\ Total(ds, "ready") < Total(ds, "desired") <=> \E k \in DOMAIN ds : ds[k].ready < ds[k].desired
         /\ Total(ds, "desired") = 0 <=> \A k \in DOMAIN ds : ds[k].desired = 0
<1>1. PICK N : N = Len(ds) /\ N \in Nat /\ DOMAIN ds = 1..N
  BY DEF IsList
<1>2. \A k \in 1..N : ds[k]["desired"] \in Nat /\ ds[k]["ready"] \in Nat /\ ds[k]["ready"] <= ds[k]["desired"]
  BY <1>1
<1>3. PICK f : Totals(f, ds, "ready") /\ Total(ds, "ready") = f[N]
  BY <1>1, <1>2, TotalIsLast
<1>4. PICK g : Totals(g, ds, "desired") /\ Total(ds, "desired") = g[N]
  BY <1>1, <1>2, TotalIsLast
<1>5. f[0] = 0 /\ \A n \in 1..N : f[n] = f[n - 1] + ds[n]["ready"]
  BY <1>1, <1>3 DEF Totals
<1>6. g[0] = 0 /\ \A n \in 1..N : g[n] = g[n - 1] + ds[n]["desired"]
  BY <1>1, <1>4 DEF Totals
<1> DEFINE Good(n) == /\ f[n] \in Nat /\ g[n] \in Nat /\ f[n] <= g[n]
                      /\ f[n] < g[n] <=> \E k \in 1..n : ds[k]["ready"] < ds[k]["desired"]
                      /\ g[n] = 0 <=> \A k \in 1..n : ds[k]["desired"] = 0
<1>7. PICK T : T = {n \in Nat : n <= N => Good(n)}
  OBVIOUS
<1>8. Good(0)
  BY <1>5, <1>6
<1>9. ASSUME NEW n \in Nat, n + 1 <= N, Good(n) PROVE Good(n + 1)
  <2>1. PICK r \in Nat, d \in Nat : r = ds[n + 1]["ready"] /\ d = ds[n + 1]["desired"] /\ r <= d
    BY <1>1, <1>2, <1>9
  <2>2. f[n + 1] = f[n] + r /\ g[n + 1] = g[n] + d
    <3>1. n + 1 \in 1..N /\ (n + 1) - 1 = n
      BY <1>1, <1>9
    <3> QED
      BY <1>5, <1>6, <2>1, <3>1
  <2>3. f[n + 1] \in Nat /\ g[n + 1] \in Nat /\ f[n + 1] <= g[n + 1]
    BY <1>9, <2>1, <2>2
  <2>4. f[n + 1] < g[n + 1] <=> f[n] < g[n] \/ r < d
    BY <1>9, <2>1, <2>2
  <2>5. g[n + 1] = 0 <=> g[n] = 0 /\ d = 0
    BY <1>9, <2>1, <2>2
  <2>6. 1..(n + 1) = 1..n \cup {n + 1}
    OBVIOUS
  <2>7. (\E k \in 1..(n + 1) : ds[k]["ready"] < ds[k]["desired"])
          <=> (\E k \in 1..n : ds[k]["ready"] < ds[k]["desired"]) \/ r < d
    BY <2>1, <2>6
  <2>8. (\A k \in 1..(n + 1) : ds[k]["desired"] = 0) <=> (\A k \in 1..n : ds[k]["desired"] = 0) /\ d = 0
    BY <2>1, <2>6
  <2> QED
    BY <1>9, <2>3, <2>4, <2>5, <2>7, <2>8
<1> HIDE DEF Good
<1>10. 0 \in T /\ \A n \in Nat : n \in T => n + 1 \in T
  BY <1>1, <1>7, <1>8, <1>9
<1>11. Good(N)
  BY <1>1, <1>7, <1>10, SetInduction
<1>12. /\ f[N] \in Nat /\ g[N] \in Nat
       /\ f[N] < g[N] <=> \E k \in 1..N : ds[k]["ready"] < ds[k]["desired"]
       /\ g[N] = 0 <=> \A k \in 1..N : ds[k]["desired"] = 0
  BY <1>11 DEF Good
<1> QED
  BY <1>1, <1>3, <1>4, <1>12

LEMMA AgentsAreTrue ==
  ASSUME WasInv, Read("directives") <=> "directives" \notin failed
  PROVE  AgentsWereTrue
<1>1. CASE ~Read("directives")
  BY <1>1 DEF AgentsWereTrue, AgentStatus, DirectiveStatuses, ErrorStatus
<1>2. CASE Read("directives")
  <2>1. PICK ds : ds = got["directives"]
    OBVIOUS
  <2>2. ds \in was["directives"] /\ ds \in Values["directives"] /\ "directives" \in DOMAIN Values
    BY <1>2, <2>1 DEF Read, WasInv
  <2>3. IsList(ds) /\ \A k \in DOMAIN ds : ds[k].desired \in Nat /\ ds[k].ready \in 0..ds[k].desired
    BY <2>2, ValuesAssumption
  <2>4. PICK r, d : r = Total(ds, "ready") /\ d = Total(ds, "desired")
    OBVIOUS
  <2>5. /\ r \in Nat /\ d \in Nat
        /\ r < d <=> \E k \in DOMAIN ds : ds[k].ready < ds[k].desired
        /\ d = 0 <=> \A k \in DOMAIN ds : ds[k].desired = 0
    BY <2>3, <2>4, SumsTell
  <2>6. DirectiveStatuses = [k \in DOMAIN ds |->
          IF ds[k].desired = 0 THEN "absent" ELSE IF ds[k].ready < ds[k].desired THEN "degraded" ELSE "ok"]
    <3>1. \A k \in DOMAIN ds : ReadyStatus(ds[k]) =
            IF ds[k].desired = 0 THEN "absent" ELSE IF ds[k].ready < ds[k].desired THEN "degraded" ELSE "ok"
      <4> TAKE k \in DOMAIN ds
      <4>1. ds[k].ready \in Nat /\ ds[k].desired \in Nat
        BY <2>3
      <4> QED
        BY <4>1, ReadyStatusIs
    <3>2. DirectiveStatuses = [k \in DOMAIN ds |-> ReadyStatus(ds[k])]
      BY <1>2, <2>1 DEF DirectiveStatuses
    <3> QED
      BY <3>1, <3>2
  <2>7. AgentStatus = IF d = 0 THEN "absent" ELSE IF r < d THEN "degraded" ELSE "ok"
    <3>1. ReadyStatus([desired |-> d, ready |-> r]) =
            IF d = 0 THEN "absent" ELSE IF r < d THEN "degraded" ELSE "ok"
      BY <2>5, ReadyStatusIs
    <3>2. CASE ds = << >>
      <4>1. DOMAIN ds = {}
        BY <3>2
      <4> QED
        BY <1>2, <2>1, <2>5, <3>2, <4>1 DEF AgentStatus
    <3>3. CASE ds # << >>
      <4>1. AgentStatus = ReadyStatus([desired |-> d, ready |-> r])
        BY <1>2, <2>1, <2>4, <3>3 DEF AgentStatus
      <4> QED
        BY <3>1, <4>1
    <3> QED
      BY <3>2, <3>3
  <2>8. AgentStatus = IF \A k \in DOMAIN ds : ds[k].desired = 0 THEN "absent"
                      ELSE IF \E k \in DOMAIN ds : ds[k].ready < ds[k].desired THEN "degraded" ELSE "ok"
    BY <2>5, <2>7
  <2> QED
    BY <1>2, <2>2, <2>6, <2>8 DEF AgentsWereTrue
<1> QED
  BY <1>1, <1>2

\* A summary counts some pods, those of a list that was read or none.
Counts(summary, pods) ==
  /\ DOMAIN summary = { NodeOf(p) : p \in pods }
  /\ \A n \in DOMAIN summary :
       /\ summary[n].total = Cardinality({ p \in pods : NodeOf(p) = n })
       /\ summary[n].ready = Cardinality({ p \in pods : NodeOf(p) = n /\ p.ready })

LEMMA SummaryCounts ==
  ASSUME WasInv, NEW x \in {"agents", "trace_pods", "race_pods"}
  PROVE  \E pods \in ListsOf(x) : IsFiniteSet(pods) /\ Counts(Summary(x), pods)
<1>1. CASE Read(x)
  <2>1. PICK pods : pods = got[x]
    OBVIOUS
  <2>2. pods \in was[x] /\ pods \in Values[x] /\ x \in DOMAIN Values
    BY <1>1, <2>1 DEF Read, WasInv
  <2>3. IsFiniteSet(pods)
    BY <2>2, ValuesAssumption
  <2>4. Counts(ByNode(pods), pods)
    BY DEF Counts, ByNode
  <2>5. Summary(x) = ByNode(pods) /\ ListsOf(x) = was[x]
    BY <1>1, <2>1 DEF Summary, ListsOf
  <2> QED
    BY <2>2, <2>3, <2>4, <2>5
<1>2. CASE ~Read(x)
  <2>1. Summary(x) = << >> /\ ListsOf(x) = {{}}
    BY <1>2 DEF Summary, ListsOf
  <2>2. DOMAIN Summary(x) = {}
    BY <2>1
  <2>3. Counts(Summary(x), {})
    BY <2>2 DEF Counts
  <2> QED
    BY <2>1, <2>3, FS_EmptySet
<1> QED
  BY <1>1, <1>2

LEMMA NodeCount ==
  ASSUME NEW pods, IsFiniteSet(pods), NEW s, Counts(s, pods), NEW n
  PROVE  /\ Cardinality({ p \in pods : NodeOf(p) = n }) \in Nat
         /\ Cardinality({ p \in pods : NodeOf(p) = n /\ p.ready }) \in Nat
         /\ n \notin DOMAIN s => /\ Cardinality({ p \in pods : NodeOf(p) = n }) = 0
                                 /\ Cardinality({ p \in pods : NodeOf(p) = n /\ p.ready }) = 0
<1>1. PICK A, B : A = { p \in pods : NodeOf(p) = n } /\ B = { p \in pods : NodeOf(p) = n /\ p.ready }
  OBVIOUS
<1>2. IsFiniteSet(A) /\ IsFiniteSet(B)
  <2>1. A \in SUBSET pods /\ B \in SUBSET pods
    BY <1>1
  <2> QED
    BY <2>1, FS_Subset
<1>3. Cardinality(A) \in Nat /\ Cardinality(B) \in Nat
  BY <1>2, FS_CardinalityType
<1>4. n \notin DOMAIN s => A = {} /\ B = {}
  BY <1>1 DEF Counts
<1>5. n \notin DOMAIN s => Cardinality(A) = 0 /\ Cardinality(B) = 0
  BY <1>4, FS_EmptySet
<1> QED
  BY <1>1, <1>3, <1>5

LEMMA AgentPodsAddUp ==
  ASSUME WasInv, query.rpc = "EoBHealth"
  PROVE  \E a \in ListsOf("agents") : PodsAddUp(a, {})
<1>1. PICK a \in ListsOf("agents") : IsFiniteSet(a) /\ Counts(Summary("agents"), a)
  BY SummaryCounts
<1>2. PICK s : s = AgentsPerNode
  OBVIOUS
<1>3. Counts(s, a)
  BY <1>1, <1>2 DEF AgentsPerNode
<1>4. ASSUME NEW n \in DOMAIN s
      PROVE  /\ s[n].total = Cardinality({ p \in a : NodeOf(p) = n })
                               + Cardinality({ p \in {} : NodeOf(p) = n })
             /\ s[n].ready = Cardinality({ p \in a : NodeOf(p) = n /\ p.ready })
                               + Cardinality({ p \in {} : NodeOf(p) = n /\ p.ready })
  <2>1. { p \in {} : NodeOf(p) = n } = {} /\ { p \in {} : NodeOf(p) = n /\ p.ready } = {}
    OBVIOUS
  <2>2. PICK t, r : /\ t = Cardinality({ p \in a : NodeOf(p) = n })
                    /\ r = Cardinality({ p \in a : NodeOf(p) = n /\ p.ready })
    OBVIOUS
  <2>3. t \in Nat /\ r \in Nat
    BY <1>1, <1>3, <2>2, NodeCount
  <2>4. t + 0 = t /\ r + 0 = r
    BY <2>3
  <2>5. s[n].total = t /\ s[n].ready = r
    BY <1>3, <2>2 DEF Counts
  <2> QED
    BY <2>1, <2>2, <2>4, <2>5, FS_EmptySet
<1>5. DOMAIN s = { NodeOf(p) : p \in a } \cup { NodeOf(p) : p \in {} }
  BY <1>3 DEF Counts
<1>6. PodsAddUp(a, {})
  BY <1>2, <1>4, <1>5 DEF PodsAddUp
<1> QED
  BY <1>6

LEMMA TracePodsAddUp ==
  ASSUME WasInv, query.rpc = "TraceHealth"
  PROVE  \E a \in ListsOf("trace_pods"), b \in ListsOf("race_pods") : PodsAddUp(a, b)
<1>1. PICK s, t : s = Summary("trace_pods") /\ t = Summary("race_pods")
  OBVIOUS
<1>2. AgentsPerNode = MergeNodeSummaries(s, t)
  BY <1>1 DEF AgentsPerNode
<1>3. PICK a \in ListsOf("trace_pods") : IsFiniteSet(a) /\ Counts(s, a)
  BY <1>1, SummaryCounts
<1>4. PICK b \in ListsOf("race_pods") : IsFiniteSet(b) /\ Counts(t, b)
  BY <1>1, SummaryCounts
<1>5. DOMAIN AgentsPerNode = DOMAIN s \cup DOMAIN t
  BY <1>2 DEF MergeNodeSummaries
<1>6. ASSUME NEW n \in DOMAIN AgentsPerNode
      PROVE  /\ AgentsPerNode[n].total = Cardinality({ p \in a : NodeOf(p) = n })
                                           + Cardinality({ p \in b : NodeOf(p) = n })
             /\ AgentsPerNode[n].ready = Cardinality({ p \in a : NodeOf(p) = n /\ p.ready })
                                           + Cardinality({ p \in b : NodeOf(p) = n /\ p.ready })
  <2>1. /\ AgentsPerNode[n].total = (IF n \in DOMAIN s THEN s[n]["total"] ELSE 0)
                                      + (IF n \in DOMAIN t THEN t[n]["total"] ELSE 0)
        /\ AgentsPerNode[n].ready = (IF n \in DOMAIN s THEN s[n]["ready"] ELSE 0)
                                      + (IF n \in DOMAIN t THEN t[n]["ready"] ELSE 0)
    BY <1>2, <1>5 DEF MergeNodeSummaries
  <2>2. /\ n \notin DOMAIN s => /\ Cardinality({ p \in a : NodeOf(p) = n }) = 0
                                /\ Cardinality({ p \in a : NodeOf(p) = n /\ p.ready }) = 0
        /\ n \notin DOMAIN t => /\ Cardinality({ p \in b : NodeOf(p) = n }) = 0
                                /\ Cardinality({ p \in b : NodeOf(p) = n /\ p.ready }) = 0
    BY <1>3, <1>4, NodeCount
  <2>3. /\ n \in DOMAIN s => /\ s[n].total = Cardinality({ p \in a : NodeOf(p) = n })
                             /\ s[n].ready = Cardinality({ p \in a : NodeOf(p) = n /\ p.ready })
        /\ n \in DOMAIN t => /\ t[n].total = Cardinality({ p \in b : NodeOf(p) = n })
                             /\ t[n].ready = Cardinality({ p \in b : NodeOf(p) = n /\ p.ready })
    BY <1>3, <1>4 DEF Counts
  <2> QED
    BY <2>1, <2>2, <2>3
<1>7. DOMAIN AgentsPerNode = { NodeOf(p) : p \in a } \cup { NodeOf(p) : p \in b }
  BY <1>3, <1>4, <1>5 DEF Counts
<1>8. PodsAddUp(a, b)
  BY <1>6, <1>7 DEF PodsAddUp
<1> QED
  BY <1>8

LEMMA FirstIndex ==
  ASSUME NEW n \in Nat, NEW ks \in SUBSET (1..n), ks # {}
  PROVE  Min(ks) \in ks /\ \A j \in ks : Min(ks) <= j
<1>1. PICK R : R = OpToRel(<, Nat)
  OBVIOUS
<1>2. IsWellFoundedOn(R, Nat)
  BY <1>1, NatLessThanWellFounded
<1>a. ks \subseteq Nat
  OBVIOUS
<1>b. \E k \in ks : TRUE
  OBVIOUS
<1>3. PICK k \in ks : \A j \in ks : ~(<<j, k>> \in R)
  BY <1>2, <1>a, <1>b, WFMin
<1>4. ASSUME NEW j \in ks PROVE k <= j
  <2>1. \A a, b \in Nat : a < b => <<a, b>> \in R
    BY <1>1 DEF OpToRel
  <2>2. j \in Nat /\ k \in Nat
    BY <1>a, <1>3
  <2>3. ~(j < k)
    BY <1>3, <2>1, <2>2
  <2> QED
    BY <2>2, <2>3
<1>5. ks \subseteq Int
  BY <1>a
<1> QED
  BY <1>3, <1>4, <1>5 DEF Min

NoVersion(none) == none = ""

\* The label, a tag of the manager's image or of the first one, or none.
OneVersion(v, version, none) ==
  IF v.label # none THEN version = v.label
  ELSE \/ v.containers = << >> /\ version = none
       \/ \E k \in DOMAIN v.containers :
            (k = 1 \/ v.containers[k].name = "manager") /\ version = v.containers[k].tag

LEMMA VersionIsOne ==
  ASSUME NEW v, IsList(v.containers), NEW none, NoVersion(none)
  PROVE  OneVersion(v, VersionOf(v), none)
<1>1. PICK c, ms : /\ c = v.containers
                   /\ ms = { k \in DOMAIN c : c[k].name = "manager" }
  OBVIOUS
<1>2. PICK n : n \in Nat /\ n = Len(c) /\ DOMAIN c = 1..n
  BY <1>1 DEF IsList
<1>3. ms # {} => Min(ms) \in DOMAIN c /\ c[Min(ms)].name = "manager"
  BY <1>1, <1>2, FirstIndex
<1>4. c # << >> => 1 \in DOMAIN c
  <2>1. c = [k \in 1..n |-> c[k]]
    BY <1>1, <1>2 DEF IsList
  <2>2. PICK V : V = { c[k] : k \in 1..n }
    OBVIOUS
  <2>3. \A k \in 1..n : c[k] \in V
    BY <2>2
  <2>4. c \in Seq(V)
    <3>1. c \in [1..n -> V]
      BY <2>1, <2>3
    <3> QED
      BY <1>2, <3>1, SeqDef
  <2>5. CASE n = 0
    BY <1>2, <2>4, <2>5, EmptySeq
  <2>6. CASE n # 0
    <3>1. 1 \in 1..n
      BY <1>2, <2>6
    <3> QED
      BY <1>2, <3>1
  <2> QED
    BY <2>5, <2>6
<1>5. \/ v.label # none /\ VersionOf(v) = v.label
      \/ v.label = none /\ ms # {} /\ VersionOf(v) = c[Min(ms)].tag
      \/ v.label = none /\ VersionOf(v) = IF c = << >> THEN none ELSE c[1].tag
  BY Zenon, <1>1 DEF VersionOf, NoVersion
<1> QED
  BY <1>1, <1>3, <1>4, <1>5 DEF OneVersion

LEMMA VersionIsTrue ==
  ASSUME WasInv, Read("operator")
  PROVE  VersionWasTrue
<1>1. PICK v : v = got["operator"]
  OBVIOUS
<1>2. v \in was["operator"] /\ v \in Values["operator"]
  BY <1>1 DEF Read, WasInv
<1>3. PICK none : NoVersion(none)
  BY DEF NoVersion
<1>4. CASE v = Absent
  <2>1. EobVersion = ""
    BY <1>1, <1>4 DEF EobVersion
  <2> QED
    BY Zenon, <1>2, <1>4, <2>1 DEF VersionWasTrue
<1>5. CASE v # Absent
  <2>1. IsList(v.containers)
    BY <1>2, <1>5, ValuesAssumption
  <2>2. OneVersion(v, VersionOf(v), none)
    BY <1>3, <2>1, VersionIsOne
  <2>3. EobVersion = VersionOf(v)
    BY <1>1, <1>5 DEF EobVersion
  <2>4. OneVersion(v, EobVersion, none)
    BY <2>2, <2>3
  <2> QED
    BY Zenon, <1>2, <1>3, <1>5, <2>4 DEF VersionWasTrue, OneVersion, NoVersion
<1> QED
  BY <1>4, <1>5

LEMMA EoBHealthIsTrue ==
  ASSUME WasInv, AskedInv, pc = "answered", query.rpc = "EoBHealth", "kube" \in wired
  PROVE  /\ \A x \in {"operator", "dashboard", "streamstore", "webhook"} : StatusWasTrue(x)
         /\ AgentsWereTrue
         /\ \E a \in ListsOf("agents") : PodsAddUp(a, {})
<1>1. \A x \in {"operator", "dashboard", "streamstore", "webhook", "directives"} :
        Read(x) <=> x \notin failed
  <2> TAKE x \in {"operator", "dashboard", "streamstore", "webhook", "directives"}
  <2>1. PlanHas(Plan(query.rpc), x) /\ x \notin PodLists /\ query.rpc \in HealthRpcs
    BY HealthPlans DEF PodLists, HealthRpcs
  <2>2. Backend(x) = "kube"
    BY DEF Backend
  <2> QED
    BY <2>1, <2>2, Settled
<1>2. \A x \in {"operator", "dashboard", "streamstore", "webhook"} : StatusWasTrue(x)
  BY <1>1, StatusIsTrue DEF Workloads
<1> QED
  BY <1>1, <1>2, AgentsAreTrue, AgentPodsAddUp

LEMMA TraceHealthIsTrue ==
  ASSUME WasInv, AskedInv, pc = "answered", query.rpc = "TraceHealth", "kube" \in wired
  PROVE  /\ \A x \in {"trace_agent", "race_agent"} : StatusWasTrue(x)
         /\ \E a \in ListsOf("trace_pods"), b \in ListsOf("race_pods") : PodsAddUp(a, b)
<1>1. \A x \in {"trace_agent", "race_agent"} : Read(x) <=> x \notin failed
  <2> TAKE x \in {"trace_agent", "race_agent"}
  <2>1. PlanHas(Plan(query.rpc), x) /\ x \notin PodLists /\ query.rpc \in HealthRpcs
    BY HealthPlans DEF PodLists, HealthRpcs
  <2>2. Backend(x) = "kube"
    BY DEF Backend
  <2> QED
    BY <2>1, <2>2, Settled
<1>2. \A x \in {"trace_agent", "race_agent"} : StatusWasTrue(x)
  BY <1>1, StatusIsTrue DEF Workloads
<1> QED
  BY <1>2, TracePodsAddUp

LEMMA IdentityIsTrue ==
  ASSUME WasInv, AskedInv, pc = "answered", query.rpc \in {"ClusterIdentity", "Heartbeat"}
  PROVE  /\ query.rpc = "ClusterIdentity" =>
              IF Unanswered("version") THEN K8SVersion = "" ELSE K8SVersion \in was["version"]
         /\ IF Unanswered("operator") THEN EobVersion = "" ELSE VersionWasTrue
<1>1. \A x \in {"version", "operator"} : Read(x) <=> ~Unanswered(x)
  <2> TAKE x \in {"version", "operator"}
  <2>1. PlanHas(Plan(query.rpc), x) /\ x \notin PodLists /\ query.rpc \in HealthRpcs
    BY HealthPlans DEF PodLists, HealthRpcs
  <2> QED
    BY <2>1, Settled
<1>2. Read("version") => got["version"] \in was["version"]
  BY DEF Read, WasInv
<1>3. IF Unanswered("version") THEN K8SVersion = "" ELSE K8SVersion \in was["version"]
  BY Zenon, <1>1, <1>2 DEF K8SVersion
<1>4. IF Unanswered("operator") THEN EobVersion = "" ELSE VersionWasTrue
  BY Zenon, <1>1, VersionIsTrue DEF EobVersion
<1> QED
  BY <1>3, <1>4

LEMMA HeartbeatIsTrue ==
  ASSUME WasInv, AskedInv, pc = "answered", query.rpc = "Heartbeat"
  PROVE  /\ KubeReachable <=> ~Unanswered("version")
         /\ IF Unanswered("directives") THEN DirectiveCount = 0
            ELSE \E ds \in was["directives"] : DirectiveCount = Len(ds)
         /\ StreamsReachable <=> ~Unanswered("streams")
         /\ IF Unanswered("streams") THEN StreamCount = 0 ELSE StreamCount \in was["streams"]
<1>1. \A x \in {"version", "directives", "streams"} : Read(x) <=> ~Unanswered(x)
  <2> TAKE x \in {"version", "directives", "streams"}
  <2>1. PlanHas(Plan(query.rpc), x) /\ x \notin PodLists /\ query.rpc \in HealthRpcs
    BY HealthPlans DEF PodLists, HealthRpcs
  <2> QED
    BY <2>1, Settled
<1>2. \A x \in {"directives", "streams"} : Read(x) => got[x] \in was[x]
  BY DEF Read, WasInv
<1> QED
  BY <1>1, <1>2 DEF KubeReachable, DirectiveCount, StreamsReachable, StreamCount

\* What a health or identity response says was so during the call, and what it
\* says for want of an answer it says only of calls that failed or were not made.
THEOREM AnswersAreTrue == Spec => []AnswersWereTrue
<1>1. WasInv /\ AskedInv => AnswersWereTrue
  <2> SUFFICES ASSUME WasInv, AskedInv, pc = "answered" PROVE AnswersWereTrue
    BY DEF AnswersWereTrue
  <2> QED
    BY EoBHealthIsTrue, TraceHealthIsTrue, IdentityIsTrue, HeartbeatIsTrue DEF AnswersWereTrue
<1>2. Init => TimesInv /\ WasInv /\ AskedInv
  BY TimesInvInit, WasInvInit, AskedInvInit
<1>3. TimesInv /\ WasInv /\ AskedInv /\ [Next]_vars => (TimesInv /\ WasInv /\ AskedInv)'
  BY TimesInvStep, WasInvStep, AskedInvStep
<1> QED
  BY <1>1, <1>2, <1>3, PTL DEF Spec

-----------------------------------------------------------------------------
(* The store and its versions *)

Entries == [obj : Objects, type : {"ADDED", "MODIFIED", "DELETED"}]

\* What a log l says of o at version v.
Version(l, v, o) ==
  LET ns == {n \in 1..v : l[n].obj = o}
  IN  IF ns = {} THEN 0 ELSE IF l[Max(ns)].type = "DELETED" THEN 0 ELSE Max(ns)

LEMMA AtIsVersion ==
  ASSUME NEW v, NEW o \in Objects
  PROVE  Resources!At(v)[o] = Version(log, v, o)
<1>1. \A ks : Resources!Max(ks) = Max(ks)
  BY DEF Max, Resources!Max
<1> QED
  BY <1>1 DEF Resources!At, Version

LEMMA VersionBound ==
  ASSUME NEW l, NEW v \in Nat, NEW o
  PROVE  Version(l, v, o) \in 0..v
<1>1. PICK ns : ns = {n \in 1..v : l[n].obj = o}
  OBVIOUS
<1>2. ns \in SUBSET (1..v)
  BY <1>1
<1>3. ns # {} => Max(ns) \in 1..v
  BY <1>2, LastIndex
<1> QED
  BY <1>1, <1>3 DEF Version

\* The past of a log does not change.
LEMMA VersionKept ==
  ASSUME NEW l \in Seq(Entries), NEW e, NEW v \in 0..Len(l), NEW o
  PROVE  Version(Append(l, e), v, o) = Version(l, v, o)
<1>1. \A n \in 1..v : Append(l, e)[n] = l[n]
  OBVIOUS
<1>2. PICK ns : ns = {n \in 1..v : l[n].obj = o}
  OBVIOUS
<1>3. ns = {n \in 1..v : Append(l, e)[n].obj = o}
  BY <1>1, <1>2
<1>a. ns \in SUBSET (1..v) /\ v \in Nat
  BY <1>2
<1>4. ns # {} => Max(ns) \in 1..v
  BY <1>a, LastIndex
<1> QED
  BY <1>1, <1>2, <1>3, <1>4 DEF Version

\* An object stays as it was while nothing changes it.
LEMMA VersionStays ==
  ASSUME NEW l, NEW v \in Nat, NEW w \in Nat, v <= w, NEW o,
         \A n \in v + 1 .. w : l[n].obj # o
  PROVE  Version(l, w, o) = Version(l, v, o)
<1>1. {n \in 1..w : l[n].obj = o} = {n \in 1..v : l[n].obj = o}
  OBVIOUS
<1> QED
  BY <1>1 DEF Version

LEMMA VersionOfChange ==
  ASSUME NEW l, NEW v \in Nat \ {0}
  PROVE  Version(l, v, l[v].obj) = IF l[v].type = "DELETED" THEN 0 ELSE v
<1>1. PICK ns : ns = {n \in 1..v : l[n].obj = l[v].obj}
  OBVIOUS
<1>2. v \in ns /\ ns \in SUBSET (1..v)
  BY <1>1
<1>3. PICK x : x = Max(ns)
  OBVIOUS
<1>4. \A n \in ns : n \in 1..v
  BY <1>2
<1>5. \E n \in ns : \A k \in ns : n >= k
  BY <1>2, <1>4
<1>6. x \in ns /\ \A k \in ns : x >= k
  BY <1>3, <1>5 DEF Max
<1>7. Max(ns) = v
  BY <1>2, <1>3, <1>4, <1>6
<1> QED
  BY <1>1, <1>2, <1>7 DEF Version

-----------------------------------------------------------------------------
(* List, get and schema *)

EachNamed(vs) == \A i \in DOMAIN vs : vs[i].name # ""

LEMMA PickedStored ==
  ASSUME NEW vs, IsList(vs), EachNamed(vs),
         \A i, j \in DOMAIN vs : vs[i].storage /\ vs[j].storage => i = j,
         NEW s \in DOMAIN vs, vs[s].storage, vs[s].schema
  PROVE  Resources!Picked(vs) = vs[s].name
<1>1. PICK N : N = Len(vs)
  OBVIOUS
<1>a. PICK none : none = ""
  OBVIOUS
<1>2. N \in Nat /\ DOMAIN vs = 1..N /\ s \in 1..N
  BY <1>1 DEF IsList
<1>3. PICK S : S = {none} \cup {vs[i].name : i \in 1..N}
  OBVIOUS
<1> DEFINE Choice(k, x) == IF vs[k].schema /\ (x = none \/ vs[k].storage) THEN vs[k].name ELSE x
<1>4. PICK step : step = [k \in 1..N |-> [x \in S |-> Choice(k, x)]]
  OBVIOUS
<1>5. step \in [1..N -> [S -> S]]
  BY <1>3, <1>4
<1>6. PICK f \in [0..N -> S] : Recursive(f, N, none, step)
  BY <1>2, <1>3, <1>5, RecursiveFunction
<1> DEFINE Loop(g) == g = [k \in 0..N |-> IF k = 0 THEN none ELSE Choice(k, g[k - 1])]
<1>7. \A g \in [0..N -> S] : Recursive(g, N, none, step) => Loop(g)
  <2> SUFFICES ASSUME NEW g \in [0..N -> S], Recursive(g, N, none, step) PROVE Loop(g)
    OBVIOUS
  <2>1. \A k \in 1..N : step[k][g[k - 1]] = Choice(k, g[k - 1])
    <3>1. \A k \in 1..N : g[k - 1] \in S
      BY <1>2
    <3> QED
      BY <1>4, <3>1
  <2> QED
    BY <1>2, <2>1 DEF Recursive
<1>8. \E g : Loop(g)
  BY <1>6, <1>7
<1>9. Resources!Picked(vs) = (CHOOSE g : Loop(g))[N]
  BY Zenon, <1>1, <1>a DEF Resources!Picked, Resources!Pick
<1>10. PICK g : g = (CHOOSE h : Loop(h)) /\ Loop(g)
  <2> HIDE DEF Loop
  <2> QED
    BY <1>8
<1>11. ASSUME NEW k \in Nat, k + 1 \in 1..N
       PROVE  g[k + 1] = Choice(k + 1, g[k])
  <2>1. k + 1 \in 0..N /\ k + 1 # 0 /\ (k + 1) - 1 = k
    BY <1>2, <1>11
  <2>2. g[k + 1] = Choice(k + 1, g[(k + 1) - 1])
    <3>1. \A n \in 0..N : n # 0 => g[n] = Choice(n, g[n - 1])
      BY <1>10
    <3> QED
      BY <2>1, <3>1
  <2> QED
    BY <2>1, <2>2
<1>12. \A k \in 1..N : vs[k].name # none
  BY Zenon, <1>a, <1>2 DEF EachNamed
<1> DEFINE T == {k \in Nat : k \in s..N => g[k] = vs[s].name}
<1>13. 0 \in T
  BY <1>2
<1>14. ASSUME NEW k \in Nat, k \in T PROVE k + 1 \in T
  <2> SUFFICES ASSUME k + 1 \in s..N PROVE g[k + 1] = vs[s].name
    OBVIOUS
  <2>1. k + 1 \in 1..N /\ g[k + 1] = Choice(k + 1, g[k])
    BY <1>2, <1>11
  <2>2. CASE k + 1 = s
    BY <2>1, <2>2
  <2>3. CASE k + 1 # s
    <3>1. k \in s..N /\ g[k] = vs[s].name
      BY <1>2, <1>14, <2>3
    <3>2. ~vs[k + 1].storage
      BY <1>2, <2>1, <2>3
    <3> QED
      BY <1>2, <1>12, <2>1, <3>1, <3>2
  <2> QED
    BY <2>2, <2>3
<1>15. N \in T
  <2> HIDE DEF T
  <2> QED
    BY <1>2, <1>13, <1>14, SetInduction
<1> QED
  BY <1>2, <1>9, <1>10, <1>15

NoGroup(group) == group = ""
NoNamespace(ns) == ns = ""

\* What ResourceList could show, and what ResourceGet and ResourceSchema find.
Listable(o) == o \in Objects /\ <<o.group, o.kind>> \in DOMAIN Namespaced /\ ~NoGroup(o.group)
FoundAt(l, v, r) == {o \in Objects : Version(l, v, o) # 0 /\ Resources!Named(r, o)}
SchemaOf(r, found) ==
  /\ Resources!Key(r) \in DOMAIN CRDs
  /\ \A name : name = Resources!Picked(CRDs[Resources!Key(r)]) /\ ~NoGroup(name) => found = {name}

AnswersInv ==
  /\ log \in Seq(Entries)
  /\ installed \subseteq DOMAIN CRDs
  /\ listed.at \in 0..Len(log) /\ read.at \in 0..Len(log)
  /\ \A o \in listed.items : Listable(o) /\ Version(log, listed.at, o) # 0
  /\ read.op = "get" => read.found = FoundAt(log, read.at, read.req)
  /\ read.op = "schema" => SchemaOf(read.req, read.found)

LEMMA GroupNamed ==
  ASSUME NEW r
  PROVE  /\ ~NoGroup(Resources!Group(r))
         /\ ~NoGroup(r.group) => Resources!Group(r) = r.group
BY Zenon, ResourcesAssumption DEF Resources!Group, NoGroup

\* Only one listed object has the name and namespace that a list gives.
LEMMA OnlyItself ==
  ASSUME NEW o, Listable(o), NEW p \in Objects,
         NEW r, r = [group |-> o.group, kind |-> o.kind, ns |-> o.ns, name |-> o.name]
  PROVE  Resources!Named(r, p) <=> p = o
<1>1. Resources!Key(r) = <<o.group, o.kind>>
  BY GroupNamed DEF Listable, Resources!Key
<1>2. /\ p = [group |-> p.group, kind |-> p.kind, ns |-> p.ns, name |-> p.name]
      /\ o = [group |-> o.group, kind |-> o.kind, ns |-> o.ns, name |-> o.name]
  BY ResourcesAssumption DEF Listable
<1>3. \A q \in Objects : <<q.group, q.kind>> = <<o.group, o.kind>>
        => Namespaced[<<o.group, o.kind>>] \/ NoNamespace(q.ns)
  <2> TAKE q \in Objects
  <2>1. <<q.group, q.kind>> \in DOMAIN Namespaced => Namespaced[<<q.group, q.kind>>] \/ NoNamespace(q.ns)
    BY Zenon, ResourcesAssumption DEF NoNamespace
  <2> QED
    BY Zenon, <2>1 DEF Listable
<1>4. Resources!Named(r, p) <=>
        /\ p.group = o.group /\ p.kind = o.kind /\ p.name = o.name
        /\ Namespaced[<<o.group, o.kind>>] => p.ns = o.ns
  BY <1>1 DEF Resources!Named, Resources!OfKind
<1>5. NoNamespace(o.ns) /\ NoNamespace(p.ns) => o.ns = p.ns
  BY Zenon DEF NoNamespace
<1> QED
  BY <1>2, <1>3, <1>4, <1>5 DEF Listable

LEMMA AnswersInvTrue == AnswersInv => ReadsAreTrue
<1> SUFFICES ASSUME AnswersInv PROVE Resources!ReadsAreTrue
  BY DEF ReadsAreTrue
<1>1. ASSUME read.op = "get", read.at = listed.at, NEW o \in listed.items,
             [group |-> o.group, kind |-> o.kind, ns |-> o.ns, name |-> o.name] = read.req
      PROVE  read.found = {o}
  <2>1. PICK r, v, l : r = read.req /\ v = listed.at /\ l = log
    OBVIOUS
  <2>2. Listable(o) /\ o \in Objects /\ Version(l, v, o) # 0 /\ read.found = FoundAt(l, v, r)
    BY <1>1, <2>1 DEF AnswersInv, Listable
  <2>3. \A p \in Objects : Resources!Named(r, p) <=> p = o
    BY <1>1, <2>1, <2>2, OnlyItself
  <2> QED
    BY <2>2, <2>3 DEF FoundAt
<1>2. ASSUME read.op = "schema", NEW i \in DOMAIN CRDs[Resources!Key(read.req)],
             CRDs[Resources!Key(read.req)][i].storage, CRDs[Resources!Key(read.req)][i].schema
      PROVE  read.found = {CRDs[Resources!Key(read.req)][i].name}
  <2>1. PICK k, c : k = Resources!Key(read.req) /\ c = CRDs[k]
    OBVIOUS
  <2>2. k \in DOMAIN CRDs
    BY <1>2, <2>1 DEF AnswersInv, SchemaOf
  <2>3. /\ IsList(c) /\ EachNamed(c)
        /\ \A m, n \in DOMAIN c : c[m].storage /\ c[n].storage => m = n
    BY Zenon, <2>1, <2>2, ResourcesAssumption DEF EachNamed
  <2>4. i \in DOMAIN c /\ c[i].storage /\ c[i].schema
    BY <1>2, <2>1
  <2>5. Resources!Picked(c) = c[i].name
    BY <2>3, <2>4, PickedStored
  <2>6. ~NoGroup(c[i].name)
    BY Zenon, <2>3, <2>4 DEF EachNamed, NoGroup
  <2>7. read.found = {c[i].name}
    BY <1>2, <2>1, <2>5, <2>6 DEF AnswersInv, SchemaOf
  <2> QED
    BY <2>1, <2>7
<1> QED
  BY <1>1, <1>2 DEF Resources!ReadsAreTrue

LEMMA AnswersInvInit == Resources!Init => AnswersInv
<1> SUFFICES ASSUME Resources!Init PROVE AnswersInv
  OBVIOUS
<1>1. /\ log = << >> /\ installed = DOMAIN Namespaced \cap DOMAIN CRDs
      /\ listed = [at |-> 0, items |-> {}] /\ read.op = "none" /\ read.at = 0
  BY DEF Resources!Init
<1>2. log \in Seq(Entries) /\ Len(log) = 0
  BY <1>1
<1> QED
  BY <1>1, <1>2 DEF AnswersInv

LEMMA AnswersInvStep == AnswersInv /\ [Resources!Next]_resourceVars => AnswersInv'
<1> SUFFICES ASSUME AnswersInv, [Resources!Next]_resourceVars PROVE AnswersInv'
  OBVIOUS
<1>1. ASSUME NEW o \in Objects, NEW removed \in BOOLEAN, Resources!Change(o, removed)
      PROVE  AnswersInv'
  <2>1. PICK e : e = [obj |-> o, type |-> IF removed THEN "DELETED"
                                          ELSE IF Resources!Now[o] = 0 THEN "ADDED" ELSE "MODIFIED"]
    OBVIOUS
  <2>2. e \in Entries
    BY <2>1 DEF Entries
  <2>3. PICK l, g : l = log /\ g = log'
    OBVIOUS
  <2>4. l \in Seq(Entries) /\ g = Append(l, e) /\ UNCHANGED <<installed, listed, read>>
    BY <1>1, <2>1, <2>3 DEF Resources!Change, Resources!answers, AnswersInv
  <2>5. g \in Seq(Entries) /\ Len(g) = Len(l) + 1 /\ Len(l) \in Nat
    BY <2>2, <2>4
  <2>6. \A v \in 0..Len(l) : \A p : Version(g, v, p) = Version(l, v, p)
    BY <2>4, VersionKept
  <2>7. \A v \in 0..Len(l) : \A r : FoundAt(g, v, r) = FoundAt(l, v, r)
    BY <2>6 DEF FoundAt
  <2> QED
    BY <2>3, <2>4, <2>5, <2>6, <2>7 DEF AnswersInv
<1>2. ASSUME NEW r \in ReadRequests, Resources!ResourceGet(r)
      PROVE  AnswersInv'
  <2>1. PICK l : l = log
    OBVIOUS
  <2>2. \A p \in Objects : p \in Resources!Present <=> Version(l, Len(l), p) # 0
    BY <2>1, AtIsVersion DEF Resources!Present, Resources!Now
  <2>3. {p \in Resources!Present : Resources!Named(r, p)} = FoundAt(l, Len(l), r)
    BY <2>2 DEF Resources!Present, FoundAt
  <2>4. /\ read' = [op |-> "get", req |-> r, at |-> Len(l), found |-> FoundAt(l, Len(l), r)]
        /\ UNCHANGED <<log, installed, listed>>
    BY <1>2, <2>1, <2>3 DEF Resources!ResourceGet, Resources!server
  <2> QED
    BY <2>1, <2>4 DEF AnswersInv
<1>3. ASSUME NEW r \in ReadRequests, Resources!ResourceList(r)
      PROVE  AnswersInv'
  <2>1. PICK l : l = log
    OBVIOUS
  <2>2. \A p \in Objects : p \in Resources!Present <=> Version(l, Len(l), p) # 0
    BY <2>1, AtIsVersion DEF Resources!Present, Resources!Now
  <2>3. /\ listed'.at = Len(l) /\ UNCHANGED <<log, installed, read>>
        /\ listed'.items = {o \in Resources!Present : Resources!Shown(r, o)}
        /\ Resources!Key(r) \in DOMAIN Namespaced
    BY <1>3, <2>1 DEF Resources!ResourceList, Resources!server, Resources!resolveKind, Resources!ResolveGVR
  <2>4. ASSUME NEW o \in listed'.items PROVE Listable(o) /\ Version(l, Len(l), o) # 0
    <3>1. o \in Objects /\ o \in Resources!Present /\ Resources!Shown(r, o)
      BY <2>3, <2>4 DEF Resources!Present
    <3>2. <<o.group, o.kind>> = Resources!Key(r)
      BY <3>1 DEF Resources!Shown, Resources!OfKind
    <3>3. o.group = Resources!Group(r)
      BY <3>2 DEF Resources!Key
    <3> QED
      BY <2>2, <2>3, <3>1, <3>2, <3>3, GroupNamed DEF Listable
  <2> QED
    BY <2>1, <2>3, <2>4 DEF AnswersInv
<1>4. ASSUME NEW r \in ReadRequests, Resources!ResourceSchema(r)
      PROVE  AnswersInv'
  <2>1. PICK c : c = Resources!Picked(CRDs[Resources!Key(r)])
    OBVIOUS
  <2>2. PICK f : f = (IF NoGroup(c) THEN {} ELSE {c})
    OBVIOUS
  <2>3. /\ Resources!Key(r) \in installed
        /\ read' = [op |-> "schema", req |-> r, at |-> Len(log), found |-> f]
        /\ UNCHANGED <<log, installed, listed>>
    BY Zenon, <1>4, <2>1, <2>2 DEF Resources!ResourceSchema, Resources!server, NoGroup
  <2>4. SchemaOf(r, f)
    BY <2>1, <2>2, <2>3 DEF SchemaOf, AnswersInv
  <2> QED
    BY <2>3, <2>4 DEF AnswersInv
<1>5. CASE Resources!Install
  BY <1>5 DEF Resources!Install, Resources!answers, AnswersInv
<1>6. CASE UNCHANGED <<log, installed, listed, read>>
  BY <1>6 DEF AnswersInv
<1>7. Resources!Compact \/ Resources!Stream => UNCHANGED <<log, installed, listed, read>>
  BY DEF Resources!Compact, Resources!Stream, Resources!Open, Resources!SelectInitial,
         Resources!SelectChange, Resources!SelectBookmark, Resources!SelectError,
         Resources!SelectClosed, Resources!SelectCtxDone, Resources!Receive,
         Resources!server, Resources!answers
<1> QED
  BY <1>1, <1>2, <1>3, <1>4, <1>5, <1>6, <1>7
     DEF Resources!Next, Resources!Server, Resources!Reads, resourceVars

\* A get finds what a list names, and a schema is the stored version's.
THEOREM ReadsAgree == AllSpec => []ReadsAreTrue
<1>1. AllInit => AnswersInv
  BY AnswersInvInit DEF AllInit
<1>2. AnswersInv /\ [AllNext]_AllVars => AnswersInv'
  <2>1. [AllNext]_AllVars => [Resources!Next]_resourceVars
    BY DEF AllNext, AllVars, Resources!Next
  <2> QED
    BY <2>1, AnswersInvStep
<1> QED
  BY <1>1, <1>2, AnswersInvTrue, PTL DEF AllSpec

-----------------------------------------------------------------------------
(* The watch.  What the client will be once it has received what is on the *)
(* wire is a sequence of states; each of them must miss nothing, and the   *)
(* last must know where the watch stands.                                  *)

ClientStates == [view : [Objects -> Nat], resume : Nat, synced : BOOLEAN]
Messages ==
  [type : {"ADDED", "MODIFIED", "DELETED"}, obj : Objects, version : Nat, all : BOOLEAN]
    \cup [type : {"BOOKMARK", "ERROR"}, version : Nat, all : BOOLEAN]

Takes(c, m) ==
  [view |-> IF m.type \in {"BOOKMARK", "ERROR"} THEN c.view
            ELSE [c.view EXCEPT ![m.obj] = IF m.type = "DELETED" THEN 0 ELSE m.version],
   resume |-> m.version,
   synced |-> m.type # "ERROR" /\ (c.synced \/ m.all)]

ShownTo(q) == {o \in Objects : Resources!Shown(q, o)}

\* Of each object shown, c has what the log said at the version c resumes from, or later.
MissesNothing(c, l, q) ==
  /\ c.resume \in 0..Len(l)
  /\ c.synced /\ c.resume # 0 =>
       \A o \in ShownTo(q) : \E v \in c.resume .. Len(l) : c.view[o] = Version(l, v, o)

\* c has received all that the watch w has sent.
StandsAt(c, w, l) ==
  w.pc = "select" =>
    /\ w.at \in 0..Len(l)
    /\ w.fresh => /\ \A o \in ShownTo(w.req) \ w.backlog : c.view[o] = Version(l, w.at, o)
                  /\ w.backlog # {} => ~c.synced
    /\ ~w.fresh => w.backlog = {} /\ (w.expired = "no" => c.resume = w.at /\ w.at # 0)

WatchType(w) ==
  /\ w = [pc |-> w.pc, req |-> w.req, backlog |-> w.backlog, at |-> w.at, fresh |-> w.fresh,
          expired |-> w.expired]
  /\ w.fresh \in BOOLEAN
  /\ w.pc \in {"idle", "select", "returned"}

Chain(cl, l, wi, c, w) ==
  /\ cl \in [0..Len(wi) -> ClientStates]
  /\ cl[0] = c
  /\ \A k \in 1..Len(wi) : cl[k] = Takes(cl[k - 1], wi[k])
  /\ \A k \in 0..Len(wi) : MissesNothing(cl[k], l, w.req)
  /\ StandsAt(cl[Len(wi)], w, l)

WatchState(l, wi, c, w) ==
  /\ l \in Seq(Entries) /\ wi \in Seq(Messages) /\ c \in ClientStates /\ WatchType(w)
  /\ w.pc = "idle" => c.resume = 0 /\ wi = << >>
  /\ \E cl : Chain(cl, l, wi, c, w)

LEMMA TakesType ==
  ASSUME NEW c \in ClientStates, NEW m \in Messages
  PROVE  Takes(c, m) \in ClientStates
<1>1. CASE m \in [type : {"ADDED", "MODIFIED", "DELETED"}, obj : Objects, version : Nat, all : BOOLEAN]
  BY <1>1 DEF Takes, ClientStates
<1>2. CASE m \in [type : {"BOOKMARK", "ERROR"}, version : Nat, all : BOOLEAN]
  BY <1>2 DEF Takes, ClientStates
<1> QED
  BY <1>1, <1>2 DEF Messages

\* A response that is sent extends the chain.
LEMMA SentKeeps ==
  ASSUME NEW l, NEW wi, NEW c, NEW w, WatchState(l, wi, c, w), w.pc # "idle",
         NEW m \in Messages, NEW rest, WatchType(rest), rest.pc # "idle", rest.req = w.req,
         \A t \in ClientStates : MissesNothing(t, l, w.req) /\ StandsAt(t, w, l)
           => MissesNothing(Takes(t, m), l, w.req) /\ StandsAt(Takes(t, m), rest, l)
  PROVE  WatchState(l, Append(wi, m), c, rest)
<1>1. PICK cl : Chain(cl, l, wi, c, w)
  BY DEF WatchState
<1>2. PICK n : n = Len(wi) /\ n \in Nat
  BY DEF WatchState
<1>3. PICK wj : wj = Append(wi, m)
  OBVIOUS
<1>4. wj \in Seq(Messages) /\ Len(wj) = n + 1 /\ wj[n + 1] = m /\ \A k \in 1..n : wj[k] = wi[k]
  BY <1>2, <1>3 DEF WatchState
<1>5. PICK t : t = cl[n] /\ t \in ClientStates /\ MissesNothing(t, l, w.req) /\ StandsAt(t, w, l)
  BY <1>1, <1>2 DEF Chain
<1>6. PICK u : u = Takes(t, m) /\ u \in ClientStates /\ MissesNothing(u, l, w.req)
               /\ StandsAt(u, rest, l)
  BY <1>5, TakesType
<1>7. PICK cm : cm = [k \in 0..(n + 1) |-> IF k = n + 1 THEN u ELSE cl[k]]
  OBVIOUS
<1>8. \A k \in 0..n : cm[k] = cl[k] /\ cl[k] \in ClientStates
  BY <1>1, <1>2, <1>7 DEF Chain
<1>9. cm[n + 1] = u /\ cm \in [0..(n + 1) -> ClientStates]
  <2>1. cm[n + 1] = u
    BY <1>2, <1>7
  <2>2. \A k \in 0..(n + 1) : cm[k] \in ClientStates
    BY <1>2, <1>6, <1>8, <2>1
  <2> QED
    BY <1>7, <2>1, <2>2
<1>10. cm[0] = c
  BY <1>1, <1>2, <1>8 DEF Chain
<1>11. ASSUME NEW k \in 1..(n + 1) PROVE cm[k] = Takes(cm[k - 1], wj[k])
  <2>1. CASE k = n + 1
    <3>1. cm[k - 1] = t
      BY <1>2, <1>5, <1>8, <2>1
    <3> QED
      BY <1>4, <1>6, <1>9, <2>1, <3>1
  <2>2. CASE k # n + 1
    <3>1. k \in 1..n /\ k - 1 \in 0..n
      BY <1>2, <2>2
    <3> QED
      BY <1>1, <1>2, <1>4, <1>8, <3>1 DEF Chain
  <2> QED
    BY <2>1, <2>2
<1>12. \A k \in 0..(n + 1) : MissesNothing(cm[k], l, rest.req)
  BY <1>1, <1>2, <1>6, <1>8, <1>9 DEF Chain
<1>13. Chain(cm, l, wj, c, rest)
  BY <1>4, <1>6, <1>9, <1>10, <1>11, <1>12 DEF Chain
<1> QED
  BY <1>3, <1>4, <1>13 DEF WatchState

\* A stream that ends leaves the client what was sent, or what it has.
LEMMA ReturnKeeps ==
  ASSUME NEW l, NEW wi, NEW c, NEW w, WatchState(l, wi, c, w),
         NEW rest, WatchType(rest), rest.pc = "returned", rest.req = w.req
  PROVE  WatchState(l, wi, c, rest) /\ WatchState(l, << >>, c, rest)
<1>1. PICK cl : Chain(cl, l, wi, c, w)
  BY DEF WatchState
<1>2. Chain(cl, l, wi, c, rest)
  BY <1>1 DEF Chain, StandsAt
<1>3. PICK none : none = << >> /\ none \in Seq(Messages) /\ Len(none) = 0
  <2>1. << >> \in Seq(Messages) /\ Len(<< >>) = 0
    BY EmptySeq
  <2> QED
    BY Zenon, <2>1
<1>4. PICK cm : cm = [k \in 0..0 |-> c]
  OBVIOUS
<1>5. MissesNothing(c, l, rest.req) /\ c \in ClientStates
  <2>1. 0 \in 0..Len(wi)
    BY DEF WatchState
  <2> QED
    BY <1>1, <2>1 DEF Chain, WatchState
<1>6. cm \in [0..0 -> ClientStates] /\ cm[0] = c /\ \A k \in 0..0 : cm[k] = c
  BY <1>4, <1>5
<1>7. Chain(cm, l, none, c, rest)
  BY <1>3, <1>5, <1>6 DEF Chain, StandsAt
<1> QED
  BY <1>2, <1>3, <1>7 DEF WatchState

\* The store may change.
LEMMA GrowthKeeps ==
  ASSUME NEW l, NEW wi, NEW c, NEW w, WatchState(l, wi, c, w), NEW e \in Entries
  PROVE  WatchState(Append(l, e), wi, c, w)
<1>1. PICK cl : Chain(cl, l, wi, c, w)
  BY DEF WatchState
<1>2. PICK g : g = Append(l, e)
  OBVIOUS
<1>3. l \in Seq(Entries) /\ Len(l) \in Nat /\ g \in Seq(Entries) /\ Len(g) = Len(l) + 1
  BY <1>2 DEF WatchState
<1>4. \A v \in 0..Len(l) : \A o : Version(g, v, o) = Version(l, v, o)
  BY <1>2, <1>3, VersionKept
<1>5. ASSUME NEW t \in ClientStates, MissesNothing(t, l, w.req)
      PROVE  MissesNothing(t, g, w.req)
  <2> SUFFICES ASSUME t.synced /\ t.resume # 0, NEW o \in ShownTo(w.req)
               PROVE  \E v \in t.resume .. Len(g) : t.view[o] = Version(g, v, o)
    BY <1>3, <1>5 DEF MissesNothing
  <2>1. PICK v \in t.resume .. Len(l) : t.view[o] = Version(l, v, o)
    BY <1>5 DEF MissesNothing
  <2>2. t.resume \in Nat
    BY DEF ClientStates
  <2>3. v \in 0..Len(l) /\ v \in t.resume .. Len(g)
    BY <1>3, <2>1, <2>2
  <2> QED
    BY <1>4, <2>1, <2>3
<1>6. \A k \in 0..Len(wi) : MissesNothing(cl[k], g, w.req)
  BY <1>1, <1>5 DEF Chain
<1>7. StandsAt(cl[Len(wi)], w, g)
  BY <1>1, <1>3, <1>4 DEF Chain, StandsAt
<1>8. Chain(cl, g, wi, c, w)
  BY <1>1, <1>6, <1>7 DEF Chain
<1> QED
  BY <1>2, <1>3, <1>8 DEF WatchState

\* What is received was the first of the chain.
LEMMA ReceiptKeeps ==
  ASSUME NEW l, NEW wi, NEW c, NEW w, WatchState(l, wi, c, w), wi # << >>
  PROVE  WatchState(l, Tail(wi), Takes(c, Head(wi)), w)
<1>1. PICK cl : Chain(cl, l, wi, c, w)
  BY DEF WatchState
<1>2. PICK n : n = Len(wi) - 1 /\ n \in Nat /\ Len(wi) = n + 1
  BY DEF WatchState
<1>3. PICK wj : wj = Tail(wi)
  OBVIOUS
<1>4. /\ wj \in Seq(Messages) /\ Len(wj) = n /\ \A k \in 1..n : wj[k] = wi[k + 1]
      /\ Head(wi) = wi[1]
  BY <1>2, <1>3 DEF WatchState
<1>5. PICK cm : cm = [k \in 0..n |-> cl[k + 1]]
  OBVIOUS
<1>6. \A k \in 0..n : k + 1 \in 0..Len(wi) /\ k + 1 \in 1..Len(wi) /\ cm[k] = cl[k + 1]
  BY <1>2, <1>5
<1>7. cm \in [0..n -> ClientStates]
  BY <1>1, <1>5, <1>6 DEF Chain
<1>8. cm[0] = Takes(c, Head(wi)) /\ cm[0] \in ClientStates
  <2>1. cl[1] = Takes(cl[0], wi[1]) /\ cl[0] = c /\ cm[0] = cl[1]
    BY <1>1, <1>2, <1>6 DEF Chain
  <2> QED
    BY <1>2, <1>4, <1>7, <2>1
<1>9. ASSUME NEW k \in 1..n PROVE cm[k] = Takes(cm[k - 1], wj[k])
  <2>1. k - 1 \in 0..n /\ k \in 0..n /\ k + 1 \in 1..Len(wi) /\ (k - 1) + 1 = k /\ (k + 1) - 1 = k
    BY <1>2
  <2>2. cl[k + 1] = Takes(cl[k], wi[k + 1])
    BY <1>1, <2>1 DEF Chain
  <2>3. cm[k] = cl[k + 1] /\ cm[k - 1] = cl[k]
    BY <1>6, <2>1
  <2> QED
    BY <1>4, <2>2, <2>3
<1>10. \A k \in 0..n : MissesNothing(cm[k], l, w.req)
  BY <1>1, <1>6 DEF Chain
<1>11. StandsAt(cm[n], w, l)
  BY <1>1, <1>2, <1>6 DEF Chain
<1>12. Chain(cm, l, wj, Takes(c, Head(wi)), w)
  BY <1>4, <1>7, <1>8, <1>9, <1>10, <1>11 DEF Chain
<1>13. w.pc # "idle"
  BY DEF WatchState
<1> QED
  BY <1>3, <1>4, <1>8, <1>12, <1>13 DEF WatchState

LEMMA MessageTaken ==
  ASSUME NEW l \in Seq(Entries), NEW v \in 1..Len(l), NEW all \in BOOLEAN,
         NEW m, m = [type |-> l[v].type, obj |-> l[v].obj, version |-> v, all |-> all]
  PROVE  /\ m \in Messages
         /\ \A t \in ClientStates :
              /\ Takes(t, m).view[l[v].obj] = Version(l, v, l[v].obj)
              /\ \A o \in Objects \ {l[v].obj} : Takes(t, m).view[o] = t.view[o]
              /\ Takes(t, m).resume = v /\ Takes(t, m).synced = (t.synced \/ all)
<1>1. l[v] \in Entries /\ v \in Nat \ {0}
  OBVIOUS
<1>2. m \in Messages /\ m.type \notin {"BOOKMARK", "ERROR"} /\ m.obj \in Objects
  BY <1>1 DEF Messages, Entries
<1>3. Version(l, v, l[v].obj) = IF l[v].type = "DELETED" THEN 0 ELSE v
  BY <1>1, VersionOfChange
<1>4. ASSUME NEW t \in ClientStates
      PROVE  /\ Takes(t, m).view = [t.view EXCEPT ![m.obj] = IF m.type = "DELETED" THEN 0 ELSE m.version]
             /\ Takes(t, m).resume = v /\ Takes(t, m).synced = (t.synced \/ all)
             /\ t.view \in [Objects -> Nat]
  BY <1>2 DEF Takes, ClientStates
<1> QED
  BY ZenonT(60), <1>2, <1>3, <1>4

\* The next change of an object that is shown: no other was, since the watch was at a.
LEMMA ChangeSent ==
  ASSUME NEW l, NEW wi, NEW c, NEW w, WatchState(l, wi, c, w),
         w.pc = "select", w.backlog = {}, w.expired = "no",
         NEW v \in w.at + 1 .. Len(l),
         \A n \in w.at + 1 .. v - 1 : ~Resources!Shown(w.req, l[n].obj),
         NEW rest, WatchType(rest), rest.req = w.req, rest.at = v, rest.fresh = w.fresh,
         rest.backlog = {}, rest.expired = "no", rest.pc = "select",
         NEW m, m = [type |-> l[v].type, obj |-> l[v].obj, version |-> v, all |-> w.fresh]
  PROVE  WatchState(l, Append(wi, m), c, rest)
<1>1. /\ l \in Seq(Entries) /\ Len(l) \in Nat /\ w.fresh \in BOOLEAN
      /\ \E t \in ClientStates : StandsAt(t, w, l)
  BY DEF WatchState, Chain, WatchType
<1>2. PICK a : a = w.at /\ a \in 0..Len(l)
  BY <1>1 DEF StandsAt
<1>3. v \in 1..Len(l) /\ v \in Nat /\ a \in Nat /\ a < v
  BY <1>1, <1>2
<1>4. m \in Messages
  BY <1>1, <1>3, MessageTaken
<1>5. \A b \in a .. v, o \in ShownTo(w.req) \ {l[v].obj} : Version(l, v, o) = Version(l, b, o)
  <2> TAKE b \in a .. v, o \in ShownTo(w.req) \ {l[v].obj}
  <2>1. b \in Nat /\ b <= v
    BY <1>3
  <2>2. ASSUME NEW n \in b + 1 .. v PROVE l[n].obj # o
    <3>1. CASE n = v
      BY <3>1
    <3>2. CASE n # v
      <4>1. n \in w.at + 1 .. v - 1
        BY <1>2, <1>3, <3>2
      <4> QED
        BY <4>1 DEF ShownTo
    <3> QED
      BY <3>1, <3>2
  <2> QED
    BY <1>3, <2>1, <2>2, VersionStays
<1>6. ASSUME NEW t \in ClientStates, MissesNothing(t, l, w.req), StandsAt(t, w, l)
      PROVE  MissesNothing(Takes(t, m), l, w.req) /\ StandsAt(Takes(t, m), rest, l)
  <2>1. PICK u : u = Takes(t, m)
    OBVIOUS
  <2>2. /\ u.view[l[v].obj] = Version(l, v, l[v].obj)
        /\ \A o \in Objects \ {l[v].obj} : u.view[o] = t.view[o]
        /\ u.resume = v /\ u.synced = (t.synced \/ w.fresh)
    BY <1>1, <1>3, <2>1, MessageTaken
  <2>3. CASE w.fresh
    <3>1. \A o \in ShownTo(w.req) : t.view[o] = Version(l, a, o)
      BY <1>2, <1>6, <2>3 DEF StandsAt
    <3>2. \A o \in ShownTo(w.req) : u.view[o] = Version(l, v, o)
      <4> TAKE o \in ShownTo(w.req)
      <4>1. CASE o = l[v].obj
        BY <2>2, <4>1
      <4>2. CASE o # l[v].obj
        <5>1. o \in Objects \ {l[v].obj} /\ a \in a .. v
          BY <1>3, <4>2 DEF ShownTo
        <5> QED
          BY <1>5, <2>2, <3>1, <5>1
      <4> QED
        BY <4>1, <4>2
    <3>3. v \in u.resume .. Len(l)
      BY <1>3, <2>2
    <3>4. MissesNothing(u, l, w.req)
      BY <1>3, <2>2, <3>2, <3>3 DEF MissesNothing
    <3>5. StandsAt(u, rest, l)
      BY <1>3, <2>3, <3>2 DEF StandsAt
    <3> QED
      BY <2>1, <3>4, <3>5
  <2>4. CASE ~w.fresh
    <3>1. t.resume = a /\ a # 0
      BY <1>2, <1>6, <2>4 DEF StandsAt
    <3>2. ASSUME u.synced, NEW o \in ShownTo(w.req)
          PROVE  \E b \in v .. Len(l) : u.view[o] = Version(l, b, o)
      <4>1. v \in v .. Len(l)
        BY <1>3
      <4>2. CASE o = l[v].obj
        BY <2>2, <4>1, <4>2
      <4>3. CASE o # l[v].obj
        <5>1. o \in Objects \ {l[v].obj} /\ u.view[o] = t.view[o] /\ o \in ShownTo(w.req) \ {l[v].obj}
          BY <2>2, <4>3 DEF ShownTo
        <5>2. PICK b \in a .. Len(l) : t.view[o] = Version(l, b, o)
          BY <1>6, <2>2, <2>4, <3>1, <3>2 DEF MissesNothing
        <5>3. CASE b >= v
          BY <1>3, <5>1, <5>2, <5>3
        <5>4. CASE b < v
          <6>1. b \in a .. v
            BY <1>3, <5>2, <5>4
          <6> QED
            BY <1>5, <4>1, <5>1, <5>2, <6>1
        <5> QED
          BY <1>3, <5>2, <5>3, <5>4
      <4> QED
        BY <4>2, <4>3
    <3>3. MissesNothing(u, l, w.req)
      BY <1>3, <2>2, <3>2 DEF MissesNothing
    <3>4. StandsAt(u, rest, l)
      BY <1>3, <2>2, <2>4 DEF StandsAt
    <3> QED
      BY <2>1, <3>3, <3>4
  <2> QED
    BY <1>1, <2>3, <2>4
<1> QED
  BY <1>4, <1>6, SentKeeps

\* The place the watch has come to: nothing that is shown has changed since.
LEMMA BookmarkSent ==
  ASSUME NEW l, NEW wi, NEW c, NEW w, WatchState(l, wi, c, w),
         w.pc = "select", w.backlog = {}, w.expired = "no", w.at < Len(l),
         \A n \in w.at + 1 .. Len(l) : ~Resources!Shown(w.req, l[n].obj),
         NEW rest, WatchType(rest), rest.req = w.req, rest.at = Len(l), rest.fresh = w.fresh,
         rest.backlog = {}, rest.expired = "no", rest.pc = "select",
         NEW m, m = [type |-> "BOOKMARK", version |-> Len(l), all |-> w.fresh]
  PROVE  WatchState(l, Append(wi, m), c, rest)
<1>1. /\ l \in Seq(Entries) /\ Len(l) \in Nat /\ w.fresh \in BOOLEAN
      /\ \E t \in ClientStates : StandsAt(t, w, l)
  BY DEF WatchState, Chain, WatchType
<1>2. PICK a, v : a = w.at /\ v = Len(l) /\ a \in Nat /\ v \in Nat /\ a < v
  BY <1>1 DEF StandsAt
<1>3. m \in Messages
  BY <1>1, <1>2 DEF Messages
<1>4. \A b \in a .. v, o \in ShownTo(w.req) : Version(l, v, o) = Version(l, b, o)
  <2> TAKE b \in a .. v, o \in ShownTo(w.req)
  <2>1. b \in Nat /\ b <= v
    BY <1>2
  <2>2. ASSUME NEW n \in b + 1 .. v PROVE l[n].obj # o
    <3>1. n \in w.at + 1 .. Len(l)
      BY <1>2
    <3> QED
      BY <3>1 DEF ShownTo
  <2> QED
    BY <1>2, <2>1, <2>2, VersionStays
<1>5. ASSUME NEW t \in ClientStates, MissesNothing(t, l, w.req), StandsAt(t, w, l)
      PROVE  MissesNothing(Takes(t, m), l, w.req) /\ StandsAt(Takes(t, m), rest, l)
  <2>1. PICK u : u = Takes(t, m)
    OBVIOUS
  <2>2. u.view = t.view /\ u.resume = v /\ u.synced = (t.synced \/ w.fresh)
    BY <1>2, <2>1 DEF Takes
  <2>3. v \in v .. Len(l)
    BY <1>2
  <2>4. CASE w.fresh
    <3>1. \A o \in ShownTo(w.req) : u.view[o] = Version(l, v, o)
      <4> TAKE o \in ShownTo(w.req)
      <4>1. t.view[o] = Version(l, a, o) /\ a \in a .. v
        BY <1>2, <1>5, <2>4 DEF StandsAt
      <4> QED
        BY <1>4, <2>2, <4>1
    <3>2. MissesNothing(u, l, w.req)
      BY <1>2, <2>2, <2>3, <3>1 DEF MissesNothing
    <3>3. StandsAt(u, rest, l)
      BY <1>2, <2>4, <3>1 DEF StandsAt
    <3> QED
      BY <2>1, <3>2, <3>3
  <2>5. CASE ~w.fresh
    <3>1. t.resume = a /\ a # 0
      BY <1>2, <1>5, <2>5 DEF StandsAt
    <3>2. ASSUME u.synced, NEW o \in ShownTo(w.req)
          PROVE  \E b \in v .. Len(l) : u.view[o] = Version(l, b, o)
      <4>1. PICK b \in a .. Len(l) : t.view[o] = Version(l, b, o)
        BY <1>5, <2>2, <2>5, <3>1, <3>2 DEF MissesNothing
      <4>2. b \in a .. v
        BY <1>2, <4>1
      <4> QED
        BY <1>4, <2>2, <2>3, <4>1, <4>2
    <3>3. MissesNothing(u, l, w.req)
      BY <1>2, <2>2, <3>2 DEF MissesNothing
    <3>4. StandsAt(u, rest, l)
      BY <1>2, <2>2, <2>5 DEF StandsAt
    <3> QED
      BY <2>1, <3>3, <3>4
  <2> QED
    BY <1>1, <2>4, <2>5
<1> QED
  BY <1>3, <1>5, SentKeeps

\* One of the objects there were; with the last of them the client has all.
LEMMA InitialSent ==
  ASSUME NEW l, NEW wi, NEW c, NEW w, WatchState(l, wi, c, w),
         w.pc = "select", NEW o \in Objects, o \in w.backlog,
         NEW rest, WatchType(rest), rest.req = w.req, rest.at = w.at, rest.fresh = w.fresh,
         rest.backlog = w.backlog \ {o}, rest.expired = w.expired, rest.pc = "select",
         NEW m, m = [type |-> "ADDED", obj |-> o, version |-> Version(l, w.at, o),
                     all |-> w.fresh /\ rest.backlog = {}]
  PROVE  WatchState(l, Append(wi, m), c, rest)
<1>1. /\ l \in Seq(Entries) /\ Len(l) \in Nat /\ w.fresh \in BOOLEAN
      /\ \E t \in ClientStates : StandsAt(t, w, l)
  BY DEF WatchState, Chain, WatchType
<1>2. PICK a : a = w.at /\ a \in 0..Len(l) /\ a \in Nat
  BY <1>1 DEF StandsAt
<1>3. w.fresh
  BY <1>1 DEF StandsAt
<1>4. PICK x : x = Version(l, a, o) /\ x \in 0..a
  BY <1>2, VersionBound
<1>5. PICK all \in BOOLEAN : all = (rest.backlog = {})
  OBVIOUS
<1>6. m = [type |-> "ADDED", obj |-> o, version |-> x, all |-> all]
  BY <1>2, <1>3, <1>4, <1>5
<1>7. m \in Messages
  BY <1>2, <1>4, <1>6 DEF Messages
<1>8. ASSUME NEW t \in ClientStates, MissesNothing(t, l, w.req), StandsAt(t, w, l)
      PROVE  MissesNothing(Takes(t, m), l, w.req) /\ StandsAt(Takes(t, m), rest, l)
  <2>1. PICK u : u = Takes(t, m)
    OBVIOUS
  <2>2. t.view \in [Objects -> Nat]
    BY DEF ClientStates
  <2>3. u.view = [t.view EXCEPT ![o] = x] /\ u.resume = x /\ u.synced = (t.synced \/ all)
    BY <1>6, <2>1 DEF Takes
  <2>4. ~t.synced /\ \A p \in ShownTo(w.req) \ w.backlog : t.view[p] = Version(l, a, p)
    BY <1>2, <1>3, <1>8 DEF StandsAt
  <2>5. \A p \in ShownTo(w.req) \ rest.backlog : u.view[p] = Version(l, a, p)
    <3> TAKE p \in ShownTo(w.req) \ rest.backlog
    <3>1. CASE p = o
      BY <1>4, <2>2, <2>3, <3>1
    <3>2. CASE p # o
      <4>1. p \in ShownTo(w.req) \ w.backlog /\ p \in Objects
        BY <3>2 DEF ShownTo
      <4> QED
        BY <2>2, <2>3, <2>4, <3>2, <4>1
    <3> QED
      BY <3>1, <3>2
  <2>6. rest.backlog # {} => ~u.synced
    BY <1>5, <2>3, <2>4
  <2>7. StandsAt(u, rest, l)
    BY <1>2, <1>3, <2>5, <2>6 DEF StandsAt
  <2>8. ASSUME u.synced, NEW p \in ShownTo(w.req)
        PROVE  \E v \in u.resume .. Len(l) : u.view[p] = Version(l, v, p)
    <3>1. p \in ShownTo(w.req) \ rest.backlog
      BY <2>6, <2>8
    <3>2. a \in u.resume .. Len(l)
      BY <1>1, <1>2, <1>4, <2>3
    <3> QED
      BY <2>5, <3>1, <3>2
  <2>9. MissesNothing(u, l, w.req)
    BY <1>1, <1>2, <1>4, <2>3, <2>8 DEF MissesNothing
  <2> QED
    BY <2>1, <2>7, <2>9
<1> QED
  BY <1>7, <1>8, SentKeeps

LEMMA ErrorSent ==
  ASSUME NEW l, NEW wi, NEW c, NEW w, WatchState(l, wi, c, w), w.pc = "select",
         NEW rest, WatchType(rest), rest.req = w.req, rest.at = w.at, rest.fresh = w.fresh,
         rest.backlog = w.backlog, rest.expired = "sent", rest.pc = "select",
         NEW m, m = [type |-> "ERROR", version |-> 0, all |-> FALSE]
  PROVE  WatchState(l, Append(wi, m), c, rest)
<1>1. m \in Messages
  BY DEF Messages
<1>2. Len(l) \in Nat
  BY DEF WatchState
<1>3. ASSUME NEW t \in ClientStates, MissesNothing(t, l, w.req), StandsAt(t, w, l)
      PROVE  MissesNothing(Takes(t, m), l, w.req) /\ StandsAt(Takes(t, m), rest, l)
  <2>1. PICK u : u = Takes(t, m)
    OBVIOUS
  <2>2. m.type = "ERROR" /\ m.version = 0
    OBVIOUS
  <2>3. u.view = t.view /\ u.resume = 0 /\ ~u.synced
    BY <2>1, <2>2 DEF Takes
  <2> QED
    BY <1>2, <1>3, <2>1, <2>3 DEF MissesNothing, StandsAt
<1> QED
  BY <1>1, <1>3, SentKeeps

\* A stream is opened afresh, or from the version the client has.
LEMMA OpenedAfresh ==
  ASSUME NEW l \in Seq(Entries), NEW none, none = << >>, NEW q, NEW c \in ClientStates,
         c.resume = 0, ~c.synced, \A o \in Objects : c.view[o] = 0,
         NEW w, WatchType(w), w.pc = "select", w.req = q, w.fresh, w.at = Len(l),
         \A o \in ShownTo(q) \ w.backlog : Version(l, Len(l), o) = 0
  PROVE  WatchState(l, none, c, w)
<1>1. none \in Seq(Messages) /\ Len(none) = 0
  BY EmptySeq
<1>2. Len(l) \in Nat
  OBVIOUS
<1>3. PICK cm : cm = [k \in 0..0 |-> c]
  OBVIOUS
<1>4. cm \in [0..0 -> ClientStates] /\ cm[0] = c /\ \A k \in 0..0 : cm[k] = c
  BY <1>3
<1>5. MissesNothing(c, l, w.req) /\ StandsAt(c, w, l)
  BY <1>2 DEF MissesNothing, StandsAt, ShownTo
<1>6. Chain(cm, l, none, c, w)
  BY <1>1, <1>4, <1>5 DEF Chain
<1> QED
  BY <1>1, <1>6 DEF WatchState

LEMMA OpenedAgain ==
  ASSUME NEW l, NEW none, none = << >>, NEW c, NEW v, WatchState(l, none, c, v), c.resume # 0,
         NEW w, WatchType(w), w.pc = "select", w.req = v.req, ~w.fresh, w.at = c.resume,
         w.backlog = {}
  PROVE  WatchState(l, none, c, w)
<1>1. none \in Seq(Messages) /\ Len(none) = 0 /\ Len(l) \in Nat
  BY EmptySeq DEF WatchState
<1>2. PICK cl : Chain(cl, l, none, c, v)
  BY DEF WatchState
<1>3. MissesNothing(c, l, w.req)
  BY <1>1, <1>2 DEF Chain
<1>4. StandsAt(c, w, l)
  BY <1>3 DEF MissesNothing, StandsAt
<1>5. Chain(cl, l, none, c, w)
  BY <1>1, <1>2, <1>4 DEF Chain
<1> QED
  BY <1>1, <1>5 DEF WatchState

Client == [view |-> view, resume |-> resume, synced |-> synced]
WatchInv == WatchState(log, wire, Client, watch)

LEMMA WatchInvTrue == WatchInv => ResumeLosesNothing
<1> SUFFICES ASSUME WatchInv, synced, resume # 0, NEW o \in Objects, Resources!Shown(watch.req, o)
             PROVE  \E v \in resume .. Len(log) : view[o] = Resources!At(v)[o]
  BY DEF ResumeLosesNothing, Resources!ResumeLosesNothing
<1>1. PICK c : c = Client
  OBVIOUS
<1>2. PICK cl : Chain(cl, log, wire, c, watch)
  BY <1>1 DEF WatchInv, WatchState
<1>3. 0 \in 0..Len(wire)
  BY DEF WatchInv, WatchState
<1>4. MissesNothing(c, log, watch.req)
  BY <1>2, <1>3 DEF Chain
<1>5. c.synced = synced /\ c.resume = resume /\ c.view = view
  BY <1>1 DEF Client
<1>6. PICK v \in resume .. Len(log) : view[o] = Version(log, v, o)
  BY <1>4, <1>5 DEF MissesNothing, ShownTo
<1> QED
  BY <1>6, AtIsVersion

LEMMA WatchInvInit == Resources!Init => WatchInv
<1> SUFFICES ASSUME Resources!Init PROVE WatchInv
  OBVIOUS
<1>1. /\ log = << >> /\ wire = << >> /\ watch = Resources!NoWatch
      /\ view = [o \in Objects |-> 0] /\ resume = 0 /\ synced = FALSE
  BY DEF Resources!Init
<1>2. log \in Seq(Entries) /\ Len(log) = 0 /\ wire \in Seq(Messages) /\ Len(wire) = 0
  BY <1>1, EmptySeq
<1>3. PICK c : c = Client
  OBVIOUS
<1>4. c \in ClientStates /\ c.resume = 0 /\ ~c.synced
  BY <1>1, <1>3 DEF Client, ClientStates
<1>5. WatchType(watch) /\ watch.pc = "idle"
  BY <1>1 DEF WatchType, Resources!NoWatch
<1>6. PICK cm : cm = [k \in 0..0 |-> c]
  OBVIOUS
<1>7. cm \in [0..0 -> ClientStates] /\ cm[0] = c /\ \A k \in 0..0 : cm[k] = c
  BY <1>4, <1>6
<1>8. MissesNothing(c, log, watch.req) /\ StandsAt(c, watch, log)
  BY <1>2, <1>4, <1>5 DEF MissesNothing, StandsAt
<1>9. Chain(cm, log, wire, c, watch)
  BY <1>2, <1>7, <1>8 DEF Chain
<1> QED
  BY <1>1, <1>2, <1>3, <1>4, <1>5, <1>9 DEF WatchInv, WatchState

\* A response that is not sent ends the stream.
LEMMA SendKeeps ==
  ASSUME WatchInv, watch.pc = "select", UNCHANGED <<log, view, resume, synced>>,
         NEW m, NEW rest, Resources!Send(m, rest),
         WatchType(rest), rest.req = watch.req,
         WatchState(log, Append(wire, m), Client, rest)
  PROVE  WatchInv'
<1>1. PICK l, wi, c, w : l = log /\ wi = wire /\ c = Client /\ w = watch
  OBVIOUS
<1>2. WatchState(l, wi, c, w) /\ WatchState(l, Append(wi, m), c, rest)
  BY <1>1 DEF WatchInv
<1>3. log' = l /\ Client' = c
  BY <1>1 DEF Client
<1>4. CASE watch' = rest /\ wire' = Append(wire, m)
  BY <1>1, <1>2, <1>3, <1>4 DEF WatchInv
<1>5. CASE watch' = [rest EXCEPT !.pc = "returned"] /\ wire' = wire
  <2>1. PICK x : x = [rest EXCEPT !.pc = "returned"]
    OBVIOUS
  <2>2. WatchType(x) /\ x.pc = "returned" /\ x.req = w.req
    BY <1>1, <2>1 DEF WatchType
  <2>3. WatchState(l, wi, c, x)
    BY <1>2, <2>2, ReturnKeeps
  <2> QED
    BY <1>1, <1>3, <1>5, <2>1, <2>3 DEF WatchInv
<1> QED
  BY <1>4, <1>5 DEF Resources!Send, Resources!AfterSendFails

LEMMA WatchInvStep == WatchInv /\ [Resources!Next]_resourceVars => WatchInv'
<1> SUFFICES ASSUME WatchInv, [Resources!Next]_resourceVars PROVE WatchInv'
  OBVIOUS
<1>1. PICK l, wi, c, w : l = log /\ wi = wire /\ c = Client /\ w = watch
  OBVIOUS
<1>2. WatchState(l, wi, c, w) /\ WatchType(w) /\ l \in Seq(Entries) /\ wi \in Seq(Messages)
  BY <1>1 DEF WatchInv, WatchState
<1>3. c = [view |-> view, resume |-> resume, synced |-> synced] /\ c \in ClientStates
  BY <1>1 DEF Client, WatchInv, WatchState
<1>4. UNCHANGED <<view, resume, synced>> => Client' = c
  BY <1>3 DEF Client
<1>5. ASSUME NEW o \in Objects, NEW removed \in BOOLEAN, Resources!Change(o, removed)
      PROVE  WatchInv'
  <2>1. PICK e : e = [obj |-> o, type |-> IF removed THEN "DELETED"
                                          ELSE IF Resources!Now[o] = 0 THEN "ADDED" ELSE "MODIFIED"]
    OBVIOUS
  <2>2. e \in Entries
    BY <2>1 DEF Entries
  <2>3. log' = Append(l, e) /\ UNCHANGED <<wire, watch, view, resume, synced>>
    BY <1>1, <1>5, <2>1 DEF Resources!Change, Resources!client
  <2>4. WatchState(Append(l, e), wi, c, w)
    BY <1>2, <2>2, GrowthKeeps
  <2> QED
    BY <1>1, <1>4, <2>3, <2>4 DEF WatchInv
<1>6. ASSUME NEW r \in WatchRequests, Resources!Open(r)
      PROVE  WatchInv'
  <2>1. PICK x : x = watch'
    OBVIOUS
  <2>2. /\ w.pc \in {"idle", "returned"} /\ wi = << >> /\ (w.pc = "returned" => r = w.req)
        /\ x = [pc |-> "select", req |-> r, at |-> IF resume = 0 THEN Len(l) ELSE resume,
                backlog |-> IF resume = 0 THEN {o \in Resources!Present : Resources!Shown(r, o)} ELSE {},
                fresh |-> resume = 0,
                expired |-> IF resume # 0 /\ resume < horizon THEN "due" ELSE "no"]
        /\ UNCHANGED <<log, wire, resume>>
    BY <1>1, <1>6, <2>1 DEF Resources!Open, Resources!server
  <2>3. WatchType(x) /\ x.pc = "select" /\ x.req = r
    BY <2>2 DEF WatchType
  <2>4. CASE resume = 0
    <3>1. PICK d : d = Client'
      OBVIOUS
    <3>2. view' = [o \in Objects |-> 0] /\ synced' = FALSE /\ resume' = 0
      BY <1>6, <2>2, <2>4 DEF Resources!Open
    <3>3. d \in ClientStates /\ d.resume = 0 /\ ~d.synced /\ \A o \in Objects : d.view[o] = 0
      BY <3>1, <3>2 DEF Client, ClientStates
    <3>4. x.at = Len(l) /\ x.fresh /\ x.backlog = {o \in Resources!Present : Resources!Shown(r, o)}
      BY <2>2, <2>4
    <3>5. \A o \in Objects : o \in Resources!Present <=> Version(l, Len(l), o) # 0
      BY <1>1, AtIsVersion DEF Resources!Present, Resources!Now
    <3>6. \A o \in ShownTo(r) \ x.backlog : Version(l, Len(l), o) = 0
      BY <3>4, <3>5 DEF ShownTo
    <3>7. WatchState(l, wi, d, x)
      BY <1>2, <2>2, <2>3, <3>3, <3>4, <3>6, OpenedAfresh
    <3> QED
      BY <1>1, <2>1, <2>2, <3>1, <3>7 DEF WatchInv
  <2>5. CASE resume # 0
    <3>1. UNCHANGED <<view, synced>> /\ c.resume = resume
      BY <1>3, <1>6, <2>5 DEF Resources!Open
    <3>2. w.pc = "returned" /\ x.req = w.req
      BY <1>2, <2>2, <2>3, <2>5, <3>1 DEF WatchState
    <3>3. ~x.fresh /\ x.at = c.resume /\ x.backlog = {}
      BY <2>2, <2>5, <3>1
    <3>4. WatchState(l, wi, c, x)
      BY <1>2, <2>2, <2>3, <2>5, <3>1, <3>2, <3>3, OpenedAgain
    <3> QED
      BY <1>1, <1>4, <2>1, <2>2, <3>1, <3>4 DEF WatchInv
  <2> QED
    BY <2>4, <2>5
<1>7. ASSUME NEW o \in Objects, Resources!SelectInitial(o)
      PROVE  WatchInv'
  <2>1. PICK rest : rest = [w EXCEPT !.backlog = w.backlog \ {o}]
    OBVIOUS
  <2>2. /\ WatchType(rest) /\ rest.req = w.req /\ rest.at = w.at /\ rest.fresh = w.fresh
        /\ rest.backlog = w.backlog \ {o} /\ rest.expired = w.expired /\ rest.pc = w.pc
    BY <1>2, <2>1 DEF WatchType
  <2>3. PICK m : m = Resources!buildWatchEvent("ADDED", o, Resources!At(watch.at)[o], rest)
    OBVIOUS
  <2>4. /\ w.pc = "select" /\ o \in w.backlog /\ UNCHANGED <<log, view, resume, synced>>
        /\ Resources!Send(m, rest)
    BY <1>1, <1>7, <2>1, <2>3 DEF Resources!SelectInitial, Resources!server, Resources!client
  <2>5. Resources!At(watch.at)[o] = Version(l, w.at, o)
    BY <1>1, AtIsVersion
  <2>6. m = [type |-> "ADDED", obj |-> o, version |-> Version(l, w.at, o),
             all |-> w.fresh /\ rest.backlog = {}]
    BY <2>2, <2>3, <2>5 DEF Resources!buildWatchEvent
  <2>7. WatchState(l, Append(wi, m), c, rest)
    BY <1>2, <2>2, <2>4, <2>6, InitialSent
  <2> QED
    BY <1>1, <2>2, <2>4, <2>7, SendKeeps
<1>8. CASE Resources!SelectChange
  <2>1. PICK ns, v : /\ ns = {n \in w.at + 1 .. Len(l) : Resources!Shown(w.req, l[n].obj)}
                     /\ v = Resources!Min(ns)
    OBVIOUS
  <2>2. PICK rest : rest = [w EXCEPT !.at = v]
    OBVIOUS
  <2>3. /\ WatchType(rest) /\ rest.req = w.req /\ rest.at = v /\ rest.fresh = w.fresh
        /\ rest.backlog = w.backlog /\ rest.expired = w.expired /\ rest.pc = w.pc
    BY <1>2, <2>2 DEF WatchType
  <2>4. PICK m : m = Resources!buildWatchEvent(l[v].type, l[v].obj, v, rest)
    OBVIOUS
  <2>5. /\ w.pc = "select" /\ w.backlog = {} /\ w.expired = "no" /\ ns # {}
        /\ UNCHANGED <<log, view, resume, synced>> /\ Resources!Send(m, rest)
    BY <1>1, <1>8, <2>1, <2>2, <2>4 DEF Resources!SelectChange, Resources!server, Resources!client
  <2>6. v \in w.at + 1 .. Len(l) /\ \A n \in w.at + 1 .. v - 1 : ~Resources!Shown(w.req, l[n].obj)
    <3>1. Len(l) \in Nat /\ w.at \in Nat
      BY <1>2, <2>5 DEF WatchState, Chain, StandsAt
    <3>2. ns \in SUBSET (1..Len(l))
      BY <2>1, <3>1
    <3>3. Resources!Min(ns) = Min(ns)
      BY DEF Min, Resources!Min
    <3>4. v \in ns /\ \A n \in ns : v <= n
      BY ZenonT(60), <2>1, <2>5, <3>1, <3>2, <3>3, FirstIndex
    <3>5. v \in w.at + 1 .. Len(l)
      BY <2>1, <3>4
    <3>6. ASSUME NEW n \in w.at + 1 .. v - 1 PROVE ~Resources!Shown(w.req, l[n].obj)
      <4>1. n \in w.at + 1 .. Len(l) /\ ~(v <= n)
        BY <3>1, <3>5
      <4> QED
        BY <2>1, <3>4, <4>1
    <3> QED
      BY <3>5, <3>6
  <2>7. m = [type |-> l[v].type, obj |-> l[v].obj, version |-> v, all |-> w.fresh]
    <3>1. w.fresh = (w.fresh /\ rest.backlog = {})
      BY <1>2, <2>3, <2>5 DEF WatchType
    <3> QED
      BY <2>3, <2>4, <3>1 DEF Resources!buildWatchEvent
  <2>8. WatchState(l, Append(wi, m), c, rest)
    BY <1>2, <2>3, <2>5, <2>6, <2>7, ChangeSent
  <2> QED
    BY <1>1, <2>3, <2>5, <2>8, SendKeeps
<1>9. CASE Resources!SelectBookmark
  <2>1. PICK v, rest : v = Len(l) /\ rest = [w EXCEPT !.at = v]
    OBVIOUS
  <2>2. /\ WatchType(rest) /\ rest.req = w.req /\ rest.at = v /\ rest.fresh = w.fresh
        /\ rest.backlog = w.backlog /\ rest.expired = w.expired /\ rest.pc = w.pc
    BY <1>2, <2>1 DEF WatchType
  <2>3. PICK m : m = [type |-> "BOOKMARK", version |-> v, all |-> rest.fresh]
    OBVIOUS
  <2>4. /\ w.pc = "select" /\ w.backlog = {} /\ w.expired = "no" /\ w.at < v
        /\ \A n \in w.at + 1 .. v : ~Resources!Shown(w.req, l[n].obj)
        /\ UNCHANGED <<log, view, resume, synced>> /\ Resources!Send(m, rest)
    BY <1>1, <1>9, <2>1, <2>3 DEF Resources!SelectBookmark, Resources!server, Resources!client
  <2>5. /\ m = [type |-> "BOOKMARK", version |-> Len(l), all |-> w.fresh]
        /\ rest.at = Len(l) /\ w.at < Len(l) /\ rest.backlog = {} /\ rest.expired = "no"
        /\ rest.pc = "select"
        /\ \A n \in w.at + 1 .. Len(l) : ~Resources!Shown(w.req, l[n].obj)
    BY <2>1, <2>2, <2>3, <2>4
  <2>6. WatchState(l, Append(wi, m), c, rest)
    BY <1>2, <2>2, <2>4, <2>5, BookmarkSent
  <2> QED
    BY <1>1, <2>2, <2>4, <2>6, SendKeeps
<1>10. CASE Resources!SelectError
  <2>1. PICK rest : rest = [w EXCEPT !.expired = "sent"]
    OBVIOUS
  <2>2. /\ WatchType(rest) /\ rest.req = w.req /\ rest.at = w.at /\ rest.fresh = w.fresh
        /\ rest.backlog = w.backlog /\ rest.expired = "sent" /\ rest.pc = w.pc
    BY <1>2, <2>1 DEF WatchType
  <2>3. PICK m : m = [type |-> "ERROR", version |-> 0, all |-> FALSE]
    OBVIOUS
  <2>4. w.pc = "select" /\ UNCHANGED <<log, view, resume, synced>> /\ Resources!Send(m, rest)
    BY <1>1, <1>10, <2>1, <2>3 DEF Resources!SelectError, Resources!server, Resources!client
  <2>5. WatchState(l, Append(wi, m), c, rest)
    BY <1>2, <2>2, <2>3, <2>4, ErrorSent
  <2> QED
    BY <1>1, <2>2, <2>4, <2>5, SendKeeps
<1>11. CASE Resources!SelectClosed \/ Resources!SelectCtxDone
  <2>1. PICK rest : rest = [w EXCEPT !.pc = "returned"]
    OBVIOUS
  <2>2. WatchType(rest) /\ rest.req = w.req /\ rest.pc = "returned"
    BY <1>2, <2>1 DEF WatchType
  <2>3. /\ watch' = rest /\ (wire' = wi \/ wire' = << >>)
        /\ UNCHANGED <<log, view, resume, synced>>
    BY <1>1, <1>11, <2>1
       DEF Resources!SelectClosed, Resources!SelectCtxDone, Resources!Return, Resources!server,
           Resources!client
  <2>4. WatchState(l, wi, c, rest) /\ WatchState(l, << >>, c, rest)
    BY <1>2, <2>2, ReturnKeeps
  <2> QED
    BY <1>1, <1>4, <2>3, <2>4 DEF WatchInv
<1>12. CASE Resources!Receive
  <2>1. PICK m : m = Head(wi)
    OBVIOUS
  <2>2. /\ wi # << >> /\ wire' = Tail(wi) /\ UNCHANGED <<log, watch>>
        /\ view' = IF m.type \in {"BOOKMARK", "ERROR"} THEN view
                   ELSE [view EXCEPT ![m.obj] = IF m.type = "DELETED" THEN 0 ELSE m.version]
        /\ resume' = m.version /\ synced' = (m.type # "ERROR" /\ (synced \/ m.all))
    BY <1>1, <1>12, <2>1 DEF Resources!Receive, Resources!server
  <2>3. c.view = view /\ c.resume = resume /\ c.synced = synced
    BY <1>3
  <2>4. Client' = Takes(c, m)
    BY <2>2, <2>3 DEF Client, Takes
  <2>5. WatchState(l, Tail(wi), Takes(c, m), w)
    BY <1>2, <2>1, <2>2, ReceiptKeeps
  <2> QED
    BY <1>1, <2>2, <2>4, <2>5 DEF WatchInv
<1>13. CASE UNCHANGED <<log, watch, wire, view, resume, synced>>
  BY <1>1, <1>2, <1>4, <1>13 DEF WatchInv
<1>14. Resources!Compact \/ Resources!Install \/ Resources!Reads
         => UNCHANGED <<log, watch, wire, view, resume, synced>>
  BY DEF Resources!Compact, Resources!Install, Resources!Reads, Resources!ResourceGet,
         Resources!ResourceList, Resources!ResourceSchema, Resources!server, Resources!client
<1> QED
  BY <1>5, <1>6, <1>7, <1>8, <1>9, <1>10, <1>11, <1>12, <1>13, <1>14
     DEF Resources!Next, Resources!Server, Resources!Stream, resourceVars

\* Whichever way its streams end, a client that was given all it began with misses no change.
THEOREM WatchesResume == AllSpec => []ResumeLosesNothing
<1>1. AllInit => WatchInv
  BY WatchInvInit DEF AllInit
<1>2. WatchInv /\ [AllNext]_AllVars => WatchInv'
  <2>1. [AllNext]_AllVars => [Resources!Next]_resourceVars
    BY DEF AllNext, AllVars, Resources!Next
  <2> QED
    BY <2>1, WatchInvStep
<1> QED
  BY <1>1, <1>2, WatchInvTrue, PTL DEF AllSpec
=============================================================================
