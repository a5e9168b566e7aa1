--------------------------- MODULE JourneyProofs ---------------------------
(***************************************************************************)
(* Proofs about Journey, for any channels, probers and probes, and for any *)
(* windows and timeouts in the order JourneyAssumption gives them; and     *)
(* about SeriesRing, for a ring of any length.                             *)
(***************************************************************************)
EXTENDS JourneyHistory, FiniteSetTheorems, WellFoundedInduction, NaturalsInduction, SequenceTheorems, TLAPS

-----------------------------------------------------------------------------
(* Sums over a finite set.  MapThenSumSet adds the elements up in an order *)
(* of its own, by a function that is defined recursively on the subsets.   *)

Pick(s) == CHOOSE x \in s : TRUE

LEMMA PickProperty == \A s : s # {} => Pick(s) \in s
  BY DEF Pick

\* sum[s] is the sum of f over s, for the subsets s of C.
IsSum(sum, f, C) ==
  sum = [s \in SUBSET C |-> IF s = {} THEN 0 ELSE f[Pick(s)] + sum[s \ {Pick(s)}]]

LEMMA SetInduction ==
  ASSUME NEW T, 0 \in T, \A n \in Nat : n \in T => n + 1 \in T
  PROVE  \A n \in Nat : n \in T
<1> SUFFICES ASSUME Nat \ T # {} PROVE FALSE
  OBVIOUS
<1>1. PICK R : R = OpToRel(<, Nat)
  OBVIOUS
<1>2. PICK Z : Z = Nat \ T
  OBVIOUS
<1>3. IsWellFoundedOn(R, Nat)
  BY <1>1, NatLessThanWellFounded
<1>4. Z \subseteq Nat /\ Z # {}
  BY <1>2
<1>5. \E x \in Z : \A y \in Z : ~(<<y, x>> \in R)
  BY <1>3, <1>4, WFMin
<1>6. PICK x \in Z : \A y \in Z : ~(<<y, x>> \in R)
  BY <1>5
<1>7. x # 0 /\ x - 1 \in Nat /\ x - 1 \notin T
  BY <1>2, <1>6
<1>8. <<x - 1, x>> \in R
  <2>1. R = {p \in Nat \X Nat : p[1] < p[2]}
    BY <1>1 DEF OpToRel
  <2> QED
    BY <1>4, <1>7, <2>1
<1> QED
  BY <1>2, <1>6, <1>7, <1>8

\* The subsets of C of at most n elements.
UpTo(C, n) == {s \in SUBSET C : Cardinality(s) <= n}

LEMMA UpToProperties ==
  ASSUME NEW C, IsFiniteSet(C)
  PROVE  /\ UpTo(C, 0) = {{}}
         /\ UpTo(C, Cardinality(C)) = SUBSET C
         /\ \A n \in Nat : UpTo(C, n) \subseteq UpTo(C, n + 1)
         /\ \A n \in Nat : \A s \in UpTo(C, n + 1) :
              s # {} => s \ {Pick(s)} \in UpTo(C, n) /\ Pick(s) \in C
<1>1. \A s \in SUBSET C : IsFiniteSet(s) /\ Cardinality(s) \in Nat /\ Cardinality(s) <= Cardinality(C)
  BY FS_Subset, FS_CardinalityType
<1>2. UpTo(C, 0) = {{}}
  BY <1>1, FS_EmptySet DEF UpTo
<1>3. UpTo(C, Cardinality(C)) = SUBSET C
  BY <1>1 DEF UpTo
<1>4. \A n \in Nat : UpTo(C, n) \subseteq UpTo(C, n + 1)
  BY <1>1 DEF UpTo
<1>5. ASSUME NEW n \in Nat, NEW s \in UpTo(C, n + 1), s # {}
      PROVE  s \ {Pick(s)} \in UpTo(C, n) /\ Pick(s) \in C
  <2>1. Pick(s) \in s /\ s \in SUBSET C
    BY <1>5, PickProperty DEF UpTo
  <2>2. Cardinality(s \ {Pick(s)}) = Cardinality(s) - 1
    BY <1>1, <2>1, FS_RemoveElement
  <2>3. Cardinality(s) \in Nat /\ Cardinality(s) <= n + 1
    BY <1>1, <2>1 DEF UpTo
  <2> QED
    BY <2>1, <2>2, <2>3 DEF UpTo
<1> QED
  BY <1>2, <1>3, <1>4, <1>5

LEMMA SumExists ==
  ASSUME NEW C, IsFiniteSet(C), NEW f \in [C -> Nat]
  PROVE  \E sum \in [SUBSET C -> Nat] : IsSum(sum, f, C)
<1> DEFINE Good(n, sum) ==
      /\ sum \in [UpTo(C, n) -> Nat]
      /\ \A s \in UpTo(C, n) :
           sum[s] = IF s = {} THEN 0 ELSE f[Pick(s)] + sum[s \ {Pick(s)}]
<1>1. PICK T : T = {n \in Nat : \E sum : Good(n, sum)}
  OBVIOUS
<1>2. Good(0, [s \in UpTo(C, 0) |-> 0])
  BY UpToProperties
<1>3. ASSUME NEW n \in Nat, NEW sum, Good(n, sum) PROVE \E more : Good(n + 1, more)
  <2>1. PICK more : more = [s \in UpTo(C, n + 1) |->
                              IF s = {} THEN 0 ELSE f[Pick(s)] + sum[s \ {Pick(s)}]]
    OBVIOUS
  <2>2. \A s \in UpTo(C, n + 1) : s # {} => s \ {Pick(s)} \in UpTo(C, n) /\ Pick(s) \in C
    BY UpToProperties
  <2>3. \A s \in UpTo(C, n + 1) : s # {} => sum[s \ {Pick(s)}] \in Nat /\ f[Pick(s)] \in Nat
    BY <1>3, <2>2
  <2>4. more \in [UpTo(C, n + 1) -> Nat]
    <3> SUFFICES ASSUME NEW s \in UpTo(C, n + 1) PROVE more[s] \in Nat
      BY <2>1
    <3>1. CASE s = {}
      BY <2>1, <3>1
    <3>2. CASE s # {}
      BY <2>1, <2>3, <3>2
    <3> QED
      BY <3>1, <3>2
  <2>5. UpTo(C, n) \subseteq UpTo(C, n + 1)
    BY UpToProperties
  <2>6. \A s \in UpTo(C, n) : more[s] = sum[s]
    BY <1>3, <2>1, <2>5
  <2> QED
    BY <2>1, <2>2, <2>4, <2>6
<1> HIDE DEF Good
<1>4. 0 \in T /\ \A n \in Nat : n \in T => n + 1 \in T
  BY <1>1, <1>2, <1>3
<1>5. Cardinality(C) \in T
  BY <1>4, SetInduction, FS_CardinalityType
<1>6. PICK sum : Good(Cardinality(C), sum)
  BY <1>1, <1>5
<1>7. /\ sum \in [SUBSET C -> Nat]
      /\ \A s \in SUBSET C : sum[s] = IF s = {} THEN 0 ELSE f[Pick(s)] + sum[s \ {Pick(s)}]
  <2>1. UpTo(C, Cardinality(C)) = SUBSET C
    BY UpToProperties
  <2> QED
    BY <1>6, <2>1 DEF Good
<1> QED
  BY <1>7 DEF IsSum

LEMMA SumValues ==
  ASSUME NEW C, NEW f, NEW sum, IsSum(sum, f, C), NEW s \in SUBSET C
  PROVE  /\ s = {} => sum[s] = 0
         /\ s # {} => sum[s] = f[Pick(s)] + sum[s \ {Pick(s)}]
  BY DEF IsSum

\* g is f but for one more in D, which has one element or none.
OneMore(f, g, C, D) ==
  /\ \A x \in C : (x \in D => g[x] = f[x] + 1) /\ (x \notin D => g[x] = f[x])
  /\ \A x, y \in D : x = y

\* Their sums, too, differ by one or not at all.
LEMMA SumStep ==
  ASSUME NEW C, IsFiniteSet(C), NEW f \in [C -> Nat], NEW g \in [C -> Nat], NEW D \in SUBSET C,
         OneMore(f, g, C, D),
         NEW a, IsSum(a, f, C), NEW b, IsSum(b, g, C)
  PROVE  b[C] = IF D = {} THEN a[C] ELSE a[C] + 1
<1> DEFINE More(s) == IF D \cap s = {} THEN 0 ELSE 1
           Good(s) == a[s] \in Nat /\ b[s] = a[s] + More(s)
<1>1. PICK T : T = {n \in Nat : \A s \in UpTo(C, n) : Good(s)}
  OBVIOUS
<1>2. ASSUME NEW s \in SUBSET C
      PROVE  /\ s = {} => a[s] = 0 /\ b[s] = 0
             /\ s # {} => /\ a[s] = f[Pick(s)] + a[s \ {Pick(s)}]
                          /\ b[s] = g[Pick(s)] + b[s \ {Pick(s)}]
  <2>1. (s = {} => a[s] = 0) /\ (s # {} => a[s] = f[Pick(s)] + a[s \ {Pick(s)}])
    BY SumValues
  <2>2. (s = {} => b[s] = 0) /\ (s # {} => b[s] = g[Pick(s)] + b[s \ {Pick(s)}])
    BY SumValues
  <2> QED
    BY <2>1, <2>2
<1>3. Good({})
  <2>1. a[{}] = 0 /\ b[{}] = 0
    BY SumValues
  <2>2. More({}) = 0
    OBVIOUS
  <2> QED
    BY <2>1, <2>2
<1>4. ASSUME NEW n \in Nat, n \in T PROVE n + 1 \in T
  <2> SUFFICES ASSUME NEW s \in UpTo(C, n + 1) PROVE Good(s)
    BY <1>1
  <2>0. CASE s = {}
    BY <1>3, <2>0
  <2> SUFFICES ASSUME s # {} PROVE Good(s)
    BY <2>0
  <2>1. PICK x \in C, r \in UpTo(C, n) : x = Pick(s) /\ r = s \ {Pick(s)}
    BY UpToProperties
  <2>2. a[s] = f[x] + a[r] /\ b[s] = g[x] + b[r]
    BY <1>2, <2>1 DEF UpTo
  <2>3. a[r] \in Nat /\ b[r] = a[r] + More(r)
    BY <1>1, <1>4
  <2>4. x \in s /\ s = r \cup {x} /\ x \notin r
    BY <2>1, PickProperty
  <2>5. CASE x \in D
    <3>1. D \cap r = {} /\ D \cap s # {}
      BY <2>4, <2>5 DEF OneMore
    <3>2. g[x] = f[x] + 1 /\ f[x] \in Nat
      BY <2>5 DEF OneMore
    <3> QED
      BY <2>2, <2>3, <3>1, <3>2
  <2>6. CASE x \notin D
    <3>1. D \cap r = D \cap s
      BY <2>4, <2>6
    <3>2. g[x] = f[x] /\ f[x] \in Nat
      BY <2>6 DEF OneMore
    <3> QED
      BY <2>2, <2>3, <3>1, <3>2
  <2> QED
    BY <2>5, <2>6
<1>5. Good(C)
  <2> HIDE DEF Good
  <2>1. 0 \in T
    <3>1. UpTo(C, 0) = {{}}
      BY UpToProperties
    <3> QED
      BY <1>1, <1>3, <3>1
  <2>2. Cardinality(C) \in T
    BY <1>4, <2>1, SetInduction, FS_CardinalityType
  <2> QED
    BY <1>1, <2>2, UpToProperties
<1> QED
  BY <1>5

\* What EveryDenialPlotted adds up.
Plotted(a, b) == MapThenSumSet(LAMBDA ch : a[ch] + b[ch], Channels)

LEMMA PlottedIsSum ==
  ASSUME NEW a \in [Channels -> Nat], NEW b \in [Channels -> Nat]
  PROVE  \E sum : /\ IsSum(sum, [ch \in Channels |-> a[ch] + b[ch]], Channels)
                  /\ Plotted(a, b) = sum[Channels]
<1>1. PICK f : f = [ch \in Channels |-> a[ch] + b[ch]]
  OBVIOUS
<1> DEFINE Fold(sum) == sum = [s \in SUBSET Channels |->
             IF s = {} THEN 0
             ELSE a[CHOOSE x \in s : TRUE] + b[CHOOSE x \in s : TRUE] + sum[s \ {CHOOSE x \in s : TRUE}]]
<1>2. Plotted(a, b) = (CHOOSE sum : Fold(sum))[Channels]
  BY Zenon DEF Plotted, MapThenSumSet, MapThenFoldSet
<1>3. ASSUME NEW sum PROVE Fold(sum) <=> IsSum(sum, f, Channels)
  <2>1. Fold(sum) <=> sum = [s \in SUBSET Channels |->
                               IF s = {} THEN 0
                               ELSE a[Pick(s)] + b[Pick(s)] + sum[s \ {Pick(s)}]]
    BY Zenon DEF Pick
  <2>2. \A s \in SUBSET Channels : s # {} => f[Pick(s)] = a[Pick(s)] + b[Pick(s)]
    BY <1>1, PickProperty
  <2> QED
    BY <2>1, <2>2 DEF IsSum
<1>4. \E sum : Fold(sum)
  <2>1. f \in [Channels -> Nat]
    BY <1>1
  <2> HIDE DEF Fold
  <2> QED
    BY <1>3, <2>1, SumExists, JourneyAssumption
<1>5. Fold(CHOOSE sum : Fold(sum))
  BY <1>4, Zenon
<1> HIDE DEF Fold
<1> QED
  BY <1>1, <1>2, <1>3, <1>5

LEMMA PlottedStep ==
  ASSUME NEW a \in [Channels -> Nat], NEW b \in [Channels -> Nat],
         NEW c \in [Channels -> Nat], NEW d \in [Channels -> Nat], NEW D \in SUBSET Channels,
         OneMore([ch \in Channels |-> a[ch] + b[ch]], [ch \in Channels |-> c[ch] + d[ch]], Channels, D)
  PROVE  Plotted(c, d) = IF D = {} THEN Plotted(a, b) ELSE Plotted(a, b) + 1
<1>1. PICK f, g : f = [ch \in Channels |-> a[ch] + b[ch]] /\ g = [ch \in Channels |-> c[ch] + d[ch]]
  OBVIOUS
<1>2. f \in [Channels -> Nat] /\ g \in [Channels -> Nat]
  BY <1>1
<1>3. PICK s : IsSum(s, f, Channels) /\ Plotted(a, b) = s[Channels]
  BY <1>1, PlottedIsSum
<1>4. PICK t : IsSum(t, g, Channels) /\ Plotted(c, d) = t[Channels]
  BY <1>1, PlottedIsSum
<1>5. OneMore(f, g, Channels, D) /\ IsFiniteSet(Channels)
  BY <1>1, JourneyAssumption
<1>6. t[Channels] = IF D = {} THEN s[Channels] ELSE s[Channels] + 1
  BY <1>2, <1>3, <1>4, <1>5, SumStep
<1> QED
  BY <1>3, <1>4, <1>6

LEMMA PlottedNothing ==
  ASSUME NEW a, a = [ch \in Channels |-> 0]
  PROVE  Plotted(a, a) = 0
<1>1. PICK f : f = [ch \in Channels |-> a[ch] + a[ch]]
  OBVIOUS
<1>2. PICK sum : IsSum(sum, f, Channels) /\ Plotted(a, a) = sum[Channels]
  BY <1>1, PlottedIsSum
<1>3. \A ch \in Channels : f[ch] = 0
  BY <1>1
<1>4. PICK T : T = {n \in Nat : \A s \in UpTo(Channels, n) : sum[s] = 0}
  OBVIOUS
<1>5. IsFiniteSet(Channels) /\ Cardinality(Channels) \in Nat
  BY JourneyAssumption, FS_CardinalityType
<1>6. 0 \in T
  <2>1. UpTo(Channels, 0) = {{}}
    BY <1>5, UpToProperties
  <2>2. sum[{}] = 0
    BY <1>2 DEF IsSum
  <2> QED
    BY <1>4, <2>1, <2>2
<1>7. ASSUME NEW n \in Nat, n \in T PROVE n + 1 \in T
  <2> SUFFICES ASSUME NEW s \in UpTo(Channels, n + 1) PROVE sum[s] = 0
    BY <1>4
  <2>1. s \in SUBSET Channels
    BY DEF UpTo
  <2>2. CASE s = {}
    BY <1>2, <2>1, <2>2, SumValues
  <2>3. CASE s # {}
    <3>1. s \ {Pick(s)} \in UpTo(Channels, n) /\ Pick(s) \in Channels
      BY <1>5, <2>3, UpToProperties
    <3>2. sum[s] = f[Pick(s)] + sum[s \ {Pick(s)}]
      BY <1>2, <2>1, <2>3, SumValues
    <3>3. f[Pick(s)] = 0 /\ sum[s \ {Pick(s)}] = 0
      BY <1>3, <1>4, <1>7, <3>1
    <3> QED
      BY <3>2, <3>3
  <2> QED
    BY <2>2, <2>3
<1>8. Cardinality(Channels) \in T
  BY <1>5, <1>6, <1>7, SetInduction
<1>9. Channels \in UpTo(Channels, Cardinality(Channels))
  BY <1>5, UpToProperties
<1> QED
  BY <1>2, <1>4, <1>8, <1>9

-----------------------------------------------------------------------------
(* Types *)

LineType(line) == line \in Seq(Nat) /\ Len(line) \in 1..HistoryLen

Prober == [denied : Nat, lastSeen : Nat, name : {"", "pod", "external"}]

TypeInv ==
  /\ clock \in Nat /\ sampledAt \in Nat /\ idxBuiltAt \in Nat /\ tick \in BOOLEAN
  /\ sampler \in {"none", "waiting", "listing", "appending", "exited"}
  /\ counts \in [Channels -> Nat] /\ sampled \in [Channels -> Nat]
  /\ DOMAIN lastSeen \subseteq Channels /\ \A ch \in DOMAIN lastSeen : lastSeen[ch] \in Nat
  /\ DOMAIN series \subseteq Channels /\ \A ch \in DOMAIN series : LineType(series[ch])
  /\ lastSub \subseteq Channels
  /\ DOMAIN probers \subseteq Addrs /\ \A a \in DOMAIN probers : probers[a] \in Prober
  /\ idx # NoIndex => idx \in [Addrs -> {"pod", "external"}]
  /\ totals \in [denied : Nat, tarpit : Nat, decoy : Nat, threats : Nat]

\* A line that is appended to and trimmed ends in what was appended.
LEMMA AppendTrimmed ==
  ASSUME NEW s \in Seq(Nat), NEW v \in Nat, NEW line, line = Trimmed(Append(s, v))
  PROVE  LineType(line) /\ line[Len(line)] = v
<1>1. PICK t : t = Append(s, v)
  OBVIOUS
<1>2. t \in Seq(Nat) /\ Len(t) \in Nat \ {0} /\ t[Len(t)] = v
  BY <1>1, AppendProperties
<1>3. HistoryLen \in Nat \ {0}
  BY JourneyAssumption
<1>4. CASE Len(t) > HistoryLen
  <2>1. line = SubSeq(t, Len(t) - HistoryLen + 1, Len(t))
    BY <1>1, <1>4 DEF Trimmed
  <2>2. line \in Seq(Nat) /\ Len(line) = HistoryLen /\ line[HistoryLen] = t[Len(t)]
    BY <1>2, <1>3, <1>4, <2>1, SubSeqProperties
  <2> QED
    BY <1>2, <1>3, <2>2 DEF LineType
<1>5. CASE ~(Len(t) > HistoryLen)
  <2>1. line = t
    BY <1>1, <1>5 DEF Trimmed
  <2> QED
    BY <1>2, <1>3, <1>5, <2>1 DEF LineType
<1> QED
  BY <1>4, <1>5

LEMMA TypeInvInit == Init => TypeInv
<1> SUFFICES ASSUME Init PROVE TypeInv
  OBVIOUS
<1>1. DOMAIN lastSeen = {} /\ DOMAIN series = {} /\ DOMAIN probers = {}
  BY DEF Init, Empty
<1> QED
  BY <1>1 DEF Init, TypeInv

LEMMA TypeInvStep == TypeInv /\ [Next]_vars => TypeInv'
<1> SUFFICES ASSUME TypeInv, [Next]_vars PROVE TypeInv'
  OBVIOUS
<1> USE DEF TypeInv
<1>1. CASE StartConnects \/ StartFails \/ CloseBegins \/ CloseEnds \/ UNCHANGED vars
  BY <1>1 DEF StartConnects, StartFails, CloseBegins, CloseEnds, vars, samplerVars, boardVars
<1>2. CASE StartRuns \/ SamplerStops
  BY <1>2 DEF StartRuns, SamplerStops, samplerVars, boardVars
<1>3. CASE OnThreat
  BY <1>3 DEF OnThreat, samplerVars
<1>4. ASSUME NEW m \in Probes, OnProbe(m) PROVE TypeInv'
  <2>1. m.ch \in Channels /\ m.addr \in Addrs \cup {NoAddr}
    BY JourneyAssumption
  <2>2. counts' \in [Channels -> Nat] /\ UNCHANGED <<clock, samplerVars, series, sampled, idxBuiltAt>>
    BY <1>4, <2>1 DEF OnProbe
  <2>3. DOMAIN lastSeen' = DOMAIN lastSeen \cup {m.ch}
        /\ \A ch \in DOMAIN lastSeen' : lastSeen'[ch] \in Nat
    BY <1>4, <2>1 DEF OnProbe, Put
  <2>4. lastSub' \subseteq Channels
    BY <1>4, <2>1 DEF OnProbe
  <2>5. DOMAIN probers' \subseteq Addrs
    BY <1>4, <2>1 DEF OnProbe, Put
  <2>6. totals' \in [denied : Nat, tarpit : Nat, decoy : Nat, threats : Nat]
    <3>1. PICK t, d \in Nat : /\ t = IF m.decision = "Tarpit" THEN 1 ELSE 0
                             /\ d = IF m.decision = "DecoyHit" THEN 1 ELSE 0
      OBVIOUS
    <3>2. totals' = [totals EXCEPT !.denied = @ + 1, !.tarpit = @ + t, !.decoy = @ + d]
      BY <1>4, <3>1 DEF OnProbe
    <3>3. PICK T : T = totals /\ T \in [denied : Nat, tarpit : Nat, decoy : Nat, threats : Nat]
      OBVIOUS
    <3>4. [T EXCEPT !.denied = @ + 1, !.tarpit = @ + t, !.decoy = @ + d]
            \in [denied : Nat, tarpit : Nat, decoy : Nat, threats : Nat]
      <4> HIDE DEF TypeInv
      <4>1. T.denied + 1 \in Nat /\ T.tarpit + t \in Nat /\ T.decoy + d \in Nat
        BY <3>3
      <4> QED
        BY <3>3, <4>1
    <3> QED
      BY <3>2, <3>3, <3>4
  <2>7. ASSUME NEW a \in DOMAIN probers' PROVE probers'[a] \in Prober
    <3>1. CASE m.addr = NoAddr \/ a # m.addr
      <4>1. a \in DOMAIN probers /\ probers'[a] = probers[a]
        BY <1>4, <3>1 DEF OnProbe, Put
      <4> QED
        BY <4>1
    <3>2. CASE m.addr # NoAddr /\ a = m.addr
      <4>1. probers'[a] = [denied |-> Denials(a) + 1, lastSeen |-> clock, name |-> NameOf(a)]
        BY <1>4, <3>2 DEF OnProbe, Put
      <4>2. Denials(a) \in Nat
        BY DEF Denials, Prober
      <4>2a. NameOf(a) \in {"", "pod", "external"}
        BY DEF NameOf, Prober
      <4>3. PICK n, name : n = Denials(a) + 1 /\ name = NameOf(a)
        OBVIOUS
      <4>4. n \in Nat /\ name \in {"", "pod", "external"}
        <5> HIDE DEF TypeInv
        <5>1. n \in Nat
          BY <4>2, <4>3
        <5>2. name \in {"", "pod", "external"}
          BY <4>2a, <4>3, Zenon
        <5> QED
          BY <5>1, <5>2, Zenon
      <4>5. [denied |-> n, lastSeen |-> clock, name |-> name] \in Prober
        BY <4>4 DEF Prober
      <4> QED
        BY <4>1, <4>3, <4>5
    <3> QED
      BY <3>1, <3>2
  <2> QED
    BY <2>1, <2>2, <2>3, <2>4, <2>5, <2>6, <2>7, <1>4 DEF samplerVars, OnProbe
<1>5. CASE SampleBegins
  BY <1>5 DEF SampleBegins, boardVars
<1>6. ASSUME NEW found \in SUBSET Addrs, IndexBuilt(found) PROVE TypeInv'
  <2>1. PICK index : index = [a \in Addrs |-> IF a \in found THEN "pod" ELSE "external"]
    OBVIOUS
  <2>2. index \in [Addrs -> {"pod", "external"}]
    BY <2>1
  <2>3. idx' = index /\ probers' = Renamed(index)
    BY <1>6, <2>1 DEF IndexBuilt
  <2>4. DOMAIN probers' = DOMAIN probers
    BY <2>3 DEF Renamed
  <2>5. ASSUME NEW a \in DOMAIN probers' PROVE probers'[a] \in Prober
    <3>1. probers'[a] = [probers[a] EXCEPT !.name = index[a]] /\ a \in DOMAIN probers
      BY <2>3, <2>4 DEF Renamed
    <3> QED
      BY <2>2, <3>1 DEF Prober
  <2> QED
    BY <1>6, <2>2, <2>3, <2>4, <2>5 DEF IndexBuilt
<1>7. CASE SampleEnds
  <2>1. /\ UNCHANGED <<clock, tick, sampledAt, totals, idxBuiltAt>> /\ sampler' = "waiting"
        /\ counts' \in [Channels -> Nat]
    BY <1>7 DEF SampleEnds
  <2>2. sampled' \in [Channels -> Nat]
    <3>1. \A ch \in Channels : (IF ch \in Active THEN counts[ch] ELSE 0) \in Nat
      OBVIOUS
    <3> QED
      BY <1>7, <3>1 DEF SampleEnds
  <2>3. DOMAIN lastSeen' \subseteq DOMAIN lastSeen /\ \A ch \in DOMAIN lastSeen' : lastSeen'[ch] \in Nat
    BY <1>7 DEF SampleEnds
  <2>4. Active \subseteq Channels
    BY DEF Active
  <2>5. DOMAIN series' \subseteq Channels
    BY <1>7, <2>4 DEF SampleEnds
  <2>6. ASSUME NEW ch \in DOMAIN series' PROVE LineType(series'[ch])
    <3>1. CASE ch \in Active
      <4>1. series'[ch] = Trimmed(Append(SeriesOf(ch), counts[ch]))
        BY <1>7, <3>1 DEF SampleEnds
      <4>2. SeriesOf(ch) \in Seq(Nat) /\ counts[ch] \in Nat
        BY <2>4, <3>1 DEF SeriesOf, LineType
      <4> QED
        BY <4>1, <4>2, AppendTrimmed
    <3>2. CASE ch \notin Active
      BY <1>7, <3>2 DEF SampleEnds
    <3> QED
      BY <3>1, <3>2
  <2>7. lastSub' \subseteq Channels /\ DOMAIN probers' \subseteq Addrs
    BY <1>7 DEF SampleEnds, Kept
  <2>8. ASSUME NEW a \in DOMAIN probers' PROVE probers'[a] \in Prober
    <3>1. a \in DOMAIN probers /\ probers'[a] = Named(probers[a], a)
      BY <1>7 DEF SampleEnds, Kept
    <3>2. CASE idx # NoIndex
      <4>1. idx[a] \in {"pod", "external"} /\ probers[a] \in Prober
        BY <3>1, <3>2
      <4> QED
        BY <3>1, <4>1 DEF Named, Prober
    <3>3. CASE idx = NoIndex
      BY <3>1, <3>3 DEF Named
    <3> QED
      BY <3>2, <3>3
  <2> QED
    BY <1>7, <2>1, <2>2, <2>3, <2>5, <2>6, <2>7, <2>8 DEF SampleEnds
<1>8. CASE SecondPasses
  BY <1>8 DEF SecondPasses, boardVars
<1> QED
  BY <1>1, <1>2, <1>3, <1>4, <1>5, <1>6, <1>7, <1>8 DEF Next, SamplerStep

-----------------------------------------------------------------------------
(* Names *)

NamesInv ==
  \A a \in DOMAIN probers :
    probers[a].name # "" => idx # NoIndex /\ probers[a].name = idx[a]

LEMMA NamesInvStep == TypeInv /\ NamesInv /\ [Next]_vars => NamesInv'
<1> SUFFICES ASSUME TypeInv, NamesInv, [Next]_vars PROVE NamesInv'
  OBVIOUS
<1>1. CASE UNCHANGED <<probers, idx>>
  BY <1>1 DEF NamesInv
<1>2. ASSUME NEW m \in Probes, OnProbe(m) PROVE NamesInv'
  <2>1. UNCHANGED idx
    BY <1>2 DEF OnProbe
  <2>2. CASE m.addr = NoAddr
    BY <1>2, <2>1, <2>2 DEF OnProbe, NamesInv
  <2>3. CASE m.addr # NoAddr
    <3>1. /\ DOMAIN probers' = DOMAIN probers \cup {m.addr}
          /\ probers'[m.addr].name = NameOf(m.addr)
          /\ \A a \in DOMAIN probers : a # m.addr => probers'[a] = probers[a]
      BY <1>2, <2>3 DEF OnProbe, Put
    <3>2. NameOf(m.addr) # "" => m.addr \in DOMAIN probers /\ probers[m.addr].name = NameOf(m.addr)
      BY DEF NameOf
    <3> QED
      BY <2>1, <3>1, <3>2 DEF NamesInv
  <2> QED
    BY <2>2, <2>3
<1>3. ASSUME NEW found \in SUBSET Addrs, IndexBuilt(found) PROVE NamesInv'
  <2>1. PICK index : index = [a \in Addrs |-> IF a \in found THEN "pod" ELSE "external"]
    OBVIOUS
  <2>2. idx' = index /\ probers' = Renamed(index)
    BY <1>3, <2>1 DEF IndexBuilt
  <2>3. \A a \in DOMAIN probers' : a \in Addrs /\ probers'[a].name = index[a]
    <3> SUFFICES ASSUME NEW a \in DOMAIN probers' PROVE a \in Addrs /\ probers'[a].name = index[a]
      OBVIOUS
    <3>1. a \in DOMAIN probers /\ probers'[a] = [probers[a] EXCEPT !.name = index[a]]
      BY <2>2 DEF Renamed
    <3> QED
      BY <3>1 DEF TypeInv
  <2>4. index # NoIndex
    BY <2>1, JourneyAssumption DEF NoIndex
  <2> QED
    BY <2>2, <2>3, <2>4 DEF NamesInv
<1>4. CASE SampleEnds
  <2>1. UNCHANGED idx /\ probers' = [a \in Kept |-> Named(probers[a], a)] /\ Kept \subseteq DOMAIN probers
    BY <1>4 DEF SampleEnds, Kept
  <2> SUFFICES ASSUME NEW a \in Kept, probers'[a].name # ""
               PROVE  idx # NoIndex /\ probers'[a].name = idx[a]
    BY <2>1 DEF NamesInv
  <2>2. CASE probers[a].name = "" /\ idx # NoIndex
    <3>1. probers'[a] = [probers[a] EXCEPT !.name = idx[a]]
      BY <2>1, <2>2 DEF Named
    <3>2. probers[a] \in Prober
      BY <2>1 DEF TypeInv
    <3> QED
      BY <2>2, <3>1, <3>2 DEF Prober
  <2>3. CASE ~(probers[a].name = "" /\ idx # NoIndex)
    BY <2>1, <2>3 DEF Named, NamesInv
  <2> QED
    BY <2>2, <2>3
<1> QED
  BY <1>1, <1>2, <1>3, <1>4 DEF Next, SamplerStep, StartConnects, StartRuns, StartFails, CloseBegins,
     CloseEnds, OnThreat, SamplerStops, SampleBegins, SecondPasses, vars, boardVars

-----------------------------------------------------------------------------
(* Time.  A sample is late only if it listed the cluster or comes after one *)
(* that did, and two samples on end do not list it: the index is not stale  *)
(* before IndexRefresh has passed, which is longer than a list can take.    *)

JustListed == idx # NoIndex /\ idxBuiltAt = sampledAt

TimeInv ==
  /\ sampler = "none" => clock = 0 /\ sampledAt = 0 /\ ~tick
  /\ sampler = "none" <=> stage \in {"new", "starting", "failed"}
  /\ sampledAt <= clock
  /\ sampler = "waiting" =>
       \/ clock = sampledAt
       \/ tick /\ clock = sampledAt + 1
       \/ tick /\ JustListed /\ clock <= sampledAt + CallTimeout
  /\ sampler = "listing" => clock <= sampledAt + CallTimeout /\ (clock = sampledAt \/ tick)
  /\ sampler = "appending" =>
       clock = sampledAt \/ (tick /\ JustListed /\ clock <= sampledAt + CallTimeout)

LEMMA TimeInvInit == Init => TimeInv
  BY DEF Init, TimeInv

LEMMA TimeInvStep == TypeInv /\ TimeInv /\ [Next]_vars => TimeInv'
<1> SUFFICES ASSUME TypeInv, TimeInv, [Next]_vars PROVE TimeInv'
  OBVIOUS
<1>0. /\ clock \in Nat /\ sampledAt \in Nat /\ CallTimeout \in Nat \ {0}
      /\ sampler \in {"none", "waiting", "listing", "appending", "exited"} /\ tick \in BOOLEAN
  BY JourneyAssumption DEF TypeInv
<1>1. CASE StartConnects \/ StartFails \/ CloseBegins \/ CloseEnds
  BY <1>0, <1>1 DEF StartConnects, StartFails, CloseBegins, CloseEnds, samplerVars, boardVars, TimeInv,
     JustListed
<1>2. CASE StartRuns \/ SamplerStops
  BY <1>0, <1>2 DEF StartRuns, SamplerStops, boardVars, TimeInv, JustListed
<1>3. CASE OnThreat
  BY <1>3 DEF OnThreat, samplerVars, TimeInv, JustListed
<1>4. ASSUME NEW m \in Probes, OnProbe(m) PROVE TimeInv'
  BY <1>4 DEF OnProbe, samplerVars, TimeInv, JustListed
<1>5. CASE SampleBegins
  BY <1>0, <1>5 DEF SampleBegins, boardVars, TimeInv, JustListed
<1>6. ASSUME NEW found \in SUBSET Addrs, IndexBuilt(found) PROVE TimeInv'
  <2>1. idx' # NoIndex
    <3>1. PICK index : index = [a \in Addrs |-> IF a \in found THEN "pod" ELSE "external"]
      OBVIOUS
    <3>2. DOMAIN index = Addrs /\ idx' = index
      BY <1>6, <3>1 DEF IndexBuilt
    <3> QED
      BY <3>2, JourneyAssumption DEF NoIndex
  <2>2. /\ idxBuiltAt' = sampledAt /\ sampler = "listing" /\ sampler' = "appending"
        /\ UNCHANGED <<clock, stage, tick, sampledAt>>
    BY <1>6 DEF IndexBuilt
  <2> QED
    BY <1>0, <2>1, <2>2 DEF TimeInv, JustListed
<1>7. CASE SampleEnds
  BY <1>0, <1>7 DEF SampleEnds, TimeInv, JustListed
<1>8. CASE SecondPasses
  <2>1. /\ clock' = clock + 1 /\ UNCHANGED <<stage, sampler, sampledAt, idx, idxBuiltAt>>
        /\ stage \in {"running", "closing"} /\ sampler # "appending"
        /\ sampler = "waiting" => ~tick
        /\ sampler = "listing" => clock < sampledAt + CallTimeout
        /\ tick' = (sampler \in {"waiting", "listing"})
    BY <1>8 DEF SecondPasses, boardVars
  <2>2. sampler # "none" /\ (sampler \in {"waiting", "listing"} => tick')
    BY <2>1 DEF TimeInv
  <2> QED
    BY <1>0, <2>1, <2>2 DEF TimeInv, JustListed
<1>9. CASE UNCHANGED vars
  BY <1>9 DEF vars, samplerVars, boardVars, TimeInv, JustListed
<1> QED
  BY <1>1, <1>2, <1>3, <1>4, <1>5, <1>6, <1>7, <1>8, <1>9 DEF Next, SamplerStep

-----------------------------------------------------------------------------
(* Lines.  A count that is not zero is of denials since the last sample; a  *)
(* line that there is, and one that does not end in zero, is of a channel   *)
(* that was seen late enough.  d is how much later than the last complete   *)
(* sample the one in progress began.                                        *)

SeenSince(ch, t) == ch \in DOMAIN lastSeen /\ lastSeen[ch] >= t

CountedSince(t) == \A ch \in Channels : counts[ch] # 0 => SeenSince(ch, t)

CountsInv ==
  /\ sampler = "none" \/ (sampler = "waiting" /\ ~tick) => CountedSince(clock)
  /\ sampler = "waiting" => CountedSince(clock - 1)
  /\ sampler \in {"listing", "appending"} => CountedSince(sampledAt - 1)

LineSince(ch, d) ==
  IF ch \in DOMAIN series
  THEN /\ SeenSince(ch, sampledAt - d - ChannelIdle)
       /\ series[ch][Len(series[ch])] # 0 => SeenSince(ch, sampledAt - d - 1)
  ELSE SeenSince(ch, sampledAt - d)

Lines(d) == \A ch \in DOMAIN lastSeen \cup DOMAIN series \cup lastSub : LineSince(ch, d)

LinesInv ==
  /\ sampler = "none" => DOMAIN series = {}
  /\ sampler \in {"none", "waiting"} => Lines(0)
  /\ sampler = "listing" => Lines(1)
  /\ sampler = "appending" => Lines(1) \/ (clock = sampledAt /\ Lines(CallTimeout))

\* A probe is seen now.
LEMMA ProbeIsSeen ==
  ASSUME TypeInv, NEW m \in Probes, OnProbe(m), NEW ch, NEW t \in Int, t <= clock,
         SeenSince(ch, t) \/ ch = m.ch
  PROVE  SeenSince(ch, t)'
<1>1. DOMAIN lastSeen' = DOMAIN lastSeen \cup {m.ch}
  BY DEF OnProbe, Put
<1>2. lastSeen'[m.ch] = clock
  BY DEF OnProbe, Put
<1>3. \A x \in DOMAIN lastSeen : x # m.ch => lastSeen'[x] = lastSeen[x]
  BY DEF OnProbe, Put
<1>4. clock \in Nat
  BY DEF TypeInv
<1> QED
  BY <1>1, <1>2, <1>3, <1>4 DEF SeenSince

LEMMA CountsInvStep == TypeInv /\ TimeInv /\ CountsInv /\ [Next]_vars => CountsInv'
<1> SUFFICES ASSUME TypeInv, TimeInv, CountsInv, [Next]_vars PROVE CountsInv'
  OBVIOUS
<1>0. /\ clock \in Nat /\ sampledAt \in Nat /\ tick \in BOOLEAN /\ sampledAt <= clock
      /\ sampler \in {"none", "waiting", "listing", "appending", "exited"}
  BY DEF TypeInv, TimeInv
<1>1. CASE UNCHANGED <<clock, sampler, tick, sampledAt, counts, lastSeen>>
  BY <1>1 DEF CountsInv, CountedSince, SeenSince
<1>2. CASE StartRuns
  <2>1. sampler = "none" /\ ~tick /\ clock = 0
    BY <1>2 DEF StartRuns, TimeInv
  <2>2. CountedSince(clock) /\ UNCHANGED <<clock, tick, sampledAt, counts, lastSeen>>
    BY <1>2, <2>1 DEF StartRuns, CountsInv, boardVars
  <2>3. CountedSince(clock - 1)
    BY <1>0, <2>2 DEF CountedSince, SeenSince, TypeInv
  <2> QED
    BY <1>2, <2>1, <2>2, <2>3 DEF StartRuns, CountsInv, CountedSince, SeenSince
<1>3. CASE SamplerStops
  BY <1>3 DEF SamplerStops, CountsInv
<1>4. ASSUME NEW m \in Probes, OnProbe(m) PROVE CountsInv'
  <2>1. /\ UNCHANGED <<clock, sampler, tick, sampledAt>>
        /\ \A ch \in Channels : ch # m.ch => counts'[ch] = counts[ch]
    BY <1>4 DEF OnProbe, samplerVars, TypeInv
  <2>2. ASSUME NEW t \in Int, t <= clock, CountedSince(t)
        PROVE  \A ch \in Channels : counts'[ch] # 0 => SeenSince(ch, t)'
    BY <1>4, <2>1, <2>2, ProbeIsSeen DEF CountedSince
  <2>3. PICK now, t : now = clock /\ t = sampledAt
    OBVIOUS
  <2>4. /\ now \in Int /\ now <= clock /\ now - 1 \in Int /\ now - 1 <= clock
        /\ t - 1 \in Int /\ t - 1 <= clock
    BY <1>0, <2>3
  <2>5. /\ CountedSince(now) => \A ch \in Channels : counts'[ch] # 0 => SeenSince(ch, now)'
        /\ CountedSince(now - 1) => \A ch \in Channels : counts'[ch] # 0 => SeenSince(ch, now - 1)'
        /\ CountedSince(t - 1) => \A ch \in Channels : counts'[ch] # 0 => SeenSince(ch, t - 1)'
    BY <2>2, <2>4
  <2> QED
    BY <2>1, <2>3, <2>5 DEF CountsInv, CountedSince, SeenSince
<1>5. CASE SampleBegins
  <2>1. CountedSince(clock - 1)
    BY <1>5 DEF SampleBegins, CountsInv
  <2> QED
    BY <1>5, <2>1 DEF SampleBegins, boardVars, CountsInv, CountedSince, SeenSince
<1>6. ASSUME NEW found \in SUBSET Addrs, IndexBuilt(found) PROVE CountsInv'
  BY <1>6 DEF IndexBuilt, CountsInv, CountedSince, SeenSince
<1>7. CASE SampleEnds
  BY <1>7 DEF SampleEnds, CountsInv, CountedSince
<1>8. CASE SecondPasses
  <2>1. /\ clock' = clock + 1 /\ UNCHANGED <<stage, sampler, sampledAt, counts, lastSeen>>
        /\ stage \in {"running", "closing"}
        /\ sampler = "waiting" => ~tick
        /\ tick' = (sampler \in {"waiting", "listing"})
    BY <1>8 DEF SecondPasses, boardVars
  <2>2. sampler # "none"
    BY <2>1 DEF TimeInv
  <2>3. sampler = "waiting" => tick' /\ CountedSince(clock)
    BY <2>1, <2>2 DEF CountsInv
  <2>4. clock' - 1 = clock
    BY <1>0, <2>1
  <2> QED
    BY <2>1, <2>2, <2>3, <2>4 DEF CountsInv, CountedSince, SeenSince
<1> QED
  BY <1>1, <1>2, <1>3, <1>4, <1>5, <1>6, <1>7, <1>8 DEF Next, SamplerStep, StartConnects, StartFails,
     CloseBegins, CloseEnds, OnThreat, vars, samplerVars, boardVars

LEMMA LinesShift ==
  ASSUME TypeInv, TypeInv', UNCHANGED <<lastSeen, series, lastSub>>,
         NEW d \in Nat, NEW e \in Nat, Lines(d), sampledAt' - e <= sampledAt - d
  PROVE  Lines(e)'
<1>1. sampledAt \in Nat /\ sampledAt' \in Nat /\ ChannelIdle \in Nat
  BY JourneyAssumption DEF TypeInv
<1>2. \A ch \in DOMAIN lastSeen : lastSeen[ch] \in Nat
  BY DEF TypeInv
<1>3. \A ch : LineSince(ch, d) => LineSince(ch, e)'
  BY <1>1, <1>2 DEF LineSince, SeenSince
<1> QED
  BY <1>3 DEF Lines

LEMMA LinesOfProbe ==
  ASSUME TypeInv, TimeInv, NEW m \in Probes, OnProbe(m), NEW d \in Nat, Lines(d)
  PROVE  Lines(d)'
<1>1. /\ sampledAt \in Nat /\ clock \in Nat /\ sampledAt <= clock /\ ChannelIdle \in Nat
      /\ UNCHANGED <<sampledAt, series>>
  BY JourneyAssumption DEF TypeInv, TimeInv, OnProbe, samplerVars
<1>2. PICK t \in Int : t = sampledAt - d
  BY <1>1
<1>3. t <= clock /\ t - 1 \in Int /\ t - 1 <= clock /\ t - ChannelIdle \in Int /\ t - ChannelIdle <= clock
  BY <1>1, <1>2
<1>4. ASSUME NEW ch \in (DOMAIN lastSeen \cup DOMAIN series \cup lastSub)' PROVE LineSince(ch, d)'
  <2>1. ch = m.ch \/ ch \in DOMAIN lastSeen \cup DOMAIN series \cup lastSub
    BY <1>1 DEF OnProbe, Put
  <2>2. /\ SeenSince(ch, t) \/ ch = m.ch => SeenSince(ch, t)'
        /\ SeenSince(ch, t - 1) \/ ch = m.ch => SeenSince(ch, t - 1)'
        /\ SeenSince(ch, t - ChannelIdle) \/ ch = m.ch => SeenSince(ch, t - ChannelIdle)'
    BY <1>2, <1>3, ProbeIsSeen
  <2>3. ch # m.ch => LineSince(ch, d)
    BY <2>1 DEF Lines
  <2>4. CASE ch \in DOMAIN series
    BY <1>1, <1>2, <2>2, <2>3, <2>4 DEF LineSince
  <2>5. CASE ch \notin DOMAIN series
    BY <1>1, <1>2, <2>2, <2>3, <2>5 DEF LineSince
  <2> QED
    BY <2>4, <2>5
<1> QED
  BY <1>4 DEF Lines

\* A sample drops the channels that fell silent and no others.
LEMMA SampleKeepsActive ==
  ASSUME TypeInv, SampleEnds, NEW d \in Nat, Lines(d), d <= ChannelIdle
  PROVE  /\ DOMAIN series' = Active /\ DOMAIN lastSeen' = Active /\ lastSub' \subseteq Active
         /\ \A ch \in Active : lastSeen'[ch] = lastSeen[ch]
<1>1. sampledAt \in Nat /\ ChannelIdle \in Nat /\ \A ch \in DOMAIN lastSeen : lastSeen[ch] \in Nat
  BY JourneyAssumption DEF TypeInv
<1>2. \A ch \in DOMAIN lastSeen \cup lastSub : ch \in Idle \/ ch \in Active
  <2> SUFFICES ASSUME NEW ch \in DOMAIN lastSeen \cup lastSub, ch \notin DOMAIN series
               PROVE  ch \in Active
    BY DEF Idle
  <2>1. ch \in DOMAIN lastSeen /\ lastSeen[ch] >= sampledAt - d
    BY DEF Lines, LineSince, SeenSince
  <2> QED
    BY <1>1, <2>1 DEF Active
<1>3. Active \subseteq DOMAIN lastSeen /\ Active \cap Idle = {}
  BY DEF Active, Idle
<1>4. DOMAIN series' = Active
  BY DEF SampleEnds, Idle
<1>5. DOMAIN lastSeen' = DOMAIN lastSeen \ Idle /\ lastSub' = lastSub \ Idle
      /\ \A ch \in DOMAIN lastSeen \ Idle : lastSeen'[ch] = lastSeen[ch]
  BY DEF SampleEnds
<1> QED
  BY <1>2, <1>3, <1>4, <1>5

\* What a sample in progress may rely on.
LEMMA LinesBeforeSample ==
  ASSUME TypeInv, LinesInv, sampler = "appending"
  PROVE  \E d \in Nat : Lines(d) /\ d <= ChannelIdle
<1>1. CallTimeout \in Nat /\ CallTimeout <= ChannelIdle /\ ChannelIdle \in Nat /\ 1 <= ChannelIdle
  BY JourneyAssumption
<1> QED
  BY <1>1 DEF LinesInv

LEMMA LinesInvStep == TypeInv /\ TimeInv /\ CountsInv /\ LinesInv /\ [Next]_vars => LinesInv'
<1> SUFFICES ASSUME TypeInv, TimeInv, CountsInv, LinesInv, [Next]_vars PROVE LinesInv'
  OBVIOUS
<1>0. /\ clock \in Nat /\ sampledAt \in Nat /\ tick \in BOOLEAN /\ sampledAt <= clock
      /\ sampler \in {"none", "waiting", "listing", "appending", "exited"}
      /\ CallTimeout \in Nat /\ IndexRefresh \in Nat /\ CallTimeout <= IndexRefresh
  BY JourneyAssumption DEF TypeInv, TimeInv
<1>0a. TypeInv'
  BY TypeInvStep
<1>1. CASE UNCHANGED <<clock, sampler, sampledAt, series, lastSeen, lastSub>>
  BY <1>1 DEF LinesInv, Lines, LineSince, SeenSince
<1>2. CASE StartRuns
  <2>1. sampler = "none" /\ sampler' = "waiting" /\ UNCHANGED <<sampledAt, series, lastSeen, lastSub>>
    BY <1>2 DEF StartRuns, TimeInv, boardVars
  <2>2. Lines(0)'
    BY <2>1 DEF LinesInv, Lines, LineSince, SeenSince
  <2> QED
    BY <2>1, <2>2 DEF LinesInv
<1>3. CASE SamplerStops
  BY <1>3 DEF SamplerStops, LinesInv
<1>4. ASSUME NEW m \in Probes, OnProbe(m) PROVE LinesInv'
  <2>1. UNCHANGED <<clock, sampler, sampledAt, series>>
    BY <1>4 DEF OnProbe, samplerVars
  <2>2. /\ Lines(0) => Lines(0)'
        /\ Lines(1) => Lines(1)'
    BY <1>4, LinesOfProbe
  <2>3. Lines(CallTimeout) => Lines(CallTimeout)'
    BY <1>0, <1>4, LinesOfProbe
  <2> QED
    BY <2>1, <2>2, <2>3 DEF LinesInv
<1>5. CASE SampleBegins
  <2>1. /\ sampler = "waiting" /\ sampledAt' = clock /\ Lines(0)
        /\ UNCHANGED <<clock, lastSeen, series, lastSub>>
    BY <1>5 DEF SampleBegins, boardVars, LinesInv
  <2>2. CASE clock <= sampledAt + 1
    <3>1. sampledAt' - 1 <= sampledAt - 0
      BY <1>0, <2>1, <2>2
    <3>2. Lines(1)'
      BY <1>0a, <2>1, <3>1, LinesShift
    <3>3. sampler' \in {"listing", "appending"}
      BY <1>5 DEF SampleBegins
    <3> QED
      BY <3>2, <3>3 DEF LinesInv
  <2>3. CASE ~(clock <= sampledAt + 1)
    <3>1. JustListed /\ clock <= sampledAt + CallTimeout
      BY <1>0, <2>1, <2>3 DEF TimeInv
    <3>2. ~IndexStale
      BY <1>0, <3>1 DEF JustListed, IndexStale
    <3>3. sampler' = "appending"
      BY <1>5, <3>2 DEF SampleBegins
    <3>4. sampledAt' - CallTimeout <= sampledAt - 0
      BY <1>0, <2>1, <3>1
    <3>5. Lines(CallTimeout)'
      BY <1>0, <1>0a, <2>1, <3>4, LinesShift
    <3> QED
      BY <2>1, <3>3, <3>5 DEF LinesInv
  <2> QED
    BY <2>2, <2>3
<1>6. ASSUME NEW found \in SUBSET Addrs, IndexBuilt(found) PROVE LinesInv'
  <2>1. /\ Lines(1) /\ sampler' = "appending"
        /\ UNCHANGED <<sampledAt, series, lastSeen, lastSub>>
    BY <1>6 DEF IndexBuilt, LinesInv
  <2>2. Lines(1)'
    BY <2>1 DEF Lines, LineSince, SeenSince
  <2> QED
    BY <2>1, <2>2 DEF LinesInv
<1>7. CASE SampleEnds
  <2>1. /\ sampler = "appending" /\ sampler' = "waiting" /\ UNCHANGED sampledAt
        /\ \A ch \in DOMAIN series' : ch \in Active =>
             series'[ch] = Trimmed(Append(SeriesOf(ch), counts[ch]))
    BY <1>7 DEF SampleEnds
  <2>2. PICK d \in Nat : Lines(d) /\ d <= ChannelIdle
    BY <2>1, LinesBeforeSample
  <2>3. /\ DOMAIN series' = Active /\ DOMAIN lastSeen' = Active /\ lastSub' \subseteq Active
        /\ \A ch \in Active : lastSeen'[ch] = lastSeen[ch]
    BY <1>7, <2>2, SampleKeepsActive
  <2>4. ASSUME NEW ch \in Active PROVE LineSince(ch, 0)'
    <3>1. ch \in Channels /\ SeriesOf(ch) \in Seq(Nat) /\ counts[ch] \in Nat
      BY DEF Active, SeriesOf, TypeInv, LineType
    <3>2. series'[ch] = Trimmed(Append(SeriesOf(ch), counts[ch]))
      BY <2>1, <2>3
    <3>3. series'[ch][Len(series'[ch])] = counts[ch]
      BY <3>1, <3>2, AppendTrimmed
    <3>4. counts[ch] # 0 => lastSeen[ch] >= sampledAt - 1
      BY <2>1, <3>1 DEF CountsInv, CountedSince, SeenSince
    <3>5. lastSeen[ch] \in Nat /\ ChannelIdle \in Nat /\ sampledAt - lastSeen[ch] <= ChannelIdle
      BY JourneyAssumption DEF Active, TypeInv
    <3>6. lastSeen[ch] >= sampledAt - 0 - ChannelIdle /\ sampledAt - 0 - 1 = sampledAt - 1
      BY <1>0, <3>5
    <3> QED
      BY <2>1, <2>3, <3>3, <3>4, <3>6 DEF LineSince, SeenSince
  <2>5. Lines(0)'
    BY <2>3, <2>4 DEF Lines
  <2> QED
    BY <2>1, <2>5 DEF LinesInv
<1>8. CASE SecondPasses
  <2>1. /\ UNCHANGED <<sampler, sampledAt, series, lastSeen, lastSub>> /\ sampler # "appending"
    BY <1>8 DEF SecondPasses, boardVars
  <2> QED
    BY <2>1 DEF LinesInv, Lines, LineSince, SeenSince
<1> QED
  BY <1>1, <1>2, <1>3, <1>4, <1>5, <1>6, <1>7, <1>8 DEF Next, SamplerStep, StartConnects, StartFails,
     CloseBegins, CloseEnds, OnThreat, vars, samplerVars, boardVars

-----------------------------------------------------------------------------
(* Denials.  A sample appends every count that is not zero: its channel was *)
(* seen since the last one, so that it is active.                           *)

DeniedInv == totals.denied = Plotted(counts, sampled)

LEMMA CountedIsActive ==
  ASSUME TypeInv, CountsInv, sampler = "appending", NEW ch \in Channels, counts[ch] # 0
  PROVE  ch \in Active
<1>1. ch \in DOMAIN lastSeen /\ lastSeen[ch] >= sampledAt - 1
  BY DEF CountsInv, CountedSince, SeenSince
<1>2. sampledAt \in Nat /\ lastSeen[ch] \in Nat /\ ChannelIdle \in Nat /\ ChannelIdle >= 1
  BY <1>1, JourneyAssumption DEF TypeInv
<1> QED
  BY <1>1, <1>2 DEF Active

LEMMA DeniedInvStep == TypeInv /\ CountsInv /\ DeniedInv /\ [Next]_vars => DeniedInv'
<1> SUFFICES ASSUME TypeInv, CountsInv, DeniedInv, [Next]_vars PROVE DeniedInv'
  OBVIOUS
<1>0. /\ counts \in [Channels -> Nat] /\ sampled \in [Channels -> Nat]
      /\ totals \in [denied : Nat, tarpit : Nat, decoy : Nat, threats : Nat]
  BY DEF TypeInv
<1>0a. counts' \in [Channels -> Nat] /\ sampled' \in [Channels -> Nat]
  BY TypeInvStep DEF TypeInv
<1>1. CASE UNCHANGED <<totals, counts, sampled>>
  BY <1>1 DEF DeniedInv
<1>2. CASE OnThreat
  <2>1. totals'.denied = totals.denied
    BY <1>0, <1>2 DEF OnThreat
  <2> QED
    BY <1>2, <2>1 DEF OnThreat, DeniedInv
<1>3. ASSUME NEW m \in Probes, OnProbe(m) PROVE DeniedInv'
  <2>1. m.ch \in Channels
    BY JourneyAssumption
  <2>2. totals'.denied = totals.denied + 1
    BY <1>0, <1>3 DEF OnProbe
  <2>3. counts' = [counts EXCEPT ![m.ch] = @ + 1] /\ sampled' = sampled
    BY <1>3 DEF OnProbe
  <2>4. PICK a, b, c : a = counts /\ b = sampled /\ c = counts'
    OBVIOUS
  <2>5. PICK D : D = {m.ch}
    OBVIOUS
  <2>6. OneMore([ch \in Channels |-> a[ch] + b[ch]], [ch \in Channels |-> c[ch] + b[ch]], Channels, D)
    BY <1>0, <2>1, <2>3, <2>4, <2>5 DEF OneMore
  <2>7. D \in SUBSET Channels /\ D # {}
    BY <2>1, <2>5
  <2>8. a \in [Channels -> Nat] /\ b \in [Channels -> Nat] /\ c \in [Channels -> Nat]
    BY <1>0, <1>0a, <2>4
  <2>9. Plotted(c, b) = Plotted(a, b) + 1
    <3>1. Plotted(c, b) = IF D = {} THEN Plotted(a, b) ELSE Plotted(a, b) + 1
      BY <2>6, <2>7, <2>8, PlottedStep
    <3> QED
      BY <2>7, <3>1
  <2> QED
    BY <2>2, <2>3, <2>4, <2>9 DEF DeniedInv
<1>4. CASE SampleEnds
  <2>1. UNCHANGED totals /\ sampler = "appending"
    BY <1>4 DEF SampleEnds
  <2>2. PICK a, b, c, d : a = counts /\ b = sampled /\ c = counts' /\ d = sampled'
    OBVIOUS
  <2>3. \A ch \in Channels : c[ch] + d[ch] = a[ch] + b[ch]
    <3> SUFFICES ASSUME NEW ch \in Channels PROVE c[ch] + d[ch] = a[ch] + b[ch]
      OBVIOUS
    <3>1. c[ch] = 0 /\ (ch \in Active => d[ch] = b[ch] + a[ch]) /\ (ch \notin Active => d[ch] = b[ch] + 0)
      BY <1>4, <2>2 DEF SampleEnds
    <3>2. ch \notin Active => a[ch] = 0
      BY <2>1, <2>2, CountedIsActive
    <3>3. a[ch] \in Nat /\ b[ch] \in Nat
      BY <1>0, <2>2
    <3> QED
      BY <3>1, <3>2, <3>3
  <2>4. OneMore([ch \in Channels |-> a[ch] + b[ch]], [ch \in Channels |-> c[ch] + d[ch]], Channels, {})
    BY <2>3 DEF OneMore
  <2>5. Plotted(c, d) = Plotted(a, b)
    BY <1>0, <1>0a, <2>2, <2>4, PlottedStep
  <2> QED
    BY <2>1, <2>2, <2>5 DEF DeniedInv
<1> QED
  BY <1>1, <1>2, <1>3, <1>4 DEF Next, SamplerStep, StartConnects, StartRuns, StartFails, CloseBegins,
     CloseEnds, SamplerStops, SampleBegins, IndexBuilt, SecondPasses, vars, boardVars

-----------------------------------------------------------------------------
BoardInv == TypeInv /\ TimeInv /\ NamesInv /\ CountsInv /\ LinesInv /\ DeniedInv

\* What is true of the board in every reachable state.
THEOREM BoardInductive == Spec => []BoardInv
<1>1. Init => BoardInv
  <2> SUFFICES ASSUME Init PROVE BoardInv
    OBVIOUS
  <2>1. DOMAIN lastSeen = {} /\ DOMAIN series = {} /\ DOMAIN probers = {} /\ lastSub = {}
    BY DEF Init, Empty
  <2>2. NamesInv /\ LinesInv
    BY <2>1 DEF Init, NamesInv, LinesInv, Lines
  <2>3. CountsInv
    BY DEF Init, CountsInv, CountedSince
  <2>4. DeniedInv
    <3>1. PICK a : a = [ch \in Channels |-> 0]
      OBVIOUS
    <3>2. Plotted(a, a) = 0
      BY <3>1, PlottedNothing
    <3> QED
      BY <3>1, <3>2 DEF Init, DeniedInv
  <2> QED
    BY <2>2, <2>3, <2>4, TypeInvInit, TimeInvInit DEF BoardInv
<1>2. BoardInv /\ [Next]_vars => BoardInv'
  BY TypeInvStep, TimeInvStep, NamesInvStep, CountsInvStep, LinesInvStep, DeniedInvStep DEF BoardInv
<1> QED
  BY <1>1, <1>2, PTL DEF Spec

\* Every denial is plotted exactly once: the counts that the sampler moves
\* into the lines and those the callbacks go on adding lose none.
THEOREM DenialsArePlotted == Spec => []EveryDenialPlotted
<1>1. DeniedInv => EveryDenialPlotted
  BY Zenon DEF DeniedInv, EveryDenialPlotted, Plotted
<1> QED
  BY <1>1, BoardInductive, PTL DEF BoardInv

\* No prober keeps the name of an index that was replaced.
THEOREM NamesAreCurrent == Spec => []NamesFollowIndex
<1>1. TypeInv /\ NamesInv => NamesFollowIndex
  <2> SUFFICES ASSUME NamesInv, NEW a \in DOMAIN probers
               PROVE  /\ probers[a].name # "" => idx # NoIndex /\ probers[a].name = idx[a]
                      /\ Page.names[a] \in (IF idx = NoIndex THEN {} ELSE {idx[a]}) \cup {"external"}
    BY DEF NamesFollowIndex
  <2>1. Page.names[a] = IF probers[a].name = "" THEN "external" ELSE probers[a].name
    BY DEF Page
  <2> QED
    BY <2>1 DEF NamesInv
<1> QED
  BY <1>1, BoardInductive, PTL DEF BoardInv

\* No ghost lines: while the sampler runs, a line is of a channel seen within
\* the idle window and one sample, and a page in idle mode shows none that
\* ends above zero.
THEOREM GhostsAreDropped == Spec => []NoGhostLine
<1>1. TypeInv /\ TimeInv /\ LinesInv => NoGhostLine
  <2> SUFFICES ASSUME TypeInv, TimeInv, LinesInv, sampler \notin {"none", "exited"} PROVE NoGhostLine
    BY DEF NoGhostLine
  <2>1. /\ clock \in Nat /\ sampledAt \in Nat
        /\ sampler \in {"waiting", "listing", "appending"}
        /\ CallTimeout \in Nat \ {0} /\ ChannelIdle \in Nat /\ ActiveWindow \in Nat
        /\ CallTimeout + 1 < ActiveWindow /\ ActiveWindow < ChannelIdle
    BY JourneyAssumption DEF TypeInv
  <2>2. PICK d \in Nat : Lines(d) /\ clock - sampledAt + d <= CallTimeout + 1
    <3>1. CASE sampler = "waiting"
      <4>1. Lines(0) /\ clock - sampledAt + 0 <= CallTimeout + 1
        BY <2>1, <3>1 DEF TimeInv, LinesInv
      <4> QED
        BY <4>1
    <3>2. CASE sampler = "listing"
      <4>1. Lines(1) /\ clock - sampledAt + 1 <= CallTimeout + 1
        BY <2>1, <3>2 DEF TimeInv, LinesInv
      <4> QED
        BY <4>1
    <3>3. CASE sampler = "appending" /\ Lines(1)
      <4>1. clock - sampledAt + 1 <= CallTimeout + 1
        BY <2>1, <3>3 DEF TimeInv
      <4> QED
        BY <3>3, <4>1
    <3>4. CASE sampler = "appending" /\ ~Lines(1)
      <4>1. clock = sampledAt /\ Lines(CallTimeout)
        BY <3>4 DEF LinesInv
      <4> QED
        BY <2>1, <4>1
    <3> QED
      BY <2>1, <3>1, <3>2, <3>3, <3>4
  <2>3. \A ch \in DOMAIN series \cup lastSub :
          ch \in DOMAIN lastSeen /\ clock - lastSeen[ch] <= ChannelIdle + CallTimeout + 1
    <3> SUFFICES ASSUME NEW ch \in DOMAIN series \cup lastSub
                 PROVE  ch \in DOMAIN lastSeen /\ clock - lastSeen[ch] <= ChannelIdle + CallTimeout + 1
      OBVIOUS
    <3>1. LineSince(ch, d)
      BY <2>2 DEF Lines
    <3>2. ch \in DOMAIN lastSeen /\ lastSeen[ch] \in Nat
      BY <3>1 DEF LineSince, SeenSince, TypeInv
    <3>3. lastSeen[ch] >= sampledAt - d - ChannelIdle \/ lastSeen[ch] >= sampledAt - d
      BY <3>1 DEF LineSince, SeenSince
    <3> QED
      BY <2>1, <2>2, <3>2, <3>3
  <2>4. \A ch \in DOMAIN series : Len(series[ch]) \in 1..HistoryLen
    BY DEF TypeInv, LineType
  <2>5. ASSUME Page.mode = "idle", NEW ch \in DOMAIN series PROVE Page.channels[ch] = 0
    <3>1. Page.channels[ch] = series[ch][Len(series[ch])]
      BY DEF Page
    <3>2. Mode = "idle"
      BY <2>5 DEF Page
    <3>3. \A x \in DOMAIN lastSeen : ~(clock - lastSeen[x] <= ActiveWindow)
      BY <3>2 DEF Mode
    <3>4. LineSince(ch, d)
      BY <2>2 DEF Lines
    <3>5. ASSUME series[ch][Len(series[ch])] # 0 PROVE FALSE
      <4>1. ch \in DOMAIN lastSeen /\ lastSeen[ch] >= sampledAt - d - 1
        BY <3>4, <3>5 DEF LineSince, SeenSince
      <4>2. lastSeen[ch] \in Nat
        BY <4>1 DEF TypeInv
      <4> QED
        BY <2>1, <2>2, <3>3, <4>1, <4>2
    <3> QED
      BY <3>1, <3>5
  <2> QED
    BY <2>3, <2>4, <2>5 DEF NoGhostLine
<1> QED
  BY <1>1, BoardInductive, PTL DEF BoardInv

-----------------------------------------------------------------------------
(* One line as a Go slice: SeriesRing.                                     *)

Arrays == Seq(Nat)

Slice == [arr : Nat, off : Nat, len : Nat]

SliceFits(s) ==
  s.arr # 0 => s.arr \in 1..Len(heap) /\ s.off + s.len <= Len(heap[s.arr])

\* The handler's slice ends where the sampler's does or before, if they share
\* an array: what is appended comes behind it.
RingInv ==
  /\ heap \in Seq(Arrays) /\ count \in Nat
  /\ ring \in Slice /\ SliceFits(ring) /\ held \in Slice /\ SliceFits(held)
  /\ ring # Ring!NoSlice =>
       ring.arr # 0 /\ ring.len \in 1..RingLen /\ heap[ring.arr][ring.off + ring.len] = count
  /\ held.arr # 0 /\ held.arr = ring.arr => held.off + held.len <= ring.off + ring.len
  /\ held = Ring!NoSlice \/ held.arr # 0
  /\ meant \in Arrays /\ Len(meant) = held.len
  /\ held.arr # 0 => \A i \in 1..held.len : meant[i] = heap[held.arr][held.off + i]
  /\ encoded \in Arrays /\ Len(encoded) <= held.len
  /\ \A i \in 1..Len(encoded) : encoded[i] = meant[i]

LEMMA Contents ==
  ASSUME RingInv, NEW s \in Slice, SliceFits(s), s.arr # 0
  PROVE  /\ Ring!Contents(s) \in Seq(Nat) /\ Len(Ring!Contents(s)) = s.len
         /\ \A i \in 1..s.len : Ring!Contents(s)[i] = heap[s.arr][s.off + i]
<1>1. PICK a, m, n : a = heap[s.arr] /\ m = s.off + 1 /\ n = s.off + s.len
  OBVIOUS
<1>2. a \in Arrays
  BY <1>1 DEF RingInv, SliceFits
<1>3. m \in Int /\ n \in Int /\ n <= Len(a) /\ s.len \in Nat /\ s.off \in Nat /\ m >= 1
  BY <1>1 DEF Slice, SliceFits
<1>4. \A i \in m..n : a[i] \in Nat
  BY <1>2, <1>3 DEF Arrays
<1>5. Ring!Contents(s) = SubSeq(a, m, n)
  BY <1>1 DEF Ring!Contents
<1>6. /\ SubSeq(a, m, n) \in Seq(Nat)
      /\ Len(SubSeq(a, m, n)) = IF m <= n THEN n - m + 1 ELSE 0
      /\ \A i \in 1..n - m + 1 : SubSeq(a, m, n)[i] = a[m + i - 1]
  BY <1>3, <1>4, SubSeqProperties
<1>7. n - m + 1 = s.len /\ (m <= n <=> s.len # 0) /\ \A i \in 1..s.len : m + i - 1 = s.off + i
  BY <1>1, <1>3
<1> QED
  BY <1>1, <1>3, <1>5, <1>6, <1>7

LEMMA ExceptAt ==
  ASSUME NEW S, NEW h \in Seq(S), NEW a \in 1..Len(h), NEW e \in S, NEW g, g = [h EXCEPT ![a] = e]
  PROVE  /\ g \in Seq(S) /\ Len(g) = Len(h) /\ g[a] = e
         /\ \A b \in 1..Len(h) : b # a => g[b] = h[b]
  BY ExceptSeq

\* One cell is written.
LEMMA WriteCell ==
  ASSUME NEW h \in Seq(Arrays), NEW a \in 1..Len(h), NEW i \in 1..Len(h[a]), NEW v \in Nat,
         NEW g, g = [h EXCEPT ![a][i] = v]
  PROVE  /\ g \in Seq(Arrays) /\ Len(g) = Len(h) /\ Len(g[a]) = Len(h[a]) /\ g[a][i] = v
         /\ \A b \in 1..Len(h) : b # a => g[b] = h[b]
         /\ \A j \in 1..Len(h[a]) : j # i => g[a][j] = h[a][j]
<1>1. PICK old, new : old = h[a] /\ new = [old EXCEPT ![i] = v]
  OBVIOUS
<1>2. old \in Arrays
  BY <1>1
<1>3. /\ new \in Arrays /\ Len(new) = Len(old) /\ new[i] = v
      /\ \A j \in 1..Len(old) : j # i => new[j] = old[j]
  <2>1. old \in Seq(Nat) /\ i \in 1..Len(old)
    BY <1>1, <1>2 DEF Arrays
  <2> QED
    BY <1>1, <2>1, ExceptSeq DEF Arrays
<1>4. g = [h EXCEPT ![a] = new]
  BY <1>1
<1>5. /\ g \in Seq(Arrays) /\ Len(g) = Len(h) /\ g[a] = new
      /\ \A b \in 1..Len(h) : b # a => g[b] = h[b]
  <2>1. h \in Seq(Arrays) /\ a \in 1..Len(h)
    OBVIOUS
  <2>2. new \in Arrays
    BY <1>3
  <2>3. g \in Seq(Arrays)
    BY SMTT(30), <1>4, <2>1, <2>2, ExceptAt
  <2>4. Len(g) = Len(h)
    BY <1>4, <2>1, <2>2, ExceptAt
  <2>5. g[a] = new
    BY <1>4, <2>1, <2>2, ExceptAt
  <2> QED
    BY <1>4, <2>1, <2>2, <2>3, <2>4, <2>5, ExceptAt
<1> QED
  BY <1>1, <1>3, <1>5

LEMMA Grown ==
  ASSUME RingInv, NEW v \in Nat
  PROVE  /\ Ring!Grown(ring, v) \in Arrays
         /\ ring.len + 1 <= Len(Ring!Grown(ring, v)) /\ Ring!Grown(ring, v)[ring.len + 1] = v
<1>1. PICK c, z : /\ c = Ring!Contents(ring)
                  /\ z = [i \in 1 .. IF ring.len = 0 THEN 0 ELSE ring.len - 1 |-> 0]
  OBVIOUS
<1>2. ring.len \in Nat
  BY DEF RingInv, Slice
<1>3. c \in Seq(Nat) /\ Len(c) = ring.len
  <2>1. CASE ring.arr = 0
    <3>1. ring = Ring!NoSlice
      BY <2>1 DEF RingInv
    <3>2. c = << >> /\ ring.len = 0
      BY <1>1, <2>1, <3>1 DEF Ring!Contents, Ring!NoSlice
    <3> QED
      BY <3>2
  <2>2. CASE ring.arr # 0
    <3>1. ring \in Slice /\ SliceFits(ring)
      BY DEF RingInv
    <3> QED
      BY <1>1, <2>2, <3>1, Contents
  <2> QED
    BY <2>1, <2>2
<1>4. z \in Seq(Nat) /\ Len(z) \in Nat
  <2>1. PICK n \in Nat : n = IF ring.len = 0 THEN 0 ELSE ring.len - 1
    BY <1>2
  <2>2. z \in [1..n -> Nat]
    BY <1>1, <2>1
  <2> QED
    BY <2>2
<1>5. PICK cv : cv = c \o <<v>>
  OBVIOUS
<1>6. cv \in Seq(Nat) /\ Len(cv) = ring.len + 1 /\ cv[ring.len + 1] = v
  <2>1. cv = Append(c, v)
    BY <1>3, <1>5, AppendIsConcat
  <2> QED
    BY <1>3, <2>1, AppendProperties
<1>7. /\ cv \o z \in Seq(Nat) /\ Len(cv \o z) = Len(cv) + Len(z)
      /\ \A i \in 1..Len(cv) + Len(z) : (cv \o z)[i] = IF i <= Len(cv) THEN cv[i] ELSE z[i - Len(cv)]
  BY <1>4, <1>6, ConcatProperties
<1>8. Ring!Grown(ring, v) = cv \o z
  BY <1>1, <1>5 DEF Ring!Grown
<1> QED
  BY <1>2, <1>4, <1>6, <1>7, <1>8 DEF Arrays

LEMMA RingInvInit == Ring!Init => RingInv
<1> SUFFICES ASSUME Ring!Init PROVE RingInv
  OBVIOUS
<1>1. heap = << >> /\ meant = << >> /\ encoded = << >> /\ count = 0
      /\ ring = Ring!NoSlice /\ held = Ring!NoSlice
  BY DEF Ring!Init
<1>2. Ring!NoSlice \in Slice /\ Ring!NoSlice.arr = 0 /\ Ring!NoSlice.len = 0
  BY DEF Ring!NoSlice, Slice
<1>3. heap \in Seq(Arrays)
  BY <1>1
<1>4. meant \in Arrays /\ encoded \in Arrays /\ Len(meant) = 0 /\ Len(encoded) = 0
  BY <1>1 DEF Arrays
<1> QED
  BY <1>1, <1>2, <1>3, <1>4 DEF RingInv, SliceFits

\* What a slice held stays what it was while its array is left alone.
HeldAsMeant(h, s) == s.arr # 0 => \A i \in 1..s.len : meant[i] = h[s.arr][s.off + i]

\* Trimming moves the front of a slice, not its end.
LEMMA TrimKeepsEnd ==
  ASSUME NEW h, NEW s \in Slice, s.len # 0, NEW t, t = Ring!Trim(h, s).ring
  PROVE  /\ t \in Slice /\ t.arr = s.arr /\ t.off + t.len = s.off + s.len /\ t.len \in 1..RingLen
         /\ Ring!Trim(h, s).heap = h
<1>1. RingLen \in Nat \ {0}
  BY RingAssumption
<1>2. CASE s.len <= RingLen
  BY <1>1, <1>2 DEF Slice, Ring!Trim
<1>3. CASE ~(s.len <= RingLen)
  <2>1. Ring!Trim(h, s).heap = h /\ t = [s EXCEPT !.off = @ + s.len - RingLen, !.len = RingLen]
    BY <1>3 DEF Ring!Trim
  <2>2. PICK o, n \in Nat : o = s.off /\ n = s.len
    BY DEF Slice
  <2>3. n > RingLen
    BY <1>1, <1>3, <2>2
  <2>4. o + n - RingLen \in Nat /\ (o + n - RingLen) + RingLen = o + n /\ RingLen \in 1..RingLen
    BY <1>1, <2>3
  <2>5. t = [s EXCEPT !.off = o + n - RingLen, !.len = RingLen]
    BY <2>1, <2>2
  <2> QED
    BY <1>1, <2>1, <2>2, <2>4, <2>5 DEF Slice
<1> QED
  BY <1>2, <1>3

LEMMA SampleKeepsRing == RingInv /\ Ring!Sample => RingInv'
<1> SUFFICES ASSUME RingInv, Ring!Sample PROVE RingInv'
  OBVIOUS
<1>1. /\ heap \in Seq(Arrays) /\ count \in Nat /\ ring \in Slice /\ held \in Slice
      /\ SliceFits(ring) /\ SliceFits(held) /\ HeldAsMeant(heap, held)
  BY DEF RingInv, HeldAsMeant
<1>2. /\ count' = count + 1 /\ UNCHANGED <<held, meant, encoded>>
  BY DEF Ring!Sample
<1> SUFFICES /\ heap' \in Seq(Arrays) /\ ring' \in Slice /\ SliceFits(ring)' /\ SliceFits(held)'
             /\ ring'.arr # 0 /\ ring'.len \in 1..RingLen
             /\ heap'[ring'.arr][ring'.off + ring'.len] = count'
             /\ held.arr # 0 /\ held.arr = ring'.arr => held.off + held.len <= ring'.off + ring'.len
             /\ HeldAsMeant(heap', held)
  BY <1>1, <1>2 DEF RingInv, HeldAsMeant
<1>3. CASE Ring!HasRoom(ring)
  <2>1. PICK h, s, a, i : /\ h = [heap EXCEPT ![ring.arr][ring.off + ring.len + 1] = count + 1]
                          /\ s = [ring EXCEPT !.len = @ + 1]
                          /\ a = ring.arr /\ i = ring.off + ring.len + 1
    OBVIOUS
  <2>2. heap' = Ring!Trim(h, s).heap /\ ring' = Ring!Trim(h, s).ring
    BY <1>3, <2>1 DEF Ring!Sample
  <2>3. /\ s \in Slice /\ s.len # 0 /\ s.arr = a /\ s.off + s.len = i
    BY <1>1, <2>1 DEF Slice
  <2>4. /\ ring' \in Slice /\ ring'.arr = a /\ ring'.off + ring'.len = i
        /\ ring'.len \in 1..RingLen /\ heap' = h
    BY <2>2, <2>3, TrimKeepsEnd
  <2>5. a \in 1..Len(heap) /\ a # 0 /\ i \in 1..Len(heap[a])
    BY <1>1, <1>3, <2>1 DEF Ring!HasRoom, SliceFits, Slice
  <2>6. /\ h \in Seq(Arrays) /\ Len(h) = Len(heap) /\ Len(h[a]) = Len(heap[a]) /\ h[a][i] = count + 1
        /\ \A b \in 1..Len(heap) : b # a => h[b] = heap[b]
        /\ \A j \in 1..Len(heap[a]) : j # i => h[a][j] = heap[a][j]
    <3>1. PICK o : o = heap
      OBVIOUS
    <3>2. o \in Seq(Arrays) /\ a \in 1..Len(o) /\ i \in 1..Len(o[a])
      BY <1>1, <2>5, <3>1
    <3>3. PICK v \in Nat : v = count + 1
      BY <1>1
    <3>4. h = [o EXCEPT ![a][i] = v]
      BY <2>1, <3>1, <3>3
    <3>5. h \in Seq(Arrays)
      BY <3>2, <3>4, WriteCell
    <3>6. Len(h) = Len(o) /\ Len(h[a]) = Len(o[a]) /\ h[a][i] = v
      BY <3>2, <3>4, WriteCell
    <3>7. \A b \in 1..Len(o) : b # a => h[b] = o[b]
      BY <3>2, <3>4, WriteCell
    <3>8. \A j \in 1..Len(o[a]) : j # i => h[a][j] = o[a][j]
      BY <3>2, <3>4, WriteCell
    <3> QED
      BY <3>1, <3>3, <3>5, <3>6, <3>7, <3>8
  <2>7. SliceFits(ring)'
    BY <2>4, <2>5, <2>6 DEF SliceFits
  <2>8. held.arr # 0 => held.arr \in 1..Len(heap) /\ held.off + held.len <= Len(heap[held.arr])
    BY <1>1 DEF SliceFits
  <2>9. SliceFits(held)'
    <3>1. CASE held.arr = a
      BY <1>2, <2>4, <2>6, <2>8, <3>1 DEF SliceFits
    <3>2. CASE held.arr # a
      BY <1>2, <2>4, <2>6, <2>8, <3>2 DEF SliceFits
    <3> QED
      BY <3>1, <3>2
  <2>10. held.arr = a => held.off + held.len < i
    BY <1>1, <2>1, <2>5 DEF RingInv, Slice
  <2>11. HeldAsMeant(heap', held)
    <3> SUFFICES ASSUME held.arr # 0, NEW k \in 1..held.len
                 PROVE  h[held.arr][held.off + k] = heap[held.arr][held.off + k]
      BY <1>1, <2>4 DEF HeldAsMeant
    <3>1. CASE held.arr = a
      <4>1. held.off + k \in 1..Len(heap[a]) /\ held.off + k # i
        BY <1>1, <2>5, <2>8, <2>10, <3>1 DEF Slice
      <4> QED
        BY <2>6, <3>1, <4>1
    <3>2. CASE held.arr # a
      BY <2>6, <2>8, <3>2
    <3> QED
      BY <3>1, <3>2
  <2>12. held.arr = a => held.off + held.len <= i
    BY <1>1, <2>5, <2>10 DEF Slice
  <2>13. heap'[ring'.arr][ring'.off + ring'.len] = count'
    BY <1>2, <2>4, <2>6
  <2> QED
    BY <2>4, <2>5, <2>6, <2>7, <2>9, <2>11, <2>12, <2>13
<1>4. CASE ~Ring!HasRoom(ring)
  <2>1. PICK x, h, s, n : /\ x = Ring!Grown(ring, count + 1) /\ h = Append(heap, x)
                          /\ s = [arr |-> n, off |-> 0, len |-> ring.len + 1] /\ n = Len(heap) + 1
    OBVIOUS
  <2>2. heap' = Ring!Trim(h, s).heap /\ ring' = Ring!Trim(h, s).ring
    BY <1>4, <2>1 DEF Ring!Sample
  <2>3. n \in Nat /\ n # 0 /\ n \notin 1..Len(heap) /\ ring.len \in Nat
    BY <1>1, <2>1 DEF Slice
  <2>4. s \in Slice /\ s.len # 0 /\ s.arr = n /\ s.off + s.len = ring.len + 1
    BY <2>1, <2>3 DEF Slice
  <2>5. /\ ring' \in Slice /\ ring'.arr = n /\ ring'.off + ring'.len = ring.len + 1
        /\ ring'.len \in 1..RingLen /\ heap' = h
    BY <2>2, <2>4, TrimKeepsEnd
  <2>6. x \in Arrays /\ ring.len + 1 <= Len(x) /\ x[ring.len + 1] = count + 1
    <3>1. PICK v \in Nat : v = count + 1
      BY <1>1
    <3>2. /\ Ring!Grown(ring, v) \in Arrays
          /\ ring.len + 1 <= Len(Ring!Grown(ring, v)) /\ Ring!Grown(ring, v)[ring.len + 1] = v
      BY Grown
    <3>3. x = Ring!Grown(ring, v)
      BY <2>1, <3>1
    <3> QED
      BY <3>1, <3>2, <3>3
  <2>7. /\ h \in Seq(Arrays) /\ Len(h) = n /\ h[n] = x
        /\ \A b \in 1..Len(heap) : h[b] = heap[b]
    BY <1>1, <2>1, <2>6, AppendProperties
  <2>8. SliceFits(ring)'
    BY <2>3, <2>5, <2>6, <2>7 DEF SliceFits
  <2>9. held.arr # 0 => held.arr \in 1..Len(heap) /\ held.off + held.len <= Len(heap[held.arr])
    BY <1>1 DEF SliceFits
  <2>10. SliceFits(held)'
    BY <1>1, <1>2, <2>1, <2>5, <2>7, <2>9 DEF SliceFits
  <2>11. HeldAsMeant(heap', held)
    BY <1>1, <2>5, <2>7, <2>9 DEF HeldAsMeant
  <2>12. held.arr # 0 => held.arr # n
    BY <2>3, <2>9
  <2>13. heap'[ring'.arr][ring'.off + ring'.len] = count'
    BY <1>2, <2>5, <2>6, <2>7
  <2> QED
    BY <2>3, <2>5, <2>7, <2>8, <2>10, <2>11, <2>12, <2>13
<1> QED
  BY <1>3, <1>4

LEMMA RingInvStep == RingInv /\ [Ring!Next]_(Ring!vars) => RingInv'
<1> SUFFICES ASSUME RingInv, [Ring!Next]_(Ring!vars) PROVE RingInv'
  OBVIOUS
<1>1. CASE Ring!Sample
  BY <1>1, SampleKeepsRing
<1>2. CASE Ring!Drop
  <2>1. ring' = Ring!NoSlice /\ UNCHANGED <<heap, count, held, meant, encoded>>
    BY <1>2 DEF Ring!Drop
  <2>2. Ring!NoSlice \in Slice /\ Ring!NoSlice.arr = 0
    BY DEF Ring!NoSlice, Slice
  <2> QED
    BY <2>1, <2>2 DEF RingInv, SliceFits
<1>3. CASE Ring!snapshot
  <2>1. /\ held' = ring /\ meant' = Ring!Contents(ring) /\ encoded' = << >>
        /\ ring # Ring!NoSlice /\ UNCHANGED <<heap, ring, count>>
    BY <1>3 DEF Ring!snapshot
  <2>2. ring \in Slice /\ SliceFits(ring) /\ ring.arr # 0 /\ ring.len \in Nat /\ ring.off \in Nat
    BY <2>1 DEF RingInv, Slice
  <2>3. /\ meant' \in Arrays /\ Len(meant') = ring.len
        /\ \A i \in 1..ring.len : meant'[i] = heap[ring.arr][ring.off + i]
    BY <2>1, <2>2, Contents DEF Arrays
  <2>4. encoded' \in Arrays /\ Len(encoded') = 0
    BY <2>1 DEF Arrays
  <2>5. SliceFits(held)' /\ SliceFits(ring)'
    BY <2>1, <2>2 DEF SliceFits
  <2> QED
    BY <2>1, <2>2, <2>3, <2>4, <2>5 DEF RingInv
<1>4. CASE Ring!Encode
  <2>1. held # Ring!NoSlice /\ UNCHANGED <<heap, ring, count>>
    BY <1>4 DEF Ring!Encode
  <2>2. CASE Len(encoded) < held.len
    <3>1. /\ encoded' = Append(encoded, Ring!Contents(held)[Len(encoded) + 1])
          /\ UNCHANGED <<held, meant>>
      BY <1>4, <2>2 DEF Ring!Encode
    <3>2. held \in Slice /\ SliceFits(held) /\ held.arr # 0 /\ held.len \in Nat
      BY <2>1 DEF RingInv, Slice
    <3>3. PICK n : n = Len(encoded) + 1
      OBVIOUS
    <3>4. encoded \in Seq(Nat) /\ meant \in Seq(Nat) /\ Len(meant) = held.len /\ n \in 1..held.len
      BY <2>2, <3>2, <3>3 DEF RingInv, Arrays
    <3>5. Ring!Contents(held)[n] = heap[held.arr][held.off + n]
      BY <3>2, <3>4, Contents
    <3>6. meant[n] = heap[held.arr][held.off + n]
      BY <3>2, <3>4 DEF RingInv
    <3>7. meant[n] \in Nat
      BY <3>4
    <3>8. encoded' = Append(encoded, meant[n])
      BY <3>1, <3>3, <3>5, <3>6
    <3>9. /\ encoded' \in Seq(Nat) /\ Len(encoded') = n /\ encoded'[n] = meant[n]
          /\ \A i \in 1..Len(encoded) : encoded'[i] = encoded[i]
      BY <3>3, <3>4, <3>7, <3>8, AppendProperties
    <3>10. \A i \in 1..n : encoded'[i] = meant[i]
      <4> SUFFICES ASSUME NEW i \in 1..n PROVE encoded'[i] = meant[i]
        OBVIOUS
      <4>1. i = n \/ i \in 1..Len(encoded)
        BY <3>3, <3>4
      <4> QED
        BY <3>9, <4>1 DEF RingInv
    <3>11. SliceFits(held)' /\ SliceFits(ring)'
      BY <2>1, <3>1 DEF RingInv, SliceFits
    <3> QED
      BY <2>1, <3>1, <3>4, <3>9, <3>10, <3>11 DEF RingInv, Arrays
  <2>3. CASE ~(Len(encoded) < held.len)
    <3>1. held' = Ring!NoSlice /\ meant' = << >> /\ encoded' = << >>
      BY <1>4, <2>3 DEF Ring!Encode
    <3>2. Ring!NoSlice \in Slice /\ Ring!NoSlice.arr = 0 /\ Ring!NoSlice.len = 0
      BY DEF Ring!NoSlice, Slice
    <3>3. meant' \in Arrays /\ encoded' \in Arrays /\ Len(meant') = 0 /\ Len(encoded') = 0
      BY <3>1 DEF Arrays
    <3>4. SliceFits(held)' /\ SliceFits(ring)'
      BY <2>1, <3>1, <3>2 DEF RingInv, SliceFits
    <3> QED
      BY <2>1, <3>1, <3>2, <3>3, <3>4 DEF RingInv
  <2> QED
    BY <2>2, <2>3
<1>5. CASE UNCHANGED Ring!vars
  BY <1>5 DEF Ring!vars, RingInv, SliceFits
<1> QED
  BY <1>1, <1>2, <1>3, <1>4, <1>5 DEF Ring!Next

\* A handler encodes the line it was shown under the mutex, whatever the
\* sampler writes behind it in the same array and however it trims it.
THEOREM EncodesWhatItSaw == Ring!Spec => []SnapshotIsStable
<1>1. RingInv => SnapshotIsStable
  <2> SUFFICES ASSUME RingInv PROVE SnapshotIsStable
    OBVIOUS
  <2>1. Ring!IsPrefix(encoded, meant)
    <3>1. encoded \in Seq(Nat) /\ meant \in Seq(Nat) /\ Len(encoded) <= Len(meant)
          /\ \A i \in 1..Len(encoded) : encoded[i] = meant[i]
      BY DEF RingInv, Arrays
    <3>2. PICK n \in Nat : n = Len(encoded)
      BY <3>1
    <3>3. SubSeq(meant, 1, n) = SubSeq(encoded, 1, n)
      <4>1. /\ \A i \in 1..n : encoded[i] \in Nat
            /\ \A i \in 1..n : meant[i] \in Nat
        BY <3>1, <3>2
      <4>2. PICK p, q : p = SubSeq(meant, 1, n) /\ q = SubSeq(encoded, 1, n)
        OBVIOUS
      <4>3. p \in Seq(Nat) /\ Len(p) = n /\ \A i \in 1..n : p[i] = meant[i]
        BY <4>1, <4>2, SubSeqProperties
      <4>4. q \in Seq(Nat) /\ Len(q) = n /\ \A i \in 1..n : q[i] = encoded[i]
        BY <4>1, <4>2, SubSeqProperties
      <4> QED
        BY <3>1, <3>2, <4>2, <4>3, <4>4, SeqEqual
    <3> QED
      BY <3>1, <3>2, <3>3 DEF Ring!IsPrefix
  <2>2. ASSUME ring # Ring!NoSlice
        PROVE  ring.len <= RingLen /\ Ring!Last(Ring!Contents(ring)) = count
    <3>1. /\ ring \in Slice /\ SliceFits(ring) /\ ring.arr # 0 /\ ring.len \in 1..RingLen
          /\ heap[ring.arr][ring.off + ring.len] = count
      BY <2>2 DEF RingInv
    <3>2. ring.len \in 1..ring.len /\ ring.len <= RingLen
      BY <3>1, RingAssumption
    <3>3. /\ Len(Ring!Contents(ring)) = ring.len
          /\ \A i \in 1..ring.len : Ring!Contents(ring)[i] = heap[ring.arr][ring.off + i]
      BY <3>1, Contents
    <3> QED
      BY <3>1, <3>2, <3>3 DEF Ring!Last
  <2> QED
    BY <2>1, <2>2 DEF SnapshotIsStable, Ring!SnapshotIsStable
<1> QED
  BY <1>1, RingInvInit, RingInvStep, PTL DEF Ring!Spec
=============================================================================
