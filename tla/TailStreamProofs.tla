------------------------- MODULE TailStreamProofs -------------------------
(***************************************************************************)
(* Proofs about TailStream, for any options, messages and channel size.    *)
(* The inductive invariant, PipeInv, is about the pipe from the consumer   *)
(* to the handler, which is what was received, the channel and the         *)
(* callback's hand, one after the other: it is in order and holds only     *)
(* what was delivered, and, while the context lives, all of it.  Beside it *)
(* stand what connects the flags of the three goroutines (TypeInv), what   *)
(* was sent (SentInv), and what holds once the consumer is stopped         *)
(* (StopInv).                                                              *)
(***************************************************************************)
EXTENDS TailStream, SequenceTheorems, TLAPS

(* Sequences of numbers *)

LEMMA IncreasingAppend ==
  ASSUME NEW s \in Seq(Nat), NEW n \in Nat, Increasing(s), \A i \in DOMAIN s : s[i] < n
  PROVE  Increasing(Append(s, n))
  BY DEF Increasing

LEMMA AppendIndices ==
  ASSUME NEW s \in Seq(Nat), NEW n \in Nat
  PROVE  /\ DOMAIN Append(s, n) = 1..(Len(s) + 1) /\ Len(Append(s, n)) = Len(s) + 1
         /\ DOMAIN s = 1..Len(s) /\ Len(s) \in Nat
         /\ \A i \in 1..Len(s) : Append(s, n)[i] = s[i]
         /\ Append(s, n)[Len(s) + 1] = n
  OBVIOUS

LEMMA ToSetAppend ==
  ASSUME NEW s \in Seq(Nat), NEW n \in Nat
  PROVE  ToSet(Append(s, n)) = ToSet(s) \cup {n}
<1>1. /\ DOMAIN Append(s, n) = 1..(Len(s) + 1)
      /\ DOMAIN s = 1..Len(s)
      /\ \A i \in 1..Len(s) : Append(s, n)[i] = s[i]
      /\ Append(s, n)[Len(s) + 1] = n
  BY AppendIndices
<1>2. ToSet(Append(s, n)) \subseteq ToSet(s) \cup {n}
  BY <1>1 DEF ToSet
<1>3. ToSet(s) \subseteq ToSet(Append(s, n))
  BY <1>1 DEF ToSet
<1>4. n \in ToSet(Append(s, n))
  BY <1>1 DEF ToSet
<1> QED
  BY <1>2, <1>3, <1>4

\* What is in front of an increasing sequence is one.
LEMMA IncreasingFront ==
  ASSUME NEW s \in Seq(Nat), NEW t \in Seq(Nat), Increasing(s \o t)
  PROVE  Increasing(s) /\ ToSet(s) \subseteq ToSet(s \o t)
<1>1. /\ DOMAIN s = 1..Len(s) /\ DOMAIN (s \o t) = 1..(Len(s) + Len(t))
      /\ \A i \in 1..Len(s) : (s \o t)[i] = s[i]
  OBVIOUS
<1>2. Increasing(s)
  <2> SUFFICES ASSUME NEW i \in 1..Len(s), NEW j \in 1..Len(s), i < j PROVE s[i] < s[j]
    BY <1>1 DEF Increasing
  <2>1. i \in DOMAIN (s \o t) /\ j \in DOMAIN (s \o t)
    <3>1. Len(s) \in Nat /\ Len(t) \in Nat
      OBVIOUS
    <3> QED
      BY <1>1, <3>1
  <2>2. (s \o t)[i] < (s \o t)[j]
    BY Zenon, <2>1 DEF Increasing
  <2> QED
    BY <2>2, <1>1
<1>3. ToSet(s) \subseteq ToSet(s \o t)
  BY <1>1 DEF ToSet
<1> QED
  BY <1>2, <1>3

\* Receiving moves the boundary between what was received and the channel.
LEMMA HeadMoves ==
  ASSUME NEW s \in Seq(Nat), NEW t \in Seq(Nat), t # << >>
  PROVE  Append(s, Head(t)) \o Tail(t) = s \o t
<1> DEFINE u == Append(s, Head(t)) \o Tail(t)
<1>1. /\ Head(t) \in Nat /\ Tail(t) \in Seq(Nat) /\ Len(Tail(t)) = Len(t) - 1
      /\ \A i \in 1..Len(Tail(t)) : Tail(t)[i] = t[i + 1]
      /\ Head(t) = t[1] /\ Len(t) >= 1
  BY HeadTailProperties
<1>2. /\ Append(s, Head(t)) \in Seq(Nat)
      /\ Len(Append(s, Head(t))) = Len(s) + 1
      /\ \A i \in 1..Len(s) : Append(s, Head(t))[i] = s[i]
      /\ Append(s, Head(t))[Len(s) + 1] = Head(t)
  BY <1>1, AppendProperties
<1>3. /\ u \in Seq(Nat) /\ Len(u) = Len(s) + Len(t)
      /\ \A i \in 1..Len(u) : u[i] = IF i <= Len(s) + 1 THEN Append(s, Head(t))[i]
                                     ELSE Tail(t)[i - (Len(s) + 1)]
  BY <1>1, <1>2, ConcatProperties
<1>4. /\ s \o t \in Seq(Nat) /\ Len(s \o t) = Len(s) + Len(t)
      /\ \A i \in 1..Len(s \o t) : (s \o t)[i] = IF i <= Len(s) THEN s[i] ELSE t[i - Len(s)]
  BY ConcatProperties
<1>5. \A i \in 1..Len(u) : u[i] = (s \o t)[i]
  <2> SUFFICES ASSUME NEW i \in 1..Len(u) PROVE u[i] = (s \o t)[i]
    OBVIOUS
  <2>1. CASE i <= Len(s)
    BY <2>1, <1>2, <1>3, <1>4
  <2>2. CASE i = Len(s) + 1
    BY <2>2, <1>1, <1>2, <1>3, <1>4
  <2>3. CASE i > Len(s) + 1
    <3>1. i - (Len(s) + 1) \in 1..Len(Tail(t))
      BY <2>3, <1>1, <1>3
    <3>2. Tail(t)[i - (Len(s) + 1)] = t[i - Len(s)]
      BY <3>1, <1>1
    <3> QED
      BY <2>3, <3>2, <1>3, <1>4
  <2> QED
    BY <2>1, <2>2, <2>3, <1>3
<1> QED
  BY <1>3, <1>4, <1>5, SeqEqual

\* Taking from a queue in two parts takes from the first.
LEMMA HeadOfConcat ==
  ASSUME NEW s \in Seq(Nat), NEW t \in Seq(Nat), s # << >>
  PROVE  /\ s \o t # << >>
         /\ Head(s \o t) = Head(s)
         /\ Tail(s \o t) = Tail(s) \o t
<1>1. /\ Len(s) >= 1 /\ Len(Tail(s)) = Len(s) - 1 /\ Tail(s) \in Seq(Nat)
      /\ \A i \in 1..Len(Tail(s)) : Tail(s)[i] = s[i + 1]
      /\ Head(s) = s[1]
  BY HeadTailProperties
<1>2. /\ s \o t \in Seq(Nat) /\ Len(s \o t) = Len(s) + Len(t)
      /\ \A i \in 1..Len(s \o t) : (s \o t)[i] = IF i <= Len(s) THEN s[i] ELSE t[i - Len(s)]
  BY ConcatProperties
<1>3. Len(s \o t) >= 1 /\ s \o t # << >>
  BY <1>1, <1>2, EmptySeq
<1>4. /\ Tail(s \o t) \in Seq(Nat) /\ Len(Tail(s \o t)) = Len(s) + Len(t) - 1
      /\ \A i \in 1..Len(Tail(s \o t)) : Tail(s \o t)[i] = (s \o t)[i + 1]
      /\ Head(s \o t) = (s \o t)[1]
  BY <1>2, <1>3, HeadTailProperties
<1>5. /\ Tail(s) \o t \in Seq(Nat) /\ Len(Tail(s) \o t) = Len(s) - 1 + Len(t)
      /\ \A i \in 1..Len(Tail(s) \o t) :
           (Tail(s) \o t)[i] = IF i <= Len(s) - 1 THEN Tail(s)[i] ELSE t[i - (Len(s) - 1)]
  BY <1>1, ConcatProperties
<1>6. \A i \in 1..Len(Tail(s \o t)) : Tail(s \o t)[i] = (Tail(s) \o t)[i]
  <2> SUFFICES ASSUME NEW i \in 1..Len(Tail(s \o t))
               PROVE  Tail(s \o t)[i] = (Tail(s) \o t)[i]
    OBVIOUS
  <2>1. i + 1 \in 1..Len(s \o t) /\ i \in 1..Len(Tail(s) \o t)
    BY <1>2, <1>4, <1>5
  <2>2. CASE i <= Len(s) - 1
    <3>1. i \in 1..Len(Tail(s)) /\ i + 1 <= Len(s)
      BY <1>1, <2>2
    <3> QED
      BY <1>1, <1>2, <1>4, <1>5, <2>1, <2>2, <3>1
  <2>3. CASE ~(i <= Len(s) - 1)
    <3>1. ~(i + 1 <= Len(s)) /\ i + 1 - Len(s) = i - (Len(s) - 1)
      BY <1>1, <2>3
    <3> QED
      BY <1>2, <1>4, <1>5, <2>1, <2>3, <3>1
  <2> QED
    BY <2>2, <2>3
<1>7. Len(Tail(s \o t)) = Len(Tail(s) \o t)
  BY <1>4, <1>5
<1>8. Tail(s \o t) = Tail(s) \o t
  BY <1>4, <1>5, <1>6, <1>7, SeqEqual
<1> QED
  BY <1>1, <1>2, <1>3, <1>4, <1>8

-----------------------------------------------------------------------------
(* Types, and how the flags of the goroutines go together *)

TypeInv ==
  /\ opts.seq \in Nat /\ opts.ts \in Nat
  /\ last \in Nat /\ start \in Nat /\ next \in Nat /\ inHand \in Nat
  /\ consumer \in {"none", "running", "stopped", "dead"}
  /\ cb \in {"idle", "sending"}
  /\ ch \in Seq(Nat) /\ received \in Seq(Nat) /\ sent \in Seq(Nat)
  /\ closed \in BOOLEAN /\ crashed = FALSE /\ ctxDone \in BOOLEAN
  /\ cleanup \in {"none", "waiting", "stopping", "exited"}
  /\ hpc \in {"start", "receiving", "sending", "done"}
  /\ hpc = "sending" => received # << >>
  /\ Len(ch) <= Capacity
  /\ hpc = "start" => consumer = "none"
  /\ closed \/ cleanup = "stopping" => ctxDone
  /\ consumer = "none" => next = 0 /\ ch = << >> /\ received = << >> /\ cb = "idle"
  /\ consumer # "none" => \A n \in Nat : AskedFor(n) <=> n >= start
  /\ consumer # "none" => start > 0
  /\ start <= next

LEMMA CapacityPositive == Capacity \in Nat /\ Capacity > 0
  BY TailAssumption DEF Capacity, DefaultTailBufSize

LEMMA TypeInvInit == Init => TypeInv
<1> SUFFICES ASSUME Init PROVE TypeInv
  OBVIOUS
<1>1. opts.seq \in StartAtSeqs /\ opts.ts \in StartAtTSs
  BY DEF Init
<1>2. last \in Nat
  BY TailAssumption DEF Init
<1>3. opts.seq \in Nat /\ opts.ts \in Nat
  BY <1>1, TailAssumption
<1>4. /\ ch \in Seq(Nat) /\ received \in Seq(Nat) /\ sent \in Seq(Nat)
      /\ Len(ch) <= Capacity
  BY CapacityPositive DEF Init
<1>5. start = 0 /\ next = 0 /\ inHand = 0
  BY DEF Init
<1>6. /\ closed \in BOOLEAN /\ crashed = FALSE /\ ctxDone \in BOOLEAN
      /\ closed \/ cleanup = "stopping" => ctxDone
  BY DEF Init
<1>7. /\ consumer = "none" /\ ch = << >> /\ received = << >> /\ cb = "idle"
      /\ cleanup = "none" /\ hpc = "start"
  BY DEF Init
<1> QED
  BY <1>2, <1>3, <1>4, <1>5, <1>6, <1>7 DEF TypeInv

LEMMA TypeInvStep == TypeInv /\ [Next]_vars => TypeInv'
<1> SUFFICES ASSUME TypeInv, [Next]_vars PROVE TypeInv'
  OBVIOUS
<1> USE CapacityPositive DEF TypeInv, AskedFor
<1>1. CASE TailOpens
  BY <1>1 DEF TailOpens, FirstToDeliver
<1>2. CASE TailFails
  BY <1>2 DEF TailFails
<1>3. CASE CallbackBegins
  BY <1>3 DEF CallbackBegins, Delivers
<1>4. CASE CallbackSends
  <2>1. /\ ch' \in Seq(Nat) /\ Len(ch') <= Capacity
        /\ consumer # "none"
    BY <1>4 DEF CallbackSends, HasRoom
  <2> QED
    BY <1>4, <2>1 DEF CallbackSends, Escapes
<1>5. CASE CallbackGivesUp
  BY <1>5 DEF CallbackGivesUp
<1>6. CASE CleanupStops
  BY <1>6 DEF CleanupStops, Stopped
<1>7. CASE CleanupCloses
  BY <1>7 DEF CleanupCloses
<1>8. CASE HandlerCtxDone
  BY <1>8 DEF HandlerCtxDone
<1>9. CASE HandlerSeesClose
  BY <1>9 DEF HandlerSeesClose
<1>10. CASE HandlerReceives
  <2>1. /\ Head(ch) \in Nat /\ Tail(ch) \in Seq(Nat) /\ Len(Tail(ch)) = Len(ch) - 1
    BY <1>10, HeadTailProperties DEF HandlerReceives
  <2>2. ch' \in Seq(Nat) /\ Len(ch') <= Capacity
    BY <1>10, <2>1 DEF HandlerReceives
  <2>3. received' \in Seq(Nat) /\ received' # << >>
    <3>1. /\ Append(received, Head(ch)) \in Seq(Nat)
          /\ Len(Append(received, Head(ch))) = Len(received) + 1 /\ Len(received) \in Nat
      BY <2>1, AppendProperties
    <3>2. Len(received') = Len(received) + 1 /\ Len(received) \in Nat
      BY <1>10, <3>1 DEF HandlerReceives
    <3>3. received' # << >>
      <4>1. Len(received') # 0
        BY <3>2
      <4> QED
        BY <4>1, Zenon, EmptySeq
    <3> QED
      BY <1>10, <3>1, <3>3 DEF HandlerReceives
  <2>4. consumer # "none"
    BY <1>10 DEF HandlerReceives
  <2>5. hpc' \in {"receiving", "sending"}
    BY <1>10 DEF HandlerReceives
  <2> QED
    BY <1>10, <2>2, <2>3, <2>4, <2>5 DEF HandlerReceives
<1>11. CASE Published
  BY <1>11 DEF Published
<1>12. CASE ClientCancels \/ HandlerReturned
  BY <1>12 DEF ClientCancels, HandlerReturned, ContextEnds
<1>13. CASE ConsumerDies
  BY <1>13 DEF ConsumerDies
<1>14. CASE SendReturns
  <2>1. Last(received) \in Nat
    BY <1>14, EmptySeq DEF SendReturns, Last
  <2>2. sent' \in Seq(Nat)
    BY <1>14, <2>1, AppendProperties DEF SendReturns
  <2>3. consumer # "none"
    BY <1>14 DEF SendReturns
  <2> QED
    BY <1>14, <2>2, <2>3 DEF SendReturns
<1>15. CASE SendFails
  BY <1>15 DEF SendFails
<1>16. CASE UNCHANGED vars
  BY <1>16 DEF vars
<1> QED
  BY <1>1, <1>2, <1>3, <1>4, <1>5, <1>6, <1>7, <1>8, <1>9, <1>10, <1>11, <1>12, <1>13, <1>14,
     <1>15, <1>16
  DEF Next, CallbackStep, CleanupStep, HandlerStep, SendEnds

-----------------------------------------------------------------------------
(* The pipe *)

PipeInv ==
  /\ Increasing(Pipe) /\ ToSet(Pipe) \subseteq Delivered
  /\ ~ctxDone => ToSet(Pipe) = Delivered

LEMMA PipeType == TypeInv => InFlight \in Seq(Nat) /\ received \o ch \in Seq(Nat) /\ Pipe \in Seq(Nat)
<1> SUFFICES ASSUME TypeInv
             PROVE  InFlight \in Seq(Nat) /\ received \o ch \in Seq(Nat) /\ Pipe \in Seq(Nat)
  OBVIOUS
<1>1. InFlight \in Seq(Nat)
  BY DEF TypeInv, InFlight
<1>2. received \o ch \in Seq(Nat)
  BY ConcatProperties DEF TypeInv
<1>3. Pipe \in Seq(Nat)
  BY <1>1, <1>2, ConcatProperties DEF Pipe
<1> QED
  BY <1>1, <1>2, <1>3

LEMMA DeliveredAfterStart ==
  TypeInv /\ consumer # "none" => Delivered = {n \in start..(next - 1) : n > 0 /\ n \notin NoMetadata}
  BY DEF TypeInv, Delivered

\* Nothing is in the pipe, and nothing was delivered, before Tail has opened.
LEMMA EmptyPipe == TypeInv /\ consumer = "none" => Pipe = << >> /\ Delivered = {}
<1> SUFFICES ASSUME TypeInv, consumer = "none" PROVE Pipe = << >> /\ Delivered = {}
  OBVIOUS
<1>1. received = << >> /\ ch = << >> /\ InFlight = << >> /\ next = 0
  BY DEF TypeInv, InFlight
<1>2. << >> \o << >> \o << >> = << >>
  BY ConcatEmptySeq, EmptySeq
<1> QED
  BY <1>1, <1>2 DEF Pipe, Delivered

LEMMA EmptyIsFine == Increasing(<< >>) /\ ToSet(<< >>) = {}
  BY DEF Increasing, ToSet

LEMMA PipeInvInit == Init => PipeInv
<1> SUFFICES ASSUME Init PROVE PipeInv
  OBVIOUS
<1>1. TypeInv /\ consumer = "none"
  BY TypeInvInit DEF Init
<1> QED
  BY <1>1, EmptyPipe, EmptyIsFine DEF PipeInv

\* A step that leaves the pipe and the consumer's position alone keeps PipeInv.
LEMMA PipeKept ==
  ASSUME PipeInv, UNCHANGED <<Pipe, Delivered>>, ctxDone => ctxDone'
  PROVE  PipeInv'
  BY DEF PipeInv

LEMMA PipeInvStep == TypeInv /\ PipeInv /\ [Next]_vars => PipeInv'
<1> SUFFICES ASSUME TypeInv, PipeInv, [Next]_vars PROVE PipeInv'
  OBVIOUS
<1>0. TypeInv'
  BY TypeInvStep
<1>1. CASE TailOpens
  <2>1. Pipe = << >> /\ Pipe' = Pipe
    BY <1>1, EmptyPipe DEF TypeInv, TailOpens, Pipe, InFlight
  <2>2. Delivered' = {}
    BY <1>0, <1>1, DeliveredAfterStart DEF TypeInv, TailOpens, Delivered
  <2> QED
    BY <2>1, <2>2, EmptyIsFine DEF PipeInv
<1>2. CASE CallbackBegins
  <2>1. CASE next \in NoMetadata
    <3>1. Pipe' = Pipe
      BY <1>2, <2>1 DEF CallbackBegins, Pipe, InFlight
    <3>2. Delivered' = Delivered
      BY <1>2, <2>1 DEF TypeInv, CallbackBegins, Delivered, AskedFor
    <3> QED
      BY <1>2, <3>1, <3>2, PipeKept DEF CallbackBegins
  <2>2. CASE next \notin NoMetadata
    <3>1. InFlight = << >> /\ InFlight' = << next >> /\ next \in Nat
      BY <1>2, <2>2 DEF CallbackBegins, InFlight, TypeInv
    <3>2. Pipe = received \o ch
      BY <3>1, PipeType, ConcatEmptySeq DEF Pipe
    <3>3. Pipe' = Append(Pipe, next)
      BY <1>2, <3>1, <3>2, PipeType, AppendIsConcat DEF CallbackBegins, Pipe
    <3>4. consumer # "none" /\ next >= 1 /\ next >= start
      BY <1>2 DEF CallbackBegins, Delivers, TypeInv
    <3>5. Delivered' = Delivered \cup {next}
      <4>1. /\ Delivered = {n \in start..(next - 1) : n > 0 /\ n \notin NoMetadata}
            /\ Delivered' = {n \in start..next : n > 0 /\ n \notin NoMetadata}
        <5>1. /\ consumer' = consumer /\ start' = start /\ next' = next + 1
              /\ start \in Nat /\ next \in Nat
          BY <1>2 DEF CallbackBegins, TypeInv
        <5>2. (TypeInv /\ consumer # "none" => Delivered = {n \in start..(next - 1) : n > 0 /\ n \notin NoMetadata})'
          BY DeliveredAfterStart, PTL
        <5>3. next + 1 - 1 = next
          BY <5>1
        <5> QED
          BY <1>0, <3>4, <5>1, <5>2, <5>3, DeliveredAfterStart
      <4>2. start..next = start..(next - 1) \cup {next}
        BY <3>1, <3>4 DEF TypeInv
      <4> QED
        BY <2>2, <3>4, <4>1, <4>2
    <3>6. \A i \in DOMAIN Pipe : Pipe[i] < next
      BY <3>1 DEF PipeInv, ToSet, Delivered
    <3>7. Increasing(Pipe')
      BY <3>1, <3>3, <3>6, PipeType, IncreasingAppend DEF PipeInv
    <3>8. ToSet(Pipe') = ToSet(Pipe) \cup {next}
      BY <3>1, <3>3, PipeType, ToSetAppend
    <3> QED
      BY <1>2, <3>5, <3>7, <3>8 DEF PipeInv, CallbackBegins
  <2> QED
    BY <2>1, <2>2
<1>3. CASE CallbackSends
  <2>1. /\ InFlight = << inHand >> /\ InFlight' = << >> /\ inHand \in Nat
        /\ received' = received /\ ctxDone' = ctxDone
    BY <1>3 DEF CallbackSends, InFlight, TypeInv
  <2>2. Delivered' = Delivered
    BY <1>3 DEF CallbackSends, Delivered, AskedFor
  <2>3. Pipe' = received \o ch'
    BY <2>1, <1>0, PipeType, ConcatEmptySeq DEF Pipe
  <2>4. CASE ~closed
    <3>1. ch' = ch \o << inHand >>
      BY <1>3, <2>1, <2>4, AppendIsConcat DEF CallbackSends, TypeInv
    <3>2. Pipe' = Pipe
      <4>1. << inHand >> \in Seq(Nat) /\ ch \in Seq(Nat) /\ received \in Seq(Nat)
        BY <2>1 DEF TypeInv
      <4>2. (received \o ch) \o << inHand >> = received \o (ch \o << inHand >>)
        BY <4>1, ConcatAssociative
      <4> QED
        BY <2>1, <2>3, <3>1, <4>2 DEF Pipe
    <3> QED
      BY <2>1, <2>2, <3>2, PipeKept
  <2>5. CASE closed
    <3>1. ctxDone /\ ch' = ch
      BY <1>3, <2>5 DEF CallbackSends, TypeInv
    <3>2. Pipe = Pipe' \o InFlight
      BY <2>3, <3>1 DEF Pipe
    <3>3. Increasing(Pipe') /\ ToSet(Pipe') \subseteq ToSet(Pipe)
      BY <1>0, <3>2, PipeType, IncreasingFront DEF PipeInv
    <3> QED
      BY <2>1, <2>2, <3>1, <3>3 DEF PipeInv
  <2> QED
    BY <2>4, <2>5
<1>4. CASE CallbackGivesUp
  <2>1. /\ InFlight' = << >> /\ ctxDone /\ ctxDone'
        /\ UNCHANGED <<received, ch, Delivered>>
    BY <1>4 DEF CallbackGivesUp, GivesUp, InFlight, Delivered, AskedFor
  <2>2. Pipe' = received \o ch
    BY <2>1, PipeType, ConcatEmptySeq DEF Pipe
  <2>3. Increasing(Pipe') /\ ToSet(Pipe') \subseteq ToSet(Pipe)
    BY <2>2, PipeType, IncreasingFront DEF PipeInv, Pipe
  <2> QED
    BY <2>1, <2>3 DEF PipeInv
<1>5. CASE HandlerReceives
  <2>1. /\ received' \o ch' = received \o ch
        /\ UNCHANGED <<InFlight, Delivered, ctxDone>>
    BY <1>5, HeadMoves DEF HandlerReceives, TypeInv, InFlight, Delivered, AskedFor
  <2> QED
    BY <2>1, PipeKept DEF Pipe
<1>6. CASE \/ TailFails \/ CleanupStops \/ CleanupCloses \/ HandlerCtxDone \/ HandlerSeesClose
           \/ SendEnds \/ Published \/ ClientCancels \/ HandlerReturned \/ ConsumerDies
           \/ UNCHANGED vars
  <2>1. UNCHANGED <<received, ch, cb, inHand, next, start, opts>> /\ (ctxDone => ctxDone')
    BY <1>6 DEF TailFails, CleanupStops, CleanupCloses, HandlerCtxDone, HandlerSeesClose, SendEnds,
       SendReturns, SendFails, Published, ClientCancels, HandlerReturned, ContextEnds, ConsumerDies,
       vars
  <2>2. UNCHANGED <<Pipe, Delivered>>
    BY <2>1 DEF Pipe, InFlight, Delivered, AskedFor
  <2> QED
    BY <2>1, <2>2, PipeKept
<1> QED
  BY <1>1, <1>2, <1>3, <1>4, <1>5, <1>6 DEF Next, CallbackStep, CleanupStep, HandlerStep

-----------------------------------------------------------------------------
(* What was sent *)

SentInv ==
  /\ Increasing(sent) /\ ToSet(sent) \subseteq ToSet(received) \ Rejected
  /\ \A i \in DOMAIN received : \/ received[i] \in Rejected \cup ToSet(sent)
                                \/ hpc \in {"sending", "done"} /\ i = Len(received)
  /\ hpc = "sending" => /\ Last(received) \notin Rejected
                        /\ \A i \in DOMAIN sent : sent[i] < Last(received)

LEMMA SentInvInit == Init => SentInv
  BY EmptyIsFine DEF Init, SentInv

LEMMA SentInvStep == TypeInv /\ PipeInv /\ SentInv /\ [Next]_vars => SentInv'
<1> SUFFICES ASSUME TypeInv, PipeInv, SentInv, [Next]_vars PROVE SentInv'
  OBVIOUS
<1>0. TypeInv' /\ PipeInv'
  BY TypeInvStep, PipeInvStep
<1>1. CASE HandlerReceives
  <2> DEFINE m == Head(ch)
  <2>1. /\ m \in Nat /\ received' = Append(received, m) /\ sent' = sent
        /\ hpc = "receiving"
    BY <1>1, HeadTailProperties DEF HandlerReceives, TypeInv
  <2>2. ToSet(received') = ToSet(received) \cup {m}
    BY <2>1, ToSetAppend DEF TypeInv
  <2>3. Increasing(received')
    <3>1. /\ received' \in Seq(Nat) /\ ch' \o InFlight' \in Seq(Nat)
          /\ Pipe' = received' \o (ch' \o InFlight')
      <4>1. received' \in Seq(Nat) /\ ch' \in Seq(Nat) /\ InFlight' \in Seq(Nat)
        <5>1. (TypeInv => InFlight \in Seq(Nat) /\ received \o ch \in Seq(Nat) /\ Pipe \in Seq(Nat))'
          BY PipeType, PTL
        <5> QED
          BY <1>0, <5>1 DEF TypeInv
      <4>2. (received' \o ch') \o InFlight' = received' \o (ch' \o InFlight')
        BY SMTT(30), <4>1, ConcatAssociative
      <4>3. ch' \o InFlight' \in Seq(Nat)
        BY <4>1, ConcatProperties
      <4> QED
        BY <4>1, <4>2, <4>3 DEF Pipe
    <3>2. Increasing(Pipe')
      BY <1>0 DEF PipeInv
    <3> QED
      BY <3>1, <3>2, IncreasingFront
  <2>10. /\ DOMAIN received' = 1..(Len(received) + 1) /\ Len(received') = Len(received) + 1
         /\ DOMAIN received = 1..Len(received) /\ Len(received) \in Nat
         /\ \A i \in 1..Len(received) : received'[i] = received[i]
         /\ received'[Len(received) + 1] = m
    BY <2>1, AppendIndices DEF TypeInv
  <2>4. \A i \in DOMAIN received : received[i] < m
    <3> SUFFICES ASSUME NEW i \in DOMAIN received PROVE received[i] < m
      OBVIOUS
    <3>1. /\ i \in 1..Len(received) /\ Len(received) \in Nat /\ DOMAIN received' = 1..(Len(received) + 1)
          /\ received'[i] = received[i] /\ received'[Len(received) + 1] = m
      BY <2>10
    <3>2. i \in DOMAIN received' /\ Len(received) + 1 \in DOMAIN received' /\ i < Len(received) + 1
      BY <3>1
    <3> QED
      BY <2>3, <3>1, <3>2 DEF Increasing
  <2>5. /\ DOMAIN received' = DOMAIN received \cup {Len(received')}
        /\ \A i \in DOMAIN received : received'[i] = received[i]
        /\ received'[Len(received')] = m
    <3>1. PICK n \in Nat : n = Len(received)
      BY <2>10
    <3>2. 1..(n + 1) = 1..n \cup {n + 1}
      OBVIOUS
    <3>3. DOMAIN received = 1..n /\ DOMAIN received' = 1..(n + 1) /\ Len(received') = n + 1
      BY <2>10, <3>1
    <3>4. \A i \in DOMAIN received : received'[i] = received[i]
      BY <2>10, <3>1, <3>3
    <3>5. received'[Len(received')] = m
      BY Zenon, <2>10
    <3> QED
      BY <3>2, <3>3, <3>4, <3>5
  <2>6. \A i \in DOMAIN received : received[i] \in Rejected \cup ToSet(sent)
    BY <2>1 DEF SentInv
  <2>7. \A i \in DOMAIN sent' : sent'[i] < m
    BY <2>1, <2>4 DEF SentInv, ToSet
  <2>8. Last(received') = m
    BY <2>5 DEF Last
  <2>9. hpc' = IF m \in Rejected THEN "receiving" ELSE "sending"
    BY <1>1 DEF HandlerReceives, Passes
  <2> QED
    BY <2>1, <2>2, <2>5, <2>6, <2>7, <2>8, <2>9 DEF SentInv
<1>2. CASE SendReturns
  <2> DEFINE m == Last(received)
  <2>1. /\ sent' = Append(sent, m) /\ received' = received /\ hpc = "sending"
        /\ hpc' = "receiving"
    BY <1>2 DEF SendReturns
  <2>2. m \in Nat /\ m = received[Len(received)] /\ m \in ToSet(received) \ Rejected
    BY <2>1, EmptySeq DEF SentInv, TypeInv, Last, ToSet
  <2>3. ToSet(sent') = ToSet(sent) \cup {m}
    BY <2>1, <2>2, ToSetAppend DEF TypeInv
  <2>4. \A i \in DOMAIN sent : sent[i] < m
    BY <2>1 DEF SentInv
  <2>5. Increasing(sent')
    BY <2>1, <2>2, <2>4, IncreasingAppend DEF SentInv, TypeInv
  <2>6. ToSet(sent') \subseteq ToSet(received') \ Rejected
    BY <2>1, <2>2, <2>3 DEF SentInv
  <2>7. \A i \in DOMAIN received' : received'[i] \in Rejected \cup ToSet(sent')
    BY <2>1, <2>2, <2>3 DEF SentInv
  <2> QED
    BY <2>1, <2>5, <2>6, <2>7 DEF SentInv
<1>3. CASE ~HandlerReceives /\ ~SendReturns
  <2>1. /\ UNCHANGED <<received, sent>>
        /\ hpc \in {"sending", "done"} => hpc' \in {"sending", "done"}
        /\ hpc' = "sending" => hpc = "sending"
    BY <1>3 DEF Next, TailOpens, TailFails, CallbackStep, CallbackBegins, CallbackSends,
       CallbackGivesUp, CleanupStep, CleanupStops, CleanupCloses, HandlerStep, HandlerCtxDone,
       HandlerSeesClose, SendEnds, SendFails, Published, ClientCancels, HandlerReturned,
       ContextEnds, ConsumerDies, vars
  <2>2. Last(received') = Last(received)
    BY <2>1
  <2> QED
    BY <2>1, <2>2 DEF SentInv
<1> QED
  BY <1>1, <1>2, <1>3

-----------------------------------------------------------------------------
\* For any channel size, options and messages: while the context lives a slow
\* client loses nothing, and at no time does it get a message twice, out of
\* order or one it did not ask for.
THEOREM TailHasNoGap == Spec => []NoGap
<1>1. TypeInv /\ PipeInv /\ SentInv => NoGap
  <2>1. TypeInv => Len(ch) <= IF BufSize > 0 THEN BufSize ELSE 64
    BY TailAssumption DEF TypeInv, Capacity, DefaultTailBufSize
  <2> QED
    BY <2>1 DEF PipeInv, SentInv, NoGap
<1>2. Init => TypeInv /\ PipeInv /\ SentInv
  BY TypeInvInit, PipeInvInit, SentInvInit
<1>3. TypeInv /\ PipeInv /\ SentInv /\ [Next]_vars => (TypeInv /\ PipeInv /\ SentInv)'
  BY TypeInvStep, PipeInvStep, SentInvStep
<1> QED
  BY <1>1, <1>2, <1>3, PTL DEF Spec

-----------------------------------------------------------------------------
(* The bounded feed *)

\* What waits in the channel and in the callback's hand.
InQueue == ch \o InFlight

LEMMA FeedInit == Init => Feed!AbsInit
<1> SUFFICES ASSUME Init PROVE Feed!AbsInit
  OBVIOUS
<1>1. InFlight = << >> /\ ch = << >>
  BY DEF Init, InFlight
<1>2. << >> \o << >> = << >>
  BY ConcatEmptySeq, EmptySeq
<1> QED
  BY <1>1, <1>2 DEF Init, Feed!AbsInit

\* The hand holds the newest message of the queue.
LEMMA HandIsNewest ==
  ASSUME TypeInv, cb = "sending"
  PROVE  /\ InQueue = Append(ch, inHand) /\ InQueue # << >>
         /\ SubSeq(InQueue, 1, Len(InQueue) - 1) = ch
<1>1. ch \in Seq(Nat) /\ inHand \in Nat /\ InFlight = << inHand >>
  BY DEF TypeInv, InFlight
<1>2. InQueue = Append(ch, inHand)
  BY <1>1, AppendIsConcat DEF InQueue
<1>3. Len(Append(ch, inHand)) = Len(ch) + 1 /\ Len(ch) \in Nat
  BY <1>1
<1>4. SubSeq(Append(ch, inHand), 1, Len(ch)) = ch
  BY <1>1
<1> QED
  BY <1>2, <1>3, <1>4, EmptySeq

LEMMA IdleHand == TypeInv /\ cb = "idle" => InQueue = ch
  BY ConcatEmptySeq DEF TypeInv, InQueue, InFlight

\* Each step of a tail is one of the feed or leaves it as it was.
LEMMA FeedStep == TypeInv /\ [Next]_vars => [Feed!AbsNext]_(Feed!absVars)
<1> SUFFICES ASSUME TypeInv, [Next]_vars PROVE [Feed!AbsNext]_(Feed!absVars)
  OBVIOUS
<1> USE DEF Feed!AbsNext
<1>0. TypeInv'
  BY TypeInvStep
<1>1. CASE TailOpens
  <2>1. start = 0 /\ start' \in Nat \ {0} /\ next' = start'
    BY <1>0, <1>1 DEF TypeInv, TailOpens
  <2> QED
    BY <1>1, <2>1 DEF TailOpens, Feed!Open, InFlight
<1>2. CASE CallbackBegins
  <2>1. InQueue = ch /\ Len(InQueue) < Capacity + 1
    BY <1>2, IdleHand, CapacityPositive DEF CallbackBegins, TypeInv
  <2>2. start # 0 /\ start \in Nat
    BY <1>2 DEF CallbackBegins, Delivers, TypeInv
  <2>3. CASE next \in NoMetadata
    BY <1>2, <2>1, <2>2, <2>3 DEF CallbackBegins, Feed!Enter, InQueue, InFlight
  <2>4. CASE next \notin NoMetadata
    <3>1. InQueue' = Append(ch, next)
      <4>1. (TypeInv /\ cb = "sending" => InQueue = Append(ch, inHand))'
        BY HandIsNewest, PTL
      <4> QED
        BY <1>0, <1>2, <2>4, <4>1 DEF CallbackBegins
    <3> QED
      BY <1>2, <2>1, <2>2, <2>4, <3>1 DEF CallbackBegins, Feed!Enter, InQueue
  <2> QED
    BY <2>3, <2>4
<1>3. CASE CallbackSends
  <2>1. InQueue = Append(ch, inHand) /\ InQueue # << >>
        /\ SubSeq(InQueue, 1, Len(InQueue) - 1) = ch
    BY <1>3, HandIsNewest DEF CallbackSends
  <2>2. InQueue' = ch'
    <3>1. (TypeInv /\ cb = "idle" => InQueue = ch)'
      BY IdleHand, PTL
    <3> QED
      BY <1>0, <1>3, <3>1 DEF CallbackSends
  <2>3. crashed' = crashed
    BY <1>0, <1>3 DEF TypeInv
  <2>4. UNCHANGED <<start, next, received, ctxDone>>
    BY <1>3 DEF CallbackSends
  <2>5. CASE closed
    <3>1. ctxDone /\ ch' = ch
      BY <1>3, <2>5 DEF TypeInv, CallbackSends
    <3> QED
      BY <2>1, <2>2, <2>3, <2>4, <3>1 DEF Feed!Lose, InQueue
  <2>6. CASE ~closed
    <3>1. InQueue' = InQueue
      BY <1>3, <2>1, <2>2, <2>6 DEF CallbackSends
    <3> QED
      BY <2>3, <2>4, <3>1 DEF Feed!absVars, InQueue
  <2> QED
    BY <2>5, <2>6
<1>4. CASE CallbackGivesUp
  <2>1. InQueue # << >> /\ SubSeq(InQueue, 1, Len(InQueue) - 1) = ch
    BY <1>4, HandIsNewest DEF CallbackGivesUp
  <2>2. InQueue' = ch
    <3>1. (TypeInv /\ cb = "idle" => InQueue = ch)'
      BY IdleHand, PTL
    <3> QED
      BY <1>0, <1>4, <3>1 DEF CallbackGivesUp
  <2> QED
    BY <1>4, <2>1, <2>2 DEF CallbackGivesUp, GivesUp, Feed!Lose, InQueue
<1>5. CASE HandlerReceives
  <2>1. InFlight' = InFlight /\ InFlight \in Seq(Nat) /\ ch \in Seq(Nat) /\ ch # << >>
    BY <1>5 DEF HandlerReceives, InFlight, TypeInv
  <2>2. InQueue # << >> /\ Head(InQueue) = Head(ch) /\ Tail(InQueue) = Tail(ch) \o InFlight
    BY <2>1, HeadOfConcat DEF InQueue
  <2> QED
    BY <1>5, <2>1, <2>2 DEF HandlerReceives, Feed!Take, InQueue
<1>6. CASE ClientCancels \/ HandlerReturned
  BY <1>6 DEF ClientCancels, HandlerReturned, ContextEnds, Feed!Cut, InFlight
<1>7. CASE \/ TailFails \/ CleanupStops \/ CleanupCloses \/ HandlerCtxDone \/ HandlerSeesClose
           \/ SendEnds \/ Published \/ ConsumerDies \/ UNCHANGED vars
  BY <1>7 DEF TailFails, CleanupStops, CleanupCloses, HandlerCtxDone, HandlerSeesClose, SendEnds,
     SendReturns, SendFails, Published, ConsumerDies, vars, Feed!absVars, InFlight
<1> QED
  BY <1>1, <1>2, <1>3, <1>4, <1>5, <1>6, <1>7 DEF Next, CallbackStep, CleanupStep, HandlerStep

\* Every behaviour of Tail and its handler is one of the bounded feed: callback,
\* channel and cleanup together lose nothing until the context ends, then only
\* the newest, and whatever nats.go still calls after Stop crashes nothing.
THEOREM TailImplementsFeed == Spec => ImplementsFeed
  BY FeedInit, FeedStep, TypeInvInit, TypeInvStep, PTL DEF Spec, ImplementsFeed, Feed!AbsSpec

-----------------------------------------------------------------------------
(* Why nothing is left running *)

\* cc.Stop() has returned.
StopDone == cleanup \in {"stopping", "exited"}

StopInv ==
  /\ late \in 0..MaxLate
  /\ hpc = "start" => cleanup = "none"
  /\ cleanup # "none" => consumer # "none"
  /\ StopDone => ctxDone /\ consumer # "running"

LEMMA StopInvInit == Init => StopInv
  BY TailAssumption DEF Init, StopInv, StopDone

LEMMA StopInvStep == TypeInv /\ StopInv /\ [Next]_vars => StopInv'
<1> SUFFICES ASSUME TypeInv, StopInv, [Next]_vars PROVE StopInv'
  OBVIOUS
<1> USE DEF StopInv, StopDone
<1>1. CASE TailOpens
  BY <1>1 DEF TailOpens
<1>2. CASE CallbackBegins
  BY <1>2, TailAssumption DEF CallbackBegins, Delivers, TypeInv
<1>3. CASE CleanupStops \/ CleanupCloses
  BY <1>3 DEF CleanupStops, CleanupCloses, Stopped, TypeInv
<1>4. CASE HandlerReceives
  BY <1>4 DEF HandlerReceives
<1>5. CASE \/ TailFails \/ CallbackSends \/ CallbackGivesUp \/ HandlerCtxDone \/ HandlerSeesClose
           \/ SendEnds \/ Published \/ UNCHANGED vars
  BY <1>5 DEF TailFails, CallbackSends, CallbackGivesUp, HandlerCtxDone, HandlerSeesClose,
     SendEnds, SendReturns, SendFails, Published, vars
<1>6. CASE ClientCancels \/ HandlerReturned \/ ConsumerDies
  BY <1>6 DEF ClientCancels, HandlerReturned, ContextEnds, ConsumerDies
<1> QED
  BY <1>1, <1>2, <1>3, <1>4, <1>5, <1>6 DEF Next, CallbackStep, CleanupStep, HandlerStep

\* Steps the three goroutines have left at most once the consumer is stopped: a
\* late callback begins, is sent to the channel, received and sent to the client,
\* or stops on the way.
TailLeft ==
  4 * (MaxLate - late) + (IF cb = "sending" THEN 3 ELSE 0) + 2 * Len(ch)
    + (IF cleanup = "exited" THEN 0 ELSE 1)
    + (IF hpc = "done" THEN 0 ELSE IF hpc = "sending" THEN 2 ELSE 1)

LEMMA TailLeftType == TypeInv /\ StopInv => TailLeft \in Nat
  BY TailAssumption DEF TypeInv, StopInv, TailLeft

\* The goroutine whose turn it is while one of them is left: its guard holds, and
\* nobody else can take that from it.
SomeoneCanGo ==
  \/ cb = "sending" /\ GivesUp
  \/ cleanup = "stopping"
  \/ hpc \in {"receiving", "sending"} /\ ctxDone

\* After Stop every step of a goroutine brings the end nearer, and no other step
\* puts it off.
EndGetsNearer ==
  StopDone =>
    /\ StopDone' /\ TailLeft \in Nat /\ TailLeft' <= TailLeft
    /\ CallbackStep \/ CleanupStep \/ HandlerStep => TailLeft' < TailLeft
    /\ NothingLeftRunning \/ SomeoneCanGo

LEMMA EveryStepNearer ==
  ASSUME TypeInv, StopInv, [Next]_vars
  PROVE  EndGetsNearer
<1> SUFFICES ASSUME StopDone
             PROVE  /\ StopDone' /\ TailLeft \in Nat /\ TailLeft' <= TailLeft
                    /\ CallbackStep \/ CleanupStep \/ HandlerStep => TailLeft' < TailLeft
                    /\ NothingLeftRunning \/ SomeoneCanGo
  BY DEF EndGetsNearer
<1>0. /\ TailLeft \in Nat /\ Len(ch) \in Nat /\ late \in Nat /\ MaxLate \in Nat
      /\ hpc # "start" /\ ctxDone /\ consumer # "running"
  BY TailLeftType, TailAssumption DEF TypeInv, StopInv, StopDone
<1>1. ASSUME CallbackBegins PROVE StopDone' /\ TailLeft' < TailLeft
  <2>1. late' = late + 1 /\ cb = "idle" /\ UNCHANGED <<ch, cleanup, hpc>>
    BY <1>0, <1>1 DEF CallbackBegins, Delivers
  <2> QED
    BY <1>0, <2>1 DEF TailLeft, StopDone
<1>2. ASSUME CallbackSends PROVE StopDone' /\ TailLeft' < TailLeft
  <2>1. Len(ch') <= Len(ch) + 1 /\ Len(ch') \in Nat
    BY <1>0, <1>2, AppendProperties DEF CallbackSends, TypeInv
  <2>2. cb = "sending" /\ cb' = "idle" /\ UNCHANGED <<late, cleanup, hpc>>
    BY <1>2 DEF CallbackSends
  <2> QED
    BY <1>0, <2>1, <2>2 DEF TailLeft, StopDone
<1>3. ASSUME CallbackGivesUp PROVE StopDone' /\ TailLeft' < TailLeft
  <2>1. cb = "sending" /\ cb' = "idle" /\ UNCHANGED <<late, ch, cleanup, hpc>>
    BY <1>3 DEF CallbackGivesUp
  <2> QED
    BY <1>0, <2>1 DEF TailLeft, StopDone
<1>4. ASSUME CleanupStops \/ CleanupCloses PROVE StopDone' /\ TailLeft' < TailLeft
  <2>1. cleanup # "exited" /\ cleanup' = "exited" /\ UNCHANGED <<late, ch, cb, hpc>>
    BY <1>4 DEF CleanupStops, CleanupCloses, StopDone
  <2> QED
    BY <1>0, <2>1 DEF TailLeft, StopDone
<1>5. ASSUME HandlerCtxDone \/ HandlerSeesClose \/ SendFails PROVE StopDone' /\ TailLeft' < TailLeft
  <2>1. hpc # "done" /\ hpc' = "done" /\ UNCHANGED <<late, ch, cb, cleanup>>
    BY <1>5 DEF HandlerCtxDone, HandlerSeesClose, SendFails
  <2> QED
    BY <1>0, <2>1 DEF TailLeft, StopDone
<1>6. ASSUME SendReturns PROVE StopDone' /\ TailLeft' < TailLeft
  <2>1. hpc = "sending" /\ hpc' = "receiving" /\ UNCHANGED <<late, ch, cb, cleanup>>
    BY <1>6 DEF SendReturns
  <2> QED
    BY <1>0, <2>1 DEF TailLeft, StopDone
<1>7. ASSUME HandlerReceives PROVE StopDone' /\ TailLeft' < TailLeft
  <2>1. Len(ch') = Len(ch) - 1 /\ Len(ch') \in Nat
    BY <1>0, <1>7, HeadTailProperties DEF HandlerReceives, TypeInv
  <2>2. hpc = "receiving" /\ UNCHANGED <<late, cb, cleanup>>
    BY <1>7 DEF HandlerReceives
  <2>3. hpc' \in {"receiving", "sending"}
    BY <1>7 DEF HandlerReceives
  <2> QED
    BY <1>0, <2>1, <2>2, <2>3 DEF TailLeft, StopDone
<1>8. ASSUME \/ TailOpens \/ TailFails \/ Published \/ ClientCancels \/ HandlerReturned
             \/ ConsumerDies \/ UNCHANGED vars
      PROVE  StopDone' /\ TailLeft' = TailLeft
  <2>1. UNCHANGED <<late, cb, ch, cleanup, hpc>>
    BY <1>0, <1>8 DEF TailOpens, TailFails, Published, ClientCancels, HandlerReturned, ContextEnds,
       ConsumerDies, vars
  <2> QED
    BY <1>0, <2>1 DEF TailLeft, StopDone
<1>9. CallbackStep \/ CleanupStep \/ HandlerStep => StopDone' /\ TailLeft' < TailLeft
  BY <1>1, <1>2, <1>3, <1>4, <1>5, <1>6, <1>7 DEF CallbackStep, CleanupStep, HandlerStep, SendEnds
<1>10. StopDone' /\ TailLeft' <= TailLeft
  <2>1. (TypeInv /\ StopInv => TailLeft \in Nat)'
    BY TailLeftType, PTL
  <2>2. TailLeft' \in Nat
    BY <2>1, TypeInvStep, StopInvStep
  <2> QED
    BY <1>0, <1>8, <1>9, <2>2 DEF Next
<1>11. NothingLeftRunning \/ SomeoneCanGo
  BY <1>0 DEF NothingLeftRunning, SomeoneCanGo, GivesUp, StopDone, TypeInv
<1> QED
  BY <1>0, <1>9, <1>10, <1>11

\* What makes ContextEndReleasesAll true: once the cleanup goroutine has stopped
\* the consumer, callback, cleanup and handler have a bounded number of steps
\* left, whoever sends or closes first, and are not stuck before they are gone.
THEOREM TailRunsOut == Spec => [][EndGetsNearer]_vars
<1>1. Init => TypeInv /\ StopInv
  BY TypeInvInit, StopInvInit
<1>2. TypeInv /\ StopInv /\ [Next]_vars => (TypeInv /\ StopInv)'
  BY TypeInvStep, StopInvStep
<1>3. TypeInv /\ StopInv /\ [Next]_vars => [EndGetsNearer]_vars
  BY EveryStepNearer
<1> QED
  BY <1>1, <1>2, <1>3, PTL DEF Spec
=============================================================================
