--------------------------- MODULE PromisesProofs ---------------------------
(***************************************************************************)
(* What follows from the abstract specifications alone, for all values of  *)
(* their constants: LossyFanout, BoundedFeed and AuditedStore.  The proofs *)
(* of AuditBroker, TailStream and ResourceOps show that the code keeps     *)
(* these promises, so that its callers may rely on the theorems here.      *)
(***************************************************************************)
EXTENDS Naturals, Sequences, SequenceTheorems, TLAPS

CONSTANTS Publishers, Subs                    \* of LossyFanout
CONSTANTS Room, Skipped                       \* of BoundedFeed
CONSTANTS Clients, Ids, Outcomes, Successes   \* of AuditedStore

VARIABLES member, issued, stream
VARIABLES from, pos, queue, taken, cut, up
VARIABLES objects, changed, open, loose, events

Fanout == INSTANCE LossyFanout
Feed == INSTANCE BoundedFeed
Ledger == INSTANCE AuditedStore

-----------------------------------------------------------------------------
(* The lossy fan-out *)

\* Type, order and origin of the streams together: the order of a stream is
\* kept by Fanout!Give because its guard compares with every event of the stream.
FanoutInv == Fanout!AbsTypeOK /\ Fanout!InIssueOrder /\ Fanout!OnlyIssued

LEMMA FanoutInvInit == Fanout!AbsInit => FanoutInv
  BY DEF Fanout!AbsInit, FanoutInv, Fanout!AbsTypeOK, Fanout!InIssueOrder, Fanout!OnlyIssued

LEMMA FanoutInvNext == FanoutInv /\ [Fanout!AbsNext]_(Fanout!absVars) => FanoutInv'
<1> SUFFICES ASSUME FanoutInv, [Fanout!AbsNext]_(Fanout!absVars) PROVE FanoutInv'
  OBVIOUS
<1> USE DEF FanoutInv, Fanout!AbsTypeOK
<1>1. ASSUME NEW s \in Subs, Fanout!Join(s) \/ Fanout!Leave(s) PROVE FanoutInv'
  <2>1. UNCHANGED <<issued, stream>>
    BY <1>1 DEF Fanout!Join, Fanout!Leave
  <2>2. Fanout!AbsTypeOK'
    BY <1>1, <2>1 DEF Fanout!Join, Fanout!Leave
  <2> QED
    BY <2>1, <2>2 DEF Fanout!InIssueOrder, Fanout!OnlyIssued
<1>2. ASSUME NEW p \in Publishers, Fanout!Issue(p) PROVE FanoutInv'
  <2>1. Fanout!AbsTypeOK'
    BY <1>2 DEF Fanout!Issue
  <2>2. Fanout!InIssueOrder'
    BY <1>2 DEF Fanout!Issue, Fanout!InIssueOrder
  <2>3. Fanout!OnlyIssued'
    <3> SUFFICES ASSUME NEW s \in Subs, NEW i \in 1..Len(stream[s])
                 PROVE  stream[s][i].seq <= issued'[stream[s][i].pub]
      BY <1>2 DEF Fanout!Issue, Fanout!OnlyIssued
    <3>1. stream[s][i] \in Fanout!AbsEvent
      OBVIOUS
    <3>2. stream[s][i].seq <= issued[stream[s][i].pub]
      BY DEF Fanout!OnlyIssued
    <3> QED
      BY <1>2, <3>1, <3>2 DEF Fanout!Issue, Fanout!AbsEvent
  <2> QED
    BY <2>1, <2>2, <2>3
<1>3. ASSUME NEW p \in Publishers, NEW s \in Subs, Fanout!Give(p, s) PROVE FanoutInv'
  <2> DEFINE e == [pub |-> p, seq |-> issued[p]]
  <2>1. e \in Fanout!AbsEvent /\ e.pub = p /\ e.seq = issued[p]
    BY <1>3 DEF Fanout!Give, Fanout!AbsEvent
  <2> HIDE DEF e
  <2>2. stream' = [stream EXCEPT ![s] = Append(@, e)] /\ UNCHANGED <<member, issued>>
    BY <1>3 DEF Fanout!Give, e
  <2>3. Fanout!AbsTypeOK'
    BY <2>1, <2>2
  <2>4. /\ Len(stream'[s]) = Len(stream[s]) + 1
        /\ \A i \in 1..Len(stream[s]) : stream'[s][i] = stream[s][i]
        /\ stream'[s][Len(stream[s]) + 1] = e
    BY <2>1, <2>2
  <2>5. \A t \in Subs \ {s} : stream'[t] = stream[t]
    BY <2>2
  <2>6. \A i \in 1..Len(stream[s]) : stream[s][i].pub = e.pub => stream[s][i].seq < e.seq
    BY <1>3, <2>1 DEF Fanout!Give
  <2>7. Fanout!InIssueOrder'
    <3> SUFFICES ASSUME NEW t \in Subs,
                        NEW i \in 1..Len(stream'[t]), NEW j \in 1..Len(stream'[t]),
                        i < j, stream'[t][i].pub = stream'[t][j].pub
                 PROVE  stream'[t][i].seq < stream'[t][j].seq
      BY DEF Fanout!InIssueOrder
    <3>1. CASE t # s
      BY <2>5, <3>1 DEF Fanout!InIssueOrder
    <3>2. CASE t = s /\ j <= Len(stream[s])
      <4>1. i \in 1..Len(stream[s]) /\ j \in 1..Len(stream[s])
        BY <3>2
      <4> QED
        BY <2>4, <3>2, <4>1 DEF Fanout!InIssueOrder
    <3>3. CASE t = s /\ j = Len(stream[s]) + 1
      <4>1. i \in 1..Len(stream[s])
        BY <3>3
      <4> QED
        BY <2>4, <2>6, <3>3, <4>1
    <3> QED
      BY <2>4, <3>1, <3>2, <3>3
  <2>8. Fanout!OnlyIssued'
    <3> SUFFICES ASSUME NEW t \in Subs, NEW i \in 1..Len(stream'[t])
                 PROVE  stream'[t][i].seq <= issued[stream'[t][i].pub]
      BY <2>2 DEF Fanout!OnlyIssued
    <3>1. CASE t # s
      BY <2>5, <3>1 DEF Fanout!OnlyIssued
    <3>2. CASE t = s /\ i <= Len(stream[s])
      BY <2>4, <3>2 DEF Fanout!OnlyIssued
    <3>3. CASE t = s /\ i = Len(stream[s]) + 1
      BY <2>1, <2>4, <3>3
    <3> QED
      BY <2>4, <3>1, <3>2, <3>3
  <2> QED
    BY <2>3, <2>7, <2>8
<1>4. CASE UNCHANGED Fanout!absVars
  BY <1>4 DEF Fanout!absVars, Fanout!InIssueOrder, Fanout!OnlyIssued
<1> QED
  BY <1>1, <1>2, <1>3, <1>4 DEF Fanout!AbsNext

\* In every behaviour of the promise no subscriber sees the events of one
\* publisher out of order or twice, nor one that was never published.
THEOREM PromiseKeepsOrder == Fanout!AbsSpec => [](Fanout!InIssueOrder /\ Fanout!OnlyIssued)
<1>1. FanoutInv => Fanout!InIssueOrder /\ Fanout!OnlyIssued
  BY DEF FanoutInv
<1> QED
  BY <1>1, FanoutInvInit, FanoutInvNext, PTL DEF Fanout!AbsSpec

-----------------------------------------------------------------------------
(* The bounded feed *)

\* What was taken and after it what is on its way.
Line == taken \o queue

\* Before the feed is opened nothing is in it.
FeedInv ==
  /\ from \in Nat /\ pos \in Nat
  /\ queue \in Seq(Nat) /\ taken \in Seq(Nat)
  /\ cut \in BOOLEAN /\ up = TRUE
  /\ from = 0 => pos = 0 /\ queue = << >> /\ taken = << >>
  /\ from <= pos
  /\ Feed!InOrder(Line) /\ Feed!Members(Line) \subseteq Feed!Entered
  /\ ~cut => Feed!Members(Line) = Feed!Entered

LEMMA EmptyLine == Feed!InOrder(<< >>) /\ Feed!Members(<< >>) = {} /\ << >> \o << >> = << >>
  BY ConcatEmptySeq, EmptySeq DEF Feed!InOrder, Feed!Members

LEMMA LineType == FeedInv => Line \in Seq(Nat)
  BY ConcatProperties DEF FeedInv, Line

\* A newer message at the end of a line.
LEMMA LineGrows ==
  ASSUME NEW s \in Seq(Nat), NEW n \in Nat, Feed!InOrder(s), \A m \in Feed!Members(s) : m < n
  PROVE  /\ Feed!InOrder(Append(s, n))
         /\ Feed!Members(Append(s, n)) = Feed!Members(s) \cup {n}
<1>1. /\ DOMAIN Append(s, n) = 1..(Len(s) + 1) /\ DOMAIN s = 1..Len(s) /\ Len(s) \in Nat
      /\ \A i \in 1..Len(s) : Append(s, n)[i] = s[i]
      /\ Append(s, n)[Len(s) + 1] = n
  OBVIOUS
<1>2. \A i \in 1..Len(s) : s[i] < n
  BY <1>1 DEF Feed!Members
<1>3. Feed!InOrder(Append(s, n))
  <2> SUFFICES ASSUME NEW i \in 1..(Len(s) + 1), NEW j \in 1..(Len(s) + 1), i < j
               PROVE  Append(s, n)[i] < Append(s, n)[j]
    BY <1>1 DEF Feed!InOrder
  <2>1. i \in 1..Len(s)
    BY <1>1
  <2>2. CASE j \in 1..Len(s)
    BY <1>1, <2>1, <2>2 DEF Feed!InOrder
  <2>3. CASE j = Len(s) + 1
    BY <1>1, <1>2, <2>1, <2>3
  <2> QED
    BY <1>1, <2>2, <2>3
<1>4. Feed!Members(Append(s, n)) \subseteq Feed!Members(s) \cup {n}
  BY <1>1 DEF Feed!Members
<1>5. Feed!Members(s) \subseteq Feed!Members(Append(s, n)) /\ n \in Feed!Members(Append(s, n))
  BY <1>1 DEF Feed!Members
<1> QED
  BY <1>3, <1>4, <1>5

\* The messages at the front of a line.
LEMMA LineFront ==
  ASSUME NEW s \in Seq(Nat), NEW t \in Seq(Nat), Feed!InOrder(t), Len(s) <= Len(t),
         \A i \in 1..Len(s) : s[i] = t[i]
  PROVE  Feed!InOrder(s) /\ Feed!Members(s) \subseteq Feed!Members(t)
<1>1. DOMAIN s = 1..Len(s) /\ DOMAIN t = 1..Len(t) /\ DOMAIN s \subseteq DOMAIN t
  OBVIOUS
<1> QED
  BY <1>1 DEF Feed!InOrder, Feed!Members

\* Taking moves the boundary in the line.
LEMMA TakenFromLine ==
  ASSUME NEW s \in Seq(Nat), NEW t \in Seq(Nat), t # << >>
  PROVE  Append(s, Head(t)) \o Tail(t) = s \o t
<1>1. Head(t) \in Nat /\ Tail(t) \in Seq(Nat) /\ Len(t) \in Nat \ {0} /\ Head(t) = t[1]
  BY HeadTailProperties, EmptySeq
<1>2. t = << Head(t) >> \o Tail(t)
  <2>1. SubSeq(t, 1, Len(t)) = << t[1] >> \o SubSeq(t, 2, Len(t))
    <3>1. 1 \in 1..Len(t) /\ Len(t) \in 1..Len(t) /\ 1 + 1 = 2
      BY <1>1
    <3> QED
      BY <3>1, SubSeqRecursiveFirst
  <2> QED
    BY <1>1, <2>1, SubSeqFull, TailIsSubSeq
<1>3. Append(s, Head(t)) = s \o << Head(t) >> /\ << Head(t) >> \in Seq(Nat)
  BY <1>1, AppendIsConcat
<1>4. (s \o << Head(t) >>) \o Tail(t) = s \o (<< Head(t) >> \o Tail(t))
  BY <1>1, <1>3, ConcatAssociative
<1> QED
  BY <1>2, <1>3, <1>4

LEMMA FeedInvInit == Feed!AbsInit => FeedInv
<1> SUFFICES ASSUME Feed!AbsInit PROVE FeedInv
  OBVIOUS
<1>1. from = 0 /\ pos = 0 /\ queue = << >> /\ taken = << >> /\ cut = FALSE /\ up = TRUE
  BY DEF Feed!AbsInit
<1>2. Line = << >> /\ Feed!Entered = {}
  BY <1>1, EmptyLine DEF Line, Feed!Entered
<1>3. /\ Feed!InOrder(Line) /\ Feed!Members(Line) \subseteq Feed!Entered
      /\ Feed!Members(Line) = Feed!Entered
  BY <1>2, EmptyLine
<1>4. queue \in Seq(Nat) /\ taken \in Seq(Nat) /\ from \in Nat /\ pos \in Nat /\ from <= pos
  BY <1>1
<1>5. cut \in BOOLEAN
  BY <1>1
<1> QED
  BY <1>1, <1>3, <1>4, <1>5 DEF FeedInv

LEMMA FeedInvNext == FeedInv /\ [Feed!AbsNext]_(Feed!absVars) => FeedInv'
<1> SUFFICES ASSUME FeedInv, [Feed!AbsNext]_(Feed!absVars) PROVE FeedInv'
  OBVIOUS
<1>1. CASE Feed!Open
  <2>1. /\ queue = << >> /\ taken = << >> /\ from' \in Nat /\ pos' = from' /\ from' # 0
        /\ UNCHANGED <<queue, taken, cut, up>>
    BY <1>1 DEF Feed!Open, FeedInv
  <2>2. Line' = << >> /\ Feed!Entered' = {}
    BY <2>1, EmptyLine DEF Line, Feed!Entered
  <2> QED
    BY <2>1, <2>2, EmptyLine DEF FeedInv
<1>2. CASE Feed!Enter
  <2>1. /\ from # 0 /\ pos' = pos + 1 /\ from \in Nat /\ pos \in Nat /\ from <= pos
        /\ UNCHANGED <<from, taken, cut, up>>
    BY <1>2 DEF Feed!Enter, FeedInv
  <2>2. \A m \in Feed!Members(Line) : m < pos
    BY <2>1 DEF FeedInv, Feed!Entered
  <2>3. CASE pos \in Skipped
    <3>1. queue' = queue /\ Line' = Line
      BY <1>2, <2>1, <2>3 DEF Feed!Enter, Line
    <3>2. Feed!Entered' = Feed!Entered
      BY <2>1, <2>3 DEF Feed!Entered
    <3> QED
      BY <2>1, <3>1, <3>2 DEF FeedInv
  <2>4. CASE pos \notin Skipped
    <3>1. queue' = Append(queue, pos) /\ queue' \in Seq(Nat)
      BY <1>2, <2>1, <2>4 DEF Feed!Enter, FeedInv
    <3>2. Line' = Append(Line, pos)
      BY <2>1, <3>1 DEF Line, FeedInv
    <3>3. Feed!Entered' = Feed!Entered \cup {pos}
      BY <2>1, <2>4 DEF Feed!Entered
    <3>4. Feed!InOrder(Line') /\ Feed!Members(Line') = Feed!Members(Line) \cup {pos}
      BY <2>1, <2>2, <3>2, LineType, LineGrows DEF FeedInv
    <3> QED
      BY <2>1, <3>1, <3>3, <3>4 DEF FeedInv
  <2> QED
    BY <2>3, <2>4
<1>3. CASE Feed!Take
  <2>1. /\ taken' = Append(taken, Head(queue)) /\ queue' = Tail(queue) /\ queue # << >>
        /\ UNCHANGED <<from, pos, cut, up>>
    BY <1>3 DEF Feed!Take
  <2>2. Head(queue) \in Nat /\ Tail(queue) \in Seq(Nat)
    BY <2>1, HeadTailProperties DEF FeedInv
  <2>3. Line' = Line /\ Feed!Entered' = Feed!Entered
    BY <2>1, TakenFromLine DEF Line, FeedInv, Feed!Entered
  <2> QED
    BY <2>1, <2>2, <2>3 DEF FeedInv
<1>4. CASE Feed!Lose
  <2>1. /\ cut /\ queue # << >> /\ queue' = SubSeq(queue, 1, Len(queue) - 1)
        /\ UNCHANGED <<from, pos, taken, cut, up>>
    BY <1>4 DEF Feed!Lose
  <2>2. /\ queue' \in Seq(Nat) /\ Len(queue') = Len(queue) - 1 /\ Len(queue) \in Nat
        /\ \A i \in 1..Len(queue') : queue'[i] = queue[i]
    <3>1. queue \in Seq(Nat) /\ Len(queue) \in Nat \ {0}
      BY <2>1, EmptySeq DEF FeedInv
    <3> DEFINE n == Len(queue) - 1
    <3>2. n \in Int /\ 1 \in Int /\ (\A i \in 1..n : queue[i] \in Nat) /\ queue' = SubSeq(queue, 1, n)
      BY <2>1, <3>1
    <3> HIDE DEF n
    <3>3. /\ SubSeq(queue, 1, n) \in Seq(Nat)
          /\ Len(SubSeq(queue, 1, n)) = IF 1 <= n THEN n - 1 + 1 ELSE 0
          /\ \A i \in 1..(n - 1 + 1) : SubSeq(queue, 1, n)[i] = queue[1 + i - 1]
      BY <3>2, SubSeqProperties
    <3>4. Len(queue') = n
      <4>1. n >= 0
        BY <3>1 DEF n
      <4> QED
        BY <3>2, <3>3, <4>1
    <3>5. ASSUME NEW i \in 1..n PROVE queue'[i] = queue[i]
      <4>1. i \in 1..(n - 1 + 1) /\ 1 + i - 1 = i
        BY <3>2
      <4> QED
        BY <3>2, <3>3, <4>1
    <3>6. queue' \in Seq(Nat) /\ Len(queue') = Len(queue) - 1
      BY <3>2, <3>3, <3>4 DEF n
    <3> QED
      BY <3>1, <3>4, <3>5, <3>6
  <2>3. /\ Line' \in Seq(Nat) /\ Len(Line') <= Len(Line)
        /\ \A i \in 1..Len(Line') : Line'[i] = Line[i]
    BY <2>1, <2>2, ConcatProperties DEF Line, FeedInv
  <2>4. Feed!InOrder(Line') /\ Feed!Members(Line') \subseteq Feed!Members(Line)
    BY <2>3, LineFront, LineType DEF FeedInv
  <2>5. Feed!Entered' = Feed!Entered
    BY <2>1 DEF Feed!Entered
  <2>6. from # 0
    BY <2>1 DEF FeedInv
  <2> QED
    BY <2>1, <2>2, <2>4, <2>5, <2>6 DEF FeedInv
<1>5. CASE Feed!Cut \/ UNCHANGED Feed!absVars
  <2>1. UNCHANGED <<from, pos, queue, taken, up>> /\ cut' \in {cut, TRUE}
    BY <1>5 DEF Feed!Cut, Feed!absVars
  <2>2. Line' = Line /\ Feed!Entered' = Feed!Entered
    BY <2>1 DEF Line, Feed!Entered
  <2> QED
    BY <2>1, <2>2 DEF FeedInv
<1> QED
  BY <1>1, <1>2, <1>3, <1>4, <1>5 DEF Feed!AbsNext

\* Whoever takes from the feed is given the messages from where it asked on, in
\* order, and misses none before the feed is cut.
THEOREM PromiseSkipsNothing == Feed!AbsSpec => []Feed!NothingSkipped
<1>1. FeedInv => Feed!NothingSkipped
  BY DEF FeedInv, Feed!NothingSkipped, Line
<1> QED
  BY <1>1, FeedInvInit, FeedInvNext, PTL DEF Feed!AbsSpec

-----------------------------------------------------------------------------
(* The audited store *)

Entry == [id : Ids, outcome : Outcomes, dryRun : BOOLEAN]

LedgerTypes ==
  /\ events \in [Clients -> Seq(Entry)]
  /\ open = [c \in Clients |-> open[c]]
  /\ \A c \in Clients : \A call \in open[c] : call.id \in Ids /\ call.dryRun \in BOOLEAN

\* The event at place i of c's trail is of the call id.
EventOf(c, i, id) == c \in Clients /\ i \in 1..Len(events[c]) /\ events[c][i].id = id

\* A client has one call open at most, shared with no other, and it has left no
\* trace yet but, perhaps, the change itself; a call that is loose was reported,
\* as no success.
CallsInv ==
  /\ \A c, d \in Clients : \A x \in open[c], y \in open[d] :
       c = d \/ x.id = y.id => c = d /\ x = y
  /\ \A c \in Clients : \A x \in open[c] :
       /\ x.dryRun => x.id \notin changed
       /\ \A l \in loose : l.id # x.id
       /\ \A d, i : ~EventOf(d, i, x.id)
  /\ \A l \in loose :
       /\ \E c, i : EventOf(c, i, l.id)
       /\ \A c, i : EventOf(c, i, l.id) =>
            events[c][i].outcome \notin Successes /\ events[c][i].dryRun = l.dryRun

\* A change has its event, or its call is open.
ChangesInv ==
  \A id \in changed : \/ \E c, i : EventOf(c, i, id)
                     \/ \E c \in Clients : \E x \in open[c] : x.id = id

EventsInv ==
  /\ \A c, d, i, j : \A id : EventOf(c, i, id) /\ EventOf(d, j, id) => c = d /\ i = j
  /\ \A c \in Clients : \A i \in 1..Len(events[c]) :
       /\ events[c][i].outcome \in Successes => (events[c][i].id \in changed <=> ~events[c][i].dryRun)
       /\ events[c][i].dryRun => events[c][i].id \notin changed

LedgerInv == LedgerTypes /\ CallsInv /\ ChangesInv /\ EventsInv

LEMMA ReportedHasEvent ==
  ASSUME NEW id PROVE id \in Ledger!Reported <=> \E c, i : EventOf(c, i, id)
  BY DEF Ledger!Reported, EventOf

LEMMA OpenHasCall ==
  ASSUME NEW id
  PROVE  id \in Ledger!IdsOf(Ledger!OpenCalls) <=> \E c \in Clients : \E x \in open[c] : x.id = id
  BY DEF Ledger!IdsOf, Ledger!OpenCalls

LEMMA LedgerInvInit == Ledger!AbsInit => LedgerInv
<1> SUFFICES ASSUME Ledger!AbsInit PROVE LedgerInv
  OBVIOUS
<1>1. /\ changed = {} /\ loose = {}
      /\ \A c \in Clients : open[c] = {} /\ events[c] = << >> /\ 1..Len(events[c]) = {}
  BY DEF Ledger!AbsInit
<1>2. LedgerTypes
  BY DEF Ledger!AbsInit, LedgerTypes
<1>3. \A c, i, id : ~EventOf(c, i, id)
  BY <1>1 DEF EventOf
<1> QED
  BY <1>1, <1>2, <1>3 DEF LedgerInv, CallsInv, ChangesInv, EventsInv

LEMMA MakeKeepsLedger ==
  ASSUME LedgerInv, NEW c \in Clients, NEW call, Ledger!Make(c, call)
  PROVE  LedgerInv'
<1>1. /\ open[c] = {} /\ call.id \in Ids /\ call.dryRun \in BOOLEAN
      /\ open' = [open EXCEPT ![c] = {call}]
      /\ UNCHANGED <<changed, loose, events>>
      /\ call.id \notin changed /\ call.id \notin Ledger!Reported
      /\ call.id \notin Ledger!IdsOf(Ledger!OpenCalls) /\ call.id \notin Ledger!IdsOf(loose)
  BY DEF Ledger!Make
<1>2. /\ \A d, i : ~EventOf(d, i, call.id)
      /\ \A d \in Clients : \A x \in open[d] : x.id # call.id
      /\ \A l \in loose : l.id # call.id
  <2> PICK me : me = call.id
    OBVIOUS
  <2>1. \A d, i : ~EventOf(d, i, me)
    BY <1>1, ReportedHasEvent
  <2>2. \A d \in Clients : \A x \in open[d] : x.id # me
    BY <1>1, OpenHasCall
  <2>3. \A l \in loose : l.id # me
    BY <1>1 DEF Ledger!IdsOf
  <2> QED
    BY <2>1, <2>2, <2>3
<1>3. /\ open'[c] = {call} /\ \A d \in Clients \ {c} : open'[d] = open[d]
      /\ open' = [d \in Clients |-> open'[d]]
  BY <1>1 DEF LedgerInv, LedgerTypes
<1>4. \A d, i, id : EventOf(d, i, id)' <=> EventOf(d, i, id)
  BY <1>1 DEF EventOf
<1>5. LedgerTypes'
  BY <1>1, <1>3 DEF LedgerInv, LedgerTypes
<1>6. CallsInv'
  <2>0. \A d \in Clients : \A x \in open'[d] : (d = c /\ x = call) \/ (d # c /\ x \in open[d])
    BY <1>3
  <2>1. \A a, b \in Clients : \A x \in open'[a], y \in open'[b] :
          a = b \/ x.id = y.id => a = b /\ x = y
    BY <1>2, <2>0 DEF LedgerInv, CallsInv
  <2>2. ASSUME NEW d \in Clients, NEW x \in open'[d]
        PROVE  /\ x.dryRun => x.id \notin changed
               /\ \A l \in loose : l.id # x.id
               /\ \A a, i : ~EventOf(a, i, x.id)
    <3>1. CASE x = call
      BY <1>1, <1>2, <3>1
    <3>2. CASE x # call
      BY <2>0, <3>2 DEF LedgerInv, CallsInv
    <3> QED
      BY <3>1, <3>2
  <2>3. \A l \in loose :
          /\ \E a, i : EventOf(a, i, l.id)
          /\ \A a, i : EventOf(a, i, l.id) =>
               events[a][i].outcome \notin Successes /\ events[a][i].dryRun = l.dryRun
    BY DEF LedgerInv, CallsInv
  <2> QED
    BY <1>1, <1>4, <2>1, <2>2, <2>3 DEF CallsInv
<1>7. ChangesInv'
  BY <1>1, <1>3, <1>4 DEF LedgerInv, ChangesInv
<1>8. EventsInv'
  BY <1>1, <1>4 DEF LedgerInv, EventsInv
<1> QED
  BY <1>5, <1>6, <1>7, <1>8 DEF LedgerInv

LEMMA ReportKeepsLedger ==
  ASSUME LedgerInv, NEW c \in Clients, NEW call \in open[c], NEW outcome \in Outcomes,
         Ledger!Report(c, call, outcome)
  PROVE  LedgerInv'
<1> DEFINE e == [id |-> call.id, outcome |-> outcome, dryRun |-> call.dryRun]
<1>1. /\ outcome \in Successes => (call.id \in changed <=> ~call.dryRun)
      /\ open' = [open EXCEPT ![c] = {}]
      /\ events' = [events EXCEPT ![c] = Append(@, e)]
      /\ \/ loose' = loose
         \/ outcome \notin Successes /\ call.id \notin changed /\ loose' = loose \cup {call}
      /\ UNCHANGED changed
  BY DEF Ledger!Report
<1>2. /\ e \in Entry /\ e.id = call.id /\ e.outcome = outcome /\ e.dryRun = call.dryRun
  BY DEF LedgerInv, LedgerTypes, Entry
<1> HIDE DEF e
<1>3. /\ open'[c] = {} /\ \A d \in Clients \ {c} : open'[d] = open[d]
      /\ open' = [d \in Clients |-> open'[d]]
  BY <1>1 DEF LedgerInv, LedgerTypes
<1>4. /\ events[c] \in Seq(Entry) /\ events'[c] = Append(events[c], e)
      /\ events' \in [Clients -> Seq(Entry)]
      /\ \A d \in Clients \ {c} : events'[d] = events[d]
  BY <1>1, <1>2, AppendProperties DEF LedgerInv, LedgerTypes
<1>5. /\ Len(events[c]) \in Nat /\ Len(events'[c]) = Len(events[c]) + 1
      /\ \A i \in 1..Len(events[c]) : events'[c][i] = events[c][i]
      /\ events'[c][Len(events[c]) + 1] = e
  BY <1>2, <1>4, AppendProperties
<1> DEFINE last == Len(events[c]) + 1
<1>6. /\ last \notin 1..Len(events[c]) /\ last \in 1..Len(events'[c])
      /\ 1..Len(events'[c]) = 1..Len(events[c]) \cup {last}
  BY <1>5
<1>7. events'[c][last] = e
  BY <1>5
<1> HIDE DEF last
<1>8. \A d, i, id : EventOf(d, i, id)' <=> EventOf(d, i, id) \/ (d = c /\ i = last /\ id = call.id)
  BY <1>2, <1>4, <1>5, <1>6, <1>7 DEF EventOf
<1>9. \A d, i : ~EventOf(d, i, call.id)
  BY DEF LedgerInv, CallsInv
<1>10. \A d, i, id : EventOf(d, i, id) => events'[d][i] = events[d][i]
  BY <1>4, <1>5 DEF EventOf
<1>11. LedgerTypes'
  BY <1>3, <1>4 DEF LedgerInv, LedgerTypes
<1>12. CallsInv'
  <2>1. \A d \in Clients : \A x \in open'[d] : d # c /\ x \in open[d] /\ x.id # call.id
    BY <1>3 DEF LedgerInv, CallsInv
  <2>2. \A a, b \in Clients : \A x \in open'[a], y \in open'[b] :
          a = b \/ x.id = y.id => a = b /\ x = y
    BY <2>1 DEF LedgerInv, CallsInv
  <2>3. ASSUME NEW d \in Clients, NEW x \in open'[d]
        PROVE  /\ x.dryRun => x.id \notin changed'
               /\ \A l \in loose' : l.id # x.id
               /\ \A a, i : ~EventOf(a, i, x.id)'
    BY <1>1, <1>8, <2>1 DEF LedgerInv, CallsInv
  <2>4. ASSUME NEW l \in loose, NEW a, NEW i, EventOf(a, i, l.id)'
        PROVE  events'[a][i].outcome \notin Successes /\ events'[a][i].dryRun = l.dryRun
    <3>1. l.id # call.id
      BY DEF LedgerInv, CallsInv
    <3>2. EventOf(a, i, l.id)
      BY <1>8, <2>4, <3>1
    <3> QED
      BY <1>10, <3>2 DEF LedgerInv, CallsInv
  <2>5. ASSUME NEW l \in loose PROVE \E a, i : EventOf(a, i, l.id)'
    BY <1>8 DEF LedgerInv, CallsInv
  <2>6. \E a, i : EventOf(a, i, call.id)'
    BY <1>8
  <2>7. ASSUME NEW a, NEW i, EventOf(a, i, call.id)', outcome \notin Successes
        PROVE  events'[a][i].outcome \notin Successes /\ events'[a][i].dryRun = call.dryRun
    BY <1>2, <1>7, <1>8, <1>9, <2>7
  <2>8. ASSUME NEW l \in loose'
        PROVE  /\ \E a, i : EventOf(a, i, l.id)'
               /\ \A a, i : EventOf(a, i, l.id)' =>
                    events'[a][i].outcome \notin Successes /\ events'[a][i].dryRun = l.dryRun
    <3>1. CASE l \in loose
      BY <2>4, <2>5, <3>1
    <3>2. CASE l = call /\ outcome \notin Successes
      BY <2>6, <2>7, <3>2
    <3> QED
      BY <1>1, <3>1, <3>2
  <2> QED
    BY <2>2, <2>3, <2>8 DEF CallsInv
<1>13. ChangesInv'
  <2> SUFFICES ASSUME NEW id \in changed
               PROVE  \/ \E a, i : EventOf(a, i, id)'
                      \/ \E a \in Clients : \E x \in open'[a] : x.id = id
    BY <1>1 DEF ChangesInv
  <2>1. CASE \E a, i : EventOf(a, i, id)
    BY <1>8, <2>1
  <2>2. ASSUME NEW a \in Clients, NEW x \in open[a], x.id = id
        PROVE  \/ \E b, i : EventOf(b, i, id)'
               \/ \E b \in Clients : \E y \in open'[b] : y.id = id
    <3>1. CASE a = c
      <4>1. x = call
        BY <2>2, <3>1 DEF LedgerInv, CallsInv
      <4> QED
        BY <1>8, <2>2, <4>1
    <3>2. CASE a # c
      BY <1>3, <2>2, <3>2
    <3> QED
      BY <3>1, <3>2
  <2> QED
    BY <2>1, <2>2 DEF LedgerInv, ChangesInv
<1>14. EventsInv'
  <2>1. ASSUME NEW a, NEW b, NEW i, NEW j, NEW id, EventOf(a, i, id)', EventOf(b, j, id)'
        PROVE  a = b /\ i = j
    BY <1>8, <1>9, <2>1 DEF LedgerInv, EventsInv
  <2>2. ASSUME NEW a \in Clients, NEW i \in 1..Len(events'[a]), NEW f, f = events'[a][i]
        PROVE  /\ f.outcome \in Successes => (f.id \in changed <=> ~f.dryRun)
               /\ f.dryRun => f.id \notin changed
    <3>1. CASE a = c /\ i = last
      <4>1. f = e
        BY <1>7, <2>2, <3>1
      <4> QED
        BY <1>1, <1>2, <4>1 DEF LedgerInv, CallsInv
    <3>2. CASE ~(a = c /\ i = last)
      <4>1. i \in 1..Len(events[a]) /\ f = events[a][i]
        BY <1>4, <1>5, <1>6, <2>2, <3>2
      <4> QED
        BY <4>1 DEF LedgerInv, EventsInv
    <3> QED
      BY <3>1, <3>2
  <2> QED
    BY <1>1, <2>1, <2>2 DEF EventsInv
<1> QED
  BY <1>11, <1>12, <1>13, <1>14 DEF LedgerInv

\* A change by a call that no event calls a success, and that is no dry run.
LEMMA ChangeKeepsEvents ==
  ASSUME EventsInv, NEW call, changed' = changed \cup {call.id}, UNCHANGED events,
         \A c, i : EventOf(c, i, call.id) =>
           events[c][i].outcome \notin Successes /\ ~events[c][i].dryRun
  PROVE  EventsInv'
<1>1. \A c, i, id : EventOf(c, i, id)' <=> EventOf(c, i, id)
  BY DEF EventOf
<1>2. ASSUME NEW c \in Clients, NEW i \in 1..Len(events[c]), NEW f, f = events[c][i]
      PROVE  /\ f.outcome \in Successes => (f.id \in changed' <=> ~f.dryRun)
             /\ f.dryRun => f.id \notin changed'
  <2>1. CASE f.id = call.id
    BY <1>2, <2>1 DEF EventOf
  <2>2. CASE f.id # call.id
    BY <1>2, <2>2 DEF EventsInv
  <2> QED
    BY <2>1, <2>2
<1> QED
  BY <1>1, <1>2 DEF EventsInv

LEMMA ChangeKeepsLedger ==
  ASSUME LedgerInv, NEW call, ~call.dryRun, changed' = changed \cup {call.id},
         UNCHANGED <<open, events>>,
         \/ loose' = loose /\ \E c \in Clients : call \in open[c]
         \/ call \in loose /\ loose' = loose \ {call}
  PROVE  LedgerInv'
<1>1. \A c, i, id : EventOf(c, i, id)' <=> EventOf(c, i, id)
  BY DEF EventOf
<1>2. \A c, i : EventOf(c, i, call.id) =>
        events[c][i].outcome \notin Successes /\ ~events[c][i].dryRun
  BY DEF LedgerInv, CallsInv
<1>3. \/ \E c, i : EventOf(c, i, call.id)
      \/ \E c \in Clients : \E x \in open[c] : x.id = call.id
  BY DEF LedgerInv, CallsInv
<1>4. \A c \in Clients : \A x \in open[c] : x.dryRun => x.id # call.id
  BY DEF LedgerInv, CallsInv
<1>5. LedgerTypes'
  BY DEF LedgerInv, LedgerTypes
<1>6. CallsInv'
  BY <1>1, <1>4 DEF LedgerInv, CallsInv
<1>7. ChangesInv'
  BY <1>1, <1>3 DEF LedgerInv, ChangesInv
<1>8. EventsInv'
  BY <1>2, ChangeKeepsEvents DEF LedgerInv
<1> QED
  BY <1>5, <1>6, <1>7, <1>8 DEF LedgerInv

LEMMA LedgerInvNext == LedgerInv /\ [Ledger!AbsNext]_(Ledger!absVars) => LedgerInv'
<1> SUFFICES ASSUME LedgerInv, [Ledger!AbsNext]_(Ledger!absVars) PROVE LedgerInv'
  OBVIOUS
<1>1. ASSUME NEW c \in Clients, NEW call \in open'[c], Ledger!Make(c, call) PROVE LedgerInv'
  BY <1>1, MakeKeepsLedger
<1>2. ASSUME NEW c \in Clients, NEW call \in open[c], Ledger!Change(c, call) PROVE LedgerInv'
  BY <1>2, ChangeKeepsLedger DEF Ledger!Change, Ledger!ChangedBy
<1>3. ASSUME NEW c \in Clients, NEW call \in open[c], NEW o \in Outcomes,
             Ledger!Report(c, call, o)
      PROVE  LedgerInv'
  BY <1>3, ReportKeepsLedger
<1>4. ASSUME NEW call \in loose, Ledger!ChangeLate(call) PROVE LedgerInv'
  BY <1>4, ChangeKeepsLedger DEF Ledger!ChangeLate, Ledger!ChangedBy
<1>5. ASSUME UNCHANGED <<changed, open, events>>, loose' \subseteq loose PROVE LedgerInv'
  <2>1. \A c, i, id : EventOf(c, i, id)' <=> EventOf(c, i, id)
    BY <1>5 DEF EventOf
  <2>2. LedgerTypes' /\ ChangesInv' /\ EventsInv'
    BY <1>5, <2>1 DEF LedgerInv, LedgerTypes, ChangesInv, EventsInv
  <2>3. CallsInv'
    BY <1>5, <2>1 DEF LedgerInv, CallsInv
  <2> QED
    BY <2>2, <2>3 DEF LedgerInv
<1>6. ASSUME NEW call \in loose, Ledger!Lose(call) PROVE LedgerInv'
  BY <1>5, <1>6 DEF Ledger!Lose
<1>7. CASE UNCHANGED Ledger!absVars
  BY <1>5, <1>7 DEF Ledger!absVars
<1> QED
  BY <1>1, <1>2, <1>3, <1>4, <1>6, <1>7 DEF Ledger!AbsNext

\* Whoever reads the trails of such a store can tell from them what changed it:
\* no change goes unreported, none is reported twice, and a success is true.
THEOREM PromiseAccounts == Ledger!AbsSpec => []Ledger!AllAccounted
<1>1. LedgerInv => Ledger!AllAccounted
  <2> SUFFICES ASSUME LedgerInv PROVE Ledger!AllAccounted
    OBVIOUS
  <2>1. changed \subseteq Ledger!Reported \cup Ledger!IdsOf(Ledger!OpenCalls)
    BY ReportedHasEvent, OpenHasCall DEF LedgerInv, ChangesInv
  <2>2. \A c, d \in Clients : \A i \in 1..Len(events[c]), j \in 1..Len(events[d]) :
          events[c][i].id = events[d][j].id => c = d /\ i = j
    <3> SUFFICES ASSUME NEW c \in Clients, NEW d \in Clients,
                        NEW i \in 1..Len(events[c]), NEW j \in 1..Len(events[d]),
                        NEW id, id = events[c][i].id, events[d][j].id = id
                 PROVE  c = d /\ i = j
      OBVIOUS
    <3>1. EventOf(c, i, id) /\ EventOf(d, j, id)
      BY DEF EventOf
    <3> QED
      BY <3>1 DEF LedgerInv, EventsInv
  <2>3. Ledger!Reported \cap Ledger!IdsOf(Ledger!OpenCalls) = {}
    <3> SUFFICES ASSUME NEW id, id \in Ledger!Reported, id \in Ledger!IdsOf(Ledger!OpenCalls)
                 PROVE  FALSE
      OBVIOUS
    <3>1. (\E c, i : EventOf(c, i, id)) /\ (\E c \in Clients : \E x \in open[c] : x.id = id)
      BY ReportedHasEvent, OpenHasCall
    <3> PICK c \in Clients : \E x \in open[c] : x.id = id
      BY <3>1
    <3>2. PICK x \in open[c] : x.id = id
      OBVIOUS
    <3>3. \A d, i : ~EventOf(d, i, x.id)
      BY DEF LedgerInv, CallsInv
    <3> QED
      BY <3>1, <3>2, <3>3
  <2> QED
    BY <2>1, <2>2, <2>3 DEF LedgerInv, EventsInv, Ledger!AllAccounted
<1> QED
  BY <1>1, LedgerInvInit, LedgerInvNext, PTL DEF Ledger!AbsSpec
==============================================================================
