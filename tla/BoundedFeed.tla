---------------------------- MODULE BoundedFeed ----------------------------
(***************************************************************************)
(* What internal/streams promises a caller of Tail, with no callback,      *)
(* channel or cleanup goroutine in sight: the messages from a starting     *)
(* point on pass through a queue that holds so many of them, and are taken *)
(* from it one by one.  A taker that is slow holds the others back and     *)
(* loses none.  Only once the feed is cut may messages be lost on their    *)
(* way, the newest first; cutting it never harms the process around it.    *)
(*                                                                         *)
(* Messages are their positions in the stream.  TailStream implements this *)
(* specification.                                                          *)
(***************************************************************************)
EXTENDS Naturals, Sequences

CONSTANTS Room,      \* messages on their way at a time
          Skipped    \* positions whose message is passed over

VARIABLES from,      \* first position asked for, 0 until the feed is opened
          pos,       \* next position to enter
          queue,     \* messages on their way, in order
          taken,     \* history: messages the caller took, in order
          cut,       \* the caller's context has ended
          up         \* the process the feed is part of lives

absVars == <<from, pos, queue, taken, cut, up>>

AbsInit ==
  /\ from = 0 /\ pos = 0
  /\ queue = << >> /\ taken = << >>
  /\ cut = FALSE /\ up = TRUE

Open ==
  /\ from = 0
  /\ from' \in Nat \ {0} /\ pos' = from'
  /\ UNCHANGED <<queue, taken, cut, up>>

\* The next message enters, if there is room for it, or is passed over.
Enter ==
  /\ from # 0
  /\ Len(queue) < Room
  /\ pos' = pos + 1
  /\ queue' = IF pos \in Skipped THEN queue ELSE Append(queue, pos)
  /\ UNCHANGED <<from, taken, cut, up>>

Take ==
  /\ queue # << >>
  /\ taken' = Append(taken, Head(queue))
  /\ queue' = Tail(queue)
  /\ UNCHANGED <<from, pos, cut, up>>

\* The newest message is given up.
Lose ==
  /\ cut
  /\ queue # << >>
  /\ queue' = SubSeq(queue, 1, Len(queue) - 1)
  /\ UNCHANGED <<from, pos, taken, cut, up>>

Cut ==
  /\ cut' = TRUE
  /\ UNCHANGED <<from, pos, queue, taken, up>>

AbsNext == Open \/ Enter \/ Take \/ Lose \/ Cut

AbsSpec == AbsInit /\ [][AbsNext]_absVars

-----------------------------------------------------------------------------
\* What was asked for and has entered.
Entered == {n \in Nat : from <= n /\ n < pos} \ Skipped

InOrder(s) == \A i, j \in DOMAIN s : i < j => s[i] < s[j]
Members(s) == {s[i] : i \in DOMAIN s}

\* What the caller took and after it what is on its way has every message once
\* and in order, and until the feed is cut misses none.
NothingSkipped ==
  /\ InOrder(taken \o queue) /\ Members(taken \o queue) \subseteq Entered
  /\ ~cut => Members(taken \o queue) = Entered
  /\ up
=============================================================================
