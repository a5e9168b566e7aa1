---------------------------- MODULE LossyFanout ----------------------------
(***************************************************************************)
(* What internal/audit promises its callers, with no lock, loop or channel *)
(* in sight: a member of the fan-out sees, of each publisher, some of the  *)
(* events issued while it was a member, each at most once and in the order *)
(* in which that publisher issued them, and nothing after it has left.     *)
(*                                                                         *)
(* Events may be lost for one member and not for another.  AuditBroker     *)
(* implements this specification.                                          *)
(***************************************************************************)
EXTENDS Naturals, Sequences

CONSTANTS Publishers,   \* goroutines that publish
          Subs          \* identities of subscriptions

VARIABLES member,       \* member[s]: has s joined, and left again
          issued,       \* issued[p]: number of events p has issued
          stream        \* stream[s]: every event s was given, in order

absVars == <<member, issued, stream>>

AbsEvent == [pub : Publishers, seq : Nat \ {0}]

AbsTypeOK ==
  /\ member \in [Subs -> {"out", "in", "gone"}]
  /\ issued \in [Publishers -> Nat]
  /\ stream \in [Subs -> Seq(AbsEvent)]

AbsInit ==
  /\ member = [s \in Subs |-> "out"]
  /\ issued = [p \in Publishers |-> 0]
  /\ stream = [s \in Subs |-> << >>]

Join(s) ==
  /\ member[s] = "out"
  /\ member' = [member EXCEPT ![s] = "in"]
  /\ UNCHANGED <<issued, stream>>

Leave(s) ==
  /\ member[s] = "in"
  /\ member' = [member EXCEPT ![s] = "gone"]
  /\ UNCHANGED <<issued, stream>>

Issue(p) ==
  /\ issued' = [issued EXCEPT ![p] = @ + 1]
  /\ UNCHANGED <<member, stream>>

\* The latest event of p reaches s, which has seen only older ones of p.
Give(p, s) ==
  /\ member[s] = "in"
  /\ issued[p] > 0
  /\ \A i \in 1..Len(stream[s]) : stream[s][i].pub = p => stream[s][i].seq < issued[p]
  /\ stream' = [stream EXCEPT ![s] = Append(@, [pub |-> p, seq |-> issued[p]])]
  /\ UNCHANGED <<member, issued>>

AbsNext ==
  \/ \E s \in Subs : Join(s) \/ Leave(s)
  \/ \E p \in Publishers : Issue(p) \/ \E s \in Subs : Give(p, s)

AbsSpec == AbsInit /\ [][AbsNext]_absVars

-----------------------------------------------------------------------------
\* In every stream the events of one publisher have increasing sequence
\* numbers: none is delivered twice and none overtakes an earlier one.
InIssueOrder ==
  \A s \in Subs : \A i, j \in 1..Len(stream[s]) :
    (i < j /\ stream[s][i].pub = stream[s][j].pub)
      => stream[s][i].seq < stream[s][j].seq

\* No stream holds an event that was not issued.
OnlyIssued ==
  \A s \in Subs : \A i \in 1..Len(stream[s]) :
    stream[s][i].seq <= issued[stream[s][i].pub]
=============================================================================
