--------------------------- MODULE JourneyHistory ---------------------------
(***************************************************************************)
(* Journey, and beside it the history of one of its channels at the level  *)
(* of Go's slices.  view is chosen at the start and says which of the two  *)
(* is looked at: they share no state, as Journey holds each history as a   *)
(* value, so that their interleavings would add nothing.                   *)
(***************************************************************************)
EXTENDS Journey

CONSTANTS RingLen, MaxSamples

ASSUME RingAssumption == RingLen \in Nat \ {0}

VARIABLES view,      \* "board" or "ring"
          heap, ring, count, held, meant, encoded

Ring == INSTANCE SeriesRing WITH HistoryLen <- RingLen
ringVars == <<heap, ring, count, held, meant, encoded>>
AllVars == <<view, vars, ringVars>>

AllInit == Init /\ Ring!Init /\ view \in {"board", "ring"}

Board(A) == view = "board" /\ A /\ UNCHANGED <<view, ringVars>>

AllNext ==
  \/ Board(Next)
  \/ view = "ring" /\ Ring!Next /\ UNCHANGED <<view, vars>>

\* The fairness of Journey!FairSpec, for the board.
AllSpec ==
  /\ AllInit /\ [][AllNext]_AllVars
  /\ WF_AllVars(Board(SamplerStep)) /\ SF_AllVars(Board(SamplerStops))
  /\ WF_AllVars(Board(CloseEnds))

\* SeriesRing.SnapshotIsStable: an HTTP handler encodes what the mutex showed it.
SnapshotIsStable == Ring!SnapshotIsStable
=============================================================================
