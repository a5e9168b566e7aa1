----------------------------- MODULE SeriesRing -----------------------------
(***************************************************************************)
(* The history of one channel of internal/service/journey.go as the slice  *)
(* it is, and an HTTP handler that encodes it.  snapshot puts the slices   *)
(* themselves into its response, under Journey.mu, and ServeJSON encodes   *)
(* them after the mutex is released, while sample appends to them and      *)
(* slices their front off.  Appends write into the array the handler is    *)
(* reading, until that is full and a longer one takes its place.           *)
(***************************************************************************)
EXTENDS Naturals, Sequences, SequencesExt

CONSTANTS
  HistoryLen,   \* journeyHistoryLen
  MaxSamples    \* bound: values appended, each under a number of its own

VARIABLES
  heap,       \* the arrays allocated so far
  ring,       \* series[ch]: [arr, off, len] of a slice, arr 0 for none
  count,      \* values appended so far
  held,       \* the slice in the handler's response, arr 0 if it has none
  meant,      \* history: what that slice held when the response was made
  encoded     \* what the handler has written of it

vars == <<heap, ring, count, held, meant, encoded>>

NoSlice == [arr |-> 0, off |-> 0, len |-> 0]

Contents(s) ==
  IF s.arr = 0 THEN << >> ELSE SubSeq(heap[s.arr], s.off + 1, s.off + s.len)

Init ==
  /\ heap = << >> /\ ring = NoSlice /\ count = 0
  /\ held = NoSlice /\ meant = << >> /\ encoded = << >>

\* append: into the room behind the slice, or else into an array of twice the
\* length that the values are copied to.  A cell not written yet is 0.
HasRoom(s) == s.arr # 0 /\ s.off + s.len < Len(heap[s.arr])

Grown(s, v) == Contents(s) \o <<v>> \o [i \in 1 .. IF s.len = 0 THEN 0 ELSE s.len - 1 |-> 0]

\* Mutant: the values are moved to the front of their array instead.
TrimInPlace(h, s) ==
  IF s.len <= HistoryLen THEN [heap |-> h, ring |-> s]
  ELSE [heap |-> [h EXCEPT ![s.arr] = SubSeq(@, s.len - HistoryLen + 1, Len(@))
                                        \o SubSeq(@, 1, s.len - HistoryLen)],
        ring |-> [s EXCEPT !.len = HistoryLen]]

\* s[len(s)-journeyHistoryLen:]
Trim(h, s) ==
  [heap |-> h,
   ring |-> IF s.len <= HistoryLen THEN s
            ELSE [s EXCEPT !.off = @ + s.len - HistoryLen, !.len = HistoryLen]]

Sample ==
  /\ count < MaxSamples
  /\ count' = count + 1
  /\ LET after ==
           IF HasRoom(ring)
           THEN Trim([heap EXCEPT ![ring.arr][ring.off + ring.len + 1] = count + 1],
                     [ring EXCEPT !.len = @ + 1])
           ELSE Trim(Append(heap, Grown(ring, count + 1)),
                     [arr |-> Len(heap) + 1, off |-> 0, len |-> ring.len + 1])
     IN  heap' = after.heap /\ ring' = after.ring
  /\ UNCHANGED <<held, meant, encoded>>

\* The channel has fallen silent; a later denial begins a new slice.
Drop ==
  /\ ring # NoSlice
  /\ ring' = NoSlice
  /\ UNCHANGED <<heap, count, held, meant, encoded>>

snapshot ==
  /\ held = NoSlice /\ ring # NoSlice
  /\ held' = ring /\ meant' = Contents(ring) /\ encoded' = << >>
  /\ UNCHANGED <<heap, ring, count>>

\* The encoder reads the next element, or is done with the response.
Encode ==
  /\ held # NoSlice
  /\ IF Len(encoded) < held.len
     THEN encoded' = Append(encoded, Contents(held)[Len(encoded) + 1]) /\ UNCHANGED <<held, meant>>
     ELSE held' = NoSlice /\ meant' = << >> /\ encoded' = << >>
  /\ UNCHANGED <<heap, ring, count>>

Next == Sample \/ Drop \/ snapshot \/ Encode

Spec == Init /\ [][Next]_vars

-----------------------------------------------------------------------------
\* What a handler encodes of a channel is what the channel's history was when
\* it took the mutex, however often the sampler appends to the same array
\* and trims it meanwhile; and that history is what was appended last.
SnapshotIsStable ==
  /\ IsPrefix(encoded, meant)
  /\ ring # NoSlice => ring.len <= HistoryLen /\ Last(Contents(ring)) = count
=============================================================================
