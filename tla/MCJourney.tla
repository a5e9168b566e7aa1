----------------------------- MODULE MCJourney -----------------------------
(* Journey on a small instance: the time constants keep their order, a     *)
(* list can take two seconds, and the clock runs past the idle window and  *)
(* the prober TTL.  The history beside it is long enough to be given a     *)
(* second array while it is trimmed, and dropped, and begun again.         *)
EXTENDS JourneyHistory

CONSTANTS OSFP, ICMP, x

Probe(ch, addr, hasSub, decision) ==
  [ch |-> ch, addr |-> addr, hasSub |-> hasSub, decision |-> decision]

MCProbes ==
  { Probe(OSFP, x, TRUE, "Deny"), Probe(OSFP, NoAddr, FALSE, "Tarpit"),
    Probe(ICMP, x, FALSE, "DecoyHit") }
=============================================================================
