--------------------------- MODULE MCAuditBroker ---------------------------
(* AuditBroker on a small instance: one subscription asks for a buffer of  *)
(* one and is soon slow, the other asks for the default, which the bounded *)
(* number of events never fills.                                           *)
EXTENDS AuditBroker, TLC

CONSTANTS p1, p2, c1, c2, s1, s2

MCBufSize == [s \in Subs |-> IF s = s1 THEN 1 ELSE 0]
MCMaxCalls == [p \in Publishers |-> IF p = p1 THEN 2 ELSE 1]

Symmetry == Permutations(Callers)
=============================================================================
