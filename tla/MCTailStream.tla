---------------------------- MODULE MCTailStream ----------------------------
(* TailStream on a small instance: a stream of up to five messages, one of  *)
(* which has no metadata and one of which the filter rejects, a channel of  *)
(* one or two slots, and up to two callbacks after Stop.                    *)
EXTENDS TailStream
=============================================================================
