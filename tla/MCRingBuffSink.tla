--------------------------- MODULE MCRingBuffSink ---------------------------
(* RingBuffSink on small instances.  The producers are interchangeable. *)
EXTENDS RingBuffSink, TLC

ProducerSymmetry == Permutations(Producers)
=============================================================================
