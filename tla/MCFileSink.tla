----------------------------- MODULE MCFileSink -----------------------------
(* FileSink on small instances. *)
EXTENDS FileSink, TLC

CONSTANTS t1, t2

(* One thread makes calls that fit, fill and exceed the buffer one after   *)
(* the other, another meets it wherever it is.                             *)
OneLonger == (t1 :> 4) @@ (t2 :> 1)

(* Threads that are interchangeable. *)
Even == [t \in Threads |-> 3]
ThreadSymmetry == Permutations(Threads)
=============================================================================
