----------------------------- MODULE MCPreproc ------------------------------
(* Small instances of Preproc: the chains a programmer writes. *)
EXTENDS Preproc

Step(m, t) == [method |-> m, tag |-> t]

(* The program is yet to be written. *)
NoCalls == {<<>>}

(* A message; a message with an integer; one with a constant string, whose *)
(* value is the first one's message; one whose name is not a literal.      *)
SomeChains == {
    <<Step("info", "a")>>,
    <<Step("info", "b"), Step("i", "a")>>,
    <<Step("warn", "b"), Step("cs", "c"), Step("cs_val", "a")>>,
    <<Step("info", ""), Step("s", "b")>>}

(* A message, and one whose name is not a literal. *)
TwoChains == {<<Step("info", "a")>>, <<Step("info", "")>>}

=============================================================================
