----------------------------- MODULE TextCodec ------------------------------
(***************************************************************************)
(* TextEncoder (bilog/include/bilog/codec/text.hpp): the text of one pair, *)
(* as a sequence of tokens.  How a number is written out is left out; the  *)
(* bytes of a string stand for themselves.                                 *)
(***************************************************************************)
EXTENDS Record, SequencesExt

Str(s) == <<[text |-> s]>>
Num(n) == <<[num |-> n]>>
Space == Str(" ")
NewLine == Str("\n")
Chars(bytes) == [k \in DOMAIN bytes |-> [char |-> bytes[k]]]
Real(f) == <<[float |-> f]>>

(* What a text is made of: strings, those that the encoder adds among     *)
(* them, numbers and characters.                                           *)
Strings == {" ", "\n", "[", "]", "true", "false"} \cup {LevelNames[l] : l \in DOMAIN LevelNames} \cup STRING
Token == [text : Strings] \cup [num : Int] \cup [char : Nat] \cup [float : [width : Nat, bits : Nat]]

(* write_level *)
LevelText(level) == Str("[") \o Str(LevelNames[level + 1]) \o Str("]") \o Space

(* write_value, and write_str for a string. *)
ValueText(p) ==
    CASE p.kind = "i" -> Num(p.val)
      [] p.kind = "b" -> Str(IF p.val THEN "true" ELSE "false")
      [] p.kind = "f" -> Real(p.val)
      [] p.kind = "s" -> Chars(p.val)
      [] p.kind = "cs" -> Str(p.val)

(* encode_pair: the first pair is the level, and of the fixed-size pairs   *)
(* the one at index 1 is taken for the message, whose value is dropped.    *)
PairText(index, p) ==
    CASE p.kind = "event" -> LevelText(p.val)
      [] p.kind \notin {"event", "s"} /\ index = 1 -> Str(p.name)
      [] OTHER -> Space \o Str(p.name) \o Space \o ValueText(p)

(* encode_pair for every pair, at the given values of pair_index_. *)
PairsText(pairs, indices) == FlattenSeq([k \in DOMAIN pairs |-> PairText(indices[k], pairs[k])])

(* ... then commit. *)
Text(pairs, indices) == PairsText(pairs, indices) \o NewLine

(* text.hpp:21, "Output per record": the indices count from 0. *)
Due(pairs) == Text(pairs, [k \in DOMAIN pairs |-> k - 1])

(* The line of a statement. *)
Line(ids, stmt) == Due(Pairs(ids, stmt))
=============================================================================
