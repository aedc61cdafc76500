------------------------------- MODULE Record -------------------------------
(***************************************************************************)
(* Event and EventWriter (bilog/include/bilog/event.hpp): the calls of     *)
(* encode_pair one logging statement makes, whatever the encoder.          *)
(*                                                                         *)
(* A statement is [level, msg, fields], a field [method, name, val]: the   *)
(* chain .info(msg).i(name, val)... as it is executed.  A value of f is    *)
(* [width, bits], one of s a sequence of bytes, one of cs a string.        *)
(***************************************************************************)
EXTENDS Integers, Sequences, FiniteSets

LevelNames == <<"TRACE", "DEBUG", "INFO", "WARN", "ERROR", "FATAL">>
Starters == <<"trace", "debug", "info", "warn", "error", "fatal">>

(* trace() ... fatal(): below the minimum the statement encodes nothing. *)
Passes(min, level) == min <= level

(* next_id past the end of the list, in a build without assertions. *)
NextId(ids, k) == IF k \in DOMAIN ids THEN ids[k] ELSE 0

(* Which id of the list field k draws: the event and the message come      *)
(* first, and each cs before it has drawn two.                             *)
Place(fields, k) == 2 + k + Cardinality({j \in 1..(k - 1) : fields[j].method = "cs"})

(* What the methods for fields take. *)
Value(method) ==
    CASE method = "i" -> Int
      [] method = "f" -> [width : Nat, bits : Nat]
      [] method = "b" -> BOOLEAN
      [] method = "s" -> Seq(Nat)
      [] method = "cs" -> STRING
Levels == 0..5
Field(m) == [method : {m}, name : STRING, val : Value(m)]
IsStatement(stmt) == stmt \in [level : Levels, msg : STRING,
    fields : Seq(Field("i") \cup Field("f") \cup Field("b") \cup Field("s") \cup Field("cs"))]

(* EventWriter::i, f, b, s and cs. *)
FieldPair(ids, fields, k) ==
    LET f == fields[k]
        at == Place(fields, k)
    IN  [kind |-> f.method, id |-> NextId(ids, at), name |-> f.name, val |-> f.val,
         valId |-> IF f.method = "cs" THEN NextId(ids, at + 1) ELSE 0]

(* Event::begin and the chain: the event with its level, the message with  *)
(* a placeholder, then the fields.                                         *)
Pairs(ids, stmt) ==
    <<[kind |-> "event", id |-> NextId(ids, 1), val |-> stmt.level],
      [kind |-> "i", id |-> NextId(ids, 2), name |-> stmt.msg, val |-> 0, valId |-> 0]>>
    \o [k \in DOMAIN stmt.fields |-> FieldPair(ids, stmt.fields, k)]

(* The ids drawn for these pairs: with fewer in the list, the assertion of  *)
(* next_id fails.                                                          *)
IdsDrawn(pairs) == Len(pairs) + Cardinality({k \in DOMAIN pairs : pairs[k].kind = "cs"})
=============================================================================
