---------------------------- MODULE BinaryCodec -----------------------------
(***************************************************************************)
(* BinaryEncoder and BinaryFormatter (bilog/include/bilog/codec/binary.hpp)*)
(* at any width.  A header byte holds two nibbles, each a sign and one of  *)
(* MaxWidth widths; the code has MaxWidth = 8: 8-bit bytes, 64-bit words.  *)
(* With 2, bytes have 4 bits, words 8, and every boundary of the format is *)
(* within reach.                                                           *)
(***************************************************************************)
EXTENDS TextCodec, SequencesExt

CONSTANTS
    MaxWidth,  \* of a payload, in bytes; the length of a string takes two
    Chunk      \* kChunk: the formatter's scratch buffer for strings

ASSUME WidthAssumption == MaxWidth \in Nat \ {0, 1}
ASSUME ChunkAssumption == Chunk \in Nat \ {0}

Nibbles == 2 * MaxWidth       \* the values of a nibble
Byte == Nibbles * Nibbles     \* the values of a byte
Power[n \in 0..MaxWidth] ==   \* the values of n bytes
    IF n = 0 THEN 1 ELSE Byte * Power[n - 1]
Word == Power[MaxWidth]       \* the values of a payload

-----------------------------------------------------------------------------
(* BinaryEncoder *)

(* Mutant of Zigzag: the sign bit is not folded in. *)
ZigzagPlain(n) == (2 * n) % Word

(* (n << 1) ^ (n >> 63) of a negative n. *)
Zigzag(n) == (Word - 1) - ((2 * n) % Word)

(* width *)
Width(u) == CHOOSE w \in 1..MaxWidth : u < Power[w] /\ (w > 1 => u >= Power[w - 1])

(* prepare *)
Unsigned(u) == [u |-> u, width |-> Width(u), neg |-> 0]
Integer(n) == IF n < 0 THEN [Unsigned(Zigzag(n)) EXCEPT !.neg = 1] ELSE Unsigned(n)
Floating(f) == [u |-> f.bits, width |-> f.width, neg |-> 0]

(* code and make_header *)
Code(v) == v.neg * MaxWidth + (v.width - 1)
Header(a, b) == <<Code(a) * Nibbles + Code(b)>>

(* Mutant of Payload: more than the low byte is copied. *)
PayloadWide(v) == [k \in 1..v.width |-> v.u \div Power[k - 1]]

(* The low bytes of a payload, as memcpy from a little-endian word. *)
Payload(v) == [k \in 1..v.width |-> (v.u \div Power[k - 1]) % Byte]

FixedPair(a, b) == Header(a, b) \o Payload(a) \o Payload(b)

(* The width of a string length. *)
LengthWidth(len) == IF len <= Byte - 1 THEN 1 ELSE 2

(* encode_pair of a string: cut to what two bytes of length can tell. *)
StringPair(a, s) ==
    LET kept == SubSeq(s, 1, IF Len(s) < Power[2] - 1 THEN Len(s) ELSE Power[2] - 1)
        len == [u |-> Len(kept), width |-> LengthWidth(Len(kept)), neg |-> 0]
    IN  FixedPair(a, len) \o kept

EncodePair(p) ==
    LET first == Unsigned(p.id)
    IN  CASE p.kind \in {"event", "i"} -> FixedPair(first, Integer(p.val))
          [] p.kind = "b" -> FixedPair(first, Unsigned(IF p.val THEN 1 ELSE 0))
          [] p.kind = "f" -> FixedPair(first, Floating(p.val))
          [] p.kind = "cs" -> FixedPair(first, Unsigned(p.valId))
          [] p.kind = "s" -> StringPair(first, p.val)

(* The bytes of a statement; commit adds none. *)
Encoded(ids, stmt) ==
    LET pairs == Pairs(ids, stmt)
    IN  FlattenSeq([k \in DOMAIN pairs |-> EncodePair(pairs[k])])

-----------------------------------------------------------------------------
(* BinaryFormatter.  A cursor is [ok, pos, text]: whether every read so    *)
(* far succeeded, the bytes consumed and the text written.                 *)

(* decode_nibble and read_fixed_payload, of the width bytes after pos. *)
Decoded(in, pos, nibble) ==
    LET width == (nibble % MaxWidth) + 1
        low[k \in 0..width] == IF k = 0 THEN 0 ELSE low[k - 1] + in[pos + k] * Power[k - 1]
    IN  [neg |-> nibble \div MaxWidth, width |-> width, u |-> low[width]]

(* The bytes the pair after pos takes: its header tells. *)
PairSize(in, pos) ==
    LET hdr == in[pos + 1]
    IN  1 + (((hdr \div Nibbles) % MaxWidth) + 1) + (((hdr % Nibbles) % MaxWidth) + 1)

(* Mutant of HasPair: the pair at the very end of the stream is missed. *)
HasPairInside(in, pos) == pos < Len(in) /\ pos + PairSize(in, pos) < Len(in)

(* read_pair succeeds: the stream does not end within the pair. *)
HasPair(in, pos) == pos < Len(in) /\ pos + PairSize(in, pos) <= Len(in)

FirstOf(in, pos) == Decoded(in, pos + 1, in[pos + 1] \div Nibbles)
SecondOf(in, pos) ==
    Decoded(in, pos + 1 + FirstOf(in, pos).width, in[pos + 1] % Nibbles)

(* A failed read leaves the stream at its end, and format returns. *)
Failed(c, in) == [c EXCEPT !.ok = FALSE, !.pos = Len(in)]

(* (z >> 1) ^ mask, read as a signed word. *)
Unzigzag(z) ==
    LET half == z \div 2
        u == IF z % 2 = 1 THEN (Word - 1) - half ELSE half
    IN  IF u >= Word \div 2 THEN u - Word ELSE u

(* write_tag *)
TagText(tags, id) == IF id \in DOMAIN tags THEN Str(tags[id]) ELSE Num(id)

(* format_scalar *)
ScalarText(ft, v, tags) ==
    CASE ft = "i" -> Num(IF v.neg # 0 THEN Unzigzag(v.u) ELSE v.u)
      [] ft = "f" -> Real([width |-> IF v.width = MaxWidth \div 2 THEN v.width ELSE MaxWidth,
                           bits |-> v.u])
      [] ft = "b" -> Str(IF v.u # 0 THEN "true" ELSE "false")
      [] ft = "cs" -> TagText(tags, v.u)

(* write_string_from_stream: whole chunks, up to the first that is short. *)
StringRead(c, in, len) ==
    IF c.pos + len <= Len(in)
    THEN [c EXCEPT !.pos = @ + len, !.text = @ \o Chars(SubSeq(in, c.pos + 1, c.pos + len))]
    ELSE LET whole == ((Len(in) - c.pos) \div Chunk) * Chunk
         IN  Failed([c EXCEPT !.text = @ \o Chars(SubSeq(in, c.pos + 1, c.pos + whole))], in)

(* One field of the schema's list. *)
FieldRead(c, in, ft, tags) ==
    IF ~c.ok THEN c
    ELSE IF ~HasPair(in, c.pos) THEN Failed(c, in)
    ELSE LET v == SecondOf(in, c.pos)
             named == [c EXCEPT !.pos = @ + PairSize(in, c.pos),
                                !.text = @ \o Space \o TagText(tags, FirstOf(in, c.pos).u) \o Space]
         IN  IF ft = "s" THEN StringRead(named, in, v.u)
                         ELSE [named EXCEPT !.text = @ \o ScalarText(ft, v, tags)]

(* What format has written when both fixed pairs are read. *)
Opening(level, msg, tags) ==
    Str("[") \o (IF level + 1 \in DOMAIN LevelNames THEN Str(LevelNames[level + 1]) ELSE <<>>)
    \o Str("]") \o Space \o TagText(tags, msg)

(* format: one record from pos on; not ok at the end of the stream. *)
Formatted(in, pos, tags, fields) ==
    LET none == [ok |-> TRUE, pos |-> pos, text |-> <<>>]
        second == pos + PairSize(in, pos)
        event == FirstOf(in, pos).u
        opened == [none EXCEPT !.pos = second + PairSize(in, second),
                     !.text = Opening(SecondOf(in, pos).u % Byte, FirstOf(in, second).u, tags)]
        types == IF event \in DOMAIN fields THEN fields[event] ELSE <<>>
        read[k \in 0..Len(types)] ==
            IF k = 0 THEN opened ELSE FieldRead(read[k - 1], in, types[k], tags)
        last == read[Len(types)]
    IN  IF ~HasPair(in, pos) \/ ~HasPair(in, second) THEN Failed(none, in)
        ELSE IF last.ok THEN [last EXCEPT !.text = @ \o NewLine] ELSE last
=============================================================================
