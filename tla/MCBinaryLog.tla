---------------------------- MODULE MCBinaryLog -----------------------------
(* A small instance of BinaryLog: a program and the values it logs. *)
EXTENDS BinaryLog

Stmt(level, msg, fields) == [level |-> level, msg |-> msg, fields |-> fields]
F(m, n, v) == [method |-> m, name |-> n, val |-> v]
Bytes(n) == [k \in 1..n |-> (5 * k) % Byte]

(* Every value of a word and every length at which a string changes form. *)
EveryValue == <<
    {Stmt(2, "a", <<F("i", "b", n)>>) : n \in (-(Word \div 2))..(Word - 1)},
    {Stmt(0, "a", <<F("f", "b", [width |-> w, bits |-> x]), F("b", "c", t)>>) :
        w \in {MaxWidth}, x \in {0, 1, Byte - 1, Byte, Word - 1}, t \in BOOLEAN},
    {Stmt(5, "b", <<F("s", "a", Bytes(n))>>) :
        n \in {0, 1, Byte - 1, Byte, Byte + 1, Byte * Byte - 1, Byte * Byte}}>>

(* Constant strings before other fields, names shared between statements. *)
MixedProgram == <<
    {Stmt(2, "a", <<>>)},
    {Stmt(3, "b", <<F("cs", "c", "a"), F("i", "d", n)>>) : n \in {-2, 17}},
    {Stmt(4, "d", <<F("s", "e", Bytes(n)), F("b", "a", TRUE)>>) : n \in {0, 3}},
    {Stmt(1, "a", <<F("f", "c", [width |-> 1, bits |-> 9])>>)}>>

Site(was, runs, room) == [was |-> was, runs |-> runs, room |-> room]

(* The mixed program, and the one made of it: the first statement is gone, *)
(* the second has been copied and the copy changed, the third has lost a   *)
(* field; and there are new ones in front, for which one record is room.   *)
OldAndNew == <<
    [k \in DOMAIN MixedProgram |-> Site(0, MixedProgram[k], 2)],
    [k \in DOMAIN EveryValue |-> Site(0, EveryValue[k], 1)] \o <<
        Site(2, MixedProgram[2], 2),
        Site(2, {Stmt(3, "b", <<F("i", "a", 1)>>)}, 2),
        Site(3, {Stmt(4, "d", <<F("s", "e", Bytes(3))>>)}, 2),
        Site(4, MixedProgram[4], 2)>>>>

(* Twelve bytes are less than the longest records take. *)
Caps == {12, 10000}
=============================================================================
