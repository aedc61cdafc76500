----------------------------- MODULE MCTextLog ------------------------------
(* Small instances of TextLog: what the program logs. *)
EXTENDS TextLog

Stmt(level, msg, fields) == [level |-> level, msg |-> msg, fields |-> fields]
F(m, n, v) == [method |-> m, name |-> n, val |-> v]

(* One whose line the buffer of the run holds exactly, so that what an     *)
(* unfinished chain leaves in front of it cuts it; and one that draws more *)
(* ids than there are.                                                     *)
Mixed == {
    Stmt(5, "d", <<F("s", "e", <<1>>)>>),
    Stmt(4, "f", <<F("cs", "b", "c")>>)}

(* Short lines, enough for the race. *)
Short == {Stmt(2, "a", <<>>), Stmt(3, "b", <<F("i", "c", 1)>>)}

(* The list in the braces of log: ids, or none. *)
ThreeIds == <<1, 2, 3>>
NoIds == <<>>

ThreadSymmetry == Permutations(Threads)
=============================================================================
