---------------------------- MODULE MCSourceText ----------------------------
(* Small instances of SourceText: what a programmer may write. *)
EXTENDS SourceText

Letters == {"a", "b", "n", "u", "x"}
Names == Letters \cup {"info", "i", "s", "cs", "write", "log", "my_method"}

(* The tag of an argument that is no literal, and of an empty one. *)
Unnamed == <<>>

Step(m, t) == [method |-> m, tag |-> t]
Statement(chain, write) ==
    [chain |-> chain, write |-> write, draws |-> 1 + Len(chain)]

(* A file of one statement, or of none: parts, lists and calls. *)
Source(before, list, after, call) ==
    [parts |-> <<before, after>>, lists |-> <<list>>, calls |-> <<call>>]
NoStatement(text) == [parts |-> <<text>>, lists |-> <<>>, calls |-> <<>>]

(* One file after the other, in one. *)
Joint(p, q) ==
    [parts |-> Front(p.parts) \o <<Last(p.parts) \o q.parts[1]>> \o Tail(q.parts),
     lists |-> p.lists \o q.lists, calls |-> p.calls \o q.calls]

Log == <<"bilog::log", "(">>
Write == <<".", "write", "(", ")", ";">>
Text(t) == <<"\"", t, "\"">>
Call(m, args) == <<".", m, "(">> \o args \o <<")">>
Empty == <<"{", "}">>

(* .info("a").i("b", x).write() over several lines, with comments. *)
Commented == Source(
    <<"bilog::log", "\n", "(", " ">>, Empty,
    <<")", "/", "/", ".", "write", "\n", " ", ".", "info", " ">> \o <<"(", "\"", "a", "\"", ")">>
        \o <<"\n", "/", "/", "\n", " ">> \o Call("i", Text("b") \o <<",", "x">>) \o <<" ">> \o Write,
    Statement(<<Step("info", <<"a">>), Step("i", <<"b">>)>>, TRUE))

(* Brackets, quotes and escapes in literals; the value of a cs. *)
Quoted == Source(Log, Empty,
    <<")">> \o Call("info", <<"\"", ")", "\\", "\"", "(", "\\", "n", "\"">>)
            \o Call("cs", <<" ", "\"", "}", "\\", "\\", "\"", " ", ",", "\"", "a", "\"">>) \o Write,
    Statement(<<Step("info", <<")", "\"", "(", "\n">>), Step("cs", <<"}", "\\">>),
                Step("cs_val", <<"a">>)>>, TRUE))

(* Ids from an earlier run, one with separators and a suffix. *)
Numbered(list) == Source(Log, list, <<")">> \o Call("my_method", Text("b")) \o Write,
    Statement(<<Step("my_method", <<"b">>)>>, TRUE))
Spelling == <<"{", "1", "'", "0", "u", ",", "\n", "3", "}">>
Short == <<"{", " ", "1", "0", " ", "x", "}">>
TooLarge == <<"{", "1", "0", "0", "}">>

(* A name that is no literal, with a bracketed argument. *)
Computed == Source(Log, Empty,
    <<")">> \o Call("info", <<"x", "(", "\"", "a", "\"", ")">>) \o Write,
    Statement(<<Step("info", <<>>)>>, TRUE))

(* .info("n").cs(x, "a").write(): a cs whose name is no literal. *)
OneName == Source(Log, Empty,
    <<")">> \o Call("info", Text("n")) \o Call("cs", <<"x", ",", "\"", "a", "\"">>) \o Write,
    Statement(<<Step("info", <<"n">>), Step("cs", <<>>), Step("cs_val", <<"a">>)>>, TRUE))

(* A statement whose argument is a function with a statement in it. *)
Nested == [
    parts |-> <<Log, <<")", ".", "s", "(", "\"", "a", "\"", ",", "{">> \o Log,
                <<")">> \o Call("info", Text("b")) \o Write \o <<"}", ")">> \o Write>>,
    lists |-> <<Empty, Empty>>,
    calls |-> <<Statement(<<Step("s", <<"a">>)>>, TRUE), Statement(<<Step("info", <<"b">>)>>, TRUE)>>]

(* A chain that is not written. *)
Unwritten == Source(Log, Empty, <<")">> \o Call("info", Text("a")) \o <<";">>,
    Statement(<<Step("info", <<"a">>)>>, FALSE))

(* What is no statement (parser_test.cpp:95-110). *)
Malformed == NoStatement(Log \o <<"x", ")", "bilog::log", "x", ";">>)
Chainless == NoStatement(Log \o Empty \o <<")">> \o Write)

OneStatement == {Commented, Quoted, Numbered(Spelling), Numbered(Short), Numbered(TooLarge),
                 Computed, OneName, Nested, Unwritten, Malformed, Chainless}

(* Two that share an event id and a name, one ahead of a statement with    *)
(* another, literals ahead of a list, and a text in which one is found.    *)
TwoStatements == {
    Joint(Numbered(Spelling), Numbered(Short)), Joint(Nested, Commented),
    Joint(Quoted, Computed), Joint(Malformed, Quoted)}

SomeFiles == OneStatement \cup TwoStatements

SomeCalls == {CallsIn(Spelt(p, p.lists)) : p \in SomeFiles}
SomeChains == {c.chain : c \in UNION {Range(calls) : calls \in SomeCalls}}
=============================================================================
