------------------------------- MODULE Parser -------------------------------
(***************************************************************************)
(* The text of a source file as the preprocessor sees it: parser.cpp finds *)
(* the bilog::log calls in it, rewriter.cpp puts the assigned ids between  *)
(* their braces.                                                           *)
(*                                                                         *)
(* A text is a sequence of tokens.  A token is a character, except that an *)
(* identifier, and the literal "bilog::log" that analyze_file looks for,   *)
(* are one token each.  Positions count from 1; 0 is std::nullopt.         *)
(***************************************************************************)
EXTENDS Integers, SequencesExt

CONSTANTS
    Words,  \* the tokens that are identifiers
    MaxId   \* the largest number std::stoull takes

ASSUME MaxIdAssumption == MaxId \in Nat

NewLine == "\n"
Tab == "\t"
Quote == "\""
Backslash == "\\"
DigitTokens == <<"0", "1", "2", "3", "4", "5", "6", "7", "8", "9">>
Digits == Range(DigitTokens)

At(src, i) == IF i \in DOMAIN src THEN src[i] ELSE "end"

(* The first position from i on whose token is not one of those. *)
RunEnd(src, i, Those(_)) ==
    LET run[k \in Nat] == IF k \in DOMAIN src /\ Those(src[k]) THEN run[k + 1] ELSE k
    IN  run[i]

SkipWs(src, i) == RunEnd(src, i, LAMBDA t : t \in {" ", NewLine, Tab})
NameEnd(src, i) == RunEnd(src, i, LAMBDA t : t \in Words \cup Digits)
LineEnd(src, i) == RunEnd(src, i, LAMBDA t : t # NewLine)

(* Mutant of Matching: brackets inside strings count. *)
MatchingBlind(src, open, o, c) ==
    LET scan[i \in Nat, depth \in Nat] ==
            CASE i > Len(src) -> 0
              [] At(src, i) = o -> scan[i + 1, depth + 1]
              [] At(src, i) = c -> IF depth = 1 THEN i ELSE scan[i + 1, depth - 1]
              [] OTHER -> scan[i + 1, depth]
    IN  scan[open, 0]

(* find_matching, from an opening bracket to its closing one.  Strings are *)
(* passed over; character literals and comments are not.                   *)
Matching(src, open, o, c) ==
    LET scan[i \in Nat, depth \in Nat, quoted \in BOOLEAN] ==
            CASE i > Len(src) -> 0
              [] At(src, i) = Backslash /\ quoted -> scan[i + 2, depth, TRUE]
              [] At(src, i) = Quote -> scan[i + 1, depth, ~quoted]
              [] At(src, i) = o /\ ~quoted -> scan[i + 1, depth + 1, FALSE]
              [] At(src, i) = c /\ ~quoted -> IF depth = 1 THEN i ELSE scan[i + 1, depth - 1, FALSE]
              [] OTHER -> scan[i + 1, depth, quoted]
    IN  scan[open, 0, FALSE]

Escaped(t) == CASE t = "n" -> NewLine [] t = "t" -> Tab [] OTHER -> t

(* parse_string_literal: the tag and the position after it; no tag when    *)
(* there is no quote, or only one.                                         *)
Literal(src, i) ==
    LET read[k \in Nat, text \in Seq(STRING)] ==
            CASE k > Len(src) -> [tag |-> <<>>, cur |-> k]
              [] At(src, k) = Quote -> [tag |-> text, cur |-> k + 1]
              [] At(src, k) = Backslash -> read[k + 2, Append(text, Escaped(At(src, k + 1)))]
              [] OTHER -> read[k + 1, Append(text, src[k])]
        first == SkipWs(src, i)
    IN  IF At(src, first) = Quote THEN read[first + 1, <<>>] ELSE [tag |-> <<>>, cur |-> first]

-----------------------------------------------------------------------------
(* The ids between the braces. *)

(* What stands for the exception that stoull throws. *)
Throws == -1

DigitValue(t) == (CHOOSE d \in 1..10 : DigitTokens[d] = t) - 1

(* stoull of digits that may be separated by quote marks. *)
Stoull(digits) ==
    LET plain == SelectSeq(digits, LAMBDA t : t \in Digits)
        value[k \in Nat] == IF k = 0 THEN 0 ELSE 10 * value[k - 1] + DigitValue(plain[k])
    IN  IF plain = <<>> \/ value[Len(plain)] > MaxId THEN Throws ELSE value[Len(plain)]

(* parse_uint_literal, at its first digit: the value and the position      *)
(* after its suffix.                                                       *)
Number(src, i) ==
    LET end == RunEnd(src, i, LAMBDA t : t \in Digits \cup {"'"})
    IN  [value |-> Stoull(SubSeq(src, i, end - 1)),
         cur |-> RunEnd(src, end, LAMBDA t : t \in Words)]

(* Mutant of IdList: a comma ends the list. *)
IdListOfOne(src, start, end) ==
    LET i == SkipWs(src, start)
    IN  IF i < end /\ src[i] \in Digits \cup {"'"} THEN <<Number(src, i).value>> ELSE <<>>

(* parse_id_list: whatever is not a number ends the list. *)
IdList(src, start, end) ==
    LET more[i \in Nat, ids \in Seq(Int)] ==
            LET first == SkipWs(src, i)
                number == Number(src, first)
                next == SkipWs(src, number.cur)
            IN  CASE first >= end \/ At(src, first) \notin Digits \cup {"'"} -> ids
                  [] next < end /\ At(src, next) = "," -> more[next + 1, Append(ids, number.value)]
                  [] OTHER -> more[next, Append(ids, number.value)]
    IN  more[start, <<>>]

-----------------------------------------------------------------------------
(* The chain of calls. *)

(* The next token that is neither white space nor in a // comment. *)
SkipToLink(src, i) ==
    LET skip[k \in Nat] ==
            LET c == SkipWs(src, k)
            IN  IF At(src, c) = "/" /\ At(src, c + 1) = "/" THEN skip[LineEnd(src, c)] ELSE c
    IN  skip[i]

(* The name after a dot. *)
Method(src, dot) ==
    CASE NameEnd(src, dot + 1) = dot + 1 -> "none"
      [] NameEnd(src, dot + 1) = dot + 2 -> src[dot + 1]
      [] OTHER -> "other"


(* The names among the arguments of a call: cs has a second one if its     *)
(* first one is a literal that a comma follows.                            *)
LinksOf(src, method, first, close) ==
    LET comma == SkipWs(src, first.cur)
    IN  <<[method |-> method, tag |-> first.tag]>>
        \o IF method = "cs" /\ comma < close /\ At(src, comma) = ","
           THEN <<[method |-> "cs_val", tag |-> Literal(src, comma + 1).tag]>>
           ELSE <<>>

(* parse_chain_calls after the dot and the name: one link, or none. *)
Link(src, method, open, close) ==
    IF method = "write" \/ At(src, open) # "(" \/ close = 0
    THEN [links |-> <<>>, cur |-> 0, write |-> method = "write"]
    ELSE [links |-> LinksOf(src, method, Literal(src, open + 1), close), cur |-> close + 1, write |-> FALSE]

LinkAt(src, dot, open) ==
    IF At(src, dot) # "." THEN [links |-> <<>>, cur |-> 0, write |-> FALSE]
    ELSE Link(src, Method(src, dot), open, Matching(src, open, "(", ")"))

Links(src, i) ==
    LET dot == SkipToLink(src, i)
    IN  LinkAt(src, dot, SkipWs(src, NameEnd(src, dot + 1)))

(* The loop of parse_log_call, up to .write() or to what is no link. *)
Chain(src, i) ==
    LET Step == [links : Seq([method : STRING, tag : Seq(STRING)]), cur : Nat, write : BOOLEAN]
        walk[step \in Step, before \in Seq([method : STRING, tag : Seq(STRING)])] ==
            IF step.links = <<>> THEN [links |-> before, write |-> step.write]
            ELSE walk[Links(src, step.cur), before \o step.links]
    IN  walk[Links(src, i), <<>>]

(* parse_log_call, at a bilog::log; no call has an empty chain. *)
CallAt(src, paren, close, brace, end) ==
    IF At(src, paren) # "(" \/ close = 0 \/ At(src, brace) # "{" \/ end = 0
    THEN [open |-> 0, close |-> 0, ids |-> <<>>, chain |-> <<>>, write |-> FALSE]
    ELSE LET chain == Chain(src, close + 1)
         IN  [open |-> brace, close |-> end, ids |-> IdList(src, brace + 1, end),
              chain |-> chain.links, write |-> chain.write]
LogCall(src, at) ==
    LET paren == SkipWs(src, at + 1)
        brace == SkipWs(src, paren + 1)
    IN  CallAt(src, paren, Matching(src, paren, "(", ")"), brace, Matching(src, brace, "{", "}"))

(* analyze_file, which looks for a call at every position. *)
Analysis(src) ==
    LET starts == SelectSeq([i \in DOMAIN src |-> i], LAMBDA i : src[i] = "bilog::log")
    IN  SelectSeq([k \in DOMAIN starts |-> LogCall(src, starts[k])], LAMBDA c : c.chain # <<>>)

ParseThrows(src) ==
    \E i \in DOMAIN src : src[i] = "bilog::log" /\ Throws \in Range(LogCall(src, i).ids)

(* The calls without their places in the text. *)
Placeless(parsed) ==
    [k \in DOMAIN parsed |->
        [ids |-> parsed[k].ids, chain |-> parsed[k].chain, write |-> parsed[k].write]]
CallsIn(src) == Placeless(Analysis(src))

-----------------------------------------------------------------------------
(* rewrite_sources. *)

Decimal(n) ==
    LET text[k \in Nat] == IF k < 10 THEN <<DigitTokens[k + 1]>>
                           ELSE Append(text[k \div 10], DigitTokens[(k % 10) + 1])
    IN  text[n]

(* The ids as rewrite_sources spells them. *)
Braces(ids) ==
    LET text[k \in 0..Len(ids)] ==
            IF k = 0 THEN <<"{">>
            ELSE text[k - 1] \o (IF k = 1 THEN <<>> ELSE <<",", " ">>) \o Decimal(ids[k])
    IN  Append(text[Len(ids)], "}")

(* Mutant of Spliced: the closing brace is copied once more. *)
SplicedTwice(src, calls, parsed) ==
    LET splice[k \in 0..Len(parsed)] ==
            IF k = 0 THEN [text |-> <<>>, cursor |-> 1]
            ELSE [text |-> splice[k - 1].text \o SubSeq(src, splice[k - 1].cursor, parsed[k].open - 1)
                           \o Braces(calls[k].ids),
                  cursor |-> parsed[k].close]
    IN  splice[Len(parsed)].text \o SubSeq(src, splice[Len(parsed)].cursor, Len(src))

(* The text with the ids of the calls in it.  A list that is spelt as it   *)
(* would be is left; where a list lies inside the one before it, the count *)
(* of the tokens between them wraps round, and the rest of the text is     *)
(* copied.                                                                 *)
Spliced(src, calls, parsed) ==
    LET splice[k \in 0..Len(parsed)] ==
            IF k = 0 THEN [text |-> <<>>, cursor |-> 1]
            ELSE LET done == splice[k - 1]
                     list == Braces(calls[k].ids)
                     open == parsed[k].open
                     between == SubSeq(src, done.cursor, IF open < done.cursor THEN Len(src) ELSE open - 1)
                 IN  IF Len(calls[k].ids) # 1 + Len(calls[k].chain)
                        \/ SubSeq(src, open, parsed[k].close) = list
                     THEN done
                     ELSE [text |-> done.text \o between \o list, cursor |-> parsed[k].close + 1]
        end == splice[Len(parsed)]
    IN  end.text \o SubSeq(src, end.cursor, Len(src))

Rewritten(src, calls) == Spliced(src, calls, Analysis(src))
=============================================================================
