----------------------------- MODULE SourceText -----------------------------
(***************************************************************************)
(* The preprocessor working on texts: Preproc, whose files are sequences   *)
(* of calls, composed with Parser, which finds the calls in the text of a  *)
(* file and splices ids into it.  The steps of Preproc that read or write  *)
(* a source are refined; the others leave the texts alone.  The programmer *)
(* has written the files before the first run and does not change them.    *)
(*                                                                         *)
(* A file is given as its programmer means it: parts, the text around its  *)
(* lists of ids; lists, those lists, braces included, as they are spelt;   *)
(* calls, the chain of each statement, whether it ends in .write(), and    *)
(* how many ids it draws when it is executed.                              *)
(***************************************************************************)
EXTENDS Preproc, Parser

CONSTANTS
    Origins,  \* what a file may be written as
    MaxCuts   \* bound: texts cut in all

VARIABLES
    texts,   \* on disk: the sources; sources are the calls in them
    origin,  \* history: what each file was written as
    cut,     \* history: the files that were cut
    cuts     \* how many cuts were made

written == <<origin, cut, cuts>>
textVars == <<vars, texts, written>>

-----------------------------------------------------------------------------
(* The text of a file with other lists in it. *)
Spelt(file, lists) ==
    LET text[k \in 0..Len(lists)] ==
            IF k = 0 THEN file.parts[1]
            ELSE text[k - 1] \o lists[k] \o file.parts[k + 1]
    IN  text[Len(lists)]

TextInit ==
    /\ origin \in [Files -> Origins]
    /\ texts = [f \in Files |-> Spelt(origin[f], origin[f].lists)]
    /\ cut = {} /\ cuts = 0
    /\ Init
    /\ sources = [f \in Files |-> CallsIn(texts[f])]

(* analyze_file; stoull may throw, and nothing catches that in a worker.   *)
TextAnalyze(w) ==
    /\ \/ Analyze(w) /\ ~ParseThrows(texts[job[w]])
       \/ Crash /\ phase = "scan" /\ job[w] \in Files /\ ParseThrows(texts[job[w]])
    /\ UNCHANGED <<texts, written>>

(* rewrite_sources: one file is written, with the new ids in it. *)
TextRewrite ==
    LET text == Rewritten(texts[cursor], mem.files[cursor])
    IN  /\ phase = "rewrite"
        /\ texts' = [texts EXCEPT ![cursor] = text]
        /\ sources' = [sources EXCEPT ![cursor] = CallsIn(text)]
        /\ phase' = IF cursor = FileCount THEN "save" ELSE "rewrite"
        /\ cursor' = cursor + 1
        /\ UNCHANGED <<schema, pool, mem, edits, fresh, last, goal, written>>

(* The run is killed inside write_file, which has truncated the source and *)
(* written some of it; a file whose lists are as they were is not written. *)
TextCut ==
    LET text == Rewritten(texts[cursor], mem.files[cursor])
    IN  /\ phase = "rewrite" /\ cuts < MaxCuts /\ text # texts[cursor]
        /\ \E n \in 0..(Len(text) - 1) :
              /\ texts' = [texts EXCEPT ![cursor] = SubSeq(text, 1, n)]
              /\ sources' = [sources EXCEPT ![cursor] = CallsIn(SubSeq(text, 1, n))]
        /\ phase' = "idle" /\ goal' = Nothing
        /\ cut' = cut \cup {cursor} /\ cuts' = cuts + 1
        /\ UNCHANGED <<schema, pool, mem, cursor, edits, fresh, last, origin>>

TextNext ==
    \/ (\E w \in Workers : TextAnalyze(w)) \/ TextRewrite \/ TextCut
    \/ /\ \/ Start \/ (\E w \in Workers : Fetch(w)) \/ Check \/ Assign \/ Save \/ Crash
          \/ phase = "save" /\ CrashInWrite
       /\ UNCHANGED <<texts, written>>

TextSpec == TextInit /\ [][TextNext]_textVars

-----------------------------------------------------------------------------
(* The steps on texts are steps of Preproc: an id list that is written is  *)
(* read back as the ids that were assigned, the rest of a call is read as  *)
(* before, and a cut leaves whole calls and calls without .write(), never  *)
(* one that nobody wrote (parser.cpp and rewriter.cpp together).           *)
ImplementsPreproc == Spec

(* The links that the parser misses: the value of a cs whose name is not a *)
(* literal (parser.cpp:82).                                                *)
Missed(chain) == {k \in 2..Len(chain) : chain[k].method = "cs_val" /\ chain[k - 1].tag = NoName}
Seen(chain) ==
    FlattenSeq([k \in DOMAIN chain |-> IF k \in Missed(chain) THEN <<>> ELSE <<chain[k]>>])

(* Of a file that was not cut, however often it was rewritten, the parser  *)
(* finds the statements its programmer wrote, with every literal but those *)
(* values, and each is seen to end in .write() exactly if it does          *)
(* (parser.cpp:96-196).                                                    *)
StatementsFound == \A f \in Files \ cut :
    /\ Len(sources[f]) = Len(origin[f].calls)
    /\ \A k \in DOMAIN sources[f] :
        /\ sources[f][k].chain = Seen(origin[f].calls[k].chain)
        /\ sources[f][k].write = origin[f].calls[k].write

(* The rewriter owns what is between the braces and nothing else: a source *)
(* that was not cut is what its programmer wrote, or that with the ids the *)
(* parser finds in it (rewriter.cpp:159-206).                              *)
OnlyBracesChange == \A f \in Files \ cut :
    \/ texts[f] = Spelt(origin[f], origin[f].lists)
    \/ texts[f] = Spelt(origin[f], [k \in DOMAIN sources[f] |-> Braces(sources[f][k].ids)])

(* architecture.md:15, "Idempotent -- running twice produces the same      *)
(* result": of sources whose names are literals, after a completed run     *)
(* another one changes neither the schema nor a character.                 *)
FreshIsFixed == (fresh /\ \A c \in AllCalls(sources) : NoName \notin {l.tag : l \in Range(c.chain)}) =>
    LET again == Assigned(LoadSchema(schema), sources)
    IN  /\ BuildSchema(again.schema) = schema
        /\ \A f \in Files : Rewritten(texts[f], again.files[f]) = texts[f]

(* main.cpp:72, and an exception in a worker (main.cpp:56): a run writes   *)
(* nothing, in whichever file the fault is, unless every call of every     *)
(* file is complete and every id is a number.                              *)
NothingWrittenOnError == [][<<texts, schema>>' # <<texts, schema>> =>
    \A f \in Files : ~ParseThrows(texts[f]) /\ \A c \in Range(CallsIn(texts[f])) : c.write]_textVars

=============================================================================
