----------------------------- MODULE BinaryLog ------------------------------
(***************************************************************************)
(* The life of a binary log: the preprocessor numbers the statements of    *)
(* each version of a program and writes its schema, one of the versions    *)
(* executes them in some order and its bytes reach the log file, it exits  *)
(* or is killed, and the postprocessor (postproc/main.cpp) formats what is *)
(* in the file with the schema it is given, which may be another version's.*)
(* One thread logs: FileSink delivers the bytes of one thread in order.    *)
(***************************************************************************)
EXTENDS BinaryCodec, Rewriter

CONSTANTS
    Versions,  \* the programs, oldest first.  A program is a sequence of
               \* logging statements, each [was, runs, room]: which one of
               \* the version before it was made from, 0 for none; its
               \* executions, which differ in the fields' values only; and
               \* a bound: how many records there may be before one of it
    Staging    \* how many bytes of a record a sink may stage

VARIABLES
    built,  \* the version that logs; 0 is the first one, not yet preprocessed
    known,  \* the version whose schema the postprocessor is given
    cap,    \* the bytes of a record that are staged
    phase,  \* "run", "format" or "done"
    file,   \* the bytes in the log file
    lines,  \* history: of each record the line, where its bytes end, and
            \* whether it can be decoded with that schema
    pos,    \* the bytes the formatter has consumed
    text,   \* the text it has written
    count,  \* the records it has counted
    turns   \* history: the turns of its loop

setting == <<built, known, cap>>
vars == <<setting, phase, file, lines, pos, text, count, turns>>

-----------------------------------------------------------------------------
(* What the preprocessor makes of the programs, and the postprocessor of   *)
(* the schema.                                                             *)

(* The chain of a statement as parse_log_call finds it. *)
FieldCalls(f) ==
    IF f.method = "cs"
    THEN <<[method |-> "cs", tag |-> f.name], [method |-> "cs_val", tag |-> f.val]>>
    ELSE <<[method |-> f.method, tag |-> f.name]>>
ChainOf(stmt) ==
    <<[method |-> Starters[stmt.level + 1], tag |-> stmt.msg]>>
    \o FlattenSeq([k \in DOMAIN stmt.fields |-> FieldCalls(stmt.fields[k])])
Chain(site) == ChainOf(CHOOSE stmt \in site.runs : TRUE)

(* What the methods take: an integer of a word, signed or not, a float or  *)
(* a double, and bytes.                                                    *)
Fits(f) ==
    /\ f.method = "i" => f.val \in (-(Word \div 2))..(Word - 1)
    /\ f.method = "f" => f.val.width \in {MaxWidth \div 2, MaxWidth}
                        /\ f.val.bits < Power[f.val.width]
    /\ f.method = "s" => f.val \in Seq(0..(Byte - 1))

(* A statement of version v, whose names are literals and not empty.  The  *)
(* preprocessor enters an empty one, .info("") or .cs("x", ""), nowhere    *)
(* (rewriter.cpp:86-98), as if it were no literal, and the formatter puts  *)
(* the id in its place: such statements are left out, the line that the    *)
(* text encoder writes for them is not the one to expect here.             *)
IsSite(v, site) ==
    /\ site.was \in 0..(IF v = 1 THEN 0 ELSE Len(Versions[v - 1]))
    /\ site.runs # {}
    /\ \A stmt \in site.runs :
        /\ IsStatement(stmt) /\ \A k \in DOMAIN stmt.fields : Fits(stmt.fields[k])
        /\ ChainOf(stmt) = Chain(site)
    /\ \A k \in DOMAIN Chain(site) : Chain(site)[k].tag # NoName

ASSUME StagingAssumption == Staging \subseteq Nat
ASSUME VersionsAssumption ==
    /\ Versions \in Seq(Range(Versions))
    /\ \A v \in DOMAIN Versions :
        /\ Versions[v] \in Seq(Range(Versions[v]))
        /\ \A k \in DOMAIN Versions[v] : IsSite(v, Versions[v][k])

(* The statements of v as the scan finds them: with the ids that the       *)
(* version before has them with.                                           *)
Scanned(v, before) ==
    [k \in DOMAIN Versions[v] |->
        LET was == Versions[v][k].was
        IN  [ids |-> IF was = 0 THEN <<>> ELSE before[was].ids,
             write |-> TRUE, chain |-> Chain(Versions[v][k])]]

(* Each version is preprocessed with the ids and the schema of the one     *)
(* before.                                                                 *)
Compiled ==
    LET after[v \in 0..Len(Versions)] ==
            IF v = 0 THEN [files |-> <<<<>>>>, schema |-> LoadSchema(NoDocument)]
            ELSE Assigned(LoadSchema(BuildSchema(after[v - 1].schema)),
                          <<Scanned(v, after[v - 1].files[1])>>)
    IN  [v \in DOMAIN Versions |-> after[v]]

(* An id is an unsigned number of a word (rewriter.cpp:53, tag.hpp:10). *)
ASSUME IdsAssumption ==
    \A v \in DOMAIN Versions : \A call \in Range(Compiled[v].files[1]) :
        \A k \in DOMAIN call.ids : call.ids[k] \in 0..(Word - 1)

Program == Versions[IF built = 0 THEN 1 ELSE built]

(* log({}), until the preprocessor has been there. *)
Ids(k) == IF built = 0 THEN <<>> ELSE Compiled[built].files[1][k].ids

(* load_schema of the postprocessor: ids to names, events to field types. *)
TagNames == BuildSchema(Compiled[known].schema).tags
EventFields == BuildSchema(Compiled[known].schema).events

(* binary.hpp:59: a string that is too long is cut. *)
Kept(s) == IF Len(s) < Power[2] THEN s ELSE SubSeq(s, 1, Power[2] - 1)
CutField(f) == IF f.method = "s" THEN [f EXCEPT !.val = Kept(@)] ELSE f
Cut(stmt) == [stmt EXCEPT !.fields = [k \in DOMAIN @ |-> CutField(@[k])]]

(* The statements of v that were made from these of the version before,    *)
(* come first among those that carry their ids, and have their chains.     *)
Heirs(v, from) ==
    {k \in DOMAIN Versions[v] :
        LET was == Versions[v][k].was
        IN  /\ was \in from
            /\ \A j \in 1..(k - 1) : Versions[v][j].was # was
            /\ Chain(Versions[v][k]) = Chain(Versions[v - 1][was])}

(* The statements of v that are still statement k of an earlier version u. *)
Descendants(u, k, v) ==
    LET from[w \in u..v] == IF w = u THEN {k} ELSE Heirs(w, from[w - 1])
    IN  from[v]

(* Statement k of the program is in the sources the schema is of. *)
Known(k) ==
    /\ built # 0
    /\ IF built <= known THEN Descendants(built, k, known) # {}
       ELSE \E j \in DOMAIN Versions[known] : k \in Descendants(known, j, built)

(* Buffer::append, for every write call of the record. *)
Staged(record) == SubSeq(record, 1, IF Len(record) < cap THEN Len(record) ELSE cap)

-----------------------------------------------------------------------------
Init ==
    /\ built \in 0..Len(Versions)
    /\ known \in 1..Len(Versions)
    /\ cap \in Staging
    /\ phase = "run"
    /\ file = <<>> /\ lines = <<>>
    /\ pos = 0 /\ text = <<>> /\ count = 0 /\ turns = 0

(* A statement is executed; a sink that stages a record for its commit     *)
(* cuts it.  Without ids it logs zeros, in a build without assertions.     *)
Log(k, stmt) ==
    /\ phase = "run" /\ Len(lines) < Program[k].room
    /\ LET record == Encoded(Ids(k), stmt)
       IN  /\ file' = file \o Staged(record)
           /\ lines' = Append(lines,
                [text |-> Line(Ids(k), Cut(stmt)), end |-> Len(file'),
                 sound |-> Known(k) /\ Len(record) <= cap])
    /\ UNCHANGED <<setting, phase, pos, text, count, turns>>

(* The program exits, or it is killed, and what its buffer and the stream  *)
(* still held is lost.                                                     *)
End ==
    /\ phase = "run"
    /\ phase' = "format"
    /\ \E n \in 0..Len(file) : file' = SubSeq(file, 1, n)
    /\ UNCHANGED <<setting, lines, pos, text, count, turns>>

(* Mutant of Format: the end of the stream is not noticed. *)
FormatOn ==
    /\ phase = "format"
    /\ LET r == Formatted(file, pos, TagNames, EventFields)
       IN  /\ pos' = r.pos
           /\ text' = text \o r.text
           /\ count' = count + IF r.ok THEN 1 ELSE 0
    /\ turns' = turns + 1
    /\ UNCHANGED <<setting, file, lines, phase>>

(* One turn of the loop in the postprocessor's main. *)
Format ==
    /\ phase = "format"
    /\ LET r == Formatted(file, pos, TagNames, EventFields)
       IN  /\ pos' = r.pos
           /\ text' = text \o r.text
           /\ count' = count + IF r.ok THEN 1 ELSE 0
           /\ phase' = IF r.ok THEN "format" ELSE "done"
    /\ turns' = turns + 1
    /\ UNCHANGED <<setting, file, lines>>

Finished == phase = "done" /\ UNCHANGED vars

Next ==
    \/ \E k \in DOMAIN Program : \E stmt \in Program[k].runs : Log(k, stmt)
    \/ End
    \/ Format
    \/ Finished

Spec == Init /\ [][Next]_vars

-----------------------------------------------------------------------------
TypeOK ==
    /\ phase \in {"run", "format", "done"}
    /\ file \in Seq(0..(Byte - 1))
    /\ pos \in 0..Len(file)
    /\ count \in 0..Len(file)

(* The lines of the first n records. *)
Lines(n) == FlattenSeq([i \in 1..n |-> lines[i].text])

(* How many records come before the first damaged one: one that was cut,   *)
(* has no ids, or whose statement is not, or not the same, in the schema.  *)
Sound == Cardinality({i \in DOMAIN lines : \A j \in 1..i : lines[j].sound})

(* How many of them have all their bytes in the file. *)
Whole == Cardinality({i \in 1..Sound : lines[i].end <= Len(file)})

(* Up to the first damaged record the text is, token for token, what the   *)
(* text encoder would have written: ids, widths, signs, lengths and field  *)
(* types of the encoder, the preprocessor and the formatter agree, with an *)
(* older or newer schema too as long as it knows the statement, and a log  *)
(* that is cut anywhere decodes to a prefix, never to a wrong value.       *)
DecodesWhatWasLogged ==
    \/ IsPrefix(text, Lines(Sound))
    \/ Sound < Len(lines) /\ IsPrefix(Lines(Sound), text)

(* When the postprocessor is done every record that is wholly in the file, *)
(* up to the first damaged one, has its line and is counted; with no       *)
(* damage no other record is.                                              *)
EveryRecordDecoded == phase = "done" =>
    /\ count >= Whole
    /\ IsPrefix(Lines(Whole), text)
    /\ Sound = Len(lines) =>
        /\ count = Whole
        /\ Len(file) = (IF lines = <<>> THEN 0 ELSE lines[Len(lines)].end) => text = Lines(Len(lines))

(* The loop of the postprocessor ends, whatever the file holds: each turn  *)
(* but the last counts a record, and a record is some bytes of the file.   *)
FormattingEnds == turns <= count + 1 /\ 6 * count <= pos
=============================================================================
