------------------------------ MODULE TextLog -------------------------------
(***************************************************************************)
(* Logger with TextEncoder and StdoutSink (bilog/include/bilog/bilog.hpp,  *)
(* codec/text.hpp, sink/stdout.hpp, src/sink/stdout.cpp).  The encoder is  *)
(* a member of the one Logger, so its pair_index_ is shared by the threads *)
(* that log, while the Buffer is thread_local.  Both outlive a statement:  *)
(* an argument of its chain may throw or log itself, or the chain may lack *)
(* its .write(), and init() may replace the encoder meanwhile.             *)
(*                                                                         *)
(* A token counts for one byte of the Buffer, and fwrite, which takes the  *)
(* lock of the stream, is one step.                                        *)
(***************************************************************************)
EXTENDS TextCodec

CONSTANTS
    Threads,
    Cap,         \* kBuffCap, in tokens
    Terminal,    \* stdout is a terminal: color_
    Assertions,  \* the build has them: NDEBUG is not defined
    Ids,         \* the list in the braces of bilog::log
    Statements,  \* what the program logs
    MinLevels,   \* the levels it passes to init
    Mishaps,     \* which of "thrown", "nested", "unwritten" and "init" happen
    MaxStarts    \* bound: the statements begun and the calls of init

ASSUME CapAssumption == Cap \in Nat \ {0}
ASSUME IdsAssumption == Ids \in Seq(Nat)
ASSUME StatementsAssumption == \A stmt \in Statements : IsStatement(stmt)

VARIABLES
    pc,       \* where each thread is
    todo,     \* the pairs its statement has still to encode
    outer,    \* the statement in whose arguments it is: its pairs, and
              \* those still to encode
    seen,     \* the pair_index_ it has loaded to increment
    buff,     \* its Buffer
    index,    \* pair_index_
    min,      \* min_level_
    stdout,   \* what has been written, with the record it belongs to
    aborted,  \* an assertion has failed
    pairs,    \* history: the pairs of the statement each thread is at, ...
    record,   \* ... the number of its record, from its commit on, ...
    alone,    \* ... and whether it was begun with nothing left by another
              \* one and nobody has been at another one meanwhile
    encoded,  \* history: the pairs each thread has encoded since it flushed
    astray,   \* history: a statement has ended without commit since the
              \* last one that committed, or init()
    records,  \* history: the lines due, in the order of their commits
    starts    \* how many statements and calls of init were begun

enc == <<seen, index>>
hist == <<alone, encoded, astray, records, starts>>
stmts == <<todo, outer, pairs, record>>
vars == <<pc, stmts, enc, buff, min, stdout, aborted, hist>>

None == [pairs |-> <<>>, todo |-> <<>>]

(* Mutant of Appended: the capacity is not looked at. *)
AppendedBlindly(b, data) == b \o data

(* write and write_byte of StdoutSink: Buffer::append keeps what fits. *)
Appended(b, data) == SubSeq(b \o data, 1, IF Len(b \o data) < Cap THEN Len(b \o data) ELSE Cap)

-----------------------------------------------------------------------------
Init ==
    /\ pc = [t \in Threads |-> "idle"]
    /\ todo = [t \in Threads |-> <<>>]
    /\ outer = [t \in Threads |-> None]
    /\ seen = [t \in Threads |-> 0]
    /\ buff = [t \in Threads |-> <<>>]
    /\ index = 0
    /\ min \in MinLevels
    /\ stdout = <<>>
    /\ aborted = FALSE
    /\ pairs = [t \in Threads |-> <<>>]
    /\ record = [t \in Threads |-> 0]
    /\ alone = [t \in Threads |-> FALSE]
    /\ encoded = [t \in Threads |-> <<>>]
    /\ astray = FALSE
    /\ records = <<>>
    /\ starts = 0

Busy == {t \in Threads : pc[t] # "idle"}

Nobody == [t \in Threads |-> FALSE]

(* bilog::init: the level, ...  Where "init" does not happen the program   *)
(* calls it while nobody is logging.                                       *)
Reinit(t) ==
    /\ pc[t] = "idle" /\ starts < MaxStarts
    /\ Busy = {} \/ "init" \in Mishaps
    /\ min' \in MinLevels
    /\ pc' = [pc EXCEPT ![t] = "init"]
    /\ alone' = Nobody /\ starts' = starts + 1
    /\ UNCHANGED <<stmts, enc, buff, stdout, aborted, encoded, astray, records>>

(* ... then a new encoder, and a new sink, which is like the old one.      *)
NewEncoder(t) ==
    /\ pc[t] = "init"
    /\ index' = 0 /\ astray' = FALSE
    /\ pc' = [pc EXCEPT ![t] = "idle"]
    /\ UNCHANGED <<stmts, seen, buff, min, stdout, aborted, alone, encoded, records, starts>>

(* The arguments of a field's call are evaluated: both pairs of the level  *)
(* method have been encoded, the field's has not.                          *)
InArguments(t) == pc[t] = "pair" /\ Len(todo[t]) <= Len(pairs[t]) - 2

(* Where a statement begins: on its own, or in an argument of another one, *)
(* which is not itself in an argument.                                     *)
Begins(t) == pc[t] = "idle" \/ ("nested" \in Mishaps /\ InArguments(t) /\ outer[t] = None)

(* Logger::log and the level method: below the minimum nothing follows.    *)
(* Where "init" does not happen nobody is in it now.                       *)
Log(t, stmt) ==
    /\ Begins(t) /\ starts < MaxStarts
    /\ "init" \in Mishaps \/ \A u \in Threads : pc[u] # "init"
    /\ Passes(min, stmt.level)
    /\ starts' = starts + 1
    /\ pc' = [pc EXCEPT ![t] = "pair"]
    /\ todo' = [todo EXCEPT ![t] = Pairs(Ids, stmt)]
    /\ pairs' = [pairs EXCEPT ![t] = Pairs(Ids, stmt)]
    /\ outer' = [outer EXCEPT ![t] =
                    IF pc[t] = "idle" THEN None ELSE [pairs |-> pairs[t], todo |-> todo[t]]]
    /\ alone' = [u \in Threads |-> u = t /\ Busy = {} /\ ~astray /\ encoded[t] = <<>>]
    /\ UNCHANGED <<enc, buff, min, stdout, aborted, record, encoded, astray, records>>

(* The pairs whose ids have been drawn once the next one is encoded, and   *)
(* whether the list is too short for them: next_id's assertion.            *)
DrawnNext(t) == SubSeq(pairs[t], 1, Len(pairs[t]) - Len(todo[t]) + 1)
RunsOut(t) == Assertions /\ Len(Ids) < IdsDrawn(DrawnNext(t))

(* The assertion ends the program, with the pairs before in the Buffer.    *)
Abort(t) ==
    /\ pc[t] = "pair" /\ RunsOut(t)
    /\ aborted' = TRUE
    /\ UNCHANGED <<pc, stmts, enc, buff, min, stdout, hist>>

(* encode_pair reads pair_index_ and hands its text to the Buffer, ...     *)
WritePair(t) ==
    /\ pc[t] = "pair" /\ ~RunsOut(t)
    /\ buff' = [buff EXCEPT ![t] = Appended(@, PairText(index, Head(todo[t])))]
    /\ encoded' = [encoded EXCEPT ![t] = Append(@, Head(todo[t]))]
    /\ pc' = [pc EXCEPT ![t] = "load"]
    /\ UNCHANGED <<stmts, enc, min, stdout, aborted, alone, astray, records, starts>>

(* ... and ++pair_index_, a load and a store: the member is not atomic.    *)
LoadIndex(t) ==
    /\ pc[t] = "load"
    /\ seen' = [seen EXCEPT ![t] = index]
    /\ pc' = [pc EXCEPT ![t] = "store"]
    /\ UNCHANGED <<stmts, buff, index, min, stdout, aborted, hist>>

StoreIndex(t) ==
    /\ pc[t] = "store"
    /\ index' = seen[t] + 1
    /\ todo' = [todo EXCEPT ![t] = Tail(@)]
    /\ pc' = [pc EXCEPT ![t] = IF Len(todo[t]) = 1 THEN "commit" ELSE "pair"]
    /\ UNCHANGED <<outer, pairs, record, seen, buff, min, stdout, aborted, hist>>

(* The statement is over: the thread goes on with the arguments it was in. *)
Return(t) ==
    /\ pc' = [pc EXCEPT ![t] = IF outer[t] = None THEN "idle" ELSE "pair"]
    /\ todo' = [todo EXCEPT ![t] = outer[t].todo]
    /\ pairs' = [pairs EXCEPT ![t] = outer[t].pairs]
    /\ outer' = [outer EXCEPT ![t] = None]

(* A chain without .write(): what is in the buffer stays, and pair_index_. *)
Unwritten(t) ==
    /\ pc[t] = "commit" /\ "unwritten" \in Mishaps
    /\ Return(t)
    /\ astray' = TRUE
    /\ UNCHANGED <<record, enc, buff, min, stdout, aborted, alone, encoded, records, starts>>

(* An argument throws, through the statement it is nested in too. *)
Thrown(t) ==
    /\ InArguments(t) /\ "thrown" \in Mishaps
    /\ pc' = [pc EXCEPT ![t] = "idle"]
    /\ todo' = [todo EXCEPT ![t] = <<>>]
    /\ pairs' = [pairs EXCEPT ![t] = <<>>]
    /\ outer' = [outer EXCEPT ![t] = None]
    /\ astray' = TRUE
    /\ UNCHANGED <<record, enc, buff, min, stdout, aborted, alone, encoded, records, starts>>

(* One fwrite of thread t, for the record it has begun to flush. *)
Written(t, data) == stdout \o [k \in DOMAIN data |-> [rec |-> record[t], tok |-> data[k]]]

(* The escape sequences that switch a colour on and off. *)
ColorOn == <<[color |-> "on"]>>
ColorOff == <<[color |-> "off"]>>

(* What flush begins with on a terminal: a colour, the tag and a reset,    *)
(* each in an fwrite of its own.                                           *)
Tag(t) == SubSeq(buff[t], 1, 3)
Colored(t) == Terminal /\ \E l \in DOMAIN LevelNames :
    IsPrefix(Str("[") \o Str(LevelNames[l]) \o Str("]"), buff[t])

(* commit: the newline, then the first fwrite of flush. *)
Commit(t) ==
    /\ pc[t] = "commit"
    /\ buff' = [buff EXCEPT ![t] = Appended(@, NewLine)]
    /\ pc' = [pc EXCEPT ![t] = IF Colored(t) THEN "color" ELSE "write"]
    /\ records' = Append(records, Due(pairs[t]))
    /\ record' = [record EXCEPT ![t] = Len(records')]
    /\ UNCHANGED <<todo, outer, pairs, enc, min, stdout, aborted, alone, encoded, astray, starts>>

Color(t) ==
    /\ pc[t] = "color"
    /\ stdout' = Written(t, ColorOn)
    /\ pc' = [pc EXCEPT ![t] = "tag"]
    /\ UNCHANGED <<stmts, enc, buff, min, aborted, hist>>

WriteTag(t) ==
    /\ pc[t] = "tag"
    /\ stdout' = Written(t, Tag(t))
    /\ buff' = [buff EXCEPT ![t] = SubSeq(@, 4, Len(@))]
    /\ pc' = [pc EXCEPT ![t] = "reset"]
    /\ UNCHANGED <<stmts, enc, min, aborted, hist>>

ResetColor(t) ==
    /\ pc[t] = "reset"
    /\ stdout' = Written(t, ColorOff)
    /\ pc' = [pc EXCEPT ![t] = "write"]
    /\ UNCHANGED <<stmts, enc, buff, min, aborted, hist>>

(* Mutant of WriteRest: the buffer is not cleared. *)
WriteUncleared(t) ==
    /\ pc[t] = "write"
    /\ stdout' = Written(t, buff[t])
    /\ pc' = [pc EXCEPT ![t] = "done"]
    /\ UNCHANGED <<stmts, enc, buff, min, aborted, hist>>

(* The last fwrite of flush, and clear. *)
WriteRest(t) ==
    /\ pc[t] = "write"
    /\ stdout' = Written(t, buff[t])
    /\ buff' = [buff EXCEPT ![t] = <<>>]
    /\ pc' = [pc EXCEPT ![t] = "done"]
    /\ UNCHANGED <<stmts, enc, min, aborted, hist>>

(* Mutant of EndRecord: pair_index_ is left as it is. *)
EndUnreset(t) ==
    /\ pc[t] = "done"
    /\ Return(t)
    /\ encoded' = [encoded EXCEPT ![t] = <<>>] /\ astray' = FALSE
    /\ UNCHANGED <<record, enc, buff, min, stdout, aborted, alone, records, starts>>

(* commit ends with pair_index_ = 0. *)
EndRecord(t) ==
    /\ pc[t] = "done"
    /\ index' = 0
    /\ Return(t)
    /\ encoded' = [encoded EXCEPT ![t] = <<>>] /\ astray' = FALSE
    /\ UNCHANGED <<record, seen, buff, min, stdout, aborted, alone, records, starts>>

Encode(t) == Abort(t) \/ WritePair(t) \/ LoadIndex(t) \/ StoreIndex(t)
Flush(t) == Commit(t) \/ Color(t) \/ WriteTag(t) \/ ResetColor(t) \/ WriteRest(t) \/ EndRecord(t)

(* An assertion that fails ends the program, or it comes to its end. *)
Ended == (aborted \/ (Busy = {} /\ starts = MaxStarts)) /\ UNCHANGED vars

Running ==
    \E t \in Threads :
        \/ Reinit(t) \/ NewEncoder(t)
        \/ \E stmt \in Statements : Log(t, stmt)
        \/ Unwritten(t) \/ Thrown(t)
        \/ Encode(t)
        \/ Flush(t)

Next == Ended \/ (~aborted /\ Running)

Spec == Init /\ [][Next]_vars

-----------------------------------------------------------------------------
TypeOK ==
    /\ pc \in [Threads -> {"idle", "init", "pair", "load", "store", "commit", "color", "tag",
                           "reset", "write", "done"}]
    /\ buff \in [Threads -> Seq(Token)]
    /\ \A t \in Threads : Len(buff[t]) <= Cap
    /\ stdout \in Seq([rec : Nat, tok : Token \cup [color : {"on", "off"}]])
    /\ record \in [Threads -> Nat] /\ records \in Seq(Seq(Token))
    /\ index \in Nat /\ seen \in [Threads -> Nat]
    /\ min \in MinLevels
    /\ aborted \in BOOLEAN /\ astray \in BOOLEAN /\ alone \in [Threads -> BOOLEAN]

(* What is on stdout, of all records or of one, less the colours. *)
Plain(recs) ==
    FlattenSeq([k \in DOMAIN stdout |->
        IF stdout[k].rec \in recs /\ "color" \notin DOMAIN stdout[k].tok
        THEN <<stdout[k].tok>> ELSE <<>>])

(* text.hpp:21, "Output per record: [LEVEL] message field value field      *)
(* value\n": when no record is being logged, stdout holds the lines of the *)
(* records, in the order of their commits.                                 *)
LinesAsDocumented == Busy = {} => Plain(DOMAIN records) = FlattenSeq(records)

(* The same for a record begun with nothing left over and during which    *)
(* nobody was at another one, cut to what the buffer holds: whatever the   *)
(* threads raced on, left without commit or logged in arguments before, a  *)
(* commit puts pair_index_ and the buffer back to their start.             *)
AloneAsDocumented == \A t \in Threads :
    pc[t] = "done" /\ alone[t] => Plain({record[t]}) = Appended(<<>>, Due(pairs[t]))

(* All that races and chains without end can change is the form of a pair, *)
(* message or field: what a thread writes to stdout is the pairs it has    *)
(* encoded since it last did, each once and in order.                      *)
OnlyFormsRace == \A t \in Threads : pc[t] = "done" =>
    \E forms \in [DOMAIN encoded[t] -> {1, 2}] :
        Plain({record[t]}) = Appended(<<>>, Text(encoded[t], forms))
=============================================================================
