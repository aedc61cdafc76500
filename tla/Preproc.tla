------------------------------ MODULE Preproc -------------------------------
(***************************************************************************)
(* The preprocessor (preproc/{main,parser,rewriter,schema}.cpp): it scans  *)
(* the sources for bilog::log calls, gives every call an event id and      *)
(* every name in its chain a tag id, writes the ids back into the sources  *)
(* and saves the schema.  Between runs the sources are edited; a run may   *)
(* be killed, or fail, at any step.                                        *)
(*                                                                         *)
(* A source file is the sequence of its calls, as Rewriter has them, each  *)
(* with a flag that tells whether parse_log_call found its .write().       *)
(***************************************************************************)
EXTENDS Rewriter

CONSTANTS
    FileCount,  \* the files under the source root, in directory order
    Workers,    \* the analysis threads
    Chains,     \* the chains a programmer writes
    StartFiles, \* what a file may be before the first run
    MaxCalls,   \* bound: calls per file
    MaxEdits    \* bound: edits in all

ASSUME FilesAssumption == FileCount \in Nat \ {0}
ASSUME WorkersAssumption == IsFiniteSet(Workers) /\ Workers # {}

(* What may be parsed: a chain, or the first links of one.  An id that no  *)
(* unsigned number can hold is a negative one.                             *)
Calls == [ids : Seq(Int), write : BOOLEAN,
          chain : UNION {{SubSeq(ch, 1, j) : j \in DOMAIN ch} : ch \in Chains}]
ASSUME ChainsAssumption == \A ch \in Chains : ch \in Seq(Range(ch)) /\ ch # <<>>
ASSUME StartFilesAssumption == \A file \in StartFiles : file \in Seq(Calls)
ASSUME BoundsAssumption == MaxCalls \in Nat /\ MaxEdits \in Nat

Files == 1..FileCount

VARIABLES
    sources,   \* on disk: the calls of each file
    schema,    \* on disk: the document of the schema
    phase,     \* where main is
    next,      \* next_index
    job,       \* the file each worker is at: 0 before a fetch, past the
               \* last one when the worker has left its loop
    analyses,  \* the analyses, one slot per file
    mem,       \* the analyses and the schema after assign_ids
    cursor,    \* the file rewrite_sources is at
    edits,     \* how many edits were made
    fresh,     \* history: the last run completed and nothing happened since
    last,      \* history: sources, schema and fresh when the last run began
    goal       \* history: what the run now interrupted would have written

disk == <<sources, schema>>
pool == <<next, job, analyses>>
vars == <<disk, phase, pool, mem, cursor, edits, fresh, last, goal>>

(* No interrupted run. *)
Nothing == [files |-> <<>>, schema |-> LoadSchema(NoDocument)]

-----------------------------------------------------------------------------
Init ==
    /\ sources \in [Files -> StartFiles]
    /\ schema = NoDocument
    /\ phase = "idle"
    /\ next = 1
    /\ job = [w \in Workers |-> 0]
    /\ analyses = [f \in Files |-> <<>>]
    /\ mem = Nothing
    /\ cursor = 1
    /\ edits = 0
    /\ fresh = FALSE
    /\ last = [sources |-> sources, schema |-> schema, fresh |-> FALSE]
    /\ goal = Nothing

(* Mutant of Start: the counter of an earlier run is gone on with. *)
StartUnreset ==
    /\ phase = "idle"
    /\ phase' = "scan"
    /\ job' = [w \in Workers |-> 0]
    /\ analyses' = [f \in Files |-> <<>>]
    /\ last' = [sources |-> sources, schema |-> schema, fresh |-> fresh]
    /\ fresh' = FALSE
    /\ UNCHANGED <<disk, next, mem, cursor, edits, goal>>

(* main begins: collect_sources, and the workers are spawned. *)
Start ==
    /\ phase = "idle"
    /\ phase' = "scan"
    /\ next' = 1
    /\ job' = [w \in Workers |-> 0]
    /\ analyses' = [f \in Files |-> <<>>]
    /\ last' = [sources |-> sources, schema |-> schema, fresh |-> fresh]
    /\ fresh' = FALSE
    /\ UNCHANGED <<disk, mem, cursor, edits, goal>>

(* Mutant of Fetch: every worker goes on for ever. *)
FetchUnbounded(w) ==
    /\ phase = "scan" /\ job[w] = 0
    /\ job' = [job EXCEPT ![w] = IF next > FileCount THEN 0 ELSE next]
    /\ next' = next + IF next > FileCount THEN 0 ELSE 1
    /\ UNCHANGED <<disk, phase, analyses, mem, cursor, edits, fresh, last, goal>>

(* Mutant of Fetch: the counter is read and written back in two steps, so  *)
(* that what another worker added in between may be lost.                  *)
FetchUnlocked(w) ==
    /\ phase = "scan" /\ job[w] = 0
    /\ job' = [job EXCEPT ![w] = IF next > FileCount THEN FileCount + 1 ELSE next]
    /\ next' \in {next, next + 1}
    /\ UNCHANGED <<disk, phase, analyses, mem, cursor, edits, fresh, last, goal>>

(* next_index.fetch_add, and the test that ends the loop. *)
Fetch(w) ==
    /\ phase = "scan" /\ job[w] = 0
    /\ job' = [job EXCEPT ![w] = IF next > FileCount THEN FileCount + 1 ELSE next]
    /\ next' = next + 1
    /\ UNCHANGED <<disk, phase, analyses, mem, cursor, edits, fresh, last, goal>>

(* analyze_file: the file is read and its calls are parsed. *)
Analyze(w) ==
    /\ phase = "scan" /\ job[w] \in Files
    /\ analyses' = [analyses EXCEPT ![job[w]] = sources[job[w]]]
    /\ job' = [job EXCEPT ![w] = 0]
    /\ UNCHANGED <<disk, phase, next, mem, cursor, edits, fresh, last, goal>>

(* Mutant of Joined: the files are all handed out, not all analysed. *)
HandedOut == next > FileCount

Joined == \A w \in Workers : job[w] = FileCount + 1

(* Mutant of Check: the errors of the last file only. *)
CheckLast ==
    /\ phase = "scan" /\ Joined
    /\ phase' = IF \E c \in Range(analyses[FileCount]) : ~c.write THEN "idle" ELSE "assign"
    /\ fresh' = (phase' = "idle" /\ last.fresh)
    /\ UNCHANGED <<disk, pool, mem, cursor, edits, last, goal>>

(* The workers have been joined; a chain without .write() ends the run     *)
(* before anything is written.                                             *)
Check ==
    /\ phase = "scan" /\ Joined
    /\ LET errors == \E c \in AllCalls(analyses) : ~c.write
       IN  /\ phase' = IF errors THEN "idle" ELSE "assign"
           /\ fresh' = (errors /\ last.fresh)
    /\ UNCHANGED <<disk, pool, mem, cursor, edits, last, goal>>

(* Mutant of Assign: the schema is saved before the sources are rewritten. *)
AssignAndSave ==
    /\ phase = "assign"
    /\ mem' = Assigned(LoadSchema(schema), analyses)
    /\ goal' = IF goal = Nothing THEN mem' ELSE goal
    /\ schema' = BuildSchema(mem'.schema)
    /\ phase' = "rewrite" /\ cursor' = 1
    /\ UNCHANGED <<sources, pool, edits, fresh, last>>

(* load_schema and assign_ids. *)
Assign ==
    /\ phase = "assign"
    /\ mem' = Assigned(LoadSchema(schema), analyses)
    /\ goal' = IF goal = Nothing THEN mem' ELSE goal
    /\ phase' = "rewrite" /\ cursor' = 1
    /\ UNCHANGED <<disk, pool, edits, fresh, last>>

(* rewrite_sources writes one file, unless its ids are as they were. *)
Rewrite ==
    /\ phase = "rewrite"
    /\ sources' = [sources EXCEPT ![cursor] = mem.files[cursor]]
    /\ phase' = IF cursor = FileCount THEN "save" ELSE "rewrite"
    /\ cursor' = cursor + 1
    /\ UNCHANGED <<schema, pool, mem, edits, fresh, last, goal>>

(* build_schema and write_file; main returns 0. *)
Save ==
    /\ phase = "save"
    /\ schema' = BuildSchema(mem.schema)
    /\ phase' = "idle" /\ fresh' = TRUE /\ goal' = Nothing
    /\ UNCHANGED <<sources, pool, mem, cursor, edits, last>>

(* The run is killed, or an exception ends it, in a worker or in main,     *)
(* between two writes.                                                     *)
Crash ==
    /\ phase # "idle"
    /\ phase' = "idle"
    /\ UNCHANGED <<disk, pool, mem, cursor, edits, fresh, last, goal>>

(* What can be left of a call whose text is cut: itself, the first links   *)
(* of its chain, or nothing.                                               *)
Cut(c) == {<<>>, <<c>>} \cup {<<[c EXCEPT !.chain = SubSeq(@, 1, j), !.write = FALSE]>> : j \in DOMAIN c.chain}

(* What can be left of a file.  Not only its last call is incomplete when  *)
(* one is inside the arguments of another.                                 *)
CutAfter(heads, call) == {head \o rest : head \in heads, rest \in Cut(call)}
CutFiles(calls) == FoldLeft(CutAfter, {<<>>}, calls)

(* The run is killed inside write_file, which has truncated its target: a  *)
(* source is cut, the schema unparsable.                                   *)
CrashInWrite ==
    /\ \/ /\ phase = "rewrite"
          /\ \E left \in CutFiles(mem.files[cursor]) : sources' = [sources EXCEPT ![cursor] = left]
          /\ schema' = schema
       \/ phase = "save" /\ schema' = NoDocument /\ sources' = sources
    /\ phase' = "idle" /\ goal' = Nothing
    /\ UNCHANGED <<pool, mem, cursor, edits, fresh, last>>

-----------------------------------------------------------------------------
(* The programmer: adds, copies, removes, changes and completes calls.     *)
(* The list of ids is never edited by hand, but a copy carries it along.   *)
NewCalls == [ids : {<<>>}, chain : Chains, write : BOOLEAN] \cup AllCalls(sources)

(* A call whose chain is now another, complete one. *)
Rechained(call, chain) == [call EXCEPT !.chain = chain, !.write = TRUE]

WithOneMore(calls) ==
    {InsertAt(calls, k, c) : k \in 1..(Len(calls) + 1), c \in NewCalls}
WithOneLess(calls) == {RemoveAt(calls, k) : k \in DOMAIN calls}
WithOneChanged(calls) ==
    {[calls EXCEPT ![k] = Rechained(@, ch)] : k \in DOMAIN calls, ch \in Chains}

EditedFile(calls) ==
    (IF Len(calls) = MaxCalls THEN {} ELSE WithOneMore(calls))
    \cup WithOneLess(calls) \cup WithOneChanged(calls)

Edit ==
    /\ phase = "idle" /\ edits < MaxEdits
    /\ \E f \in Files : \E calls \in EditedFile(sources[f]) :
          sources' = [sources EXCEPT ![f] = calls]
    /\ edits' = edits + 1 /\ fresh' = FALSE /\ goal' = Nothing
    /\ UNCHANGED <<schema, phase, pool, mem, cursor, last>>

Work(w) == Fetch(w) \/ Analyze(w)
Main == Check \/ Assign \/ Rewrite \/ Save

Next == Start \/ (\E w \in Workers : Work(w)) \/ Main \/ Crash \/ CrashInWrite \/ Edit

Spec == Init /\ [][Next]_vars

(* A run that has been started is scheduled to its end. *)
FairSpec == Spec /\ WF_vars(Main) /\ \A w \in Workers : WF_vars(Work(w))

-----------------------------------------------------------------------------
Phases == {"idle", "scan", "assign", "rewrite", "save"}
TypeOK ==
    /\ sources \in [Files -> Seq(Calls)]
    /\ analyses \in [Files -> Seq(Calls)]
    /\ phase \in Phases
    /\ next \in 1..(FileCount + 1 + Cardinality(Workers))
    /\ job \in [Workers -> 0..(FileCount + 1)]
    /\ cursor \in 1..(FileCount + 1)
    /\ edits \in 0..MaxEdits
    /\ fresh \in BOOLEAN

(* Whatever the number of workers and their interleaving, when main takes  *)
(* over every slot of the analyses holds its file as it is on disk.        *)
ScanComplete == phase = "assign" => analyses = sources

(* The slots of the analyses have no lock (main.cpp:57): no two workers    *)
(* are ever at the same one.                                               *)
SlotsUnshared == \A v, w \in Workers : v # w /\ job[v] \in Files => job[v] # job[w]

(* After a completed run the schema describes the sources, and nothing     *)
(* else (architecture.md:16, "Removes stale entries").                     *)
SchemaInSync == fresh => InSync(schema, sources)

(* After a completed run no two calls share an event id and no two names a *)
(* tag id, even when calls were copied with their ids.                     *)
IdsDistinct == fresh => Distinct(schema, sources)

(* main.cpp:76, "stable ID assignment": a run changes neither the tag of a *)
(* name that stays in use nor the event of a call that is the first with   *)
(* its id.                                                                 *)
IdsStable == fresh => Stable(last.schema, last.sources, schema, sources)

(* The id of an event whose call is gone is not given to another call by   *)
(* the run that drops it, so that the schema it leaves never decodes an    *)
(* old record as a new event.                                              *)
RetiredIdsRest == fresh =>
    DOMAIN schema.events \cap DOMAIN last.schema.events \subseteq EventIds(last.sources)

(* A run that follows one killed between two writes, however far that one  *)
(* came, ends with the ids it would have given.                            *)
RerunConverges == [][(phase = "save" /\ fresh') =>
    goal.files = sources' /\ BuildSchema(goal.schema) = schema']_vars

(* A run ends, completed or not: no worker is waited for in vain. *)
RunsEnd == phase # "idle" ~> phase = "idle"
=============================================================================
