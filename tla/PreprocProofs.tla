--------------------------- MODULE PreprocProofs ---------------------------
(***************************************************************************)
(* Proofs about Preproc, for every number of files and of threads, all     *)
(* chains and first sources, and any number of edits and killed runs: the  *)
(* pool of analysis threads, and what a completed run leaves.              *)
(***************************************************************************)
EXTENDS Preproc, RewriterProofs, FiniteSetTheorems, TLAPS

-----------------------------------------------------------------------------
(* The pool *)

(* The workers that have left their loop. *)
Gone == {w \in Workers : job[w] = FileCount + 1}

(* What is in the variables of the scan. *)
PoolTypes ==
    /\ sources = [f \in Files |-> sources[f]]
    /\ analyses = [f \in Files |-> analyses[f]]
    /\ next \in Nat \ {0}
    /\ job \in [Workers -> 0..(FileCount + 1)]

(* The counter is beyond every file a worker is at or was at, at all of    *)
(* them when a worker has left, and has passed the last file only as often *)
(* as workers have left.                                                   *)
Counted ==
    /\ \A w \in Workers : job[w] \in Files => job[w] < next
    /\ \A w \in Workers : job[w] = FileCount + 1 => FileCount < next
    /\ next <= FileCount + 1 + Cardinality(Gone)

(* During a scan a file that was given out is at its worker or in its slot *)
(* of the analyses.                                                        *)
InSlots == phase = "scan" => \A f \in Files : f < next =>
    analyses[f] = sources[f] \/ \E w \in Workers : job[w] = f

PoolInv == PoolTypes /\ Counted /\ SlotsUnshared /\ InSlots /\ ScanComplete

(* The counter's bound, with the one the type invariant states: every      *)
(* worker adds one too many, at most.                                      *)
CounterBounded == next \in 1..(FileCount + 1 + Cardinality(Workers))

(* The invariant holds at the start. *)
LEMMA PoolInit == Init => PoolInv
<1> SUFFICES ASSUME Init PROVE PoolInv
  OBVIOUS
<1>1. PoolTypes
  BY FilesAssumption DEF Init, PoolTypes, Files
<1>2. Gone = {}
  BY FilesAssumption DEF Init, Gone
<1>3. Counted
  BY <1>2, FS_EmptySet, FilesAssumption DEF Init, Counted, Files
<1>4. SlotsUnshared /\ InSlots /\ ScanComplete
  BY FilesAssumption DEF Init, SlotsUnshared, InSlots, ScanComplete, Files
<1> QED
  BY <1>1, <1>3, <1>4 DEF PoolInv

(* main gives the workers a counter that is at the first file. *)
LEMMA StartKeepsPool == PoolInv /\ Start => PoolInv'
<1> SUFFICES ASSUME PoolInv, Start PROVE PoolInv'
  OBVIOUS
<1>1. PoolTypes'
  BY FilesAssumption DEF Start, disk, PoolInv, PoolTypes, Files
<1>2. Gone' = {}
  BY FilesAssumption DEF Start, Gone
<1>3. Counted'
  BY <1>2, FS_EmptySet, FilesAssumption DEF Start, Counted, Files
<1>4. SlotsUnshared' /\ InSlots' /\ ScanComplete'
  BY FilesAssumption DEF Start, SlotsUnshared, InSlots, ScanComplete, Files
<1> QED
  BY <1>1, <1>3, <1>4 DEF PoolInv

(* A worker takes the next file, or leaves. *)
LEMMA FetchKeepsPool == ASSUME NEW w \in Workers PROVE PoolInv /\ Fetch(w) => PoolInv'
<1> SUFFICES ASSUME PoolInv, Fetch(w) PROVE PoolInv'
  OBVIOUS
<1> DEFINE taken == IF next > FileCount THEN FileCount + 1 ELSE next
<1> USE FilesAssumption DEF Files
<1>1. job' = [job EXCEPT ![w] = taken] /\ next' = next + 1 /\ job[w] = 0 /\ phase = "scan"
      /\ UNCHANGED <<sources, analyses, phase>>
  BY DEF Fetch, disk
<1>2. next \in Nat \ {0} /\ taken \in 1..(FileCount + 1) /\ job \in [Workers -> 0..(FileCount + 1)]
  BY DEF PoolInv, PoolTypes
<1>3. PoolTypes'
  BY <1>1, <1>2 DEF PoolInv, PoolTypes
<1>4. IsFiniteSet(Gone) /\ Cardinality(Gone) \in Nat
  BY WorkersAssumption, FS_Subset, FS_CardinalityType DEF Gone
<1>5. Counted'
  <2>1. \A v \in Workers : job'[v] = IF v = w THEN taken ELSE job[v]
    BY <1>1, <1>2
  <2>2. \A v \in Workers : job'[v] \in Files => job'[v] < next'
    BY <1>1, <1>2, <2>1 DEF PoolInv, Counted
  <2>3. \A v \in Workers : job'[v] = FileCount + 1 => FileCount < next'
    BY <1>1, <1>2, <2>1 DEF PoolInv, Counted
  <2>4. CASE next <= FileCount
    <3>1. Gone' = Gone
      BY <1>1, <1>2, <2>1, <2>4 DEF Gone
    <3>2. next' <= FileCount + 1 + Cardinality(Gone')
      BY <1>1, <1>2, <1>4, <2>4, <3>1
    <3> QED
      BY <2>2, <2>3, <3>2 DEF Counted
  <2>5. CASE next > FileCount
    <3>1. Gone' = Gone \cup {w} /\ w \notin Gone
      BY <1>1, <1>2, <2>1, <2>5 DEF Gone
    <3>2. Cardinality(Gone') = Cardinality(Gone) + 1
      BY <1>4, <3>1, FS_AddElement
    <3>3. next' <= FileCount + 1 + Cardinality(Gone')
      BY <1>1, <1>2, <1>4, <3>2 DEF PoolInv, Counted
    <3> QED
      BY <2>2, <2>3, <3>3 DEF Counted
  <2> QED
    BY <1>2, <2>4, <2>5
<1>6. SlotsUnshared'
  BY <1>1, <1>2 DEF PoolInv, Counted, SlotsUnshared
<1>7. InSlots'
  <2> SUFFICES ASSUME NEW f \in Files, f < next'
               PROVE  analyses'[f] = sources'[f] \/ \E v \in Workers : job'[v] = f
    BY DEF InSlots
  <2>1. CASE f = next
    BY <1>1, <1>2, <2>1
  <2>2. CASE f < next
    BY <1>1, <1>2, <2>2 DEF PoolInv, InSlots
  <2> QED
    BY <1>1, <1>2, <2>1, <2>2
<1>8. ScanComplete'
  BY <1>1 DEF ScanComplete
<1> QED
  BY <1>3, <1>5, <1>6, <1>7, <1>8 DEF PoolInv

(* A worker puts its file in the slot. *)
LEMMA AnalyzeKeepsPool == ASSUME NEW w \in Workers PROVE PoolInv /\ Analyze(w) => PoolInv'
<1> SUFFICES ASSUME PoolInv, Analyze(w) PROVE PoolInv'
  OBVIOUS
<1> USE FilesAssumption DEF Files
<1>1. /\ job' = [job EXCEPT ![w] = 0] /\ job[w] \in Files /\ phase = "scan"
      /\ analyses' = [analyses EXCEPT ![job[w]] = sources[job[w]]]
      /\ UNCHANGED <<sources, next, phase>>
  BY DEF Analyze, disk
<1>2. next \in Nat \ {0} /\ job \in [Workers -> 0..(FileCount + 1)]
  BY DEF PoolInv, PoolTypes
<1>3. PoolTypes'
  <2>1. analyses = [f \in Files |-> analyses[f]]
    BY DEF PoolInv, PoolTypes
  <2>2. analyses' = [f \in Files |-> analyses'[f]]
    BY <1>1, <2>1
  <2>3. job' \in [Workers -> 0..(FileCount + 1)]
    BY <1>1, <1>2
  <2> QED
    BY <1>1, <1>2, <2>2, <2>3 DEF PoolInv, PoolTypes
<1>4. Gone' = Gone
  BY <1>1, <1>2 DEF Gone
<1>5. Counted'
  BY <1>1, <1>2, <1>4 DEF PoolInv, Counted
<1>6. SlotsUnshared'
  BY <1>1, <1>2 DEF PoolInv, SlotsUnshared
<1>7. InSlots'
  BY <1>1, <1>2 DEF PoolInv, PoolTypes, InSlots
<1>8. ScanComplete'
  BY <1>1 DEF ScanComplete
<1> QED
  BY <1>3, <1>5, <1>6, <1>7, <1>8 DEF PoolInv

(* main goes on when every worker has left: all files were given out, and  *)
(* none is at a worker any more.                                           *)
LEMMA CheckKeepsPool == PoolInv /\ Check => PoolInv'
<1> SUFFICES ASSUME PoolInv, Check PROVE PoolInv'
  OBVIOUS
<1> USE FilesAssumption DEF Files
<1>1. /\ phase = "scan" /\ Joined /\ phase' \in {"idle", "assign"}
      /\ UNCHANGED <<sources, analyses, next, job>>
  BY DEF Check, disk, pool
<1>2. next \in Nat \ {0} /\ job \in [Workers -> 0..(FileCount + 1)]
  BY DEF PoolInv, PoolTypes
<1>3. PICK w \in Workers : TRUE
  BY WorkersAssumption
<1>4. FileCount < next
  BY <1>1, <1>3 DEF Joined, PoolInv, Counted
<1>5. \A f \in Files : analyses[f] = sources[f]
  BY <1>1, <1>2, <1>4 DEF PoolInv, InSlots, Joined
<1>6. analyses = sources
  BY <1>5 DEF PoolInv, PoolTypes
<1>7. PoolTypes' /\ SlotsUnshared'
  BY <1>1 DEF PoolInv, PoolTypes, SlotsUnshared
<1>8. Counted'
  BY <1>1 DEF PoolInv, Counted, Gone
<1>9. InSlots' /\ ScanComplete'
  BY <1>1, <1>6 DEF InSlots, ScanComplete
<1> QED
  BY <1>7, <1>8, <1>9 DEF PoolInv

(* No other step touches the pool; when one of them writes a source the    *)
(* scan and its analyses are over.                                         *)
LEMMA OthersKeepPool ==
    ASSUME PoolInv, UNCHANGED pool,
           sources' = [f \in Files |-> sources'[f]],
           \/ phase' \in {"idle", "rewrite", "save"}
           \/ UNCHANGED <<sources, phase>>
    PROVE  PoolInv'
<1>1. UNCHANGED <<next, job, analyses>>
  BY DEF pool
<1>2. PoolTypes' /\ SlotsUnshared'
  BY <1>1 DEF PoolInv, PoolTypes, SlotsUnshared
<1>3. Counted'
  BY <1>1 DEF PoolInv, Counted, Gone
<1>4. InSlots' /\ ScanComplete'
  BY <1>1 DEF PoolInv, InSlots, ScanComplete
<1> QED
  BY <1>2, <1>3, <1>4 DEF PoolInv

(* Every step keeps the invariant. *)
LEMMA PoolStep == PoolInv /\ [Next]_vars => PoolInv'
<1> SUFFICES ASSUME PoolInv, [Next]_vars PROVE PoolInv'
  OBVIOUS
<1>a. sources = [f \in Files |-> sources[f]]
  BY DEF PoolInv, PoolTypes
<1>1. CASE Start
  BY <1>1, StartKeepsPool
<1>2. ASSUME NEW w \in Workers, Work(w) PROVE PoolInv'
  BY <1>2, FetchKeepsPool, AnalyzeKeepsPool DEF Work
<1>3. CASE Check
  BY <1>3, CheckKeepsPool
<1>4. CASE Assign
  <2>1. UNCHANGED <<pool, sources>> /\ phase' = "rewrite"
    BY <1>4 DEF Assign, disk
  <2> QED
    BY <1>a, <2>1, OthersKeepPool
<1>5. CASE Rewrite
  <2>1. UNCHANGED pool /\ phase' \in {"rewrite", "save"}
        /\ sources' = [sources EXCEPT ![cursor] = mem.files[cursor]]
    BY <1>5 DEF Rewrite
  <2>2. sources' = [f \in Files |-> sources'[f]]
    BY <1>a, <2>1
  <2> QED
    BY <2>1, <2>2, OthersKeepPool
<1>6. CASE Save
  <2>1. UNCHANGED <<pool, sources>> /\ phase' = "idle"
    BY <1>6 DEF Save
  <2> QED
    BY <1>a, <2>1, OthersKeepPool
<1>7. CASE Crash
  <2>1. UNCHANGED <<pool, sources>> /\ phase' = "idle"
    BY <1>7 DEF Crash, disk
  <2> QED
    BY <1>a, <2>1, OthersKeepPool
<1>8. CASE CrashInWrite
  <2>1. UNCHANGED pool /\ phase' = "idle"
        /\ \/ sources' = sources
           \/ \E left : sources' = [sources EXCEPT ![cursor] = left]
    BY <1>8 DEF CrashInWrite
  <2>2. sources' = [f \in Files |-> sources'[f]]
    BY <1>a, <2>1
  <2> QED
    BY <2>1, <2>2, OthersKeepPool
<1>9. CASE Edit
  <2>1. UNCHANGED <<pool, phase>> /\ phase = "idle"
        /\ \E f \in Files : \E calls : sources' = [sources EXCEPT ![f] = calls]
    BY <1>9 DEF Edit
  <2>2. sources' = [f \in Files |-> sources'[f]]
    BY <1>a, <2>1
  <2> QED
    BY <2>1, <2>2, OthersKeepPool
<1>10. CASE UNCHANGED vars
  <2>1. UNCHANGED <<pool, sources, phase>>
    BY <1>10 DEF vars, disk
  <2> QED
    BY <1>a, <2>1, OthersKeepPool
<1> QED
  BY <1>1, <1>2, <1>3, <1>4, <1>5, <1>6, <1>7, <1>8, <1>9, <1>10 DEF Next, Main

(* So it holds in every state. *)
LEMMA PoolCorrect == Spec => []PoolInv
<1> QED
  BY PoolInit, PoolStep, PTL DEF Spec

(* Whatever the numbers of files and of threads, and however the threads   *)
(* interleave, main takes over the analysis of every file (main.cpp:51).   *)
THEOREM ScanIsComplete == Spec => []ScanComplete
<1>1. PoolInv => ScanComplete
  BY DEF PoolInv
<1> QED
  BY <1>1, PoolCorrect, PTL

(* No two threads write the same slot of the analyses (main.cpp:57).       *)
THEOREM SlotsStayUnshared == Spec => []SlotsUnshared
<1>1. PoolInv => SlotsUnshared
  BY DEF PoolInv
<1> QED
  BY <1>1, PoolCorrect, PTL

(* next_index counts on when no file is left (main.cpp:53): a run ends     *)
(* with it past the last file by one for each thread at most.              *)
THEOREM CounterStaysBounded == Spec => []CounterBounded
<1>1. PoolInv => CounterBounded
  <2> SUFFICES ASSUME PoolInv PROVE CounterBounded
    OBVIOUS
  <2>1. Cardinality(Gone) <= Cardinality(Workers)
    BY WorkersAssumption, FS_Subset DEF Gone
  <2>2. Cardinality(Gone) \in Nat /\ Cardinality(Workers) \in Nat
    BY WorkersAssumption, FS_Subset, FS_CardinalityType DEF Gone
  <2>3. next \in Nat \ {0} /\ next <= FileCount + 1 + Cardinality(Gone)
    BY DEF PoolInv, PoolTypes, Counted
  <2> QED
    BY <2>1, <2>2, <2>3, FilesAssumption DEF CounterBounded
<1> QED
  BY <1>1, PoolCorrect, PTL

-----------------------------------------------------------------------------
(* The schema and the sources *)

(* A run has changed nothing before it rewrites. *)
Begun == phase \in {"scan", "assign"} =>
    sources = last.sources /\ schema = last.schema

(* A completed run that nothing came after. *)
Current(doc, files) == InSync(doc, files) /\ Distinct(doc, files)

(* What a run that began with the old document and sources leaves. *)
Succeeds(oldDoc, oldFiles, doc, files) ==
    /\ Current(doc, files)
    /\ Stable(oldDoc, oldFiles, doc, files)
    /\ DOMAIN doc.events \cap DOMAIN oldDoc.events \subseteq EventIds(oldFiles)

(* What main is about to write. *)
InMemory == phase \in {"rewrite", "save"} =>
    /\ mem.files \in [Files -> Seq(Calls)]
    /\ GoodDocument(BuildSchema(mem.schema))
    /\ Succeeds(last.schema, last.sources, BuildSchema(mem.schema), mem.files)

(* What it has written so far. *)
Written ==
    /\ phase = "rewrite" => cursor \in Files /\ \A f \in 1..(cursor - 1) : sources[f] = mem.files[f]
    /\ phase = "save" => sources = mem.files

(* fresh is what it says, and a run that fails may give it back. *)
FreshInv ==
    /\ fresh => phase = "idle" /\ Succeeds(last.schema, last.sources, schema, sources)
    /\ phase = "scan" /\ last.fresh => Current(schema, sources)

SchemaTypes ==
    /\ sources \in [Files -> Seq(Calls)]
    /\ analyses \in [Files -> Seq(Calls)]
    /\ phase \in Phases
    /\ cursor \in 1..(FileCount + 1)
    /\ edits \in 0..MaxEdits
    /\ fresh \in BOOLEAN /\ last.fresh \in BOOLEAN
    /\ GoodDocument(schema)

SchemaInv == SchemaTypes /\ Begun /\ InMemory /\ Written /\ FreshInv

(* What a chain may be. *)
WrittenChains == UNION {{SubSeq(ch, 1, j) : j \in DOMAIN ch} : ch \in Chains}

(* The first links of a chain are a chain. *)
LEMMA PrefixesAreChains ==
    /\ Calls = CallSet(WrittenChains)
    /\ \A ch \in WrittenChains : Len(ch) \in Nat /\ DOMAIN ch = 1..Len(ch)
    /\ Chains \subseteq WrittenChains
    /\ \A ch \in WrittenChains : \A j \in DOMAIN ch : SubSeq(ch, 1, j) \in WrittenChains
<1>1. Calls = CallSet(WrittenChains)
  BY DEF Calls, CallSet, WrittenChains
<1>2. ASSUME NEW ch \in WrittenChains
      PROVE  \E whole \in Chains : \E j \in 1..Len(whole) :
                 whole \in Seq(Range(whole)) /\ ch = SubSeq(whole, 1, j)
  <2>1. PICK whole \in Chains : ch \in {SubSeq(whole, 1, j) : j \in DOMAIN whole}
    BY DEF WrittenChains
  <2>2. PICK j \in DOMAIN whole : ch = SubSeq(whole, 1, j)
    BY <2>1
  <2>3. whole \in Seq(Range(whole))
    BY ChainsAssumption
  <2>4. j \in 1..Len(whole)
    BY <2>3
  <2> QED
    BY <2>2, <2>3, <2>4
<1>3. ASSUME NEW whole \in Chains, NEW j \in 1..Len(whole) PROVE SubSeq(whole, 1, j) \in WrittenChains
  <2>1. whole \in Seq(Range(whole))
    BY ChainsAssumption
  <2>2. j \in DOMAIN whole
    BY <2>1
  <2>3. SubSeq(whole, 1, j) \in {SubSeq(whole, 1, i) : i \in DOMAIN whole}
    BY <2>2
  <2> QED
    BY <2>3 DEF WrittenChains
<1>4. ASSUME NEW ch \in WrittenChains
      PROVE  /\ Len(ch) \in Nat /\ DOMAIN ch = 1..Len(ch)
             /\ \A i \in DOMAIN ch : SubSeq(ch, 1, i) \in WrittenChains
  <2>1. PICK whole \in Chains : \E j \in 1..Len(whole) :
                 whole \in Seq(Range(whole)) /\ ch = SubSeq(whole, 1, j)
    BY <1>2
  <2>2. PICK j \in 1..Len(whole) : whole \in Seq(Range(whole)) /\ ch = SubSeq(whole, 1, j)
    BY <2>1
  <2>3. Len(ch) = j /\ DOMAIN ch = 1..j /\ Len(ch) \in Nat
    BY <2>2
  <2>4. ASSUME NEW i \in DOMAIN ch PROVE SubSeq(ch, 1, i) \in WrittenChains
    <3>1. i \in 1..Len(whole) /\ i <= j
      BY <2>2, <2>3
    <3>2. SubSeq(ch, 1, i) = SubSeq(whole, 1, i)
      BY <2>2, <2>3, <3>1
    <3> QED
      BY <1>3, <3>1, <3>2
  <2> QED
    BY <2>3, <2>4
<1>5. ASSUME NEW ch \in Chains PROVE ch \in WrittenChains
  <2>1. ch \in Seq(Range(ch)) /\ ch # <<>>
    BY ChainsAssumption
  <2>2. Len(ch) \in 1..Len(ch) /\ ch = SubSeq(ch, 1, Len(ch))
    BY <2>1
  <2> QED
    BY <1>3, <2>2
<1> QED
  BY <1>1, <1>4, <1>5

(* The files, as functions and as sequences. *)
LEMMA FilesInOrder ==
    /\ \A files : files \in [Files -> Seq(Calls)] <=>
         files \in Seq(Seq(CallSet(WrittenChains))) /\ Len(files) = FileCount
<1> DEFINE S == Seq(CallSet(WrittenChains))
<1>1. Seq(Calls) = S
  BY PrefixesAreChains
<1> HIDE DEF S
<1>2. \A files : files \in [1..FileCount -> S] <=> files \in Seq(S) /\ Len(files) = FileCount
  BY FilesAssumption
<1> QED
  BY <1>1, <1>2 DEF Files, S

(* What the programmer makes of a file is one. *)
LEMMA EditedFileTypes ==
    ASSUME sources \in [Files -> Seq(Calls)],
           NEW calls \in Seq(Calls), NEW left \in EditedFile(calls)
    PROVE  left \in Seq(Calls)
<1>1. NewCalls \subseteq Calls
  <2>1. ASSUME NEW c \in [ids : {<<>>}, chain : Chains, write : BOOLEAN] PROVE c \in Calls
    <3>1. c = [ids |-> <<>>, write |-> c.write, chain |-> c.chain]
          /\ c.write \in BOOLEAN /\ c.chain \in Chains
      OBVIOUS
    <3>2. c.chain \in WrittenChains /\ <<>> \in Seq(Int)
      BY <3>1, PrefixesAreChains
    <3> QED
      BY <3>1, <3>2 DEF Calls, WrittenChains
  <2>2. ASSUME NEW c \in AllCalls(sources) PROVE c \in Calls
    <3>1. PICK f \in DOMAIN sources : c \in {sources[f][k] : k \in DOMAIN sources[f]}
      BY DEF AllCalls
    <3>2. PICK k \in DOMAIN sources[f] : c = sources[f][k]
      BY <3>1
    <3>3. sources[f] \in Seq(Calls)
      BY <3>1
    <3> QED
      BY <3>2, <3>3
  <2> QED
    BY <2>1, <2>2 DEF NewCalls
<1>2. ASSUME NEW k \in 1..(Len(calls) + 1), NEW c \in Calls PROVE InsertAt(calls, k, c) \in Seq(Calls)
  <2> HIDE DEF Calls
  <2>1. SubSeq(calls, 1, k - 1) \in Seq(Calls) /\ SubSeq(calls, k, Len(calls)) \in Seq(Calls)
    OBVIOUS
  <2> QED
    BY <2>1 DEF InsertAt
<1>3. ASSUME NEW k \in DOMAIN calls PROVE RemoveAt(calls, k) \in Seq(Calls)
  <2>1. k \in 1..Len(calls)
    OBVIOUS
  <2>2. SubSeq(calls, 1, k - 1) \in Seq(Calls) /\ SubSeq(calls, k + 1, Len(calls)) \in Seq(Calls)
    BY <2>1
  <2> QED
    BY <2>2 DEF RemoveAt
<1>4. ASSUME NEW k \in DOMAIN calls, NEW ch \in Chains
      PROVE  [calls EXCEPT ![k] = Rechained(@, ch)] \in Seq(Calls)
  <2>1. k \in 1..Len(calls) /\ calls[k] \in CallSet(WrittenChains) /\ ch \in WrittenChains
    BY PrefixesAreChains
  <2>2. Rechained(calls[k], ch) \in Calls
    BY <2>1, PrefixesAreChains DEF CallSet, Rechained
  <2> HIDE DEF Calls
  <2> QED
    BY <2>1, <2>2
<1> HIDE DEF Calls, NewCalls
<1>5. ASSUME NEW k \in 1..(Len(calls) + 1), NEW c \in NewCalls, left = InsertAt(calls, k, c)
      PROVE  left \in Seq(Calls)
  BY <1>1, <1>2, <1>5, Zenon
<1>6. ASSUME NEW k \in DOMAIN calls, left = RemoveAt(calls, k) PROVE left \in Seq(Calls)
  BY <1>3, <1>6, Zenon
<1>7. ASSUME NEW k \in DOMAIN calls, NEW ch \in Chains,
             left = [calls EXCEPT ![k] = Rechained(@, ch)]
      PROVE  left \in Seq(Calls)
  BY <1>4, <1>7, Zenon
<1> DEFINE Inserted(k, c) == InsertAt(calls, k, c)
           Changed(k, ch) == [calls EXCEPT ![k] = Rechained(@, ch)]
<1>8. CASE left \in WithOneMore(calls)
  <2>1. WithOneMore(calls) = {Inserted(k, c) : k \in 1..(Len(calls) + 1), c \in NewCalls}
    BY DEF WithOneMore
  <2> HIDE DEF Inserted
  <2>2. PICK k \in 1..(Len(calls) + 1), c \in NewCalls : left = Inserted(k, c)
    BY <1>8, <2>1
  <2> QED
    BY <1>5, <2>2, Zenon DEF Inserted
<1>9. CASE left \in WithOneLess(calls)
  BY <1>6, <1>9, Zenon DEF WithOneLess
<1>10. CASE left \in WithOneChanged(calls)
  <2>1. WithOneChanged(calls) = {Changed(k, ch) : k \in DOMAIN calls, ch \in Chains}
    BY DEF WithOneChanged
  <2> HIDE DEF Changed
  <2>2. PICK k \in DOMAIN calls, ch \in Chains : left = Changed(k, ch)
    BY <1>10, <2>1
  <2> QED
    BY <1>7, <2>2, Zenon DEF Changed
<1> QED
  BY <1>8, <1>9, <1>10 DEF EditedFile

(* What is left of a cut call is calls. *)
LEMMA CutTypes ==
    ASSUME NEW c \in Calls, NEW rest \in Cut(c)
    PROVE  rest \in Seq(Calls)
<1>1. c \in CallSet(WrittenChains)
  BY PrefixesAreChains
<1>2. ASSUME NEW j \in DOMAIN c.chain
      PROVE  [c EXCEPT !.chain = SubSeq(@, 1, j), !.write = FALSE] \in Calls
  <2>1. SubSeq(c.chain, 1, j) \in WrittenChains
    BY <1>1, PrefixesAreChains DEF CallSet
  <2>2. [c EXCEPT !.chain = SubSeq(@, 1, j), !.write = FALSE] \in CallSet(WrittenChains)
    BY <1>1, <2>1 DEF CallSet
  <2> QED
    BY <2>2, PrefixesAreChains
<1> HIDE DEF Calls
<1>3. ASSUME NEW j \in DOMAIN c.chain
      PROVE  <<[c EXCEPT !.chain = SubSeq(@, 1, j), !.write = FALSE]>> \in Seq(Calls)
  <2>1. \A call \in Calls : <<call>> \in Seq(Calls)
    OBVIOUS
  <2> QED
    BY <1>2, <2>1, Zenon
<1>4. <<>> \in Seq(Calls) /\ <<c>> \in Seq(Calls)
  OBVIOUS
<1> QED
  BY <1>3, <1>4, Zenon DEF Cut

(* What is left of the first calls of a file. *)
HeadsTyped(c, k, heads) == heads \subseteq Seq(Calls)

Cuts == INSTANCE FoldInduction WITH Op <- CutAfter, Holds <- HeadsTyped

(* What is left of a cut file is a file. *)
LEMMA CutFilesTypes ==
    ASSUME NEW calls \in Seq(Calls)
    PROVE  CutFiles(calls) \subseteq Seq(Calls)
<1> HIDE DEF Calls
<1>1. HeadsTyped(0, 0, {<<>>})
  BY DEF HeadsTyped
<1>2. ASSUME NEW k \in 1..Len(calls), NEW heads, HeadsTyped(0, k - 1, heads)
      PROVE  HeadsTyped(0, k, CutAfter(heads, calls[k]))
  <2>1. calls[k] \in Calls
    OBVIOUS
  <2>2. ASSUME NEW head \in heads, NEW rest \in Cut(calls[k]) PROVE head \o rest \in Seq(Calls)
    BY <1>2, <2>1, <2>2, CutTypes DEF HeadsTyped
  <2> DEFINE Joint(head, rest) == head \o rest
  <2>3. CutAfter(heads, calls[k]) = {Joint(head, rest) : head \in heads, rest \in Cut(calls[k])}
    BY DEF CutAfter
  <2> HIDE DEF Joint
  <2>4. ASSUME NEW left \in CutAfter(heads, calls[k]) PROVE left \in Seq(Calls)
    <3>1. PICK head \in heads, rest \in Cut(calls[k]) : left = Joint(head, rest)
      BY <2>3
    <3> QED
      BY <2>2, <3>1, Zenon DEF Joint
  <2> QED
    BY <2>4 DEF HeadsTyped
<1>3. Len(calls) \in Nat /\ DOMAIN calls = 1..Len(calls)
  OBVIOUS
<1>4. HeadsTyped(0, Len(calls), Cuts!FoldLeft(CutAfter, {<<>>}, calls))
  BY <1>1, <1>2, <1>3, Cuts!FoldInvariant, Zenon
<1>5. Cuts!FoldLeft(CutAfter, {<<>>}, calls) = FoldLeft(CutAfter, {<<>>}, calls)
  BY DEF FoldLeft, Cuts!FoldLeft, MapThenFoldSet, Cuts!MapThenFoldSet, Max, Cuts!Max
<1> QED
  BY <1>4, <1>5 DEF HeadsTyped, CutFiles

(* A run that is given good sources and a good document leaves some. *)
LEMMA AssignSucceeds ==
    ASSUME GoodDocument(schema), NEW files \in [Files -> Seq(Calls)],
           NEW out, out = Assigned(LoadSchema(schema), files)
    PROVE  /\ out.files \in [Files -> Seq(Calls)]
           /\ GoodDocument(BuildSchema(out.schema))
           /\ Succeeds(schema, files, BuildSchema(out.schema), out.files)
<1>1. files \in Seq(Seq(CallSet(WrittenChains))) /\ Len(files) = FileCount
  BY FilesInOrder
<1>2. \A ch \in WrittenChains : Len(ch) \in Nat /\ DOMAIN ch = 1..Len(ch)
  BY PrefixesAreChains
<1> DEFINE doc == BuildSchema(out.schema)
<1>3. /\ GoodDocument(doc)
      /\ out.files \in Seq(Seq(CallSet(WrittenChains))) /\ Len(out.files) = Len(files)
      /\ InSync(doc, out.files) /\ Distinct(doc, out.files)
      /\ Stable(schema, files, doc, out.files)
      /\ DOMAIN doc.events \cap DOMAIN schema.events \subseteq EventIds(files)
  <2> HIDE DEF doc
  <2>1. doc = BuildSchema(out.schema)
    BY DEF doc
  <2> QED
    BY <1>1, <1>2, <2>1, AssignedWell
<1>4. out.files \in [Files -> Seq(Calls)]
  BY <1>1, <1>3, FilesInOrder
<1> QED
  BY <1>3, <1>4 DEF Succeeds, Current

(* A run that fails leaves what it found. *)
LEMMA NothingChanges ==
    ASSUME NEW doc, NEW files, Current(doc, files)
    PROVE  Succeeds(doc, files, doc, files)
BY DEF Succeeds, Current, Stable, InSync

-----------------------------------------------------------------------------
(* Every step keeps them *)

(* A document that is missing or unreadable counts as a good one. *)
LEMMA EmptyDocument == GoodDocument(NoDocument)
<1>1. DOMAIN NoDocument.tags = {} /\ DOMAIN NoDocument.events = {}
  BY DEF NoDocument
<1>2. NoName \notin Range(NoDocument.tags) /\ IsInjective(NoDocument.tags)
  BY <1>1 DEF Range, IsInjective
<1> QED
  BY <1>1, <1>2, FS_EmptySet DEF GoodDocument

(* There is nothing to describe at the start. *)
LEMMA SchemaInit == Init => SchemaInv
<1> SUFFICES ASSUME Init PROVE SchemaInv
  OBVIOUS
<1>1. GoodDocument(schema)
  BY EmptyDocument DEF Init
<1>2. sources \in [Files -> Seq(Calls)]
  <2> HIDE DEF Calls
  <2>1. StartFiles \subseteq Seq(Calls)
    BY StartFilesAssumption
  <2> QED
    BY <2>1 DEF Init
<1>3. SchemaTypes
  <2>1. analyses \in [Files -> Seq(Calls)]
    BY DEF Init
  <2>2. phase \in Phases /\ cursor \in 1..(FileCount + 1) /\ edits \in 0..MaxEdits
        /\ fresh \in BOOLEAN /\ last.fresh \in BOOLEAN
    <3>1. /\ phase = "idle" /\ cursor = 1 /\ edits = 0 /\ fresh = FALSE
          /\ last = [sources |-> sources, schema |-> schema, fresh |-> FALSE]
      BY DEF Init
    <3>2. last.fresh = FALSE
      BY <3>1
    <3>3. cursor \in 1..(FileCount + 1) /\ edits \in 0..MaxEdits
      BY <3>1, FilesAssumption, BoundsAssumption
    <3> QED
      BY <3>1, <3>2, <3>3 DEF Phases
  <2> QED
    BY <1>1, <1>2, <2>1, <2>2, Zenon DEF SchemaTypes
<1>4. Begun /\ InMemory /\ Written /\ FreshInv
  BY DEF Init, Begun, InMemory, Written, FreshInv
<1> QED
  BY <1>3, <1>4 DEF SchemaInv

(* main begins: what is on disk is what the run began with. *)
LEMMA StartKeepsSchema == SchemaInv /\ Start => SchemaInv'
<1> SUFFICES ASSUME SchemaInv, Start PROVE SchemaInv'
  OBVIOUS
<1>1. /\ UNCHANGED <<sources, schema, cursor, edits>>
      /\ phase' = "scan" /\ fresh' = FALSE
      /\ last' = [sources |-> sources, schema |-> schema, fresh |-> fresh]
      /\ analyses' = [f \in Files |-> <<>>]
  BY DEF Start, disk
<1>2. SchemaTypes'
  <2>1. analyses' \in [Files -> Seq(Calls)]
    BY <1>1
  <2>2. phase' \in Phases
    BY <1>1 DEF Phases
  <2>3. last'.fresh \in BOOLEAN
    BY <1>1 DEF SchemaInv, SchemaTypes
  <2> QED
    BY <1>1, <2>1, <2>2, <2>3 DEF SchemaInv, SchemaTypes
<1>3. Begun' /\ InMemory' /\ Written'
  BY <1>1 DEF Begun, InMemory, Written
<1>4. FreshInv'
  <2>1. fresh => Current(schema, sources)
    BY DEF SchemaInv, FreshInv, Succeeds
  <2> QED
    BY <1>1, <2>1 DEF FreshInv
<1> QED
  BY <1>2, <1>3, <1>4 DEF SchemaInv

(* A worker touches neither the disk nor what main knows of it. *)
LEMMA WorkKeepsSchema == ASSUME NEW w \in Workers PROVE SchemaInv /\ Work(w) => SchemaInv'
<1> SUFFICES ASSUME SchemaInv, Work(w) PROVE SchemaInv'
  OBVIOUS
<1>1. UNCHANGED <<sources, schema, phase, mem, cursor, edits, fresh, last>>
  BY DEF Work, Fetch, Analyze, disk
<1>2. analyses' \in [Files -> Seq(Calls)]
  <2> HIDE DEF Calls
  <2>1. CASE Fetch(w)
    BY <2>1 DEF Fetch, SchemaInv, SchemaTypes
  <2>2. CASE Analyze(w)
    <3>1. job[w] \in Files /\ analyses' = [analyses EXCEPT ![job[w]] = sources[job[w]]]
      BY <2>2 DEF Analyze
    <3> QED
      BY <3>1 DEF SchemaInv, SchemaTypes
  <2> QED
    BY <2>1, <2>2 DEF Work
<1>3. SchemaTypes'
  BY <1>1, <1>2 DEF SchemaInv, SchemaTypes
<1>4. Begun' /\ InMemory' /\ Written' /\ FreshInv'
  BY <1>1 DEF SchemaInv, Begun, InMemory, Written, FreshInv
<1> QED
  BY <1>3, <1>4 DEF SchemaInv

(* The run fails, and has changed nothing, or goes on. *)
LEMMA CheckKeepsSchema == SchemaInv /\ Check => SchemaInv'
<1> SUFFICES ASSUME SchemaInv, Check PROVE SchemaInv'
  OBVIOUS
<1>1. /\ UNCHANGED <<sources, schema, analyses, mem, cursor, edits, last>>
      /\ phase = "scan"
      /\ \/ phase' = "idle" /\ fresh' = last.fresh
         \/ phase' = "assign" /\ fresh' = FALSE
  BY DEF Check, disk, pool, SchemaInv, SchemaTypes
<1>2. SchemaTypes'
  <2>1. phase' \in Phases /\ fresh' \in BOOLEAN
    BY <1>1 DEF Phases, SchemaInv, SchemaTypes
  <2> QED
    BY <1>1, <2>1 DEF SchemaInv, SchemaTypes
<1>3. Begun' /\ InMemory' /\ Written'
  BY <1>1 DEF SchemaInv, Begun, InMemory, Written
<1>4. FreshInv'
  <2>1. sources = last.sources /\ schema = last.schema
    BY <1>1 DEF SchemaInv, Begun
  <2>2. last.fresh => Current(schema, sources)
    BY <1>1 DEF SchemaInv, FreshInv
  <2>3. last.fresh => Succeeds(last.schema, last.sources, schema, sources)
    BY <2>1, <2>2, NothingChanges
  <2> QED
    BY <1>1, <2>3 DEF FreshInv
<1> QED
  BY <1>2, <1>3, <1>4 DEF SchemaInv

(* assign_ids makes of what the run began with what it will leave. *)
LEMMA AssignKeepsSchema == SchemaInv /\ PoolInv /\ Assign => SchemaInv'
<1> SUFFICES ASSUME SchemaInv, PoolInv, Assign PROVE SchemaInv'
  OBVIOUS
<1>1. /\ UNCHANGED <<sources, schema, analyses, edits, fresh, last>>
      /\ phase = "assign" /\ phase' = "rewrite" /\ cursor' = 1
      /\ mem' = Assigned(LoadSchema(schema), analyses)
  BY DEF Assign, disk, pool
<1>2. analyses = sources /\ sources = last.sources /\ schema = last.schema
  BY <1>1 DEF PoolInv, ScanComplete, SchemaInv, Begun
<1>3. GoodDocument(schema) /\ analyses \in [Files -> Seq(Calls)]
  BY DEF SchemaInv, SchemaTypes
<1>4. /\ mem'.files \in [Files -> Seq(Calls)]
      /\ GoodDocument(BuildSchema(mem'.schema))
      /\ Succeeds(last.schema, last.sources, BuildSchema(mem'.schema), mem'.files)
  BY <1>1, <1>2, <1>3, AssignSucceeds
<1>5. InMemory'
  BY <1>1, <1>4 DEF InMemory
<1>6. SchemaTypes'
  <2>1. phase' \in Phases /\ cursor' \in 1..(FileCount + 1)
    BY <1>1, FilesAssumption DEF Phases
  <2> QED
    BY <1>1, <2>1 DEF SchemaInv, SchemaTypes
<1>7. Begun' /\ FreshInv'
  BY <1>1 DEF SchemaInv, Begun, FreshInv
<1>8. Written'
  BY <1>1, FilesAssumption DEF Written, Files
<1> QED
  BY <1>5, <1>6, <1>7, <1>8 DEF SchemaInv

(* One more file is as it will be left; after the last one, all are. *)
LEMMA RewriteKeepsSchema == SchemaInv /\ Rewrite => SchemaInv'
<1> SUFFICES ASSUME SchemaInv, Rewrite PROVE SchemaInv'
  OBVIOUS
<1> HIDE DEF Calls
<1>1. /\ UNCHANGED <<schema, analyses, mem, edits, fresh, last>>
      /\ phase = "rewrite" /\ cursor' = cursor + 1
      /\ phase' = IF cursor = FileCount THEN "save" ELSE "rewrite"
      /\ sources' = [sources EXCEPT ![cursor] = mem.files[cursor]]
  BY DEF Rewrite, pool
<1>2. cursor \in Files /\ \A f \in 1..(cursor - 1) : sources[f] = mem.files[f]
  BY <1>1 DEF SchemaInv, Written
<1>3. /\ sources \in [Files -> Seq(Calls)] /\ mem.files \in [Files -> Seq(Calls)]
      /\ phase' \in Phases
  BY <1>1 DEF SchemaInv, SchemaTypes, InMemory, Phases
<1>4. sources' \in [Files -> Seq(Calls)]
  BY <1>1, <1>2, <1>3
<1>5. SchemaTypes'
  <2>1. cursor' \in 1..(FileCount + 1)
    BY <1>1, <1>2, FilesAssumption DEF Files
  <2> QED
    BY <1>1, <1>3, <1>4, <2>1 DEF SchemaInv, SchemaTypes
<1>6. Begun' /\ InMemory' /\ FreshInv'
  BY <1>1 DEF SchemaInv, Begun, InMemory, FreshInv
<1>7. ASSUME NEW f \in 1..cursor PROVE sources'[f] = mem.files[f]
  <2>1. f \in Files
    BY <1>2, FilesAssumption DEF Files
  <2>2. CASE f = cursor
    BY <1>1, <1>3, <2>1, <2>2
  <2>3. CASE f # cursor
    <3>1. f \in 1..(cursor - 1)
      BY <1>2, <2>3, FilesAssumption DEF Files
    <3> QED
      BY <1>1, <1>2, <1>3, <2>1, <2>3, <3>1
  <2> QED
    BY <2>2, <2>3
<1>8. Written'
  <2>1. CASE cursor = FileCount
    <3>1. \A f \in Files : sources'[f] = mem.files[f]
      BY <1>7, <2>1 DEF Files
    <3>2. sources' = mem.files
      BY <1>3, <1>4, <3>1
    <3> QED
      BY <1>1, <2>1, <3>2 DEF Written
  <2>2. CASE cursor # FileCount
    <3>1. cursor + 1 \in Files /\ (cursor + 1) - 1 = cursor
      BY <1>2, <2>2, FilesAssumption DEF Files
    <3> QED
      BY <1>1, <1>7, <2>2, <3>1 DEF Written
  <2> QED
    BY <2>1, <2>2
<1> QED
  BY <1>5, <1>6, <1>8 DEF SchemaInv

(* The schema is saved, and with it the run is complete. *)
LEMMA SaveKeepsSchema == SchemaInv /\ Save => SchemaInv'
<1> SUFFICES ASSUME SchemaInv, Save PROVE SchemaInv'
  OBVIOUS
<1>1. /\ UNCHANGED <<sources, analyses, mem, cursor, edits, last>>
      /\ phase = "save" /\ phase' = "idle" /\ fresh' = TRUE
      /\ schema' = BuildSchema(mem.schema)
  BY DEF Save, pool
<1>2. /\ sources = mem.files /\ GoodDocument(BuildSchema(mem.schema))
      /\ Succeeds(last.schema, last.sources, BuildSchema(mem.schema), mem.files)
  BY <1>1 DEF SchemaInv, Written, InMemory
<1>3. SchemaTypes'
  BY <1>1, <1>2 DEF SchemaInv, SchemaTypes, Phases
<1>4. Begun' /\ InMemory' /\ Written'
  BY <1>1 DEF Begun, InMemory, Written
<1>5. FreshInv'
  BY <1>1, <1>2 DEF FreshInv
<1> QED
  BY <1>3, <1>4, <1>5 DEF SchemaInv

(* A run that ends anywhere else leaves files of calls and a document. *)
LEMMA CrashKeepsSchema == SchemaInv /\ (Crash \/ CrashInWrite) => SchemaInv'
<1> SUFFICES ASSUME SchemaInv, Crash \/ CrashInWrite PROVE SchemaInv'
  OBVIOUS
<1> HIDE DEF Calls
<1>1. /\ UNCHANGED <<analyses, mem, cursor, edits, fresh, last>>
      /\ phase # "idle" /\ phase' = "idle"
      /\ \/ UNCHANGED disk
         \/ /\ phase = "rewrite" /\ UNCHANGED schema
            /\ \E left \in CutFiles(mem.files[cursor]) :
                  sources' = [sources EXCEPT ![cursor] = left]
         \/ schema' = NoDocument /\ UNCHANGED sources
  BY DEF Crash, CrashInWrite, pool
<1>2. sources \in [Files -> Seq(Calls)] /\ GoodDocument(schema) /\ ~fresh
  BY <1>1 DEF SchemaInv, SchemaTypes, FreshInv
<1>3. sources' \in [Files -> Seq(Calls)] /\ GoodDocument(schema')
  <2>1. CASE UNCHANGED disk
    BY <1>2, <2>1 DEF disk
  <2>2. ASSUME phase = "rewrite", UNCHANGED schema,
               NEW left \in CutFiles(mem.files[cursor]),
               sources' = [sources EXCEPT ![cursor] = left]
        PROVE  sources' \in [Files -> Seq(Calls)] /\ GoodDocument(schema')
    <3>1. cursor \in Files /\ mem.files \in [Files -> Seq(Calls)]
      BY <2>2 DEF SchemaInv, Written, InMemory
    <3>2. mem.files[cursor] \in Seq(Calls)
      BY <3>1
    <3>3. left \in Seq(Calls)
      BY <3>2, CutFilesTypes
    <3> QED
      BY <1>2, <2>2, <3>1, <3>3
  <2>3. CASE schema' = NoDocument /\ UNCHANGED sources
    BY <1>2, <2>3, EmptyDocument
  <2> QED
    BY <1>1, <2>1, <2>2, <2>3
<1>4. SchemaTypes'
  BY <1>1, <1>3 DEF SchemaInv, SchemaTypes, Phases
<1>5. Begun' /\ InMemory' /\ Written' /\ FreshInv'
  BY <1>1, <1>2 DEF Begun, InMemory, Written, FreshInv
<1> QED
  BY <1>4, <1>5 DEF SchemaInv

(* The programmer writes calls. *)
LEMMA EditKeepsSchema == SchemaInv /\ Edit => SchemaInv'
<1> SUFFICES ASSUME SchemaInv, Edit PROVE SchemaInv'
  OBVIOUS
<1> HIDE DEF Calls
<1>1. /\ UNCHANGED <<schema, analyses, phase, mem, cursor, last>>
      /\ phase = "idle" /\ fresh' = FALSE /\ edits < MaxEdits /\ edits' = edits + 1
      /\ \E f \in Files : \E calls \in EditedFile(sources[f]) :
            sources' = [sources EXCEPT ![f] = calls]
  BY DEF Edit, pool
<1>2. PICK f \in Files : \E calls \in EditedFile(sources[f]) :
            sources' = [sources EXCEPT ![f] = calls]
  BY <1>1
<1>3. PICK calls \in EditedFile(sources[f]) : sources' = [sources EXCEPT ![f] = calls]
  BY <1>2
<1>4. sources \in [Files -> Seq(Calls)] /\ sources[f] \in Seq(Calls)
  BY DEF SchemaInv, SchemaTypes
<1>5. calls \in Seq(Calls)
  BY <1>4, EditedFileTypes
<1>6. sources' \in [Files -> Seq(Calls)]
  BY <1>3, <1>4, <1>5
<1>7. edits' \in 0..MaxEdits
  BY <1>1, BoundsAssumption DEF SchemaInv, SchemaTypes
<1>8. SchemaTypes'
  BY <1>1, <1>6, <1>7 DEF SchemaInv, SchemaTypes
<1>9. Begun' /\ InMemory' /\ Written' /\ FreshInv'
  BY <1>1 DEF Begun, InMemory, Written, FreshInv
<1> QED
  BY <1>8, <1>9 DEF SchemaInv

(* Every step keeps them. *)
LEMMA SchemaStep == PoolInv /\ SchemaInv /\ [Next]_vars => SchemaInv'
<1> SUFFICES ASSUME PoolInv, SchemaInv, [Next]_vars PROVE SchemaInv'
  OBVIOUS
<1>1. CASE Main
  BY <1>1, CheckKeepsSchema, AssignKeepsSchema, RewriteKeepsSchema, SaveKeepsSchema DEF Main
<1>2. CASE UNCHANGED vars
  <2>1. UNCHANGED <<sources, schema, phase, analyses, mem, cursor, edits, fresh, last>>
    BY <1>2 DEF vars, disk, pool
  <2>2. SchemaTypes'
    BY <2>1 DEF SchemaInv, SchemaTypes
  <2>3. Begun' /\ InMemory' /\ Written' /\ FreshInv'
    BY <2>1 DEF SchemaInv, Begun, InMemory, Written, FreshInv
  <2> QED
    BY <2>2, <2>3 DEF SchemaInv
<1> QED
  BY <1>1, <1>2, StartKeepsSchema, WorkKeepsSchema, CrashKeepsSchema, EditKeepsSchema DEF Next

(* So they hold in every state. *)
LEMMA SchemaCorrect == Spec => []SchemaInv
<1> QED
  BY SchemaInit, SchemaStep, PoolCorrect, PTL DEF Spec

-----------------------------------------------------------------------------
(* What a completed run leaves *)

(* The variables have their types. *)
THEOREM TypesCorrect == Spec => []TypeOK
<1>1. PoolInv /\ CounterBounded /\ SchemaInv => TypeOK
  BY DEF PoolInv, PoolTypes, CounterBounded, SchemaInv, SchemaTypes, TypeOK
<1> QED
  BY <1>1, PoolCorrect, CounterStaysBounded, SchemaCorrect, PTL

(* After every completed run, whatever was edited, copied and deleted since*)
(* the one before and however often one was killed, the schema describes   *)
(* the sources and nothing else (architecture.md:16).                      *)
THEOREM SchemaStaysInSync == Spec => []SchemaInSync
<1>1. SchemaInv => SchemaInSync
  BY DEF SchemaInv, FreshInv, Succeeds, Current, SchemaInSync
<1> QED
  BY <1>1, SchemaCorrect, PTL

(* No event id and no tag id is given twice. *)
THEOREM IdsStayDistinct == Spec => []IdsDistinct
<1>1. SchemaInv => IdsDistinct
  BY DEF SchemaInv, FreshInv, Succeeds, Current, IdsDistinct
<1> QED
  BY <1>1, SchemaCorrect, PTL

(* A run keeps the tags and events that were there (main.cpp:76). *)
THEOREM IdsStayStable == Spec => []IdsStable
<1>1. SchemaInv => IdsStable
  BY DEF SchemaInv, FreshInv, Succeeds, IdsStable
<1> QED
  BY <1>1, SchemaCorrect, PTL

(* The event id of a call that is gone rests for a run at least. *)
THEOREM RetiredIdsStayAtRest == Spec => []RetiredIdsRest
<1>1. SchemaInv => RetiredIdsRest
  BY DEF SchemaInv, FreshInv, Succeeds, RetiredIdsRest
<1> QED
  BY <1>1, SchemaCorrect, PTL

-----------------------------------------------------------------------------
(* A run after one that was killed *)

(* What the interrupted run would have written is made of the schema on    *)
(* disk and of the sources it began with, of which the first n are         *)
(* rewritten.                                                              *)
Resumable(n) == \E old \in [Files -> Seq(Calls)] :
    /\ goal = Assigned(LoadSchema(schema), old)
    /\ PartlyRewritten(sources, n, goal.files, old)

(* It is known how far the interrupted run came; the run that follows has  *)
(* the same in memory, and rewrites no file that is beyond the next one.   *)
RerunInv ==
    /\ goal # Nothing => \E n \in 0..FileCount : Resumable(n)
    /\ phase = "rewrite" => \E n \in 0..FileCount : Resumable(n) /\ cursor <= n + 1
    /\ phase \in {"rewrite", "save"} => mem = goal

(* What is rewritten, file by file. *)
LEMMA PartlyByFile ==
    ASSUME NEW old \in [Files -> Seq(Calls)], NEW new,
           NEW mixed \in [Files -> Seq(Calls)], NEW n \in 0..FileCount,
           \A f \in Files : mixed[f] = IF f <= n THEN new[f] ELSE old[f]
    PROVE  PartlyRewritten(mixed, n, new, old)
<1>1. Len(old) = FileCount /\ Len(mixed) = FileCount
  BY FilesInOrder
<1> QED
  BY <1>1 DEF PartlyRewritten, Files

(* assign_ids makes of these sources what it has made of the old ones. *)
LEMMA AssignResumes ==
    ASSUME GoodDocument(schema), NEW old \in [Files -> Seq(Calls)],
           NEW n \in 0..FileCount, NEW mixed \in [Files -> Seq(Calls)],
           NEW out, out = Assigned(LoadSchema(schema), old),
           PartlyRewritten(mixed, n, out.files, old)
    PROVE  Assigned(LoadSchema(schema), mixed) = out
<1>1. /\ old \in Seq(Seq(CallSet(WrittenChains))) /\ Len(old) = FileCount
      /\ mixed \in Seq(Seq(CallSet(WrittenChains)))
  BY FilesInOrder
<1>2. \A ch \in WrittenChains : Len(ch) \in Nat /\ DOMAIN ch = 1..Len(ch)
  BY PrefixesAreChains
<1>3. n \in 0..Len(old)
  BY <1>1
<1> QED
  BY <1>1, <1>2, <1>3, AssignedAgain

(* load_schema and assign_ids: the first run that comes so far says what   *)
(* will be written, and a later one agrees.                                *)
LEMMA AssignResumed == SchemaInv /\ PoolInv /\ RerunInv /\ Assign => RerunInv'
<1> SUFFICES ASSUME SchemaInv, PoolInv, RerunInv, Assign PROVE RerunInv'
  OBVIOUS
<1> HIDE DEF Calls
<1>1. /\ UNCHANGED <<sources, schema>>
      /\ phase = "assign" /\ phase' = "rewrite" /\ cursor' = 1
      /\ mem' = Assigned(LoadSchema(schema), analyses)
      /\ goal' = IF goal = Nothing THEN mem' ELSE goal
  BY DEF Assign, disk, pool
<1>2. analyses = sources
  BY <1>1 DEF PoolInv, ScanComplete
<1>3. GoodDocument(schema) /\ sources \in [Files -> Seq(Calls)]
  BY DEF SchemaInv, SchemaTypes
<1>4. CASE goal = Nothing
  <2>1. goal' = mem' /\ goal' = Assigned(LoadSchema(schema), sources)
    BY <1>1, <1>2, <1>4
  <2>2. \A f \in Files : sources[f] = IF f <= 0 THEN goal'.files[f] ELSE sources[f]
    BY DEF Files
  <2>3. 0 \in 0..FileCount
    BY FilesAssumption
  <2>4. PartlyRewritten(sources, 0, goal'.files, sources)
    BY <1>3, <2>2, <2>3, PartlyByFile
  <2>5. Resumable(0)'
    BY <1>1, <1>3, <2>1, <2>4 DEF Resumable
  <2> QED
    BY <1>1, <2>1, <2>3, <2>5 DEF RerunInv
<1>5. CASE goal # Nothing
  <2>1. PICK n \in 0..FileCount : Resumable(n)
    BY <1>5 DEF RerunInv
  <2>2. PICK old \in [Files -> Seq(Calls)] :
          /\ goal = Assigned(LoadSchema(schema), old)
          /\ PartlyRewritten(sources, n, goal.files, old)
    BY <2>1 DEF Resumable
  <2>3. Assigned(LoadSchema(schema), sources) = goal
    BY <1>3, <2>2, AssignResumes
  <2>4. goal' = goal /\ mem' = goal
    BY <1>1, <1>2, <1>5, <2>3
  <2>5. Resumable(n)'
    BY <1>1, <2>2, <2>4 DEF Resumable
  <2>6. cursor' <= n + 1
    BY <1>1
  <2> QED
    BY <1>1, <2>4, <2>5, <2>6 DEF RerunInv
<1> QED
  BY <1>4, <1>5

(* One more file is rewritten, or one that was already is so again. *)
LEMMA RewriteResumed == SchemaInv /\ RerunInv /\ Rewrite => RerunInv'
<1> SUFFICES ASSUME SchemaInv, RerunInv, Rewrite PROVE RerunInv'
  OBVIOUS
<1> HIDE DEF Calls
<1>1. /\ UNCHANGED <<schema, mem, goal>>
      /\ phase = "rewrite" /\ cursor' = cursor + 1 /\ phase' \in {"rewrite", "save"}
      /\ sources' = [sources EXCEPT ![cursor] = mem.files[cursor]]
  BY DEF Rewrite, pool
<1>2. cursor \in 1..FileCount
  BY <1>1 DEF SchemaInv, Written, Files
<1>3. mem = goal /\ sources \in [Files -> Seq(Calls)] /\ mem.files \in [Files -> Seq(Calls)]
  BY <1>1 DEF RerunInv, SchemaInv, SchemaTypes, InMemory
<1>4. /\ sources' \in [Files -> Seq(Calls)]
      /\ \A f \in Files : sources'[f] = IF f = cursor THEN goal.files[f] ELSE sources[f]
  BY <1>1, <1>2, <1>3 DEF Files
<1>5. PICK n \in 0..FileCount : Resumable(n) /\ cursor <= n + 1
  BY <1>1 DEF RerunInv
<1>6. PICK old \in [Files -> Seq(Calls)] :
        /\ goal = Assigned(LoadSchema(schema), old)
        /\ PartlyRewritten(sources, n, goal.files, old)
  BY <1>5 DEF Resumable
<1>7. \A f \in Files : sources[f] = IF f <= n THEN goal.files[f] ELSE old[f]
  <2>1. Len(old) = FileCount
    BY FilesInOrder
  <2> QED
    BY <1>6, <2>1 DEF PartlyRewritten, Files
<1>8. PICK m \in 0..FileCount : cursor' <= m + 1 /\ m = IF cursor = n + 1 THEN n + 1 ELSE n
  BY <1>1, <1>2, <1>5, FilesAssumption
<1>9. ASSUME NEW f \in Files PROVE sources'[f] = IF f <= m THEN goal.files[f] ELSE old[f]
  <2>1. f = cursor => f <= m
    BY <1>2, <1>5, <1>8
  <2>2. f # cursor => (f <= m <=> f <= n)
    BY <1>2, <1>8 DEF Files
  <2> QED
    BY <1>4, <1>7, <2>1, <2>2
<1>10. PartlyRewritten(sources', m, goal.files, old)
  BY <1>4, <1>8, <1>9, PartlyByFile
<1>11. Resumable(m)'
  BY <1>1, <1>6, <1>10 DEF Resumable
<1> QED
  BY <1>1, <1>3, <1>8, <1>11 DEF RerunInv

(* A run that is saved is not to be resumed, nor is one after an edit or a *)
(* torn write; the other steps leave what is on disk and what it is to be. *)
LEMMA OthersResumed ==
    ASSUME RerunInv,
           \/ goal' = Nothing /\ phase' = "idle"
           \/ /\ UNCHANGED <<sources, schema, goal>>
              /\ \/ phase' \notin {"rewrite", "save"}
                 \/ UNCHANGED <<phase, mem, cursor>>
    PROVE  RerunInv'
<1>1. CASE goal' = Nothing /\ phase' = "idle"
  BY <1>1 DEF RerunInv
<1>2. CASE UNCHANGED <<sources, schema, goal>>
  <2>1. \A n : Resumable(n) <=> Resumable(n)'
    BY <1>2 DEF Resumable
  <2>2. CASE phase' \notin {"rewrite", "save"}
    BY <1>2, <2>1, <2>2 DEF RerunInv
  <2>3. CASE UNCHANGED <<phase, mem, cursor>>
    BY <1>2, <2>1, <2>3 DEF RerunInv
  <2>4. CASE goal' = Nothing /\ phase' = "idle"
    BY <2>4 DEF RerunInv
  <2> QED
    BY <2>2, <2>3, <2>4
<1> QED
  BY <1>1, <1>2

(* Every step keeps it. *)
LEMMA RerunStep == SchemaInv /\ PoolInv /\ RerunInv /\ [Next]_vars => RerunInv'
<1> SUFFICES ASSUME SchemaInv, PoolInv, RerunInv, [Next]_vars PROVE RerunInv'
  OBVIOUS
<1>1. CASE Start
  BY <1>1, OthersResumed DEF Start, disk
<1>2. ASSUME NEW w \in Workers, Work(w) PROVE RerunInv'
  BY <1>2, OthersResumed DEF Work, Fetch, Analyze, disk
<1>3. CASE Check
  BY <1>3, OthersResumed DEF Check, disk
<1>4. CASE Save
  BY <1>4, OthersResumed DEF Save
<1>5. CASE Crash
  BY <1>5, OthersResumed DEF Crash, disk
<1>6. CASE CrashInWrite
  BY <1>6, OthersResumed DEF CrashInWrite
<1>7. CASE Edit
  BY <1>7, OthersResumed DEF Edit
<1>8. CASE UNCHANGED vars
  BY <1>8, OthersResumed DEF vars, disk
<1> QED
  BY <1>1, <1>2, <1>3, <1>4, <1>5, <1>6, <1>7, <1>8, AssignResumed, RewriteResumed
  DEF Next, Main

(* A run that follows one killed between two writes, however far that one  *)
(* came and however often it happened, ends with the ids that one would    *)
(* have given.                                                             *)
THEOREM RerunsConverge == Spec => RerunConverges
<1>1. Init => RerunInv
  BY DEF Init, RerunInv
<1>2. Spec => []RerunInv
  BY <1>1, RerunStep, SchemaCorrect, PoolCorrect, PTL DEF Spec
<1>3. ASSUME SchemaInv, RerunInv, [Next]_vars, phase = "save", fresh', vars' # vars
      PROVE  goal.files = sources' /\ BuildSchema(goal.schema) = schema'
  <2>1. mem = goal /\ sources = mem.files /\ ~fresh
    BY <1>3 DEF SchemaInv, Written, FreshInv, RerunInv
  <2>2. Save
    BY <1>3, <2>1 DEF Next, Main, Start, Work, Fetch, Analyze, Check, Assign, Rewrite,
                      Crash, CrashInWrite, Edit
  <2> QED
    BY <2>1, <2>2 DEF Save
<1>4. SchemaInv /\ RerunInv /\ [Next]_vars =>
        [(phase = "save" /\ fresh') =>
            goal.files = sources' /\ BuildSchema(goal.schema) = schema']_vars
  BY <1>3
<1> QED
  BY <1>2, <1>4, SchemaCorrect, PTL DEF Spec, RerunConverges
=============================================================================
