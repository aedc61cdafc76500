------------------------------ MODULE Rewriter ------------------------------
(***************************************************************************)
(* assign_ids of the preprocessor (preproc/rewriter.cpp), as a function    *)
(* from the loaded schema and the analysed files to the files and schema   *)
(* it leaves.                                                              *)
(*                                                                         *)
(* A file is the sequence of its calls, a call what parse_log_call makes   *)
(* of it: the ids between the braces and the chain.  A schema has the three*)
(* maps of schema.hpp; the document on disk (preproc/schema.cpp) has the   *)
(* names by id, and the field types.                                       *)
(***************************************************************************)
EXTENDS Integers, FiniteSets, SequencesExt

CONSTANT NoName  \* the tag of an argument that is not a string literal

(* A document that is missing or cannot be parsed counts as an empty one. *)
NoDocument == [tags |-> <<>>, events |-> <<>>]

BuildSchema(schema) == [tags |-> schema.tag_names, events |-> schema.event_fields]

(* load_schema: tag_ids is read off the names. *)
LoadSchema(doc) ==
    [tag_ids |-> [n \in Range(doc.tags) |-> CHOOSE id \in DOMAIN doc.tags : doc.tags[id] = n],
     tag_names |-> doc.tags,
     event_fields |-> doc.events]

(* The map with one more entry, or another value for the key it has. *)
Entered(map, key, value) ==
    [x \in DOMAIN map \cup {key} |-> IF x = key THEN value ELSE map[x]]

AllCalls(files) == UNION {{files[f][k] : k \in DOMAIN files[f]} : f \in DOMAIN files}
EventIds(files) == {c.ids[1] : c \in {d \in AllCalls(files) : d.ids # <<>>}}
TagIds(files) == UNION {{c.ids[k] : k \in 2..Len(c.ids)} : c \in AllCalls(files)}

-----------------------------------------------------------------------------
(* assign_ids *)

(* alloc_event and alloc_tag: every id below next_* is used, so the search *)
(* from next_* finds the least unused id.                                  *)
LeastUnused(used) ==
    CHOOSE n \in 0..Cardinality(used) : n \notin used /\ 0..(n - 1) \subseteq used

(* The schema's field types: the level starter and cs_val add none. *)
FieldMethods == {"i", "f", "b", "s", "cs"}
Fields(chain) ==
    FlattenSeq([k \in DOMAIN chain |->
        IF chain[k].method \in FieldMethods THEN <<chain[k].method>> ELSE <<>>])

(* One name of a chain: a known one keeps its id, an argument that is not  *)
(* a literal gets an id that is entered nowhere.                           *)
AssignTag(s, c) ==
    LET known == c.tag \in DOMAIN s.tag_ids
        id == IF known THEN s.tag_ids[c.tag] ELSE LeastUnused(s.usedTags)
        new == c.tag # NoName /\ ~known
    IN  [s EXCEPT !.tag_ids = IF new THEN Entered(@, c.tag, id) ELSE @,
                  !.tag_names = IF new THEN Entered(@, id, c.tag) ELSE @,
                  !.usedTags = @ \cup {id},
                  !.ids = Append(@, id)]

(* The loop's state after one more call. *)
WithCall(s, call, id) ==
    LET named == FoldLeft(AssignTag, [s EXCEPT !.ids = <<id>>], call.chain)
    IN  [named EXCEPT !.claimed = @ \cup {id},
                      !.usedEvents = @ \cup {id},
                      !.event_fields = Entered(@, id, Fields(call.chain)),
                      !.calls = Append(@, [call EXCEPT !.ids = named.ids])]

(* Mutant of AssignCall: an id that came with a copy is kept. *)
AssignCallUnclaimed(s, call) ==
    WithCall(s, call, IF call.ids # <<>> THEN call.ids[1] ELSE LeastUnused(s.usedEvents))

(* Mutant of AssignCall: the ids in the sources are not looked at. *)
AssignCallAnew(s, call) == WithCall(s, call, LeastUnused(s.usedEvents))

(* A call keeps its event id unless an earlier call of the scan has it. *)
AssignCall(s, call) ==
    WithCall(s, call, IF call.ids # <<>> /\ call.ids[1] \notin s.claimed
                      THEN call.ids[1]
                      ELSE LeastUnused(s.usedEvents))

AssignFile(s, calls) ==
    LET after == FoldLeft(AssignCall, [s EXCEPT !.calls = <<>>], calls)
    IN  [after EXCEPT !.files = Append(@, after.calls)]

Unassigned(loaded, files) ==
    [tag_ids |-> loaded.tag_ids, tag_names |-> loaded.tag_names, event_fields |-> <<>>,
     usedTags |-> Range(loaded.tag_ids),
     usedEvents |-> DOMAIN loaded.event_fields \cup EventIds(files),
     claimed |-> {}, files |-> <<>>, calls |-> <<>>, ids |-> <<>>]

(* Mutant of Cleaned: the names of stale tags stay in the other map. *)
CleanedIdsOnly(s) ==
    LET live == {n \in DOMAIN s.tag_ids : s.tag_ids[n] \in TagIds(s.files)}
    IN  [files |-> s.files,
         schema |-> [tag_ids |-> Restrict(s.tag_ids, live), tag_names |-> s.tag_names,
                     event_fields |-> s.event_fields]]

(* The analyses and the schema, less the tags no call uses any more. *)
Cleaned(s) ==
    LET live == {n \in DOMAIN s.tag_ids : s.tag_ids[n] \in TagIds(s.files)}
        dead == {s.tag_ids[n] : n \in DOMAIN s.tag_ids \ live}
    IN  [files |-> s.files,
         schema |-> [tag_ids |-> Restrict(s.tag_ids, live),
                     tag_names |-> Restrict(s.tag_names, DOMAIN s.tag_names \ dead),
                     event_fields |-> s.event_fields]]

(* Mutants of Assigned: the ids of deleted calls, or the tags of the       *)
(* schema, are not looked at.                                              *)
AssignedForgetful(loaded, files) == Cleaned(FoldLeft(AssignFile,
    Unassigned([loaded EXCEPT !.event_fields = <<>>], files), files))
AssignedAfresh(loaded, files) == Cleaned(FoldLeft(AssignFile,
    Unassigned([loaded EXCEPT !.tag_ids = <<>>, !.tag_names = <<>>], files), files))

Assigned(loaded, files) ==
    Cleaned(FoldLeft(AssignFile, Unassigned(loaded, files), files))

-----------------------------------------------------------------------------
(* What a run promises of the schema and the sources it leaves *)

(* Where a call is in the sources, and the order in which they are scanned.*)
Places(files) == UNION {{<<f, k>> : k \in DOMAIN files[f]} : f \in DOMAIN files}
Placed(files) == [p \in Places(files) |-> files[p[1]][p[2]]]
Before(p, q) == p[1] < q[1] \/ (p[1] = q[1] /\ p[2] < q[2])

(* The schema describes the sources, and nothing else: each call's event   *)
(* has the fields of its chain, each literal name its tag, and no id of an *)
(* argument that is not a literal is some name's.                          *)
InSync(doc, files) ==
    /\ DOMAIN doc.events = EventIds(files)
    /\ DOMAIN doc.tags \subseteq TagIds(files)
    /\ \A c \in AllCalls(files) :
        /\ Len(c.ids) = 1 + Len(c.chain)
        /\ doc.events[c.ids[1]] = Fields(c.chain)
        /\ \A k \in DOMAIN c.chain :
             IF c.chain[k].tag = NoName
             THEN c.ids[k + 1] \notin DOMAIN doc.tags
             ELSE c.ids[k + 1] \in DOMAIN doc.tags
                  /\ doc.tags[c.ids[k + 1]] = c.chain[k].tag

(* No two calls share an event id and no two names a tag id. *)
Distinct(doc, files) ==
    /\ \A p, q \in Places(files) : Placed(files)[p].ids[1] = Placed(files)[q].ids[1] => p = q
    /\ IsInjective(doc.tags)

(* Of old sources: the call at p has an id that none before it has. *)
FirstWithId(files, p) ==
    /\ Placed(files)[p].ids # <<>>
    /\ \A q \in Places(files) : Before(q, p) =>
        Placed(files)[q].ids = <<>> \/ Placed(files)[q].ids[1] # Placed(files)[p].ids[1]

(* From one schema and its sources to the next: a name that stays in use   *)
(* keeps its tag, the first call with an id keeps that.                    *)
Stable(oldDoc, oldFiles, doc, files) ==
    /\ \A id \in DOMAIN oldDoc.tags : oldDoc.tags[id] \in Range(doc.tags) =>
        id \in DOMAIN doc.tags /\ doc.tags[id] = oldDoc.tags[id]
    /\ \A p \in Places(oldFiles) : FirstWithId(oldFiles, p) =>
        Placed(files)[p].ids[1] = Placed(oldFiles)[p].ids[1]
=============================================================================
