--------------------------- MODULE RewriterProofs ---------------------------
(***************************************************************************)
(* Proofs about assign_ids as Rewriter has it, for every schema and all    *)
(* sources: what its three nested loops, over the files, the calls of a    *)
(* file and the chain of a call, keep, and what that says of the result.   *)
(***************************************************************************)
EXTENDS Rewriter, SequenceLemmas, FiniteSetTheorems

-----------------------------------------------------------------------------
(* The ids that are drawn *)

(* What the loops work on. *)
IsLoopState(s) ==
    DOMAIN s = {"tag_ids", "tag_names", "event_fields", "usedTags", "usedEvents",
                "claimed", "files", "calls", "ids"}

(* tag_ids and tag_names are inverses of each other; what they have is     *)
(* used.                                                                   *)
TagsMatch(s) ==
    /\ IsFiniteSet(s.usedTags) /\ s.usedTags \subseteq Nat
    /\ DOMAIN s.tag_names \subseteq s.usedTags
    /\ \A n \in DOMAIN s.tag_ids :
        s.tag_ids[n] \in DOMAIN s.tag_names /\ s.tag_names[s.tag_ids[n]] = n
    /\ \A id \in DOMAIN s.tag_names :
        s.tag_names[id] \in DOMAIN s.tag_ids /\ s.tag_ids[s.tag_names[id]] = id
    /\ NoName \notin DOMAIN s.tag_ids

(* From one state to a later one: names keep their tags, and a used id     *)
(* that was no tag of a name does not become one.                          *)
TagsGrow(s, t) ==
    /\ s.usedTags \subseteq t.usedTags
    /\ \A id \in DOMAIN s.tag_names :
        id \in DOMAIN t.tag_names /\ t.tag_names[id] = s.tag_names[id]
    /\ \A id \in DOMAIN t.tag_names : id \in s.usedTags => id \in DOMAIN s.tag_names

(* The id stands for the name, or for an argument that is not a literal    *)
(* and for nothing else.                                                   *)
StandsFor(s, id, name) ==
    IF name = NoName
    THEN id \in s.usedTags /\ id \notin DOMAIN s.tag_names
    ELSE id \in DOMAIN s.tag_names /\ s.tag_names[id] = name

SameButTags(s, t) ==
    /\ t.event_fields = s.event_fields /\ t.usedEvents = s.usedEvents
    /\ t.claimed = s.claimed /\ t.files = s.files /\ t.calls = s.calls

(* The loop over a chain has taken k of its links. *)
TagsDone(c, k, s) ==
    /\ IsLoopState(s) /\ TagsMatch(s)
    /\ TagsGrow(c.start, s) /\ SameButTags(c.start, s)
    /\ s.ids \in Seq(Int) /\ Len(s.ids) = k + 1 /\ s.ids[1] = c.start.ids[1]
    /\ \A j \in 1..k : StandsFor(s, s.ids[j + 1], c.chain[j].tag)

InChain == INSTANCE FoldInduction WITH Op <- AssignTag, Holds <- TagsDone

(* The search for an unused id ends, whatever is used. *)
LEMMA UnusedFound ==
    ASSUME NEW used, IsFiniteSet(used)
    PROVE  LeastUnused(used) \in Nat /\ LeastUnused(used) \notin used
<1> DEFINE card == Cardinality(used)
           free == {n \in Nat : n \notin used}
<1>1. card \in Nat
  BY FS_CardinalityType
<1>2. PICK m \in 0..card : m \notin used
  <2> SUFFICES ASSUME 0..card \subseteq used PROVE FALSE
    OBVIOUS
  <2>1. Cardinality(0..card) = card + 1
    BY <1>1, FS_Interval
  <2>2. Cardinality(0..card) <= card
    BY FS_Subset
  <2> QED
    BY <1>1, <2>1, <2>2
<1>3. free \in SUBSET Nat /\ free # {}
  BY <1>1, <1>2
<1>4. PICK n \in free : \A k \in free : n <= k
  BY <1>3, LeastNumber
<1>5. n \in 0..card /\ n \notin used
  BY <1>1, <1>2, <1>4
<1>6. 0..(n - 1) \subseteq used
  BY <1>4
<1>7. \E i \in 0..card : i \notin used /\ 0..(i - 1) \subseteq used
  BY <1>5, <1>6
<1> HIDE DEF card
<1>8. LeastUnused(used) \in 0..card /\ LeastUnused(used) \notin used
  BY <1>7 DEF LeastUnused, card
<1> QED
  BY <1>1, <1>8

(* What an id stands for does not change. *)
LEMMA StandsForEver ==
    ASSUME NEW s, NEW t, TagsGrow(s, t), NEW id, NEW name, StandsFor(s, id, name)
    PROVE  StandsFor(t, id, name)
BY DEF TagsGrow, StandsFor

(* Growth adds up. *)
LEMMA GrowthAddsUp ==
    ASSUME NEW r, NEW s, NEW t, TagsGrow(r, s), TagsGrow(s, t)
    PROVE  TagsGrow(r, t)
BY DEF TagsGrow

(* The fields of the state after one name. *)
LEMMA AssignTagFields ==
    ASSUME NEW s, NEW c, IsLoopState(s)
    PROVE  LET known == c.tag \in DOMAIN s.tag_ids
               id == IF known THEN s.tag_ids[c.tag] ELSE LeastUnused(s.usedTags)
               new == c.tag # NoName /\ ~known
               t == AssignTag(s, c)
           IN  /\ IsLoopState(t) /\ SameButTags(s, t)
               /\ t.tag_ids = IF new THEN Entered(s.tag_ids, c.tag, id) ELSE s.tag_ids
               /\ t.tag_names = IF new THEN Entered(s.tag_names, id, c.tag) ELSE s.tag_names
               /\ t.usedTags = s.usedTags \cup {id}
               /\ t.ids = Append(s.ids, id)
BY DEF IsLoopState, AssignTag, SameButTags

(* One name gets the id that stands for it; the maps stay inverses.        *)
LEMMA AssignTagStep ==
    ASSUME NEW s, NEW c, IsLoopState(s), TagsMatch(s), NEW t, t = AssignTag(s, c)
    PROVE  /\ IsLoopState(t) /\ TagsMatch(t) /\ TagsGrow(s, t) /\ SameButTags(s, t)
           /\ \E id : id \in t.usedTags /\ t.ids = Append(s.ids, id) /\ StandsFor(t, id, c.tag)
<1> DEFINE known == c.tag \in DOMAIN s.tag_ids
           id == IF known THEN s.tag_ids[c.tag] ELSE LeastUnused(s.usedTags)
           new == c.tag # NoName /\ ~known
<1>1. /\ IsLoopState(t) /\ SameButTags(s, t)
      /\ t.tag_ids = IF new THEN Entered(s.tag_ids, c.tag, id) ELSE s.tag_ids
      /\ t.tag_names = IF new THEN Entered(s.tag_names, id, c.tag) ELSE s.tag_names
      /\ t.usedTags = s.usedTags \cup {id}
      /\ t.ids = Append(s.ids, id)
  BY AssignTagFields
<1>2. IsFiniteSet(t.usedTags) /\ t.usedTags \subseteq Nat
  <2>1. IsFiniteSet(t.usedTags)
    BY <1>1, FS_AddElement DEF TagsMatch
  <2>2. id \in Nat
    BY UnusedFound DEF TagsMatch
  <2> QED
    BY <1>1, <2>1, <2>2 DEF TagsMatch
<1>3. CASE known
  <2>1. id = s.tag_ids[c.tag] /\ id \in DOMAIN s.tag_names /\ s.tag_names[id] = c.tag
        /\ c.tag # NoName /\ id \in s.usedTags
    BY <1>3 DEF TagsMatch
  <2>2. t.tag_ids = s.tag_ids /\ t.tag_names = s.tag_names /\ t.usedTags = s.usedTags
    BY <1>1, <1>3, <2>1
  <2>3. TagsMatch(t) /\ TagsGrow(s, t) /\ StandsFor(t, id, c.tag)
    BY <1>2, <2>1, <2>2 DEF TagsMatch, TagsGrow, StandsFor
  <2> QED
    BY <1>1, <2>1, <2>2, <2>3
<1>4. CASE ~known
  <2>1. id = LeastUnused(s.usedTags) /\ id \in Nat /\ id \notin s.usedTags
    BY <1>4, UnusedFound DEF TagsMatch
  <2>2. id \notin DOMAIN s.tag_names /\ \A n \in DOMAIN s.tag_ids : s.tag_ids[n] # id
    BY <2>1 DEF TagsMatch
  <2> HIDE DEF id
  <2>3. CASE c.tag = NoName
    <3>1. t.tag_ids = s.tag_ids /\ t.tag_names = s.tag_names
      BY <1>1, <2>3
    <3>2. TagsMatch(t) /\ TagsGrow(s, t) /\ StandsFor(t, id, c.tag)
      BY <1>1, <1>2, <2>2, <2>3, <3>1 DEF TagsMatch, TagsGrow, StandsFor
    <3> QED
      BY <1>1, <2>1, <3>2
  <2>4. CASE c.tag # NoName
    <3>1. /\ DOMAIN t.tag_ids = DOMAIN s.tag_ids \cup {c.tag}
          /\ t.tag_ids[c.tag] = id
          /\ \A n \in DOMAIN s.tag_ids : t.tag_ids[n] = s.tag_ids[n]
      BY <1>1, <1>4, <2>4 DEF Entered
    <3>2. /\ DOMAIN t.tag_names = DOMAIN s.tag_names \cup {id}
          /\ t.tag_names[id] = c.tag
          /\ \A i \in DOMAIN s.tag_names : t.tag_names[i] = s.tag_names[i]
      BY <1>1, <1>4, <2>2, <2>4 DEF Entered
    <3>3. TagsMatch(t)
      BY <1>1, <1>2, <1>4, <2>2, <2>4, <3>1, <3>2 DEF TagsMatch
    <3>4. TagsGrow(s, t) /\ StandsFor(t, id, c.tag)
      BY <1>1, <2>1, <2>2, <2>4, <3>2 DEF TagsGrow, StandsFor
    <3> QED
      BY <1>1, <2>1, <3>3, <3>4
  <2> QED
    BY <2>3, <2>4
<1> QED
  BY <1>3, <1>4

(* The loop over a chain: every link gets an id that stands for its name.  *)
LEMMA ChainTraced ==
    ASSUME NEW s, IsLoopState(s), TagsMatch(s), s.ids \in Seq(Int), Len(s.ids) = 1,
           NEW chain, NEW len \in Nat, DOMAIN chain = 1..len
    PROVE  \E trace : InChain!IsTrace(trace, [start |-> s, chain |-> chain], s, chain, len)
<1> DEFINE c == [start |-> s, chain |-> chain]
<1>1. TagsDone(c, 0, s)
  BY DEF TagsDone, TagsGrow, SameButTags
<1>2. ASSUME NEW k \in 1..len, NEW r, TagsDone(c, k - 1, r)
      PROVE  TagsDone(c, k, AssignTag(r, chain[k]))
  <2> DEFINE q == AssignTag(r, chain[k])
  <2> HIDE DEF q
  <2>1. /\ IsLoopState(r) /\ TagsMatch(r) /\ TagsGrow(s, r) /\ SameButTags(s, r)
        /\ r.ids \in Seq(Int) /\ Len(r.ids) = k /\ r.ids[1] = s.ids[1]
        /\ \A j \in 1..(k - 1) : StandsFor(r, r.ids[j + 1], chain[j].tag)
    BY <1>2 DEF TagsDone
  <2>2. /\ IsLoopState(q) /\ TagsMatch(q) /\ TagsGrow(r, q) /\ SameButTags(r, q)
        /\ \E id : id \in q.usedTags /\ q.ids = Append(r.ids, id) /\ StandsFor(q, id, chain[k].tag)
    BY <2>1, AssignTagStep DEF q
  <2>3. PICK id : id \in q.usedTags /\ q.ids = Append(r.ids, id) /\ StandsFor(q, id, chain[k].tag)
    BY <2>2
  <2>4. id \in Int
    BY <2>2, <2>3 DEF TagsMatch
  <2>5. /\ q.ids \in Seq(Int) /\ Len(q.ids) = k + 1 /\ q.ids[k + 1] = id
        /\ \A j \in 1..k : q.ids[j] = r.ids[j]
    BY <2>1, <2>3, <2>4
  <2>6. TagsGrow(s, q) /\ SameButTags(s, q)
    BY <2>1, <2>2, GrowthAddsUp DEF SameButTags
  <2>7. ASSUME NEW j \in 1..k PROVE StandsFor(q, q.ids[j + 1], chain[j].tag)
    <3>1. CASE j = k
      BY <2>3, <2>5, <3>1
    <3>2. CASE j # k
      <4>1. j \in 1..(k - 1) /\ q.ids[j + 1] = r.ids[j + 1]
        BY <2>5, <3>2
      <4> QED
        BY <2>1, <2>2, <4>1, StandsForEver
    <3> QED
      BY <3>1, <3>2
  <2>8. q.ids[1] = s.ids[1]
    BY <2>1, <2>5
  <2>9. TagsDone(c, k, q)
    BY <2>2, <2>5, <2>6, <2>7, <2>8 DEF TagsDone
  <2> QED
    BY <2>9 DEF q
<1> HIDE DEF c
<1>3. \E trace : InChain!IsTrace(trace, c, s, chain, len)
  BY <1>1, <1>2, InChain!FoldTrace, Zenon
<1> QED
  BY <1>3 DEF c

(* Its end. *)
LEMMA ChainAssigned ==
    ASSUME NEW s, IsLoopState(s), TagsMatch(s), s.ids \in Seq(Int), Len(s.ids) = 1,
           NEW chain, NEW len \in Nat, DOMAIN chain = 1..len,
           NEW t, t = FoldLeft(AssignTag, s, chain)
    PROVE  TagsDone([start |-> s, chain |-> chain], len, t)
<1> DEFINE c == [start |-> s, chain |-> chain]
<1>1. PICK trace : InChain!IsTrace(trace, c, s, chain, len)
  BY ChainTraced
<1>2. InChain!FoldLeft(AssignTag, s, chain) = FoldLeft(AssignTag, s, chain)
  BY DEF FoldLeft, InChain!FoldLeft, MapThenFoldSet, InChain!MapThenFoldSet, Max, InChain!Max
<1> HIDE DEF c
<1>3. len \in 0..len
  OBVIOUS
<1>4. TagsDone(c, len, trace[len]) /\ trace[len] = InChain!FoldLeft(AssignTag, s, chain)
  BY <1>1, <1>3 DEF InChain!IsTrace
<1> QED
  BY <1>2, <1>4 DEF c

-----------------------------------------------------------------------------
(* The calls *)

(* What the parser makes of a statement. *)
CallSet(chains) == [ids : Seq(Int), write : BOOLEAN, chain : chains]

(* A call has all its ids: each link has one that stands for its name, and *)
(* the event has the fields of the chain.                                  *)
CallFinished(s, new, old) ==
    /\ new.chain = old.chain /\ new.write = old.write
    /\ Len(new.ids) = 1 + Len(old.chain)
    /\ s.event_fields[new.ids[1]] = Fields(old.chain)
    /\ \A j \in DOMAIN old.chain : StandsFor(s, new.ids[j + 1], old.chain[j].tag)

(* The event ids that were given out are those of the finished calls, one  *)
(* for each.                                                               *)
OneEach(s, done) ==
    /\ \A p \in DOMAIN done : done[p].ids[1] \in s.claimed
    /\ \A id \in s.claimed : \E p \in DOMAIN done : done[p].ids[1] = id
    /\ \A p, q \in DOMAIN done : done[p].ids[1] = done[q].ids[1] => p = q

(* An event id that was used before the loops began is given to a call     *)
(* that had it already, and the first call that had it gets it.            *)
IdsKept(c, done) == \A p \in DOMAIN done :
    /\ done[p].ids[1] \in c.first.usedEvents =>
          Placed(c.files)[p].ids # <<>> /\ done[p].ids[1] = Placed(c.files)[p].ids[1]
    /\ FirstWithId(c.files, p) => done[p].ids[1] = Placed(c.files)[p].ids[1]

(* The ids that the calls came with are given out, to them or to others.   *)
Taken(c, s, done) == \A p \in DOMAIN done :
    Placed(c.files)[p].ids # <<>> => Placed(c.files)[p].ids[1] \in s.claimed

(* The loops have finished the calls in done, by their places. *)
CallsDone(c, s, done) ==
    /\ IsLoopState(s) /\ TagsMatch(s) /\ TagsGrow(c.first, s)
    /\ IsFiniteSet(s.usedEvents)
    /\ c.first.usedEvents \subseteq s.usedEvents /\ s.claimed \subseteq s.usedEvents
    /\ DOMAIN s.event_fields = s.claimed
    /\ DOMAIN done \subseteq Places(c.files)
    /\ \A p \in DOMAIN done : CallFinished(s, done[p], Placed(c.files)[p])
    /\ OneEach(s, done) /\ IdsKept(c, done) /\ Taken(c, s, done)

(* What the loops are given: calls, whose ids count as used. *)
Sources(c) ==
    /\ \A ch \in c.chains : Len(ch) \in Nat /\ DOMAIN ch = 1..Len(ch)
    /\ c.files \in Seq(Seq(CallSet(c.chains)))
    /\ \A p \in Places(c.files) :
        Placed(c.files)[p].ids # <<>> => Placed(c.files)[p].ids[1] \in c.first.usedEvents

(* A place is a file and a place in it. *)
LEMMA PlaceIn ==
    ASSUME NEW S, NEW files \in Seq(Seq(S)), NEW p \in Places(files)
    PROVE  /\ p = <<p[1], p[2]>> /\ p[1] \in 1..Len(files) /\ p[2] \in 1..Len(files[p[1]])
           /\ Placed(files)[p] = files[p[1]][p[2]] /\ Placed(files)[p] \in S
<1>1. PICK f \in DOMAIN files : p \in {<<f, k>> : k \in DOMAIN files[f]}
  BY DEF Places
<1>2. PICK k \in DOMAIN files[f] : p = <<f, k>>
  BY <1>1
<1>3. files[f] \in Seq(S)
  OBVIOUS
<1>4. f \in 1..Len(files) /\ k \in 1..Len(files[f]) /\ files[f][k] \in S
  BY <1>3
<1>5. Placed(files)[p] = files[p[1]][p[2]]
  BY DEF Placed
<1> QED
  BY <1>2, <1>4, <1>5

(* And the other way round. *)
LEMMA IsPlace ==
    ASSUME NEW S, NEW files \in Seq(Seq(S)), NEW f \in 1..Len(files), NEW k \in 1..Len(files[f])
    PROVE  <<f, k>> \in Places(files) /\ Placed(files)[<<f, k>>] = files[f][k]
<1>1. f \in DOMAIN files /\ files[f] \in Seq(S)
  OBVIOUS
<1>2. k \in DOMAIN files[f]
  BY <1>1
<1>3. <<f, k>> \in {<<f, j>> : j \in DOMAIN files[f]}
  BY <1>2
<1>4. <<f, k>> \in Places(files)
  BY <1>1, <1>3 DEF Places
<1> QED
  BY <1>4 DEF Placed

(* The fields of the state after one call, whose event id is id. *)
LEMMA WithCallFields ==
    ASSUME NEW s, IsLoopState(s), TagsMatch(s), NEW id \in Int,
           NEW chains, NEW call \in CallSet(chains),
           Len(call.chain) \in Nat, DOMAIN call.chain = 1..Len(call.chain),
           NEW t, t = WithCall(s, call, id)
    PROVE  \E new \in CallSet(chains) :
             /\ IsLoopState(t) /\ TagsMatch(t) /\ TagsGrow(s, t)
             /\ t.usedEvents = s.usedEvents \cup {id} /\ t.claimed = s.claimed \cup {id}
             /\ t.event_fields = Entered(s.event_fields, id, Fields(call.chain))
             /\ t.files = s.files /\ t.calls = Append(s.calls, new)
             /\ new.ids[1] = id /\ CallFinished(t, new, call)
<1> DEFINE start == [s EXCEPT !.ids = <<id>>]
           named == FoldLeft(AssignTag, start, call.chain)
           new == [call EXCEPT !.ids = named.ids]
<1>1. /\ IsLoopState(start) /\ SameButTags(s, start) /\ start.ids = <<id>>
      /\ start.tag_ids = s.tag_ids /\ start.tag_names = s.tag_names /\ start.usedTags = s.usedTags
  BY DEF IsLoopState, SameButTags
<1>2. t = [named EXCEPT !.claimed = @ \cup {id},
                        !.usedEvents = @ \cup {id},
                        !.event_fields = Entered(@, id, Fields(call.chain)),
                        !.calls = Append(@, new)]
  BY DEF WithCall
<1> HIDE DEF start
<1>3. TagsMatch(start)
  BY <1>1 DEF TagsMatch
<1>4. start.ids \in Seq(Int) /\ Len(start.ids) = 1 /\ start.ids[1] = id
  BY <1>1
<1>5. TagsDone([start |-> start, chain |-> call.chain], Len(call.chain), named)
  BY <1>1, <1>3, <1>4, ChainAssigned
<1> HIDE DEF named
<1>6. /\ IsLoopState(named) /\ TagsMatch(named) /\ TagsGrow(start, named) /\ SameButTags(start, named)
      /\ named.ids \in Seq(Int) /\ Len(named.ids) = Len(call.chain) + 1 /\ named.ids[1] = start.ids[1]
      /\ \A j \in 1..Len(call.chain) : StandsFor(named, named.ids[j + 1], call.chain[j].tag)
  BY <1>5 DEF TagsDone
<1>7. /\ new \in CallSet(chains) /\ new.ids = named.ids
      /\ new.chain = call.chain /\ new.write = call.write
  BY <1>6 DEF CallSet
<1> HIDE DEF new
<1>8. /\ IsLoopState(t) /\ t.tag_ids = named.tag_ids /\ t.tag_names = named.tag_names
      /\ t.usedTags = named.usedTags /\ t.files = named.files
      /\ t.claimed = named.claimed \cup {id} /\ t.usedEvents = named.usedEvents \cup {id}
      /\ t.event_fields = Entered(named.event_fields, id, Fields(call.chain))
      /\ t.calls = Append(named.calls, new)
  BY <1>2, <1>6 DEF IsLoopState
<1>9. TagsMatch(t) /\ TagsGrow(s, t)
  BY <1>1, <1>6, <1>8 DEF TagsMatch, TagsGrow
<1>10. /\ t.usedEvents = s.usedEvents \cup {id} /\ t.claimed = s.claimed \cup {id}
       /\ t.event_fields = Entered(s.event_fields, id, Fields(call.chain))
       /\ t.files = s.files /\ t.calls = Append(s.calls, new)
  BY <1>1, <1>6, <1>8 DEF SameButTags
<1>11. t.event_fields[id] = Fields(call.chain)
  BY <1>10 DEF Entered
<1>12. \A j \in DOMAIN call.chain : StandsFor(t, new.ids[j + 1], call.chain[j].tag)
  BY <1>6, <1>7, <1>8 DEF StandsFor
<1>13. new.ids[1] = id /\ Len(new.ids) = 1 + Len(call.chain)
  BY <1>4, <1>6, <1>7
<1>14. CallFinished(t, new, call)
  BY <1>7, <1>11, <1>12, <1>13 DEF CallFinished
<1> QED
  BY <1>7, <1>8, <1>9, <1>10, <1>13, <1>14

(* What is said of a finished call stays true as names and events are      *)
(* added.                                                                  *)
LEMMA FinishedForEver ==
    ASSUME NEW s, NEW t, TagsGrow(s, t), NEW new, NEW old, CallFinished(s, new, old),
           t.event_fields[new.ids[1]] = s.event_fields[new.ids[1]]
    PROVE  CallFinished(t, new, old)
BY StandsForEver DEF CallFinished

(* The loops' body: the next call gets its ids, and the others keep theirs.*)
LEMMA AssignCallStep ==
    ASSUME NEW c, Sources(c), NEW s, NEW done, CallsDone(c, s, done),
           NEW p \in Places(c.files), p \notin DOMAIN done, \A q \in DOMAIN done : Before(q, p),
           NEW t, t = AssignCall(s, Placed(c.files)[p])
    PROVE  \E new \in CallSet(c.chains) :
             /\ t.files = s.files /\ t.calls = Append(s.calls, new)
             /\ CallsDone(c, t, Entered(done, p, new))
<1> DEFINE old == Placed(c.files)
           call == old[p]
           keeps == call.ids # <<>> /\ call.ids[1] \notin s.claimed
           id == IF keeps THEN call.ids[1] ELSE LeastUnused(s.usedEvents)
<1>1. t = WithCall(s, call, id)
  BY DEF AssignCall
<1>2. /\ call \in CallSet(c.chains) /\ call.chain \in c.chains
      /\ Len(call.chain) \in Nat /\ DOMAIN call.chain = 1..Len(call.chain)
      /\ call.ids \in Seq(Int)
  <2>1. call \in CallSet(c.chains)
    BY PlaceIn DEF Sources
  <2> QED
    BY <2>1 DEF Sources, CallSet
<1>3. /\ IsLoopState(s) /\ TagsMatch(s) /\ TagsGrow(c.first, s)
      /\ IsFiniteSet(s.usedEvents)
      /\ c.first.usedEvents \subseteq s.usedEvents /\ s.claimed \subseteq s.usedEvents
      /\ DOMAIN s.event_fields = s.claimed
      /\ DOMAIN done \subseteq Places(c.files)
      /\ \A q \in DOMAIN done : CallFinished(s, done[q], old[q])
      /\ OneEach(s, done) /\ IdsKept(c, done) /\ Taken(c, s, done)
  BY DEF CallsDone
<1>4. /\ id \in Int /\ id \notin s.claimed
      /\ keeps \/ id \notin s.usedEvents
  <2>1. CASE keeps
    <3>1. call.ids[1] \in Int
      BY <1>2, <2>1
    <3> QED
      BY <2>1, <3>1
  <2>2. CASE ~keeps
    <3>1. id \in Nat /\ id \notin s.usedEvents
      BY <1>3, <2>2, UnusedFound
    <3> QED
      BY <1>3, <2>2, <3>1
  <2> QED
    BY <2>1, <2>2
<1>5. /\ keeps => id = call.ids[1]
      /\ call.ids # <<>> => call.ids[1] \in s.claimed \cup {id}
  OBVIOUS
<1>6. FirstWithId(c.files, p) => keeps
  <2> SUFFICES ASSUME FirstWithId(c.files, p), ~keeps PROVE FALSE
    OBVIOUS
  <2>1. call.ids # <<>> /\ call.ids[1] \in s.claimed
    BY DEF FirstWithId
  <2>2. PICK q \in DOMAIN done : done[q].ids[1] = call.ids[1]
    BY <1>3, <2>1 DEF OneEach
  <2>3. call.ids[1] \in c.first.usedEvents
    BY <2>1 DEF Sources
  <2>4. old[q].ids # <<>> /\ old[q].ids[1] = call.ids[1]
    BY <1>3, <2>2, <2>3 DEF IdsKept
  <2>5. q \in Places(c.files) /\ Before(q, p)
    BY <1>3
  <2> QED
    BY <2>4, <2>5 DEF FirstWithId
<1> HIDE DEF id, keeps
<1>7. PICK new \in CallSet(c.chains) :
             /\ IsLoopState(t) /\ TagsMatch(t) /\ TagsGrow(s, t)
             /\ t.usedEvents = s.usedEvents \cup {id} /\ t.claimed = s.claimed \cup {id}
             /\ t.event_fields = Entered(s.event_fields, id, Fields(call.chain))
             /\ t.files = s.files /\ t.calls = Append(s.calls, new)
             /\ new.ids[1] = id /\ CallFinished(t, new, call)
  BY <1>1, <1>2, <1>3, <1>4, WithCallFields
<1> DEFINE more == Entered(done, p, new)
<1>8. /\ DOMAIN more = DOMAIN done \cup {p} /\ more[p] = new
      /\ \A q \in DOMAIN done : more[q] = done[q]
  BY DEF Entered
<1> HIDE DEF more
<1>9. /\ TagsGrow(c.first, t) /\ IsFiniteSet(t.usedEvents)
      /\ c.first.usedEvents \subseteq t.usedEvents /\ t.claimed \subseteq t.usedEvents
      /\ DOMAIN more \subseteq Places(c.files)
  <2>1. TagsGrow(c.first, t)
    BY <1>3, <1>7, GrowthAddsUp
  <2>2. IsFiniteSet(t.usedEvents)
    BY <1>3, <1>7, FS_AddElement, SMTT(30)
  <2> QED
    BY <1>3, <1>7, <1>8, <2>1, <2>2
<1>10. /\ DOMAIN t.event_fields = t.claimed
       /\ \A e \in s.claimed : t.event_fields[e] = s.event_fields[e]
  BY <1>3, <1>4, <1>7 DEF Entered
<1>11. ASSUME NEW q \in DOMAIN more PROVE CallFinished(t, more[q], old[q])
  <2>1. CASE q = p
    BY <1>7, <1>8, <2>1
  <2>2. CASE q # p
    <3>1. q \in DOMAIN done /\ more[q] = done[q]
      BY <1>8, <2>2
    <3>2. CallFinished(s, done[q], old[q]) /\ done[q].ids[1] \in s.claimed
      BY <1>3, <3>1 DEF OneEach
    <3>3. CallFinished(t, done[q], old[q])
      BY <1>7, <1>10, <3>2, FinishedForEver
    <3> QED
      BY <3>1, <3>3
  <2> QED
    BY <2>1, <2>2
<1>12. OneEach(t, more)
  BY <1>3, <1>4, <1>7, <1>8 DEF OneEach
<1>13. ASSUME NEW q \in DOMAIN more
       PROVE  /\ more[q].ids[1] \in c.first.usedEvents =>
                    old[q].ids # <<>> /\ more[q].ids[1] = old[q].ids[1]
              /\ FirstWithId(c.files, q) => more[q].ids[1] = old[q].ids[1]
  <2>1. CASE q = p
    <3>1. more[q].ids[1] = id
      BY <1>7, <1>8, <2>1
    <3>2. id \in c.first.usedEvents => keeps
      BY <1>3, <1>4
    <3> QED
      BY <1>5, <1>6, <2>1, <3>1, <3>2 DEF keeps
  <2>2. CASE q # p
    BY <1>3, <1>8, <2>2 DEF IdsKept
  <2> QED
    BY <2>1, <2>2
<1>14. IdsKept(c, more)
  BY <1>13 DEF IdsKept
<1>15. ASSUME NEW q \in DOMAIN more, old[q].ids # <<>> PROVE old[q].ids[1] \in t.claimed
  <2>1. CASE q = p
    BY <1>5, <1>7, <1>15, <2>1
  <2>2. CASE q # p
    <3>1. q \in DOMAIN done
      BY <1>8, <2>2
    <3> QED
      BY <1>3, <1>7, <1>15, <3>1 DEF Taken
  <2> QED
    BY <2>1, <2>2
<1>16. Taken(c, t, more)
  BY <1>15 DEF Taken
<1>17. CallsDone(c, t, more)
  BY <1>7, <1>9, <1>10, <1>11, <1>12, <1>14, <1>16 DEF CallsDone
<1> QED
  BY <1>7, <1>17 DEF more

-----------------------------------------------------------------------------
(* The files *)

(* A file without calls has no places. *)
LEMMA EmptyFileAdded ==
    ASSUME NEW S, NEW files \in Seq(Seq(S))
    PROVE  Placed(Append(files, <<>>)) = Placed(files)
<1> DEFINE more == Append(files, <<>>)
<1>1. more \in Seq(Seq(S)) /\ Len(more) = Len(files) + 1 /\ more[Len(files) + 1] = <<>>
      /\ \A f \in 1..Len(files) : more[f] = files[f]
  OBVIOUS
<1> HIDE DEF more
<1>2. ASSUME NEW p \in Places(more)
      PROVE  p \in Places(files) /\ Placed(more)[p] = Placed(files)[p]
  <2>1. /\ p = <<p[1], p[2]>> /\ p[1] \in 1..Len(more) /\ p[2] \in 1..Len(more[p[1]])
        /\ Placed(more)[p] = more[p[1]][p[2]]
    BY <1>1, PlaceIn
  <2>2. p[1] # Len(files) + 1
    BY <1>1, <2>1
  <2>3. p[1] \in 1..Len(files) /\ more[p[1]] = files[p[1]]
    BY <1>1, <2>1, <2>2
  <2>4. <<p[1], p[2]>> \in Places(files) /\ Placed(files)[<<p[1], p[2]>>] = files[p[1]][p[2]]
    BY <2>1, <2>3, IsPlace
  <2> QED
    BY <2>1, <2>3, <2>4
<1>3. ASSUME NEW p \in Places(files) PROVE p \in Places(more)
  <2>1. p = <<p[1], p[2]>> /\ p[1] \in 1..Len(files) /\ p[2] \in 1..Len(files[p[1]])
    BY PlaceIn
  <2>2. p[1] \in 1..Len(more) /\ p[2] \in 1..Len(more[p[1]])
    BY <1>1, <2>1
  <2>3. <<p[1], p[2]>> \in Places(more)
    BY <1>1, <2>2, IsPlace
  <2> QED
    BY <2>1, <2>3
<1>4. Places(more) = Places(files)
  BY <1>2, <1>3
<1>5. Placed(more) = Placed(files)
  BY <1>2, <1>4 DEF Placed
<1> QED
  BY <1>5 DEF more

(* A call is added at the end of the last file. *)
LEMMA CallAdded ==
    ASSUME NEW S, NEW files \in Seq(Seq(S)), NEW calls \in Seq(S), NEW new \in S
    PROVE  Placed(Append(files, Append(calls, new))) =
             Entered(Placed(Append(files, calls)), <<Len(files) + 1, Len(calls) + 1>>, new)
<1> DEFINE m == Len(files) + 1
           n == Len(calls) + 1
           longer == Append(calls, new)
           before == Append(files, calls)
           after == Append(files, longer)
           there == <<m, n>>
<1>1. m \in Nat \ {0} /\ n \in Nat \ {0}
  OBVIOUS
<1>2. longer \in Seq(S) /\ Len(longer) = n /\ longer[n] = new
      /\ \A k \in 1..(n - 1) : longer[k] = calls[k]
  OBVIOUS
<1>3. Len(calls) = n - 1
  OBVIOUS
<1> HIDE DEF longer, n
<1>4. before \in Seq(Seq(S)) /\ Len(before) = m /\ before[m] = calls
      /\ \A f \in 1..(m - 1) : before[f] = files[f]
  OBVIOUS
<1>5. after \in Seq(Seq(S)) /\ Len(after) = m /\ after[m] = longer
      /\ \A f \in 1..(m - 1) : after[f] = files[f]
  BY <1>2
<1> HIDE DEF m, before, after
<1>6. there \in Places(after) /\ Placed(after)[there] = new
  <2>1. m \in 1..Len(after) /\ n \in 1..Len(after[m])
    BY <1>1, <1>2, <1>5
  <2>2. there \in Places(after) /\ Placed(after)[there] = after[m][n]
    BY <1>5, <2>1, IsPlace
  <2> QED
    BY <1>2, <1>5, <2>2
<1>7. ASSUME NEW p \in Places(after), p # there
      PROVE  p \in Places(before) /\ Placed(after)[p] = Placed(before)[p]
  <2>1. /\ p = <<p[1], p[2]>> /\ p[1] \in 1..m /\ p[2] \in 1..Len(after[p[1]])
        /\ Placed(after)[p] = after[p[1]][p[2]]
    BY <1>5, PlaceIn
  <2>2. p[2] \in 1..Len(before[p[1]]) /\ after[p[1]][p[2]] = before[p[1]][p[2]]
    <3>1. CASE p[1] = m
      <4>1. p[2] # n /\ p[2] \in 1..n
        BY <1>2, <1>5, <1>7, <2>1, <3>1
      <4> QED
        BY <1>1, <1>2, <1>3, <1>4, <1>5, <3>1, <4>1
    <3>2. CASE p[1] # m
      <4>1. p[1] \in 1..(m - 1)
        BY <1>1, <2>1, <3>2
      <4> QED
        BY <1>4, <1>5, <2>1, <4>1
    <3> QED
      BY <3>1, <3>2
  <2>3. /\ <<p[1], p[2]>> \in Places(before)
        /\ Placed(before)[<<p[1], p[2]>>] = before[p[1]][p[2]]
    BY <1>4, <2>1, <2>2, IsPlace
  <2> QED
    BY <2>1, <2>2, <2>3
<1>8. ASSUME NEW p \in Places(before) PROVE p \in Places(after)
  <2>1. p = <<p[1], p[2]>> /\ p[1] \in 1..m /\ p[2] \in 1..Len(before[p[1]])
    BY <1>4, PlaceIn
  <2>2. p[2] \in 1..Len(after[p[1]])
    <3>1. CASE p[1] = m
      BY <1>1, <1>2, <1>3, <1>4, <1>5, <2>1, <3>1
    <3>2. CASE p[1] # m
      <4>1. p[1] \in 1..(m - 1)
        BY <1>1, <2>1, <3>2
      <4> QED
        BY <1>4, <1>5, <2>1, <4>1
    <3> QED
      BY <3>1, <3>2
  <2>3. <<p[1], p[2]>> \in Places(after)
    BY <1>5, <2>1, <2>2, IsPlace
  <2> QED
    BY <2>1, <2>3
<1>9. Places(after) = Places(before) \cup {there}
  BY <1>6, <1>7, <1>8
<1> HIDE DEF there
<1>10. Placed(after) = Entered(Placed(before), there, new)
  <2>1. DOMAIN Placed(before) = Places(before)
    BY DEF Placed
  <2>2. Placed(after) = [p \in Places(after) |-> Placed(after)[p]]
    BY DEF Placed
  <2>3. ASSUME NEW p \in Places(after)
        PROVE  Placed(after)[p] = IF p = there THEN new ELSE Placed(before)[p]
    BY <1>6, <1>7
  <2> QED
    BY <1>9, <2>1, <2>2, <2>3 DEF Entered
<1> QED
  BY <1>10 DEF there, after, before, longer, m, n

-----------------------------------------------------------------------------
(* The loops over the calls of a file and over the files *)

(* The files before the one the loops are at are finished, call by call.   *)
FilesFinished(c, files) ==
    /\ files \in Seq(Seq(CallSet(c.chains))) /\ Len(files) <= Len(c.files)
    /\ \A f \in 1..Len(files) : Len(files[f]) = Len(c.files[f])

(* The loop over the calls of a file has taken k of them; d has what all   *)
(* loops are given, and the finished files.                                *)
FileDone(d, k, s) ==
    /\ s.files = d.files /\ s.calls \in Seq(CallSet(d.c.chains)) /\ Len(s.calls) = k
    /\ CallsDone(d.c, s, Placed(Append(s.files, s.calls)))

(* The loop over the files has taken k of them. *)
FilesDone(c, k, s) ==
    /\ FilesFinished(c, s.files) /\ Len(s.files) = k
    /\ CallsDone(c, s, Placed(s.files))

InFile == INSTANCE FoldInduction WITH Op <- AssignCall, Holds <- FileDone
AllFiles == INSTANCE FoldInduction WITH Op <- AssignFile, Holds <- FilesDone

SameTagsAndEvents(s, t) ==
    /\ t.tag_ids = s.tag_ids /\ t.tag_names = s.tag_names /\ t.usedTags = s.usedTags
    /\ t.event_fields = s.event_fields /\ t.usedEvents = s.usedEvents /\ t.claimed = s.claimed

(* The rest of the state has no part in what is done. *)
LEMMA CallsStayDone ==
    ASSUME NEW c, NEW s, NEW t, NEW done,
           CallsDone(c, s, done), IsLoopState(t), SameTagsAndEvents(s, t)
    PROVE  CallsDone(c, t, done)
<1>1. TagsMatch(t) /\ TagsGrow(c.first, t) /\ OneEach(t, done) /\ Taken(c, t, done)
  BY DEF CallsDone, SameTagsAndEvents, TagsMatch, TagsGrow, OneEach, Taken
<1>2. \A p \in DOMAIN done : CallFinished(t, done[p], Placed(c.files)[p])
  BY DEF CallsDone, SameTagsAndEvents, CallFinished, StandsFor
<1> QED
  BY <1>1, <1>2 DEF CallsDone, SameTagsAndEvents

(* The body of the loop over a file's calls. *)
LEMMA FileStep ==
    ASSUME NEW c, Sources(c), NEW files, FilesFinished(c, files), Len(files) < Len(c.files),
           NEW calls, calls = c.files[Len(files) + 1], NEW k \in 1..Len(calls),
           NEW s, FileDone([c |-> c, files |-> files], k - 1, s)
    PROVE  FileDone([c |-> c, files |-> files], k, AssignCall(s, calls[k]))
<1> DEFINE S == CallSet(c.chains)
           m == Len(files) + 1
           p == <<m, k>>
           done == Placed(Append(files, s.calls))
           t == AssignCall(s, calls[k])
<1>1. /\ files \in Seq(Seq(S)) /\ c.files \in Seq(Seq(S)) /\ Len(files) < Len(c.files)
      /\ \A f \in 1..Len(files) : Len(files[f]) = Len(c.files[f])
  BY DEF FilesFinished, Sources
<1>2. s.files = files /\ s.calls \in Seq(S) /\ Len(s.calls) = k - 1 /\ CallsDone(c, s, done)
  BY DEF FileDone
<1>3. m \in 1..Len(c.files) /\ calls = c.files[m] /\ m \in Nat \ {0} /\ k \in Nat \ {0}
  BY <1>1
<1>4. p \in Places(c.files) /\ Placed(c.files)[p] = calls[k]
  BY <1>1, <1>3, IsPlace
<1>5. ASSUME NEW q \in DOMAIN done PROVE q # p /\ Before(q, p)
  <2> DEFINE now == Append(files, s.calls)
  <2>1. /\ now \in Seq(Seq(S)) /\ Len(now) = m /\ now[m] = s.calls
        /\ \A f \in 1..(m - 1) : now[f] = files[f]
    BY <1>1, <1>2
  <2>2. q \in Places(now)
    BY DEF Placed
  <2> HIDE DEF now, m
  <2>3. q = <<q[1], q[2]>> /\ q[1] \in 1..m /\ q[2] \in 1..Len(now[q[1]])
    BY <2>1, <2>2, PlaceIn
  <2>4. CASE q[1] = m
    <3>1. q[2] \in 1..(k - 1)
      BY <1>2, <2>1, <2>3, <2>4
    <3> QED
      BY <1>3, <2>3, <2>4, <3>1 DEF Before
  <2>5. CASE q[1] # m
    BY <1>3, <2>3, <2>5 DEF Before
  <2> QED
    BY <2>4, <2>5
<1>6. p \notin DOMAIN done
  BY <1>5
<1> HIDE DEF p, done
<1>7. PICK new \in S : /\ t.files = s.files /\ t.calls = Append(s.calls, new)
                       /\ CallsDone(c, t, Entered(done, p, new))
  BY <1>2, <1>4, <1>5, <1>6, AssignCallStep
<1> HIDE DEF t
<1>8. Placed(Append(files, t.calls)) = Entered(done, <<m, Len(s.calls) + 1>>, new)
  <2> HIDE DEF S
  <2>1. s.calls \in Seq(S) /\ files \in Seq(Seq(S)) /\ new \in S
    BY <1>1, <1>2
  <2>2. Placed(Append(files, Append(s.calls, new))) = Entered(done, <<m, Len(s.calls) + 1>>, new)
    BY <2>1, CallAdded DEF done
  <2> QED
    BY <1>7, <2>2
<1>9. Len(s.calls) + 1 = k /\ t.calls \in Seq(S) /\ Len(t.calls) = k
  BY <1>2, <1>3, <1>7
<1>10. CallsDone(c, t, Placed(Append(files, t.calls)))
  BY <1>7, <1>8, <1>9 DEF p
<1>11. FileDone([c |-> c, files |-> files], k, t)
  BY <1>2, <1>7, <1>9, <1>10 DEF FileDone
<1> QED
  BY <1>11 DEF t

(* The loop over the calls of the k-th file. *)
LEMMA FileTraced ==
    ASSUME NEW c, Sources(c), NEW k \in 1..Len(c.files), NEW s, FilesDone(c, k - 1, s)
    PROVE  \E trace : InFile!IsTrace(trace, [c |-> c, files |-> s.files],
                                     [s EXCEPT !.calls = <<>>], c.files[k], Len(c.files[k]))
<1> DEFINE S == CallSet(c.chains)
           calls == c.files[k]
           d == [c |-> c, files |-> s.files]
           start == [s EXCEPT !.calls = <<>>]
<1>1. /\ c.files \in Seq(Seq(S)) /\ calls \in Seq(S) /\ k \in Nat \ {0}
      /\ Len(calls) \in Nat /\ DOMAIN calls = 1..Len(calls)
  BY DEF Sources
<1>2. /\ s.files \in Seq(Seq(S)) /\ Len(s.files) = k - 1 /\ FilesFinished(c, s.files)
      /\ CallsDone(c, s, Placed(s.files))
  BY DEF FilesDone, FilesFinished
<1>3. Len(s.files) + 1 = k /\ Len(s.files) < Len(c.files)
  BY <1>1, <1>2
<1>4. FileDone(d, 0, start)
  <2>1. /\ IsLoopState(start) /\ SameTagsAndEvents(s, start)
        /\ start.files = s.files /\ start.calls = <<>>
    BY <1>2 DEF CallsDone, IsLoopState, SameTagsAndEvents
  <2> HIDE DEF start
  <2>2. Placed(Append(start.files, start.calls)) = Placed(s.files)
    <3> HIDE DEF S
    <3> QED
      BY <1>2, <2>1, EmptyFileAdded
  <2>3. CallsDone(c, start, Placed(s.files))
    BY <1>2, <2>1, CallsStayDone
  <2>4. start.calls \in Seq(S) /\ Len(start.calls) = 0
    BY <2>1
  <2> QED
    BY <2>1, <2>2, <2>3, <2>4 DEF FileDone
<1> HIDE DEF start, S, calls
<1>5. ASSUME NEW j \in 1..Len(calls), NEW r, FileDone(d, j - 1, r)
      PROVE  FileDone(d, j, AssignCall(r, calls[j]))
  BY <1>2, <1>3, <1>5, FileStep DEF calls
<1> HIDE DEF d
<1>6. \E trace : InFile!IsTrace(trace, d, start, calls, Len(calls))
  BY <1>1, <1>4, <1>5, InFile!FoldTrace, Zenon
<1> QED
  BY <1>6 DEF d, start, calls

(* The body of the loop over the files. *)
LEMMA AllFilesStep ==
    ASSUME NEW c, Sources(c), NEW k \in 1..Len(c.files), NEW s, FilesDone(c, k - 1, s)
    PROVE  FilesDone(c, k, AssignFile(s, c.files[k]))
<1> DEFINE S == CallSet(c.chains)
           calls == c.files[k]
           d == [c |-> c, files |-> s.files]
           start == [s EXCEPT !.calls = <<>>]
           after == FoldLeft(AssignCall, start, calls)
           t == [after EXCEPT !.files = Append(@, after.calls)]
<1>1. AssignFile(s, calls) = t
  BY DEF AssignFile
<1>2. /\ c.files \in Seq(Seq(S)) /\ calls \in Seq(S) /\ k \in Nat \ {0}
      /\ Len(calls) \in Nat
  BY DEF Sources
<1>3. /\ s.files \in Seq(Seq(S)) /\ Len(s.files) = k - 1
      /\ \A f \in 1..(k - 1) : Len(s.files[f]) = Len(c.files[f])
  BY DEF FilesDone, FilesFinished
<1>4. Len(s.files) + 1 = k
  BY <1>2, <1>3
<1>5. PICK trace : InFile!IsTrace(trace, d, start, calls, Len(calls))
  BY FileTraced
<1> HIDE DEF start, S, calls
<1>6. Len(calls) \in 0..Len(calls)
  BY <1>2
<1>7. FileDone(d, Len(calls), after)
  <2>1. InFile!FoldLeft(AssignCall, start, calls) = FoldLeft(AssignCall, start, calls)
    BY DEF FoldLeft, InFile!FoldLeft, MapThenFoldSet, InFile!MapThenFoldSet, Max, InFile!Max
  <2> HIDE DEF d
  <2> QED
    BY <1>5, <1>6, <2>1 DEF InFile!IsTrace
<1> HIDE DEF after
<1>8. /\ after.files = s.files /\ after.calls \in Seq(S) /\ Len(after.calls) = Len(calls)
      /\ CallsDone(c, after, Placed(Append(after.files, after.calls)))
  BY <1>7 DEF FileDone, S
<1>9. /\ IsLoopState(t) /\ SameTagsAndEvents(after, t)
      /\ t.files = Append(s.files, after.calls)
  BY <1>8 DEF CallsDone, IsLoopState, SameTagsAndEvents
<1> HIDE DEF t
<1>10. CallsDone(c, t, Placed(t.files))
  BY <1>8, <1>9, CallsStayDone
<1>11. /\ t.files \in Seq(Seq(S)) /\ Len(t.files) = k
       /\ \A f \in 1..k : Len(t.files[f]) = Len(c.files[f])
  <2>1. t.files \in Seq(Seq(S)) /\ Len(t.files) = k /\ t.files[k] = after.calls
        /\ \A f \in 1..(k - 1) : t.files[f] = s.files[f]
    BY <1>2, <1>3, <1>4, <1>8, <1>9
  <2>2. ASSUME NEW f \in 1..k PROVE Len(t.files[f]) = Len(c.files[f])
    <3>1. CASE f = k
      BY <1>8, <2>1, <3>1 DEF calls
    <3>2. CASE f # k
      <4>1. f \in 1..(k - 1)
        BY <1>2, <3>2
      <4> QED
        BY <1>3, <2>1, <4>1
    <3> QED
      BY <3>1, <3>2
  <2> QED
    BY <2>1, <2>2
<1>12. FilesDone(c, k, t)
  BY <1>2, <1>10, <1>11 DEF FilesDone, FilesFinished, S
<1> QED
  BY <1>1, <1>12 DEF calls

(* The loop over the files. *)
LEMMA FilesTraced ==
    ASSUME NEW c, Sources(c), NEW s, FilesDone(c, 0, s)
    PROVE  \E trace : AllFiles!IsTrace(trace, c, s, c.files, Len(c.files))
<1> DEFINE files == c.files
<1>1. Len(files) \in Nat /\ DOMAIN files = 1..Len(files)
  BY DEF Sources
<1>2. ASSUME NEW k \in 1..Len(files), NEW r, FilesDone(c, k - 1, r)
      PROVE  FilesDone(c, k, AssignFile(r, files[k]))
  BY <1>2, AllFilesStep
<1> HIDE DEF files
<1>3. \E trace : AllFiles!IsTrace(trace, c, s, files, Len(files))
  BY <1>1, <1>2, AllFiles!FoldTrace, Zenon
<1> QED
  BY <1>3 DEF files

(* All loops: every call of every file is finished. *)
LEMMA FilesAssigned ==
    ASSUME NEW c, Sources(c), NEW s, FilesDone(c, 0, s),
           NEW t, t = FoldLeft(AssignFile, s, c.files)
    PROVE  FilesDone(c, Len(c.files), t)
<1>1. PICK trace : AllFiles!IsTrace(trace, c, s, c.files, Len(c.files))
  BY FilesTraced
<1>2. AllFiles!FoldLeft(AssignFile, s, c.files) = FoldLeft(AssignFile, s, c.files)
  BY DEF FoldLeft, AllFiles!FoldLeft, MapThenFoldSet, AllFiles!MapThenFoldSet, Max, AllFiles!Max
<1>3. Len(c.files) \in 0..Len(c.files)
  BY DEF Sources
<1> QED
  BY <1>1, <1>2, <1>3 DEF AllFiles!IsTrace

-----------------------------------------------------------------------------
(* Where the loops begin *)

(* A document as a run leaves it: names have one tag each. *)
GoodDocument(doc) ==
    /\ IsFiniteSet(DOMAIN doc.tags) /\ DOMAIN doc.tags \subseteq Nat
    /\ IsInjective(doc.tags) /\ NoName \notin Range(doc.tags)
    /\ IsFiniteSet(DOMAIN doc.events)

(* The values of a function of a finite set are finitely many. *)
LEMMA ValuesFinite ==
    ASSUME NEW f, IsFiniteSet(DOMAIN f)
    PROVE  IsFiniteSet({f[x] : x \in DOMAIN f})
<1> DEFINE T == {f[x] : x \in DOMAIN f}
           g == [x \in DOMAIN f |-> f[x]]
<1>1. g \in Surjection(DOMAIN f, T)
  BY DEF Surjection
<1> QED
  BY <1>1, FS_Surjection

(* The calls are those at the places. *)
LEMMA CallsAtPlaces ==
    ASSUME NEW S, NEW files \in Seq(Seq(S))
    PROVE  /\ \A c \in AllCalls(files) : \E p \in Places(files) : Placed(files)[p] = c
           /\ \A p \in Places(files) : Placed(files)[p] \in AllCalls(files)
<1>1. ASSUME NEW c \in AllCalls(files)
      PROVE  \E p \in Places(files) : Placed(files)[p] = c
  <2>1. PICK f \in DOMAIN files : c \in {files[f][k] : k \in DOMAIN files[f]}
    BY DEF AllCalls
  <2>2. PICK k \in DOMAIN files[f] : c = files[f][k]
    BY <2>1
  <2>3. files[f] \in Seq(S) /\ f \in 1..Len(files)
    OBVIOUS
  <2>4. k \in 1..Len(files[f])
    BY <2>3
  <2> QED
    BY <2>2, <2>3, <2>4, IsPlace
<1>2. ASSUME NEW p \in Places(files)
      PROVE  Placed(files)[p] \in AllCalls(files)
  <2>1. /\ p[1] \in 1..Len(files) /\ p[2] \in 1..Len(files[p[1]])
        /\ Placed(files)[p] = files[p[1]][p[2]]
    BY PlaceIn
  <2>2. p[1] \in DOMAIN files /\ files[p[1]] \in Seq(S)
    BY <2>1
  <2>3. p[2] \in DOMAIN files[p[1]]
    BY <2>1, <2>2
  <2>4. files[p[1]][p[2]] \in {files[p[1]][k] : k \in DOMAIN files[p[1]]}
    BY <2>3
  <2> QED
    BY <2>1, <2>2, <2>4 DEF AllCalls
<1> QED
  BY <1>1, <1>2

(* They are finitely many, and so are their ids. *)
LEMMA EventIdsFinite ==
    ASSUME NEW S, NEW files \in Seq(Seq(S))
    PROVE  IsFiniteSet(EventIds(files))
<1>1. ASSUME NEW f \in DOMAIN files PROVE IsFiniteSet({files[f][k] : k \in DOMAIN files[f]})
  <2>1. files[f] \in Seq(S)
    OBVIOUS
  <2>2. IsFiniteSet(DOMAIN files[f])
    BY <2>1, FS_Interval
  <2> QED
    BY <2>2, ValuesFinite
<1> DEFINE sets == [f \in DOMAIN files |-> {files[f][k] : k \in DOMAIN files[f]}]
<1>2. IsFiniteSet({sets[f] : f \in DOMAIN sets})
  <2>1. IsFiniteSet(DOMAIN files)
    BY FS_Interval
  <2>2. DOMAIN sets = DOMAIN files
    OBVIOUS
  <2> HIDE DEF sets
  <2> QED
    BY <2>1, <2>2, ValuesFinite
<1>3. AllCalls(files) = UNION {sets[f] : f \in DOMAIN sets}
  BY DEF AllCalls
<1>4. \A T \in {sets[f] : f \in DOMAIN sets} : IsFiniteSet(T)
  BY <1>1
<1> HIDE DEF sets
<1>5. IsFiniteSet(AllCalls(files))
  BY <1>2, <1>3, <1>4, FS_UNION
<1> DEFINE withIds == {d \in AllCalls(files) : d.ids # <<>>}
           first == [c \in withIds |-> c.ids[1]]
<1>6. IsFiniteSet(withIds)
  BY <1>5, FS_Subset
<1>7. DOMAIN first = withIds /\ EventIds(files) = {first[c] : c \in DOMAIN first}
  BY DEF EventIds
<1> HIDE DEF first, withIds
<1> QED
  BY <1>6, <1>7, ValuesFinite

(* load_schema and the sets that are filled before the loops. *)
LEMMA LoopsBegin ==
    ASSUME NEW doc, GoodDocument(doc),
           NEW chains, \A ch \in chains : Len(ch) \in Nat /\ DOMAIN ch = 1..Len(ch),
           NEW files \in Seq(Seq(CallSet(chains))),
           NEW s, s = Unassigned(LoadSchema(doc), files),
           NEW c, c = [first |-> s, files |-> files, chains |-> chains]
    PROVE  /\ Sources(c) /\ FilesDone(c, 0, s)
           /\ s.tag_names = doc.tags
           /\ s.usedEvents = DOMAIN doc.events \cup EventIds(files)
<1> DEFINE ids == [n \in Range(doc.tags) |-> CHOOSE id \in DOMAIN doc.tags : doc.tags[id] = n]
<1>1. /\ s.tag_ids = ids /\ s.tag_names = doc.tags /\ s.event_fields = <<>>
      /\ s.usedTags = Range(ids) /\ s.usedEvents = DOMAIN doc.events \cup EventIds(files)
      /\ s.claimed = {} /\ s.files = <<>> /\ IsLoopState(s)
  BY DEF Unassigned, LoadSchema, IsLoopState
<1>2. /\ \A n \in Range(doc.tags) : ids[n] \in DOMAIN doc.tags /\ doc.tags[ids[n]] = n
      /\ DOMAIN ids = Range(doc.tags)
  BY DEF Range
<1> HIDE DEF ids
<1>3. \A id \in DOMAIN doc.tags : doc.tags[id] \in Range(doc.tags) /\ ids[doc.tags[id]] = id
  <2> SUFFICES ASSUME NEW id \in DOMAIN doc.tags
               PROVE  doc.tags[id] \in Range(doc.tags) /\ ids[doc.tags[id]] = id
    OBVIOUS
  <2> DEFINE n == doc.tags[id]
  <2>1. n \in Range(doc.tags)
    BY DEF Range
  <2>2. ids[n] \in DOMAIN doc.tags /\ doc.tags[ids[n]] = n
    BY <1>2, <2>1
  <2> QED
    BY <2>1, <2>2 DEF GoodDocument, IsInjective
<1>4. Range(ids) = DOMAIN doc.tags
  <2>1. Range(ids) \subseteq DOMAIN doc.tags
    BY <1>2, SMTT(30) DEF Range
  <2>2. ASSUME NEW id \in DOMAIN doc.tags PROVE id \in Range(ids)
    <3>1. doc.tags[id] \in DOMAIN ids /\ ids[doc.tags[id]] = id
      BY <1>2, <1>3
    <3> QED
      BY <3>1 DEF Range
  <2> QED
    BY <2>1, <2>2
<1>5. TagsMatch(s)
  BY <1>1, <1>2, <1>3, <1>4 DEF TagsMatch, GoodDocument
<1>6. c.first = s /\ c.files = files /\ c.chains = chains
  OBVIOUS
<1>7. Places(<<>>) = {}
  BY DEF Places
<1>8. CallsDone(c, s, Placed(s.files))
  <2>1. DOMAIN Placed(s.files) = {}
    BY <1>1, <1>7 DEF Placed
  <2>2. TagsGrow(c.first, s)
    BY <1>6 DEF TagsGrow
  <2>3. IsFiniteSet(s.usedEvents)
    <3>1. IsFiniteSet(EventIds(files)) /\ IsFiniteSet(DOMAIN doc.events)
      BY EventIdsFinite DEF GoodDocument
    <3>2. IsFiniteSet(DOMAIN doc.events \cup EventIds(files))
      BY <3>1, FS_Union
    <3> QED
      BY <1>1, <3>2
  <2>4. OneEach(s, Placed(s.files)) /\ IdsKept(c, Placed(s.files)) /\ Taken(c, s, Placed(s.files))
    BY <1>1, <2>1 DEF OneEach, IdsKept, Taken
  <2>5. DOMAIN s.event_fields = {}
    BY <1>1
  <2> QED
    BY <1>1, <1>5, <1>6, <2>1, <2>2, <2>3, <2>4, <2>5 DEF CallsDone
<1>9. FilesDone(c, 0, s)
  <2>1. s.files \in Seq(Seq(CallSet(chains))) /\ Len(s.files) = 0
    BY <1>1
  <2> QED
    BY <1>6, <1>8, <2>1 DEF FilesDone, FilesFinished
<1>10. Sources(c)
  <2>1. ASSUME NEW p \in Places(files), Placed(files)[p].ids # <<>>
        PROVE  Placed(files)[p].ids[1] \in EventIds(files)
    <3>1. Placed(files)[p] \in AllCalls(files)
      BY CallsAtPlaces
    <3> QED
      BY <2>1, <3>1 DEF EventIds
  <2> QED
    BY <1>1, <1>6, <2>1 DEF Sources
<1> QED
  BY <1>1, <1>9, <1>10

-----------------------------------------------------------------------------
(* Where they end *)

(* Cleaning leaves the names whose tags are in use, with these tags.       *)
LEMMA CleanedNames ==
    ASSUME NEW s, TagsMatch(s), NEW names, names = Cleaned(s).schema.tag_names
    PROVE  /\ DOMAIN names = {id \in DOMAIN s.tag_names : id \in TagIds(s.files)}
           /\ \A id \in DOMAIN names : names[id] = s.tag_names[id]
<1> DEFINE live == {n \in DOMAIN s.tag_ids : s.tag_ids[n] \in TagIds(s.files)}
           dead == {s.tag_ids[n] : n \in DOMAIN s.tag_ids \ live}
<1>1. names = Restrict(s.tag_names, DOMAIN s.tag_names \ dead)
  BY DEF Cleaned
<1>2. \A id \in DOMAIN s.tag_names : id \in dead <=> id \notin TagIds(s.files)
  BY DEF TagsMatch
<1> HIDE DEF dead
<1>3. DOMAIN names = DOMAIN s.tag_names \ dead
      /\ \A id \in DOMAIN names : names[id] = s.tag_names[id]
  BY <1>1 DEF Restrict
<1> QED
  BY <1>2, <1>3

(* What the loops and the cleaning leave of a schema. *)
LEMMA CleanedDocument ==
    ASSUME NEW s, TagsMatch(s), NEW out, out = Cleaned(s)
    PROVE  /\ out.files = s.files
           /\ BuildSchema(out.schema).events = s.event_fields
           /\ DOMAIN BuildSchema(out.schema).tags =
                {id \in DOMAIN s.tag_names : id \in TagIds(s.files)}
           /\ \A id \in DOMAIN BuildSchema(out.schema).tags :
                BuildSchema(out.schema).tags[id] = s.tag_names[id]
<1>1. /\ out.files = s.files
      /\ BuildSchema(out.schema).events = s.event_fields
      /\ BuildSchema(out.schema).tags = Cleaned(s).schema.tag_names
  BY DEF Cleaned, BuildSchema
<1> DEFINE names == Cleaned(s).schema.tag_names
<1>2. /\ DOMAIN names = {id \in DOMAIN s.tag_names : id \in TagIds(s.files)}
      /\ \A id \in DOMAIN names : names[id] = s.tag_names[id]
  BY CleanedNames
<1> HIDE DEF names
<1>3. BuildSchema(out.schema).tags = names
  BY <1>1 DEF names
<1> QED
  BY <1>1, <1>2, <1>3

(* The tag ids of a call are the ids after its first. *)
LEMMA TagInUse ==
    ASSUME NEW files, NEW c \in AllCalls(files), NEW k \in 2..Len(c.ids)
    PROVE  c.ids[k] \in TagIds(files)
<1>1. c.ids[k] \in {c.ids[j] : j \in 2..Len(c.ids)}
  OBVIOUS
<1> QED
  BY <1>1 DEF TagIds

(* What assign_ids leaves, whatever the schema and the sources it is given:*)
(* a good document that describes the sources, in which no id is given     *)
(* twice; and the ids that were in use are kept, or rest.                  *)
THEOREM AssignedWell ==
    ASSUME NEW doc, GoodDocument(doc),
           NEW chains, \A ch \in chains : Len(ch) \in Nat /\ DOMAIN ch = 1..Len(ch),
           NEW files \in Seq(Seq(CallSet(chains))),
           NEW out, out = Assigned(LoadSchema(doc), files),
           NEW next, next = BuildSchema(out.schema)
    PROVE  /\ GoodDocument(next)
           /\ out.files \in Seq(Seq(CallSet(chains))) /\ Len(out.files) = Len(files)
           /\ Places(out.files) = Places(files)
           /\ \A p \in Places(files) :
                /\ Placed(out.files)[p].chain = Placed(files)[p].chain
                /\ Placed(out.files)[p].write = Placed(files)[p].write
           /\ InSync(next, out.files)
           /\ Distinct(next, out.files)
           /\ Stable(doc, files, next, out.files)
           /\ DOMAIN next.events \cap DOMAIN doc.events \subseteq EventIds(files)
<1> DEFINE S == CallSet(chains)
           s == Unassigned(LoadSchema(doc), files)
           c == [first |-> s, files |-> files, chains |-> chains]
           t == FoldLeft(AssignFile, s, files)
           done == Placed(t.files)
<1>1. /\ Sources(c) /\ FilesDone(c, 0, s) /\ s.tag_names = doc.tags
      /\ s.usedEvents = DOMAIN doc.events \cup EventIds(files)
  BY LoopsBegin
<1>2. out = Cleaned(t)
  BY DEF Assigned
<1> HIDE DEF s
<1>3. c.first = s /\ c.files = files /\ c.chains = chains
  OBVIOUS
<1> HIDE DEF c
<1>4. FilesDone(c, Len(files), t)
  BY <1>1, <1>3, FilesAssigned
<1> HIDE DEF t
<1>5. /\ t.files \in Seq(Seq(S)) /\ Len(t.files) = Len(files)
      /\ \A f \in 1..Len(files) : Len(t.files[f]) = Len(files[f])
      /\ CallsDone(c, t, done)
  BY <1>3, <1>4 DEF FilesDone, FilesFinished
<1>6. DOMAIN done = Places(t.files)
  BY DEF Placed
<1>7. Places(t.files) = Places(files)
  <2>1. ASSUME NEW p \in Places(files) PROVE p \in Places(t.files)
    <3>1. p = <<p[1], p[2]>> /\ p[1] \in 1..Len(files) /\ p[2] \in 1..Len(files[p[1]])
      BY PlaceIn
    <3>2. p[1] \in 1..Len(t.files) /\ p[2] \in 1..Len(t.files[p[1]])
      BY <1>5, <3>1
    <3> HIDE DEF S
    <3>3. <<p[1], p[2]>> \in Places(t.files)
      BY <1>5, <3>2, IsPlace
    <3> QED
      BY <3>1, <3>3
  <2> QED
    BY <1>3, <1>5, <1>6, <2>1 DEF CallsDone
<1>8. /\ TagsMatch(t) /\ TagsGrow(s, t) /\ IsFiniteSet(t.usedEvents)
      /\ s.usedEvents \subseteq t.usedEvents /\ t.claimed \subseteq t.usedEvents
      /\ DOMAIN t.event_fields = t.claimed
      /\ \A p \in Places(files) : CallFinished(t, done[p], Placed(files)[p])
      /\ OneEach(t, done) /\ IdsKept(c, done)
  BY <1>3, <1>5, <1>6, <1>7 DEF CallsDone
<1>9. /\ out.files = t.files /\ next.events = t.event_fields
      /\ DOMAIN next.tags = {id \in DOMAIN t.tag_names : id \in TagIds(t.files)}
      /\ \A id \in DOMAIN next.tags : next.tags[id] = t.tag_names[id]
  BY <1>2, <1>8, CleanedDocument
<1>10. IsInjective(next.tags)
  BY <1>8, <1>9 DEF IsInjective, TagsMatch
<1>11. GoodDocument(next)
  <2>1. DOMAIN next.tags \subseteq t.usedTags
    BY <1>8, <1>9 DEF TagsMatch
  <2>2. IsFiniteSet(DOMAIN next.tags) /\ DOMAIN next.tags \subseteq Nat
    BY <1>8, <2>1, FS_Subset DEF TagsMatch
  <2>3. IsFiniteSet(DOMAIN next.events)
    BY <1>8, <1>9, FS_Subset
  <2>4. NoName \notin Range(next.tags)
    BY <1>8, <1>9 DEF Range, TagsMatch
  <2> QED
    BY <1>10, <2>2, <2>3, <2>4 DEF GoodDocument
<1>12. ASSUME NEW call \in AllCalls(t.files)
       PROVE  \E p \in Places(files) : done[p] = call
  <2> HIDE DEF S
  <2> QED
    BY <1>5, <1>7, CallsAtPlaces
<1>13. \A p \in Places(files) : done[p] \in AllCalls(t.files)
  <2> HIDE DEF S
  <2> QED
    BY <1>5, <1>7, CallsAtPlaces
<1>14. ASSUME NEW p \in Places(files)
       PROVE  Len(Placed(files)[p].chain) \in Nat
              /\ DOMAIN Placed(files)[p].chain = 1..Len(Placed(files)[p].chain)
  <2>1. Placed(files)[p] \in S
    BY PlaceIn
  <2> QED
    BY <2>1 DEF CallSet
<1>15. \A p \in Places(files) : done[p].ids # <<>>
  BY <1>8, <1>14 DEF CallFinished
<1>16. EventIds(t.files) = t.claimed
  <2>1. ASSUME NEW id \in t.claimed PROVE id \in EventIds(t.files)
    BY <1>6, <1>7, <1>8, <1>13, <1>15 DEF OneEach, EventIds
  <2>2. ASSUME NEW id \in EventIds(t.files) PROVE id \in t.claimed
    <3>1. PICK call \in AllCalls(t.files) : id = call.ids[1]
      BY DEF EventIds
    <3> QED
      BY <1>6, <1>7, <1>8, <1>12, <3>1 DEF OneEach
  <2> QED
    BY <2>1, <2>2
<1>17. InSync(next, t.files)
  <2>1. ASSUME NEW call \in AllCalls(t.files)
        PROVE  /\ Len(call.ids) = 1 + Len(call.chain)
               /\ next.events[call.ids[1]] = Fields(call.chain)
               /\ \A k \in DOMAIN call.chain :
                    IF call.chain[k].tag = NoName
                    THEN call.ids[k + 1] \notin DOMAIN next.tags
                    ELSE call.ids[k + 1] \in DOMAIN next.tags
                         /\ next.tags[call.ids[k + 1]] = call.chain[k].tag
    <3>1. PICK p \in Places(files) : done[p] = call
      BY <1>12
    <3>2. CallFinished(t, call, Placed(files)[p])
      BY <1>8, <3>1
    <3>3. Len(call.ids) = 1 + Len(call.chain) /\ call.chain = Placed(files)[p].chain
          /\ next.events[call.ids[1]] = Fields(call.chain)
      BY <1>9, <3>2 DEF CallFinished
    <3>4. ASSUME NEW k \in DOMAIN call.chain
          PROVE  StandsFor(t, call.ids[k + 1], call.chain[k].tag)
                 /\ call.ids[k + 1] \in TagIds(t.files)
      <4>1. k + 1 \in 2..Len(call.ids)
        BY <1>14, <3>3
      <4> QED
        BY <3>2, <3>3, <4>1, TagInUse DEF CallFinished
    <3> QED
      BY <1>9, <3>3, <3>4 DEF StandsFor
  <2> QED
    BY <1>8, <1>9, <1>16, <2>1 DEF InSync
<1>18. Distinct(next, t.files)
  BY <1>6, <1>8, <1>10 DEF Distinct, OneEach
<1>19. Stable(doc, files, next, t.files)
  <2>1. ASSUME NEW id \in DOMAIN doc.tags, doc.tags[id] \in Range(next.tags)
        PROVE  id \in DOMAIN next.tags /\ next.tags[id] = doc.tags[id]
    <3>1. id \in DOMAIN t.tag_names /\ t.tag_names[id] = doc.tags[id]
      BY <1>1, <1>8 DEF TagsGrow
    <3>2. PICK i \in DOMAIN next.tags : next.tags[i] = doc.tags[id]
      BY <2>1 DEF Range
    <3>3. i = id
      BY <1>8, <1>9, <3>1, <3>2 DEF TagsMatch
    <3> QED
      BY <3>2, <3>3
  <2>2. ASSUME NEW p \in Places(files), FirstWithId(files, p)
        PROVE  done[p].ids[1] = Placed(files)[p].ids[1]
    BY <1>3, <1>6, <1>7, <1>8, <2>2 DEF IdsKept
  <2> QED
    BY <2>1, <2>2 DEF Stable
<1>20. ASSUME NEW id \in DOMAIN next.events, id \in DOMAIN doc.events
       PROVE  id \in EventIds(files)
  <2>1. PICK p \in Places(files) : done[p].ids[1] = id
    BY <1>6, <1>7, <1>8, <1>9 DEF OneEach
  <2>2. id \in c.first.usedEvents
    BY <1>1, <1>3, <1>20
  <2>3. Placed(files)[p].ids # <<>> /\ id = Placed(files)[p].ids[1]
    BY <1>3, <1>6, <1>7, <1>8, <2>1, <2>2 DEF IdsKept
  <2>4. Placed(files)[p] \in AllCalls(files)
    BY CallsAtPlaces
  <2> QED
    BY <2>3, <2>4 DEF EventIds
<1>21. \A p \in Places(files) : done[p].chain = Placed(files)[p].chain
                             /\ done[p].write = Placed(files)[p].write
  BY <1>8 DEF CallFinished
<1> QED
  BY <1>5, <1>7, <1>9, <1>11, <1>17, <1>18, <1>19, <1>20, <1>21

-----------------------------------------------------------------------------
(* A second run, on sources of which the first one has rewritten some *)

(* The loop's states of both runs: the second has some more events that    *)
(* count as used.                                                          *)
Alike(s, t, more) ==
    /\ IsLoopState(s) /\ IsLoopState(t) /\ SameButTags([s EXCEPT !.usedEvents = @ \cup more], t)
    /\ t.tag_ids = s.tag_ids /\ t.tag_names = s.tag_names /\ t.usedTags = s.usedTags
    /\ t.ids = s.ids

(* What that says of the fields. *)
LEMMA AlikeFields ==
    ASSUME NEW s, NEW t, NEW more, IsLoopState(s), IsLoopState(t)
    PROVE  Alike(s, t, more) <=>
             /\ t.tag_ids = s.tag_ids /\ t.tag_names = s.tag_names /\ t.usedTags = s.usedTags
             /\ t.ids = s.ids /\ t.calls = s.calls /\ t.files = s.files
             /\ t.event_fields = s.event_fields /\ t.claimed = s.claimed
             /\ t.usedEvents = s.usedEvents \cup more
BY DEF Alike, SameButTags, IsLoopState

(* A name gets the same id in both runs. *)
LEMMA TagAgain ==
    ASSUME NEW s, NEW t, NEW more, Alike(s, t, more), NEW c
    PROVE  Alike(AssignTag(s, c), AssignTag(t, c), more)
<1> DEFINE q == AssignTag(s, c)
           r == AssignTag(t, c)
<1>1. IsLoopState(s) /\ IsLoopState(t)
  BY DEF Alike
<1>2. /\ t.tag_ids = s.tag_ids /\ t.tag_names = s.tag_names /\ t.usedTags = s.usedTags
      /\ t.ids = s.ids /\ t.calls = s.calls /\ t.files = s.files
      /\ t.event_fields = s.event_fields /\ t.claimed = s.claimed
      /\ t.usedEvents = s.usedEvents \cup more
  BY <1>1, AlikeFields
<1> DEFINE known == c.tag \in DOMAIN s.tag_ids
           id == IF known THEN s.tag_ids[c.tag] ELSE LeastUnused(s.usedTags)
           new == c.tag # NoName /\ ~known
<1> HIDE DEF q, r
<1>3. /\ IsLoopState(q) /\ SameButTags(s, q)
      /\ q.tag_ids = IF new THEN Entered(s.tag_ids, c.tag, id) ELSE s.tag_ids
      /\ q.tag_names = IF new THEN Entered(s.tag_names, id, c.tag) ELSE s.tag_names
      /\ q.usedTags = s.usedTags \cup {id} /\ q.ids = Append(s.ids, id)
  BY <1>1, AssignTagFields DEF q
<1>4. /\ IsLoopState(r) /\ SameButTags(t, r)
      /\ r.tag_ids = IF new THEN Entered(s.tag_ids, c.tag, id) ELSE s.tag_ids
      /\ r.tag_names = IF new THEN Entered(s.tag_names, id, c.tag) ELSE s.tag_names
      /\ r.usedTags = s.usedTags \cup {id} /\ r.ids = Append(s.ids, id)
  BY <1>1, <1>2, AssignTagFields DEF r
<1> HIDE DEF id, new
<1>5. /\ r.tag_ids = q.tag_ids /\ r.tag_names = q.tag_names /\ r.usedTags = q.usedTags
      /\ r.ids = q.ids
  BY <1>3, <1>4
<1>6. Alike(q, r, more)
  BY <1>2, <1>3, <1>4, <1>5, AlikeFields DEF SameButTags
<1> QED
  BY <1>6 DEF q, r

(* The second run over a chain, beside the states of the first.            *)
TagsAlike(c, k, t) == Alike(c.trace[k], t, c.more)

ChainTwice == INSTANCE FoldInduction WITH Op <- AssignTag, Holds <- TagsAlike

(* A chain gets the same ids in both runs. *)
LEMMA ChainAgain ==
    ASSUME NEW s, IsLoopState(s), TagsMatch(s), s.ids \in Seq(Int), Len(s.ids) = 1,
           NEW chain, NEW len \in Nat, DOMAIN chain = 1..len,
           NEW t, NEW more, Alike(s, t, more)
    PROVE  Alike(FoldLeft(AssignTag, s, chain), FoldLeft(AssignTag, t, chain), more)
<1>1. PICK trace : InChain!IsTrace(trace, [start |-> s, chain |-> chain], s, chain, len)
  BY ChainTraced
<1>2. /\ trace[0] = s /\ trace[len] = InChain!FoldLeft(AssignTag, s, chain)
      /\ \A k \in 1..len : trace[k] = AssignTag(trace[k - 1], chain[k])
  BY <1>1 DEF InChain!IsTrace
<1> DEFINE c == [trace |-> trace, more |-> more]
<1>3. TagsAlike(c, 0, t)
  BY <1>2 DEF TagsAlike
<1>4. ASSUME NEW k \in 1..len, NEW r, TagsAlike(c, k - 1, r)
      PROVE  TagsAlike(c, k, AssignTag(r, chain[k]))
  BY <1>2, <1>4, TagAgain DEF TagsAlike
<1> HIDE DEF c
<1>5. TagsAlike(c, len, ChainTwice!FoldLeft(AssignTag, t, chain))
  BY <1>3, <1>4, ChainTwice!FoldInvariant, Zenon
<1>6. /\ InChain!FoldLeft(AssignTag, s, chain) = FoldLeft(AssignTag, s, chain)
      /\ ChainTwice!FoldLeft(AssignTag, t, chain) = FoldLeft(AssignTag, t, chain)
  BY DEF FoldLeft, InChain!FoldLeft, ChainTwice!FoldLeft, MapThenFoldSet, InChain!MapThenFoldSet,
         ChainTwice!MapThenFoldSet, Max, InChain!Max, ChainTwice!Max
<1>7. Alike(trace[len], ChainTwice!FoldLeft(AssignTag, t, chain), more)
  BY <1>5 DEF TagsAlike, c
<1> QED
  BY <1>2, <1>6, <1>7

(* A call with the same chain and the same event id becomes the same. *)
LEMMA WithCallAgain ==
    ASSUME NEW s, TagsMatch(s), NEW t, NEW more, Alike(s, t, more), NEW id \in Int,
           NEW chains, NEW call \in CallSet(chains), NEW again \in CallSet(chains),
           Len(call.chain) \in Nat, DOMAIN call.chain = 1..Len(call.chain),
           again.chain = call.chain, again.write = call.write
    PROVE  Alike(WithCall(s, call, id), WithCall(t, again, id), more)
<1> DEFINE s0 == [s EXCEPT !.ids = <<id>>]
           t0 == [t EXCEPT !.ids = <<id>>]
           s1 == FoldLeft(AssignTag, s0, call.chain)
           t1 == FoldLeft(AssignTag, t0, call.chain)
           q == WithCall(s, call, id)
           r == WithCall(t, again, id)
<1>1. IsLoopState(s) /\ IsLoopState(t)
  BY DEF Alike
<1>2. /\ IsLoopState(s0) /\ IsLoopState(t0) /\ Alike(s0, t0, more) /\ s0.ids = <<id>>
      /\ s0.tag_ids = s.tag_ids /\ s0.tag_names = s.tag_names /\ s0.usedTags = s.usedTags
  BY <1>1 DEF Alike, IsLoopState, SameButTags
<1>3. /\ q = [s1 EXCEPT !.claimed = @ \cup {id}, !.usedEvents = @ \cup {id},
                        !.event_fields = Entered(@, id, Fields(call.chain)),
                        !.calls = Append(@, [call EXCEPT !.ids = s1.ids])]
      /\ r = [t1 EXCEPT !.claimed = @ \cup {id}, !.usedEvents = @ \cup {id},
                        !.event_fields = Entered(@, id, Fields(call.chain)),
                        !.calls = Append(@, [again EXCEPT !.ids = t1.ids])]
  BY DEF WithCall
<1> HIDE DEF s0, t0
<1>4. TagsMatch(s0) /\ s0.ids \in Seq(Int) /\ Len(s0.ids) = 1
  BY <1>2 DEF TagsMatch
<1>5. Alike(s1, t1, more)
  BY <1>2, <1>4, ChainAgain
<1> HIDE DEF s1, t1
<1>6. IsLoopState(s1) /\ IsLoopState(t1)
  BY <1>5 DEF Alike
<1>7. /\ t1.tag_ids = s1.tag_ids /\ t1.tag_names = s1.tag_names /\ t1.usedTags = s1.usedTags
      /\ t1.ids = s1.ids /\ t1.calls = s1.calls /\ t1.files = s1.files
      /\ t1.event_fields = s1.event_fields /\ t1.claimed = s1.claimed
      /\ t1.usedEvents = s1.usedEvents \cup more
  BY <1>5, <1>6, AlikeFields
<1>8. [again EXCEPT !.ids = t1.ids] = [call EXCEPT !.ids = s1.ids]
  BY <1>7 DEF CallSet
<1> DEFINE new == [call EXCEPT !.ids = s1.ids]
<1> HIDE DEF new, q, r
<1>9. /\ IsLoopState(q) /\ q.tag_ids = s1.tag_ids /\ q.tag_names = s1.tag_names
      /\ q.usedTags = s1.usedTags /\ q.ids = s1.ids /\ q.files = s1.files
      /\ q.calls = Append(s1.calls, new) /\ q.claimed = s1.claimed \cup {id}
      /\ q.usedEvents = s1.usedEvents \cup {id}
      /\ q.event_fields = Entered(s1.event_fields, id, Fields(call.chain))
  BY <1>3, <1>6 DEF IsLoopState, new
<1>10. /\ IsLoopState(r) /\ r.tag_ids = t1.tag_ids /\ r.tag_names = t1.tag_names
       /\ r.usedTags = t1.usedTags /\ r.ids = t1.ids /\ r.files = t1.files
       /\ r.calls = Append(t1.calls, new) /\ r.claimed = t1.claimed \cup {id}
       /\ r.usedEvents = t1.usedEvents \cup {id}
       /\ r.event_fields = Entered(t1.event_fields, id, Fields(call.chain))
  BY <1>3, <1>6, <1>8 DEF IsLoopState, new
<1>11. r.usedEvents = q.usedEvents \cup more
  BY <1>7, <1>9, <1>10
<1>12. /\ r.tag_ids = q.tag_ids /\ r.tag_names = q.tag_names /\ r.usedTags = q.usedTags
       /\ r.ids = q.ids /\ r.calls = q.calls /\ r.files = q.files
       /\ r.event_fields = q.event_fields /\ r.claimed = q.claimed
  BY <1>7, <1>9, <1>10
<1>13. Alike(q, r, more)
  BY <1>9, <1>10, <1>11, <1>12, AlikeFields
<1> QED
  BY <1>13 DEF q, r

(* The k-th sequence is the one before it with one more element. *)
Growing(seqs, S, len) ==
    /\ \A k \in 0..len : seqs[k] \in Seq(S) /\ Len(seqs[k]) = k
    /\ \A k \in 1..len : \E x \in S : seqs[k] = Append(seqs[k - 1], x)

(* An element is in all later sequences what it is in the first that has it*)
Keeping(seqs, len) == \A k \in 0..len : \A j \in 1..k : seqs[k][j] = seqs[j][j]

(* A sequence that only ever gets one more element keeps those it has.     *)
LEMMA AppendsKeep ==
    ASSUME NEW S, NEW len \in Nat, NEW seqs, Growing(seqs, S, len)
    PROVE  Keeping(seqs, len)
<1> DEFINE T == {n \in Nat : n <= len => \A j \in 1..n : seqs[n][j] = seqs[j][j]}
<1>1. 0 \in T
  OBVIOUS
<1>2. ASSUME NEW n \in Nat, n \in T PROVE n + 1 \in T
  <2> SUFFICES ASSUME n + 1 <= len, NEW j \in 1..(n + 1) PROVE seqs[n + 1][j] = seqs[j][j]
    OBVIOUS
  <2>1. n \in 0..len /\ n + 1 \in 1..len /\ (n + 1) - 1 = n
    OBVIOUS
  <2>2. PICK x \in S : seqs[n + 1] = Append(seqs[n], x)
    BY <2>1 DEF Growing
  <2>3. seqs[n] \in Seq(S) /\ Len(seqs[n]) = n
    BY <2>1 DEF Growing
  <2>4. CASE j = n + 1
    BY <2>4
  <2>5. CASE j # n + 1
    <3>1. j \in 1..n
      BY <2>5
    <3>2. seqs[n + 1][j] = seqs[n][j]
      BY <2>2, <2>3, <3>1
    <3> QED
      BY <1>2, <2>1, <3>1, <3>2
  <2> QED
    BY <2>4, <2>5
<1> HIDE DEF T
<1>3. Nat \subseteq T
  BY <1>1, <1>2, SetInduction
<1> QED
  BY <1>3 DEF T, Keeping

(* The next call, from what it gets its event id, and what is left of it.  *)
LEMMA CallOnce ==
    ASSUME NEW s, IsLoopState(s), TagsMatch(s), IsFiniteSet(s.usedEvents),
           s.claimed \subseteq s.usedEvents,
           NEW chains, NEW call \in CallSet(chains),
           Len(call.chain) \in Nat, DOMAIN call.chain = 1..Len(call.chain),
           NEW t, t = AssignCall(s, call)
    PROVE  \E new \in CallSet(chains) :
             /\ t = WithCall(s, call, new.ids[1]) /\ t.calls = Append(s.calls, new)
             /\ new.ids # <<>> /\ new.ids[1] \in Int /\ new.ids[1] \notin s.claimed
             /\ new.chain = call.chain /\ new.write = call.write
             /\ new.ids[1] = IF call.ids # <<>> /\ call.ids[1] \notin s.claimed
                             THEN call.ids[1] ELSE LeastUnused(s.usedEvents)
             /\ s.usedEvents \subseteq t.usedEvents
<1> DEFINE id == IF call.ids # <<>> /\ call.ids[1] \notin s.claimed
                 THEN call.ids[1] ELSE LeastUnused(s.usedEvents)
<1>1. t = WithCall(s, call, id)
  BY DEF AssignCall
<1>2. id \in Int /\ id \notin s.claimed
  <2>1. LeastUnused(s.usedEvents) \in Nat /\ LeastUnused(s.usedEvents) \notin s.usedEvents
    BY UnusedFound
  <2>2. call.ids # <<>> => call.ids[1] \in Int
    BY DEF CallSet
  <2> QED
    BY <2>1, <2>2
<1> HIDE DEF id
<1>3. PICK new \in CallSet(chains) :
        /\ t.usedEvents = s.usedEvents \cup {id} /\ t.calls = Append(s.calls, new)
        /\ new.ids[1] = id /\ CallFinished(t, new, call)
  BY <1>1, <1>2, WithCallFields
<1>4. new.ids # <<>> /\ new.chain = call.chain /\ new.write = call.write
  BY <1>3 DEF CallFinished
<1> QED
  BY <1>1, <1>2, <1>3, <1>4 DEF id

(* A call is the same after both runs: when it is rewritten already, since *)
(* no call before it has its id; when it is not, since the ids that count  *)
(* as used are those of the first run.                                     *)
LEMMA CallAgain ==
    ASSUME NEW s, TagsMatch(s), IsFiniteSet(s.usedEvents), s.claimed \subseteq s.usedEvents,
           NEW chains, s.calls \in Seq(CallSet(chains)),
           NEW t, NEW more, Alike(s, t, more),
           NEW call \in CallSet(chains), NEW again \in CallSet(chains),
           Len(call.chain) \in Nat, DOMAIN call.chain = 1..Len(call.chain),
           \/ again = call /\ more \subseteq s.usedEvents
           \/ AssignCall(s, call).calls = Append(s.calls, again)
    PROVE  /\ Alike(AssignCall(s, call), AssignCall(t, again), more)
           /\ s.usedEvents \subseteq AssignCall(s, call).usedEvents
<1> DEFINE q == AssignCall(s, call)
<1>1. IsLoopState(s) /\ IsLoopState(t)
  BY DEF Alike
<1>2. PICK new \in CallSet(chains) :
        /\ q = WithCall(s, call, new.ids[1]) /\ q.calls = Append(s.calls, new)
        /\ new.ids # <<>> /\ new.ids[1] \in Int /\ new.ids[1] \notin s.claimed
        /\ new.chain = call.chain /\ new.write = call.write
        /\ new.ids[1] = IF call.ids # <<>> /\ call.ids[1] \notin s.claimed
                        THEN call.ids[1] ELSE LeastUnused(s.usedEvents)
        /\ s.usedEvents \subseteq q.usedEvents
  BY <1>1, CallOnce
<1> DEFINE id == new.ids[1]
<1>3. again.chain = call.chain /\ again.write = call.write
      /\ AssignCall(t, again) = WithCall(t, again, id)
  <2>1. t.claimed = s.claimed /\ t.usedEvents = s.usedEvents \cup more
    BY <1>1, AlikeFields
  <2>2. CASE again = call /\ more \subseteq s.usedEvents
    <3>1. t.usedEvents = s.usedEvents
      BY <2>1, <2>2
    <3>2. AssignCall(t, again) = WithCall(t, again,
            IF call.ids # <<>> /\ call.ids[1] \notin s.claimed
            THEN call.ids[1] ELSE LeastUnused(s.usedEvents))
      BY <2>1, <2>2, <3>1 DEF AssignCall
    <3> QED
      BY <1>2, <2>2, <3>2
  <2>3. CASE q.calls = Append(s.calls, again)
    <3>1. again = new
      <4> DEFINE S == CallSet(chains)
      <4> HIDE DEF q, S
      <4>1. s.calls \in Seq(S) /\ new \in S /\ again \in S
        BY DEF S
      <4>2. /\ Append(s.calls, again)[Len(s.calls) + 1] = again
            /\ Append(s.calls, new)[Len(s.calls) + 1] = new
        BY <4>1
      <4> QED
        BY <1>2, <2>3, <4>2
    <3> QED
      BY <1>2, <2>1, <3>1 DEF AssignCall
  <2> QED
    BY <2>2, <2>3
<1> HIDE DEF q
<1>4. Alike(q, AssignCall(t, again), more)
  BY <1>2, <1>3, WithCallAgain
<1> QED
  BY <1>2, <1>4 DEF q

(* The second run over the calls of a file, beside the states of the first.*)
CallsAlike(c, k, t) ==
    /\ Alike(c.trace[k], t, c.more)
    /\ c.trace[0].usedEvents \subseteq c.trace[k].usedEvents

FileTwice == INSTANCE FoldInduction WITH Op <- AssignCall, Holds <- CallsAlike

(* From one state to a later one: a file is added. *)
OneFileMore(c, s, t) ==
    \E last \in Seq(CallSet(c.chains)) : t.files = Append(s.files, last)

(* So is a file, rewritten or not. *)
LEMMA FileAgain ==
    ASSUME NEW c, Sources(c), NEW k \in 1..Len(c.files), NEW s, FilesDone(c, k - 1, s),
           NEW t, NEW more, Alike(s, t, more),
           NEW again \in Seq(CallSet(c.chains)),
           \/ again = c.files[k] /\ more \subseteq s.usedEvents
           \/ AssignFile(s, c.files[k]).files = Append(s.files, again)
    PROVE  /\ Alike(AssignFile(s, c.files[k]), AssignFile(t, again), more)
           /\ s.usedEvents \subseteq AssignFile(s, c.files[k]).usedEvents
           /\ OneFileMore(c, s, AssignFile(s, c.files[k]))
<1> DEFINE q == AssignFile(s, c.files[k])
           S == CallSet(c.chains)
           calls == c.files[k]
           len == Len(calls)
           d == [c |-> c, files |-> s.files]
           s0 == [s EXCEPT !.calls = <<>>]
           t0 == [t EXCEPT !.calls = <<>>]
           s1 == FoldLeft(AssignCall, s0, calls)
           t1 == FoldLeft(AssignCall, t0, again)
           r == AssignFile(t, again)
<1>1. calls \in Seq(S) /\ len \in Nat /\ DOMAIN calls = 1..len
  BY DEF Sources
<1>2. IsLoopState(s) /\ IsLoopState(t)
  BY DEF Alike
<1>3. /\ Alike(s0, t0, more) /\ s0.usedEvents = s.usedEvents
      /\ s0.files = s.files /\ t0.files = t.files /\ s.files = t.files
  BY <1>2 DEF Alike, IsLoopState, SameButTags
<1>4. PICK trace : InFile!IsTrace(trace, d, s0, calls, len)
  BY FileTraced
<1>5. /\ q = [s1 EXCEPT !.files = Append(@, s1.calls)]
      /\ r = [t1 EXCEPT !.files = Append(@, t1.calls)]
  BY DEF AssignFile
<1> HIDE DEF s0, t0, calls
<1>6. /\ trace[0] = s0 /\ trace[len] = s1
      /\ \A j \in 1..len : trace[j] = AssignCall(trace[j - 1], calls[j])
      /\ \A j \in 0..len : FileDone(d, j, trace[j])
  <2>1. InFile!FoldLeft(AssignCall, s0, calls) = FoldLeft(AssignCall, s0, calls)
    BY DEF FoldLeft, InFile!FoldLeft, MapThenFoldSet, InFile!MapThenFoldSet, Max, InFile!Max
  <2> HIDE DEF d, len
  <2> QED
    BY <1>4, <2>1 DEF InFile!IsTrace
<1>7. ASSUME NEW j \in 0..len
      PROVE  /\ IsLoopState(trace[j]) /\ TagsMatch(trace[j]) /\ IsFiniteSet(trace[j].usedEvents)
             /\ trace[j].claimed \subseteq trace[j].usedEvents
             /\ trace[j].files = s.files /\ trace[j].calls \in Seq(S) /\ Len(trace[j].calls) = j
  BY <1>6 DEF FileDone, CallsDone
<1> HIDE DEF d, len, S, s1, t1, q, r
<1>8. ASSUME NEW j \in 1..len
      PROVE  /\ j - 1 \in 0..len /\ j \in 0..len /\ calls[j] \in S
             /\ Len(calls[j].chain) \in Nat /\ DOMAIN calls[j].chain = 1..Len(calls[j].chain)
  <2>1. j - 1 \in 0..len /\ j \in 0..len /\ calls[j] \in S
    BY <1>1
  <2>2. calls[j].chain \in c.chains
    BY <2>1 DEF CallSet, S
  <2> QED
    BY <2>1, <2>2 DEF Sources
<1>9. ASSUME NEW j \in 1..len
      PROVE  \E new \in S : trace[j].calls = Append(trace[j - 1].calls, new)
  <2> DEFINE p == trace[j - 1]
             call == calls[j]
  <2>1. /\ IsLoopState(p) /\ TagsMatch(p) /\ IsFiniteSet(p.usedEvents)
        /\ p.claimed \subseteq p.usedEvents
    BY <1>7, <1>8
  <2>2. /\ call \in CallSet(c.chains)
        /\ Len(call.chain) \in Nat /\ DOMAIN call.chain = 1..Len(call.chain)
    BY <1>8 DEF S
  <2>3. trace[j] = AssignCall(p, call)
    BY <1>6
  <2> HIDE DEF p, call
  <2>4. \E new \in CallSet(c.chains) : trace[j].calls = Append(p.calls, new)
    BY <2>1, <2>2, <2>3, CallOnce
  <2> QED
    BY <2>4 DEF S, p
<1>10. len \in 0..len /\ 0 \in 0..len
  BY <1>1
<1>11. /\ IsLoopState(s1) /\ s1.files = s.files /\ s1.calls \in Seq(S) /\ Len(s1.calls) = len
  BY <1>6, <1>7, <1>10
<1>12. q.files = Append(s.files, s1.calls) /\ s1.calls \in Seq(S)
  BY <1>5, <1>11 DEF IsLoopState
<1>13. CASE (again = calls /\ more \subseteq s.usedEvents) \/ again = s1.calls
  <2>1. again \in Seq(S) /\ Len(again) = len /\ DOMAIN again = 1..len
    BY <1>1, <1>11, <1>13 DEF len
  <2>2. ASSUME NEW j \in 1..len, again = s1.calls
        PROVE  trace[j].calls = Append(trace[j - 1].calls, again[j])
    <3> DEFINE seqs == [i \in 0..len |-> trace[i].calls]
    <3>1. \A i \in 0..len : seqs[i] \in Seq(S) /\ Len(seqs[i]) = i
      BY <1>7
    <3>2. \A i \in 1..len : i \in 0..len /\ i - 1 \in 0..len
      BY <1>1
    <3>3. \A i \in 1..len : \E x \in S : seqs[i] = Append(seqs[i - 1], x)
      BY <1>9, <3>2
    <3>4. seqs[len] = again
      BY <1>6, <1>10, <2>2
    <3> HIDE DEF seqs
    <3>5. seqs[len][j] = seqs[j][j]
      <4>1. Growing(seqs, S, len)
        BY <3>1, <3>3 DEF Growing
      <4>2. Keeping(seqs, len)
        BY <1>1, <4>1, AppendsKeep
      <4> QED
        BY <1>10, <4>2 DEF Keeping
    <3>6. PICK x \in S : trace[j].calls = Append(trace[j - 1].calls, x)
      BY <1>9
    <3>7. trace[j - 1].calls \in Seq(S) /\ Len(trace[j - 1].calls) = j - 1
      BY <1>7, <1>8
    <3>8. trace[j].calls[j] = x
      BY <3>6, <3>7
    <3>9. seqs[j] = trace[j].calls
      BY <3>2 DEF seqs
    <3> QED
      BY <3>4, <3>5, <3>6, <3>8, <3>9
  <2> DEFINE e == [trace |-> trace, more |-> more]
  <2>3. CallsAlike(e, 0, t0)
    BY <1>3, <1>6 DEF CallsAlike
  <2>4. ASSUME NEW j \in 1..len, NEW p, CallsAlike(e, j - 1, p)
        PROVE  CallsAlike(e, j, AssignCall(p, again[j]))
    <3>1. /\ Alike(trace[j - 1], p, more)
          /\ s.usedEvents \subseteq trace[j - 1].usedEvents
      BY <1>3, <1>6, <2>4 DEF CallsAlike
    <3>2. again[j] \in S
      BY <2>1
    <3>3. \/ again[j] = calls[j] /\ more \subseteq trace[j - 1].usedEvents
          \/ AssignCall(trace[j - 1], calls[j]).calls = Append(trace[j - 1].calls, again[j])
      BY <1>6, <1>13, <2>2, <3>1
    <3>4. /\ Alike(trace[j], AssignCall(p, again[j]), more)
          /\ trace[j - 1].usedEvents \subseteq trace[j].usedEvents
      <4> DEFINE b == trace[j - 1]
                 call == calls[j]
                 new == again[j]
      <4>1. /\ TagsMatch(b) /\ IsFiniteSet(b.usedEvents) /\ b.claimed \subseteq b.usedEvents
            /\ b.calls \in Seq(CallSet(c.chains)) /\ call \in CallSet(c.chains)
            /\ new \in CallSet(c.chains)
            /\ Len(call.chain) \in Nat /\ DOMAIN call.chain = 1..Len(call.chain)
        BY <1>7, <1>8, <3>2 DEF S
      <4>2. \/ new = call /\ more \subseteq b.usedEvents
            \/ AssignCall(b, call).calls = Append(b.calls, new)
        BY <3>3
      <4>3. Alike(b, p, more) /\ trace[j] = AssignCall(b, call)
        BY <1>6, <3>1
      <4> HIDE DEF b, call, new
      <4>4. /\ Alike(AssignCall(b, call), AssignCall(p, new), more)
            /\ b.usedEvents \subseteq AssignCall(b, call).usedEvents
        BY <4>1, <4>2, <4>3, CallAgain
      <4> QED
        BY <4>3, <4>4 DEF b, new
    <3> QED
      BY <1>3, <1>6, <3>1, <3>4 DEF CallsAlike
  <2> HIDE DEF e
  <2>5. CallsAlike(e, len, FileTwice!FoldLeft(AssignCall, t0, again))
    BY <1>1, <2>1, <2>3, <2>4, FileTwice!FoldInvariant, Zenon
  <2>6. FileTwice!FoldLeft(AssignCall, t0, again) = FoldLeft(AssignCall, t0, again)
    BY DEF FoldLeft, FileTwice!FoldLeft, MapThenFoldSet, FileTwice!MapThenFoldSet, Max, FileTwice!Max
  <2>7. Alike(s1, t1, more) /\ s.usedEvents \subseteq s1.usedEvents
    BY <1>3, <1>6, <2>5, <2>6 DEF CallsAlike, e, t1
  <2>8. IsLoopState(t1) /\ t1.files = s1.files /\ t1.calls = s1.calls
    BY <1>11, <2>7, AlikeFields DEF Alike
  <2>9. q.usedEvents = s1.usedEvents /\ Alike(q, r, more)
    BY <1>5, <1>11, <2>7, <2>8 DEF Alike, IsLoopState, SameButTags
  <2> QED
    BY <1>12, <2>7, <2>9 DEF q, r, S, OneFileMore
<1>14. CASE q.files = Append(s.files, again)
  <2>1. s.files \in Seq(Seq(S)) /\ again \in Seq(S)
    BY DEF FilesDone, FilesFinished, S
  <2>2. /\ Append(s.files, again)[Len(s.files) + 1] = again
        /\ Append(s.files, s1.calls)[Len(s.files) + 1] = s1.calls
    BY <1>12, <2>1
  <2> QED
    BY <1>12, <1>13, <1>14, <2>2
<1> QED
  BY <1>13, <1>14 DEF calls, q

(* The body of the loop over the files adds a file, and forgets no event.  *)
LEMMA FileGrows ==
    ASSUME NEW c, Sources(c), NEW k \in 1..Len(c.files), NEW s, FilesDone(c, k - 1, s)
    PROVE  /\ s.usedEvents \subseteq AssignFile(s, c.files[k]).usedEvents
           /\ OneFileMore(c, s, AssignFile(s, c.files[k]))
<1>1. Alike(s, s, {})
  BY AlikeFields DEF FilesDone, CallsDone
<1> DEFINE again == c.files[k]
<1>2. again \in Seq(CallSet(c.chains)) /\ again = c.files[k] /\ {} \subseteq s.usedEvents
  BY DEF Sources
<1> HIDE DEF again
<1>3. \/ again = c.files[k] /\ {} \subseteq s.usedEvents
      \/ AssignFile(s, c.files[k]).files = Append(s.files, again)
  BY <1>2
<1>4. again \in Seq(CallSet(c.chains))
  BY <1>2
<1> QED
  BY <1>1, <1>3, <1>4, FileAgain, Zenon

(* The second run over the files, beside the states of the first.  The ids *)
(* that count as used from the start, since they are in the files that     *)
(* were rewritten, all do for the first run when it is through with these. *)
FilesAlike(c, k, t) ==
    /\ Alike(c.trace[k], t, c.more)
    /\ k >= c.rewritten => c.more \subseteq c.trace[k].usedEvents

FilesTwice == INSTANCE FoldInduction WITH Op <- AssignFile, Holds <- FilesAlike

(* Of some sources the first n files are as a run leaves them, the others  *)
(* as it has found them.                                                   *)
PartlyRewritten(mixed, n, new, old) ==
    /\ Len(mixed) = Len(old)
    /\ \A f \in 1..Len(old) : mixed[f] = IF f <= n THEN new[f] ELSE old[f]

(* The ids that are in the sources after the first n files are rewritten:  *)
(* those that were, and those the first run has given to these files.      *)
LEMMA EventIdsMixed ==
    ASSUME NEW c, Sources(c), NEW n \in 0..Len(c.files), NEW s, FilesDone(c, n, s),
           NEW mixed \in Seq(Seq(CallSet(c.chains))),
           PartlyRewritten(mixed, n, s.files, c.files)
    PROVE  EventIds(c.files) \cup s.claimed = EventIds(mixed) \cup s.claimed
           /\ s.claimed \subseteq EventIds(mixed)
<1> DEFINE S == CallSet(c.chains)
           done == Placed(s.files)
<1>1. /\ c.files \in Seq(Seq(S)) /\ s.files \in Seq(Seq(S)) /\ Len(s.files) = n
      /\ \A f \in 1..n : Len(s.files[f]) = Len(c.files[f])
      /\ n \in Nat /\ Len(c.files) \in Nat /\ n <= Len(c.files) /\ Len(mixed) = Len(c.files)
  BY DEF FilesDone, FilesFinished, Sources, PartlyRewritten
<1>0. \A f \in 1..Len(c.files) : mixed[f] = IF f <= n THEN s.files[f] ELSE c.files[f]
  BY DEF PartlyRewritten
<1>2. /\ OneEach(s, done) /\ Taken(c, s, done)
      /\ \A p \in DOMAIN done : CallFinished(s, done[p], Placed(c.files)[p])
      /\ DOMAIN done = Places(s.files) /\ DOMAIN done \subseteq Places(c.files)
  BY DEF FilesDone, CallsDone, Placed
<1>3. ASSUME NEW p \in Places(s.files)
      PROVE  /\ p \in Places(mixed) /\ Placed(mixed)[p] = done[p]
             /\ done[p].ids # <<>> /\ done[p].ids[1] \in s.claimed
  <2>1. /\ p = <<p[1], p[2]>> /\ p[1] \in 1..n /\ p[2] \in 1..Len(s.files[p[1]])
        /\ done[p] = s.files[p[1]][p[2]]
    BY <1>1, PlaceIn, SMTT(30)
  <2>2. p[1] \in 1..Len(mixed) /\ mixed[p[1]] = s.files[p[1]]
    BY <1>0, <1>1, <2>1
  <2>3. <<p[1], p[2]>> \in Places(mixed) /\ Placed(mixed)[<<p[1], p[2]>>] = mixed[p[1]][p[2]]
    BY <2>1, <2>2, IsPlace
  <2>4. /\ Placed(c.files)[p] \in S /\ CallFinished(s, done[p], Placed(c.files)[p])
        /\ done[p].ids[1] \in s.claimed
    BY <1>1, <1>2, PlaceIn DEF OneEach
  <2>5. done[p].ids # <<>>
    <3>1. Len(Placed(c.files)[p].chain) \in Nat
      BY <2>4 DEF Sources, CallSet
    <3> QED
      BY <2>4, <3>1 DEF CallFinished
  <2> QED
    BY <2>1, <2>2, <2>3, <2>4, <2>5
<1>4. ASSUME NEW p, \/ p \in Places(c.files) /\ p[1] > n
                    \/ p \in Places(mixed) /\ p[1] > n
      PROVE  p \in Places(c.files) /\ p \in Places(mixed) /\ Placed(mixed)[p] = Placed(c.files)[p]
  <2>1. p = <<p[1], p[2]>> /\ p[1] \in 1..Len(c.files) /\ p[2] \in 1..Len(c.files[p[1]])
    <3>1. CASE p \in Places(c.files)
      BY <1>1, <3>1, PlaceIn
    <3>2. CASE p \in Places(mixed) /\ p[1] > n
      <4>1. p = <<p[1], p[2]>> /\ p[1] \in 1..Len(mixed) /\ p[2] \in 1..Len(mixed[p[1]])
        BY <3>2, PlaceIn
      <4>2. ~(p[1] <= n)
        BY <1>1, <3>2, <4>1
      <4> QED
        BY <1>0, <1>1, <4>1, <4>2
    <3> QED
      BY <1>4, <3>1, <3>2
  <2>2. ~(p[1] <= n)
    BY <1>1, <1>4, <2>1
  <2>3. mixed[p[1]] = c.files[p[1]] /\ p[1] \in 1..Len(mixed)
    BY <1>0, <1>1, <2>1, <2>2
  <2>4. /\ <<p[1], p[2]>> \in Places(c.files)
        /\ Placed(c.files)[<<p[1], p[2]>>] = c.files[p[1]][p[2]]
    BY <1>1, <2>1, IsPlace
  <2>5. /\ <<p[1], p[2]>> \in Places(mixed)
        /\ Placed(mixed)[<<p[1], p[2]>>] = mixed[p[1]][p[2]]
    BY <2>1, <2>3, IsPlace
  <2> QED
    BY <2>1, <2>3, <2>4, <2>5
<1>5. ASSUME NEW p, \/ p \in Places(c.files) /\ ~(p[1] > n)
                    \/ p \in Places(mixed) /\ ~(p[1] > n)
      PROVE  p \in Places(s.files)
  <2>1. p = <<p[1], p[2]>> /\ p[1] \in 1..n /\ p[2] \in 1..Len(s.files[p[1]])
    <3>1. CASE p \in Places(c.files) /\ ~(p[1] > n)
      <4>1. p = <<p[1], p[2]>> /\ p[1] \in 1..Len(c.files) /\ p[2] \in 1..Len(c.files[p[1]])
        BY <1>1, <3>1, PlaceIn
      <4>2. p[1] \in 1..n
        BY <1>1, <3>1, <4>1
      <4>3. Len(s.files[p[1]]) = Len(c.files[p[1]])
        BY <1>1, <4>2
      <4> QED
        BY <4>1, <4>2, <4>3
    <3>2. CASE p \in Places(mixed) /\ ~(p[1] > n)
      <4>1. p = <<p[1], p[2]>> /\ p[1] \in 1..Len(mixed) /\ p[2] \in 1..Len(mixed[p[1]])
        BY <3>2, PlaceIn
      <4>2. p[1] <= n /\ p[1] \in 1..Len(c.files)
        BY <1>1, <3>2, <4>1
      <4> QED
        BY <1>0, <1>1, <4>1, <4>2, SMTT(30)
    <3> QED
      BY <1>5, <3>1, <3>2
  <2>2. <<p[1], p[2]>> \in Places(s.files)
    BY <1>1, <2>1, IsPlace
  <2> QED
    BY <2>1, <2>2
<1> HIDE DEF done
<1>6. s.claimed \subseteq EventIds(mixed)
  <2> SUFFICES ASSUME NEW id \in s.claimed PROVE id \in EventIds(mixed)
    OBVIOUS
  <2>1. PICK p \in DOMAIN done : done[p].ids[1] = id
    BY <1>2 DEF OneEach
  <2>2. Placed(mixed)[p] = done[p] /\ done[p].ids # <<>> /\ Placed(mixed)[p] \in AllCalls(mixed)
    BY <1>2, <1>3, CallsAtPlaces
  <2> QED
    BY <2>1, <2>2 DEF EventIds
<1>7. ASSUME NEW id \in EventIds(c.files) PROVE id \in EventIds(mixed) \cup s.claimed
  <2>1. PICK call \in AllCalls(c.files) : call.ids # <<>> /\ id = call.ids[1]
    BY DEF EventIds
  <2>2. PICK p \in Places(c.files) : Placed(c.files)[p] = call
    BY <1>1, CallsAtPlaces
  <2>3. CASE p[1] > n
    <3>1. p \in Places(mixed) /\ Placed(mixed)[p] = call
      BY <1>4, <2>2, <2>3
    <3>2. call \in AllCalls(mixed)
      BY <3>1, CallsAtPlaces
    <3> QED
      BY <2>1, <3>2 DEF EventIds
  <2>4. CASE ~(p[1] > n)
    BY <1>2, <1>5, <2>1, <2>2, <2>4 DEF Taken
  <2> QED
    BY <2>3, <2>4
<1>8. ASSUME NEW id \in EventIds(mixed) PROVE id \in EventIds(c.files) \cup s.claimed
  <2>1. PICK call \in AllCalls(mixed) : call.ids # <<>> /\ id = call.ids[1]
    BY DEF EventIds
  <2>2. PICK p \in Places(mixed) : Placed(mixed)[p] = call
    BY CallsAtPlaces
  <2>3. CASE p[1] > n
    <3>1. p \in Places(c.files) /\ Placed(c.files)[p] = call
      BY <1>4, <2>2, <2>3
    <3>2. call \in AllCalls(c.files)
      BY <1>1, <3>1, CallsAtPlaces
    <3> QED
      BY <2>1, <3>2 DEF EventIds
  <2>4. CASE ~(p[1] > n)
    BY <1>3, <1>5, <2>1, <2>2, <2>4
  <2> QED
    BY <2>3, <2>4
<1> QED
  BY <1>6, <1>7, <1>8

(* The states of the loop over the files. *)
TraceOver(trace, c, s) == AllFiles!IsTrace(trace, c, s, c.files, Len(c.files))

(* The loop over the files, file by file. *)
LEMMA TraceOfFiles ==
    ASSUME NEW c, Sources(c), NEW s, NEW trace, TraceOver(trace, c, s)
    PROVE  /\ \A k \in 0..Len(c.files) : FilesDone(c, k, trace[k])
           /\ \A k \in 1..Len(c.files) :
                /\ FilesDone(c, k - 1, trace[k - 1])
                /\ trace[k] = AssignFile(trace[k - 1], c.files[k])
<1>1. Len(c.files) \in Nat
  BY DEF Sources
<1> QED
  BY <1>1 DEF TraceOver, AllFiles!IsTrace

(* The loop does not touch a file again. *)
LEMMA FilesKept ==
    ASSUME NEW c, Sources(c), NEW s, NEW trace,
           TraceOver(trace, c, s),
           NEW seqs, seqs = [k \in 0..Len(c.files) |-> trace[k].files]
    PROVE  Keeping(seqs, Len(c.files))
<1> DEFINE len == Len(c.files)
           S == Seq(CallSet(c.chains))
<1>1. len \in Nat
  BY DEF Sources
<1>2. ASSUME NEW i \in 0..Len(c.files)
      PROVE  trace[i].files \in Seq(Seq(CallSet(c.chains))) /\ Len(trace[i].files) = i
  <2>1. FilesDone(c, i, trace[i])
    BY TraceOfFiles
  <2> QED
    BY <2>1 DEF FilesDone, FilesFinished
<1>3. ASSUME NEW i \in 1..len
      PROVE  \E x \in S : trace[i].files = Append(trace[i - 1].files, x)
  <2> DEFINE b == trace[i - 1]
  <2>1. i \in 1..Len(c.files)
    OBVIOUS
  <2>2. FilesDone(c, i - 1, b) /\ trace[i] = AssignFile(b, c.files[i])
    BY <2>1, TraceOfFiles, Zenon
  <2> HIDE DEF b
  <2>3. OneFileMore(c, b, AssignFile(b, c.files[i]))
    BY <2>1, <2>2, FileGrows, Zenon
  <2>4. \E x \in Seq(CallSet(c.chains)) : trace[i].files = Append(b.files, x)
    BY <2>2, <2>3 DEF OneFileMore
  <2> QED
    BY <2>4 DEF b
<1>4. \A i \in 0..len : seqs[i] = trace[i].files
  OBVIOUS
<1> HIDE DEF len, S
<1>5. \A i \in 1..len : i \in 0..len /\ i - 1 \in 0..len
  BY <1>1
<1>6. Growing(seqs, S, len)
  BY <1>2, <1>3, <1>4, <1>5 DEF Growing, len, S
<1>7. Keeping(seqs, len)
  BY <1>1, <1>6, AppendsKeep
<1> QED
  BY <1>7 DEF len

(* The loops over the files end alike when they begin alike, and the ids   *)
(* that count as used for the second run alone are those that the first    *)
(* one has given to the files it has rewritten.                            *)
LEMMA FilesAgain ==
    ASSUME NEW c, Sources(c), NEW s, NEW t, NEW trace,
           TraceOver(trace, c, s),
           NEW n \in 0..Len(c.files), Alike(s, t, trace[n].claimed),
           NEW mixed \in Seq(Seq(CallSet(c.chains))),
           PartlyRewritten(mixed, n, trace[Len(c.files)].files, c.files)
    PROVE  Alike(trace[Len(c.files)], FoldLeft(AssignFile, t, mixed), trace[n].claimed)
<1> DEFINE len == Len(c.files)
           S == Seq(CallSet(c.chains))
           more == trace[n].claimed
           e == [trace |-> trace, more |-> more, rewritten |-> n]
<1>1. len \in Nat /\ n \in 0..len /\ 0 \in 0..len /\ len \in 0..len /\ c.files \in Seq(S)
  BY DEF Sources
<1>2. trace[0] = s
  BY DEF TraceOver, AllFiles!IsTrace
<1>3. Len(mixed) = len /\ DOMAIN mixed = 1..len
  BY DEF PartlyRewritten
<1>4. more \subseteq trace[n].usedEvents
  BY TraceOfFiles DEF FilesDone, CallsDone
<1>5. ASSUME NEW k \in 1..len PROVE mixed[k] = IF k <= n THEN trace[k].files[k] ELSE c.files[k]
  <2> DEFINE seqs == [i \in 0..Len(c.files) |-> trace[i].files]
  <2>1. /\ Len(c.files) \in 0..Len(c.files) /\ k \in 1..Len(c.files) /\ k \in 0..Len(c.files)
        /\ seqs[Len(c.files)] = trace[Len(c.files)].files /\ seqs[k] = trace[k].files
    BY <1>1
  <2> HIDE DEF seqs
  <2>2. Keeping(seqs, Len(c.files))
    BY FilesKept, Zenon DEF seqs
  <2>3. trace[Len(c.files)].files[k] = trace[k].files[k]
    BY <2>1, <2>2 DEF Keeping
  <2> QED
    BY <2>1, <2>3 DEF PartlyRewritten
<1> HIDE DEF len, more, S
<1>6. FilesAlike(e, 0, t)
  <2>1. 0 >= n => more \subseteq trace[0].usedEvents
    BY <1>1, <1>4
  <2> QED
    BY <1>2, <2>1 DEF FilesAlike, more
<1>7. ASSUME NEW k \in 1..len, NEW r, FilesAlike(e, k - 1, r)
      PROVE  FilesAlike(e, k, AssignFile(r, mixed[k]))
  <2> DEFINE b == trace[k - 1]
             q == trace[k]
             again == mixed[k]
  <2>1. Alike(b, r, more) /\ (k - 1 >= n => more \subseteq b.usedEvents)
    BY <1>7 DEF FilesAlike
  <2>2. k \in 1..Len(c.files)
    BY DEF len
  <2>3. FilesDone(c, k - 1, b) /\ q = AssignFile(b, c.files[k])
    BY <2>2, TraceOfFiles, Zenon
  <2>4. Len(b.files) = k - 1 /\ b.files \in Seq(S)
    BY <2>3 DEF FilesDone, FilesFinished, S
  <2>5. again \in S /\ again = IF k <= n THEN q.files[k] ELSE c.files[k]
    BY <1>3, <1>5 DEF S
  <2>6. k = n => more \subseteq q.usedEvents
    BY <1>4
  <2> HIDE DEF b, q, again
  <2>7. PICK last \in S : q.files = Append(b.files, last)
    <3>1. OneFileMore(c, b, AssignFile(b, c.files[k]))
      BY <2>2, <2>3, FileGrows, Zenon
    <3> QED
      BY <2>3, <3>1 DEF S, OneFileMore
  <2>8. \/ again = c.files[k] /\ more \subseteq b.usedEvents
        \/ q.files = Append(b.files, again)
    <3>1. CASE k <= n
      <4>1. q.files[k] = last
        BY <2>4, <2>7
      <4> QED
        BY <2>5, <2>7, <3>1, <4>1
    <3>2. CASE ~(k <= n)
      <4>1. k - 1 >= n
        BY <1>1, <3>2
      <4> QED
        BY <2>1, <2>5, <3>2, <4>1
    <3> QED
      BY <3>1, <3>2
  <2>9. Alike(q, AssignFile(r, again), more) /\ b.usedEvents \subseteq q.usedEvents
    <3>1. again \in Seq(CallSet(c.chains))
      BY <2>5 DEF S
    <3>2. \/ again = c.files[k] /\ more \subseteq b.usedEvents
          \/ AssignFile(b, c.files[k]).files = Append(b.files, again)
      BY <2>3, <2>8
    <3>3. /\ Alike(AssignFile(b, c.files[k]), AssignFile(r, again), more)
          /\ b.usedEvents \subseteq AssignFile(b, c.files[k]).usedEvents
      BY <2>1, <2>2, <2>3, <3>1, <3>2, FileAgain, Zenon
    <3> QED
      BY <2>3, <3>3
  <2>10. k >= n => more \subseteq q.usedEvents
    <3>1. k >= n => k = n \/ k - 1 >= n
      BY <1>1
    <3> QED
      BY <2>1, <2>6, <2>9, <3>1
  <2> QED
    BY <2>9, <2>10 DEF FilesAlike, q, again
<1> HIDE DEF e
<1>8. FilesAlike(e, len, FilesTwice!FoldLeft(AssignFile, t, mixed))
  BY <1>1, <1>3, <1>6, <1>7, FilesTwice!FoldInvariant, Zenon
<1>9. FilesTwice!FoldLeft(AssignFile, t, mixed) = FoldLeft(AssignFile, t, mixed)
  BY DEF FoldLeft, FilesTwice!FoldLeft, MapThenFoldSet, FilesTwice!MapThenFoldSet, Max,
         FilesTwice!Max
<1> QED
  BY <1>8, <1>9 DEF FilesAlike, e, more, len

(* A second run finds the schema of the first one and sources of which the *)
(* first one has rewritten the first n files: it ends with the same ids.   *)
THEOREM AssignedAgain ==
    ASSUME NEW doc, GoodDocument(doc),
           NEW chains, \A ch \in chains : Len(ch) \in Nat /\ DOMAIN ch = 1..Len(ch),
           NEW files \in Seq(Seq(CallSet(chains))),
           NEW out, out = Assigned(LoadSchema(doc), files),
           NEW n \in 0..Len(files),
           NEW mixed \in Seq(Seq(CallSet(chains))),
           PartlyRewritten(mixed, n, out.files, files)
    PROVE  Assigned(LoadSchema(doc), mixed) = out
<1> DEFINE s == Unassigned(LoadSchema(doc), files)
           t == Unassigned(LoadSchema(doc), mixed)
           c == [first |-> s, files |-> files, chains |-> chains]
           s1 == FoldLeft(AssignFile, s, files)
           t1 == FoldLeft(AssignFile, t, mixed)
<1>1. Sources(c) /\ FilesDone(c, 0, s)
  BY LoopsBegin
<1>2. c.files = files /\ c.chains = chains
  OBVIOUS
<1>3. out = Cleaned(s1) /\ Assigned(LoadSchema(doc), mixed) = Cleaned(t1)
  BY DEF Assigned
<1>4. /\ IsLoopState(s) /\ IsLoopState(t)
      /\ t.tag_ids = s.tag_ids /\ t.tag_names = s.tag_names /\ t.usedTags = s.usedTags
      /\ t.ids = s.ids /\ t.calls = s.calls /\ t.files = s.files
      /\ t.event_fields = s.event_fields /\ t.claimed = s.claimed
      /\ s.usedEvents = DOMAIN LoadSchema(doc).event_fields \cup EventIds(files)
      /\ t.usedEvents = DOMAIN LoadSchema(doc).event_fields \cup EventIds(mixed)
  BY DEF Unassigned, IsLoopState
<1> HIDE DEF c, s, t
<1>5. PICK trace : TraceOver(trace, c, s)
  BY <1>1, FilesTraced DEF TraceOver
<1>6. trace[Len(files)] = s1
  <2>1. AllFiles!FoldLeft(AssignFile, s, files) = FoldLeft(AssignFile, s, files)
    BY DEF FoldLeft, AllFiles!FoldLeft, MapThenFoldSet, AllFiles!MapThenFoldSet, Max, AllFiles!Max
  <2> QED
    BY <1>2, <1>5, <2>1 DEF TraceOver, AllFiles!IsTrace
<1> HIDE DEF s1, t1
<1>7. s1.files = out.files
  BY <1>3 DEF Cleaned
<1> DEFINE b == trace[n]
<1>8. n \in 0..Len(c.files) /\ FilesDone(c, n, b)
  BY <1>1, <1>2, <1>5, TraceOfFiles
<1>9. PartlyRewritten(mixed, n, b.files, c.files)
  <2> DEFINE seqs == [k \in 0..Len(c.files) |-> trace[k].files]
  <2>1. Keeping(seqs, Len(c.files))
    BY <1>1, <1>5, FilesKept, Zenon
  <2>2. \A k \in 0..Len(c.files) : seqs[k] = trace[k].files
    OBVIOUS
  <2> HIDE DEF seqs
  <2>3. ASSUME NEW f \in 1..n PROVE trace[Len(files)].files[f] = trace[n].files[f]
    <3>1. /\ Len(files) \in 0..Len(c.files) /\ f \in 1..Len(files)
          /\ n \in 0..Len(c.files) /\ f \in 0..Len(c.files)
      BY <1>2
    <3>2. seqs[Len(files)][f] = seqs[f][f] /\ seqs[n][f] = seqs[f][f]
      BY <2>1, <3>1 DEF Keeping
    <3> QED
      BY <2>2, <3>1, <3>2
  <2> QED
    BY <1>2, <1>6, <1>7, <2>3 DEF PartlyRewritten
<1> HIDE DEF b
<1>10. EventIds(files) \cup b.claimed = EventIds(mixed) \cup b.claimed
       /\ b.claimed \subseteq EventIds(mixed)
  BY <1>1, <1>2, <1>8, <1>9, EventIdsMixed
<1>11. Alike(s, t, b.claimed)
  <2>1. t.usedEvents = s.usedEvents \cup b.claimed
    BY <1>4, <1>10
  <2> QED
    BY <1>4, <2>1, AlikeFields
<1>12. PartlyRewritten(mixed, n, trace[Len(c.files)].files, c.files)
  BY <1>2, <1>6, <1>7
<1>13. Alike(s1, t1, b.claimed)
  BY <1>1, <1>2, <1>5, <1>6, <1>8, <1>11, <1>12, FilesAgain DEF b, t1
<1>14. /\ t1.tag_ids = s1.tag_ids /\ t1.tag_names = s1.tag_names
       /\ t1.files = s1.files /\ t1.event_fields = s1.event_fields
  BY <1>13, AlikeFields DEF Alike
<1>15. Cleaned(t1) = Cleaned(s1)
  BY <1>14 DEF Cleaned
<1> QED
  BY <1>3, <1>15
=============================================================================
