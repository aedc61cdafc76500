---------------------------- MODULE TextLogProofs ----------------------------
(***************************************************************************)
(* Proofs about TextLog, for any threads, capacity, list of ids, program   *)
(* and mishaps: its types; that all that threads which share the encoder,  *)
(* chains without end and nested chains can change of a line is the form   *)
(* of its pairs; and that the line of a record nobody else has been at is  *)
(* the one that is documented.                                             *)
(***************************************************************************)
EXTENDS TextLog, SequenceLemmas

-----------------------------------------------------------------------------
(* Types *)

(* What encode_pair is given. *)
PairOf(m) == [kind : {m}, id : Nat, name : STRING, val : Value(m), valId : Nat]
Pair ==
    [kind : {"event"}, id : Nat, val : Levels]
    \cup PairOf("i") \cup PairOf("f") \cup PairOf("b") \cup PairOf("s") \cup PairOf("cs")

(* A statement is a sequence of pairs, at least those of the level method. *)
LEMMA PairsTyped ==
    ASSUME NEW stmt \in Statements
    PROVE  Pairs(Ids, stmt) \in Seq(Pair) /\ Len(Pairs(Ids, stmt)) >= 2
<1>1. \A k : NextId(Ids, k) \in Nat
  BY IdsAssumption DEF NextId
<1>2. IsStatement(stmt)
  BY StatementsAssumption
<1> DEFINE event == [kind |-> "event", id |-> NextId(Ids, 1), val |-> stmt.level]
           msg == [kind |-> "i", id |-> NextId(Ids, 2), name |-> stmt.msg, val |-> 0, valId |-> 0]
           rest == [k \in DOMAIN stmt.fields |-> FieldPair(Ids, stmt.fields, k)]
<1>3. event \in Pair
  BY <1>1, <1>2 DEF Pair, IsStatement
<1>4. msg \in Pair
  <2>1. msg \in PairOf("i")
    BY <1>1, <1>2 DEF PairOf, IsStatement, Value
  <2> QED
    BY <2>1 DEF Pair
<1>5. rest \in Seq(Pair)
  <2>1. ASSUME NEW k \in DOMAIN stmt.fields PROVE FieldPair(Ids, stmt.fields, k) \in Pair
    <3>1. PICK m \in {"i", "f", "b", "s", "cs"} : stmt.fields[k] \in Field(m)
      BY <1>2 DEF IsStatement
    <3>2. FieldPair(Ids, stmt.fields, k) \in PairOf(m)
      BY <1>1, <3>1 DEF FieldPair, PairOf, Field
    <3> QED
      BY <3>2 DEF Pair
  <2>2. Len(stmt.fields) \in Nat /\ DOMAIN stmt.fields = 1..Len(stmt.fields)
    BY <1>2 DEF IsStatement
  <2> QED
    BY <2>1, <2>2
<1>6. Pairs(Ids, stmt) = <<event, msg>> \o rest
  BY DEF Pairs
<1> HIDE DEF event, msg, rest
<1>7. <<event, msg>> \in Seq(Pair) /\ Len(<<event, msg>>) = 2
  BY <1>3, <1>4
<1> QED
  BY <1>5, <1>6, <1>7

(* The text of a pair is one, and of a pair at any index but 1 the same.   *)
LEMMA PairTextTyped ==
    ASSUME NEW p \in Pair, NEW i
    PROVE  PairText(i, p) \in Seq(Token)
<1>1. ASSUME NEW s \in Strings PROVE Str(s) \in Seq(Token)
  <2>1. [text |-> s] \in Token
    BY DEF Token
  <2> QED
    BY <2>1 DEF Str
<1>a. Space \in Seq(Token) /\ Str("[") \in Seq(Token) /\ Str("]") \in Seq(Token)
      /\ Str("true") \in Seq(Token) /\ Str("false") \in Seq(Token)
  <2>1. {" ", "[", "]", "true", "false"} \subseteq Strings
    BY DEF Strings
  <2> QED
    BY <1>1, <2>1 DEF Space
<1>2. CASE p \in [kind : {"event"}, id : Nat, val : Levels]
  <2>1. PairText(i, p) = LevelText(p.val)
    BY <1>2 DEF PairText
  <2>2. LevelNames[p.val + 1] \in Strings
    <3>1. p.val + 1 \in 1..6
      BY <1>2 DEF Levels
    <3>2. DOMAIN LevelNames = 1..6
      BY DEF LevelNames
    <3> QED
      BY <3>1, <3>2 DEF Strings
  <2>3. Str(LevelNames[p.val + 1]) \in Seq(Token)
    BY <1>1, <2>2
  <2> QED
    BY <1>a, <2>1, <2>3 DEF LevelText
<1>3. ASSUME NEW m \in {"i", "f", "b", "s", "cs"}, p \in PairOf(m)
      PROVE  PairText(i, p) \in Seq(Token)
  <2>1. p.kind = m /\ p.name \in STRING /\ p.val \in Value(m)
    BY <1>3 DEF PairOf
  <2>2. Str(p.name) \in Seq(Token)
    BY <1>1, <2>1 DEF Strings
  <2>3. ValueText(p) \in Seq(Token)
    <3>1. CASE m = "i"
      <4>1. [num |-> p.val] \in Token
        BY <2>1, <3>1 DEF Value, Token
      <4> QED
        BY <2>1, <3>1, <4>1 DEF ValueText, Num
    <3>2. CASE m = "f"
      <4>1. [float |-> p.val] \in Token
        BY <2>1, <3>2 DEF Value, Token
      <4> QED
        BY <2>1, <3>2, <4>1 DEF ValueText, Real
    <3>3. CASE m = "b"
      <4>1. ValueText(p) = Str(IF p.val THEN "true" ELSE "false")
        BY <2>1, <3>3 DEF ValueText
      <4> QED
        BY <1>a, <4>1
    <3>4. CASE m = "s"
      <4>1. p.val \in Seq(Nat) /\ ValueText(p) = [k \in DOMAIN p.val |-> [char |-> p.val[k]]]
        BY <2>1, <3>4 DEF ValueText, Chars, Value
      <4>2. Len(p.val) \in Nat /\ DOMAIN p.val = 1..Len(p.val)
        BY <4>1
      <4>3. \A k \in DOMAIN p.val : [char |-> p.val[k]] \in Token
        BY <4>1 DEF Token
      <4> QED
        BY <4>1, <4>2, <4>3
    <3>5. CASE m = "cs"
      <4>1. p.val \in Strings /\ ValueText(p) = Str(p.val)
        BY <2>1, <3>5 DEF ValueText, Value, Strings
      <4> QED
        BY <1>1, <4>1
    <3> QED
      BY <3>1, <3>2, <3>3, <3>4, <3>5
  <2>4. \/ PairText(i, p) = Str(p.name)
        \/ PairText(i, p) = Space \o Str(p.name) \o Space \o ValueText(p)
    BY <2>1 DEF PairText
  <2>5. Space \o Str(p.name) \o Space \o ValueText(p) \in Seq(Token)
    BY <1>a, <2>2, <2>3
  <2> QED
    BY <2>2, <2>4, <2>5
<1> QED
  BY <1>2, <1>3 DEF Pair

(* What is appended keeps the buffer one, ... *)
LEMMA AppendedTyped ==
    ASSUME NEW S, NEW b \in Seq(S), NEW data \in Seq(S)
    PROVE  /\ Appended(b, data) \in Seq(S) /\ Len(Appended(b, data)) <= Cap
           /\ Len(b) <= Cap => Len(Appended(b, data)) >= Len(b)
<1> DEFINE all == b \o data
           n == IF Len(all) < Cap THEN Len(all) ELSE Cap
<1>1. all \in Seq(S) /\ n \in Nat /\ n <= Len(all) /\ n <= Cap
      /\ (Len(b) <= Cap => n >= Len(b))
  BY CapAssumption
<1>2. SubSeq(all, 1, n) \in Seq(S) /\ Len(SubSeq(all, 1, n)) = n
  BY <1>1
<1> QED
  BY <1>1, <1>2 DEF Appended

(* ... and the line of a record is a text. *)
LEMMA PairsTextTyped ==
    ASSUME NEW ps \in Seq(Pair), NEW indices
    PROVE  /\ [k \in DOMAIN ps |-> PairText(indices[k], ps[k])] \in Seq(Seq(Token))
           /\ PairsText(ps, indices) \in Seq(Token)
<1> DEFINE texts == [k \in DOMAIN ps |-> PairText(indices[k], ps[k])]
<1>1. Len(ps) \in Nat /\ DOMAIN ps = 1..Len(ps) /\ \A k \in DOMAIN ps : ps[k] \in Pair
  OBVIOUS
<1>2. \A k \in DOMAIN ps : PairText(indices[k], ps[k]) \in Seq(Token)
  BY <1>1, PairTextTyped
<1>3. texts \in Seq(Seq(Token))
  BY <1>1, <1>2
<1> QED
  BY <1>3, FlattenType DEF PairsText

LEMMA NewLineTyped == NewLine \in Seq(Token) /\ Len(NewLine) = 1
<1>1. [text |-> "\n"] \in Token
  BY DEF Token, Strings
<1> QED
  BY <1>1 DEF NewLine, Str

-----------------------------------------------------------------------------
(* Every step is one of these. *)
LEMMA StepCases ==
    ASSUME [Next]_vars
    PROVE  \/ UNCHANGED vars
           \/ /\ ~aborted
              /\ \E t \in Threads :
                    \/ Reinit(t) \/ NewEncoder(t)
                    \/ \E stmt \in Statements : Log(t, stmt)
                    \/ Unwritten(t) \/ Thrown(t)
                    \/ Abort(t) \/ WritePair(t) \/ LoadIndex(t) \/ StoreIndex(t)
                    \/ Commit(t) \/ Color(t) \/ WriteTag(t) \/ ResetColor(t)
                    \/ WriteRest(t) \/ EndRecord(t)
BY DEF Next, Ended, Running, Encode, Flush

(* What may be on stdout. *)
Shown == Token \cup [color : {"on", "off"}]
Entry == [rec : Nat, tok : Shown]

(* TypeOK, and: statements are sequences of pairs, a thread that is to     *)
(* encode one has one, and a line that is coloured has its tag.            *)
TypeInv ==
    /\ TypeOK
    /\ todo \in [Threads -> Seq(Pair)] /\ pairs \in [Threads -> Seq(Pair)]
    /\ encoded \in [Threads -> Seq(Pair)]
    /\ outer \in [Threads -> [pairs : Seq(Pair), todo : Seq(Pair)]]
    /\ \A t \in Threads :
        /\ pc[t] \in {"pair", "load", "store"} => todo[t] # <<>>
        /\ outer[t] # None => outer[t].todo # <<>>
        /\ pc[t] \in {"color", "tag"} => Len(buff[t]) >= 3

(* The bytes of an fwrite. *)
LEMMA WrittenTyped ==
    ASSUME TypeInv, NEW t \in Threads, NEW data \in Seq(Shown)
    PROVE  Written(t, data) \in Seq(Entry)
<1> DEFINE new == [k \in DOMAIN data |-> [rec |-> record[t], tok |-> data[k]]]
<1>1. Len(data) \in Nat /\ DOMAIN data = 1..Len(data) /\ \A k \in DOMAIN data : data[k] \in Shown
  OBVIOUS
<1>2. record[t] \in Nat /\ stdout \in Seq(Entry)
  BY DEF TypeInv, TypeOK, Shown, Entry
<1>3. \A k \in DOMAIN data : [rec |-> record[t], tok |-> data[k]] \in Entry
  BY <1>1, <1>2 DEF Entry
<1>4. new \in Seq(Entry)
  BY <1>1, <1>3
<1> HIDE DEF new
<1>5. stdout \o new \in Seq(Entry)
  BY <1>2, <1>4
<1> QED
  BY <1>5 DEF Written, new

LEMMA TypeInit == Init => TypeInv
<1> SUFFICES ASSUME Init PROVE TypeInv
  OBVIOUS
<1>1. None \in [pairs : Seq(Pair), todo : Seq(Pair)]
  BY DEF None
<1>2. <<>> \in Seq(Token) /\ <<>> \in Seq(Seq(Token)) /\ Len(<<>>) = 0
      /\ <<>> \in Seq([rec : Nat, tok : Token \cup [color : {"on", "off"}]])
  OBVIOUS
<1>3. TypeOK
  <2>1. \A t \in Threads : buff[t] = <<>>
    BY DEF Init
  <2>2. 0 <= Cap
    BY CapAssumption
  <2>3. \A t \in Threads : Len(buff[t]) <= Cap
    BY <1>2, <2>1, <2>2
  <2>4. buff \in [Threads -> Seq(Token)] /\ records \in Seq(Seq(Token))
        /\ stdout \in Seq([rec : Nat, tok : Token \cup [color : {"on", "off"}]])
    BY <1>2 DEF Init
  <2>5. pc \in [Threads -> {"idle"}] /\ index \in Nat /\ min \in MinLevels
        /\ record \in [Threads -> Nat] /\ seen \in [Threads -> Nat]
        /\ aborted \in BOOLEAN /\ astray \in BOOLEAN /\ alone \in [Threads -> BOOLEAN]
    BY DEF Init
  <2> QED
    BY <2>3, <2>4, <2>5 DEF TypeOK
<1> QED
  BY <1>1, <1>3 DEF Init, TypeInv

LEMMA TypeStep == TypeInv /\ [Next]_vars => TypeInv'
<1> SUFFICES ASSUME TypeInv, [Next]_vars PROVE TypeInv'
  OBVIOUS
<1> USE DEF TypeInv, TypeOK
<1>1. ASSUME NEW t \in Threads, Reinit(t) PROVE TypeInv'
  BY <1>1 DEF Reinit, Nobody, enc, stmts
<1>2. ASSUME NEW t \in Threads, NewEncoder(t) PROVE TypeInv'
  BY <1>2 DEF NewEncoder, stmts
<1>3. ASSUME NEW t \in Threads, NEW stmt \in Statements, Log(t, stmt) PROVE TypeInv'
  <2>1. Pairs(Ids, stmt) \in Seq(Pair) /\ Pairs(Ids, stmt) # <<>>
    BY PairsTyped
  <2>2. None \in [pairs : Seq(Pair), todo : Seq(Pair)]
    BY DEF None
  <2>3. pc[t] = "idle" \/ pc[t] = "pair"
    BY <1>3 DEF Log, Begins, InArguments
  <2>4. /\ pc' = [pc EXCEPT ![t] = "pair"]
        /\ todo' = [todo EXCEPT ![t] = Pairs(Ids, stmt)]
        /\ pairs' = [pairs EXCEPT ![t] = Pairs(Ids, stmt)]
        /\ outer' = [outer EXCEPT ![t] =
                        IF pc[t] = "idle" THEN None ELSE [pairs |-> pairs[t], todo |-> todo[t]]]
        /\ alone' = [u \in Threads |-> u = t /\ Busy = {} /\ ~astray /\ encoded[t] = <<>>]
        /\ UNCHANGED <<enc, buff, min, stdout, record, encoded, astray, records, aborted>>
    BY <1>3 DEF Log
  <2> QED
    BY <2>1, <2>2, <2>3, <2>4 DEF enc
<1>4. ASSUME NEW t \in Threads, Return(t),
             UNCHANGED <<buff, min, stdout, aborted, record, records>>,
             index' \in Nat, seen' = seen, alone' = alone, astray' \in BOOLEAN,
             encoded' \in [Threads -> Seq(Pair)]
      PROVE  TypeInv'
  <2>1. None \in [pairs : Seq(Pair), todo : Seq(Pair)]
    BY DEF None
  <2> QED
    BY <1>4, <2>1 DEF Return
<1>5. ASSUME NEW t \in Threads, Unwritten(t) PROVE TypeInv'
  BY <1>4, <1>5 DEF Unwritten, enc
<1>6. ASSUME NEW t \in Threads, Thrown(t) PROVE TypeInv'
  <2>1. None \in [pairs : Seq(Pair), todo : Seq(Pair)]
    BY DEF None
  <2> QED
    BY <1>6, <2>1, SMTT(30) DEF Thrown, enc
<1>7. ASSUME NEW t \in Threads, WritePair(t) PROVE TypeInv'
  <2>1. Head(todo[t]) \in Pair
    BY <1>7 DEF WritePair
  <2>2. PairText(index, Head(todo[t])) \in Seq(Token)
    BY <2>1, PairTextTyped
  <2> DEFINE b == Appended(buff[t], PairText(index, Head(todo[t])))
  <2>3. b \in Seq(Token) /\ Len(b) <= Cap
    BY <2>2, AppendedTyped
  <2>4. encoded' \in [Threads -> Seq(Pair)]
    BY <1>7, <2>1 DEF WritePair
  <2>5. buff' = [buff EXCEPT ![t] = b]
    BY <1>7 DEF WritePair
  <2> HIDE DEF b
  <2> QED
    BY <1>7, <2>3, <2>4, <2>5 DEF WritePair, enc, stmts
<1>8. ASSUME NEW t \in Threads, LoadIndex(t) PROVE TypeInv'
  BY <1>8 DEF LoadIndex, hist, stmts
<1>9. ASSUME NEW t \in Threads, StoreIndex(t) PROVE TypeInv'
  <2>1. todo[t] # <<>> /\ Tail(todo[t]) \in Seq(Pair) /\ Len(Tail(todo[t])) = Len(todo[t]) - 1
    BY <1>9 DEF StoreIndex
  <2>2. Len(todo[t]) # 1 => Tail(todo[t]) # <<>>
    <3>1. Len(todo[t]) \in Nat \ {0}
      BY <2>1
    <3>2. Len(todo[t]) # 1 => Len(Tail(todo[t])) # 0
      BY <2>1, <3>1
    <3>3. Len(<<>>) = 0
      OBVIOUS
    <3> QED
      BY <3>2, <3>3
  <2> QED
    <3>1. /\ index' \in Nat
          /\ todo' = [todo EXCEPT ![t] = Tail(todo[t])]
          /\ pc' = [pc EXCEPT ![t] = IF Len(todo[t]) = 1 THEN "commit" ELSE "pair"]
          /\ UNCHANGED <<outer, pairs, record, seen, buff, min, stdout, aborted, hist>>
      BY <1>9 DEF StoreIndex
    <3> QED
      BY <2>1, <2>2, <3>1 DEF hist
<1>10. ASSUME NEW t \in Threads, Commit(t) PROVE TypeInv'
  <2> DEFINE b == Appended(buff[t], NewLine)
  <2>1. b \in Seq(Token) /\ Len(b) <= Cap
    BY NewLineTyped, AppendedTyped
  <2>2. Due(pairs[t]) \in Seq(Token)
    <3> DEFINE indices == [k \in DOMAIN pairs[t] |-> k - 1]
    <3>1. PairsText(pairs[t], indices) \in Seq(Token)
      BY PairsTextTyped
    <3> HIDE DEF indices
    <3>2. PairsText(pairs[t], indices) \o NewLine \in Seq(Token)
      BY <3>1, NewLineTyped
    <3> QED
      BY <3>2 DEF Due, Text, indices
  <2>3. records' \in Seq(Seq(Token)) /\ Len(records') \in Nat
    BY <1>10, <2>2 DEF Commit
  <2>4. /\ buff' = [buff EXCEPT ![t] = b]
        /\ \/ pc' = [pc EXCEPT ![t] = "write"]
           \/ pc' = [pc EXCEPT ![t] = "color"] /\ Colored(t)
        /\ record' = [record EXCEPT ![t] = Len(records')]
        /\ UNCHANGED <<todo, outer, pairs, enc, min, stdout, aborted, alone, encoded, astray, starts>>
    BY <1>10 DEF Commit
  <2>5. Colored(t) => Len(b) >= 3
    <3>1. Colored(t) => Len(buff[t]) >= 3
      BY DEF Colored, IsPrefix, Str
    <3>2. Len(b) >= Len(buff[t])
      BY NewLineTyped, AppendedTyped
    <3> QED
      BY <2>1, <3>1, <3>2
  <2> HIDE DEF b
  <2> QED
    BY <2>1, <2>3, <2>4, <2>5 DEF enc
<1>a. ColorOn \in Seq(Shown) /\ ColorOff \in Seq(Shown) /\ \A s \in Seq(Token) : s \in Seq(Shown)
  BY DEF ColorOn, ColorOff, Shown
<1>11. ASSUME NEW t \in Threads, Color(t) PROVE TypeInv'
  <2>1. stdout' \in Seq(Entry)
    BY <1>11, <1>a, WrittenTyped DEF Color
  <2> QED
    BY <1>11, <2>1 DEF Color, stmts, enc, hist, Entry, Shown
<1>12. ASSUME NEW t \in Threads, WriteTag(t) PROVE TypeInv'
  <2>1. Len(buff[t]) \in Nat /\ Len(buff[t]) >= 3 /\ buff[t] \in Seq(Token)
    BY <1>12 DEF WriteTag
  <2>2. Tag(t) \in Seq(Token)
    BY <2>1 DEF Tag
  <2>3. stdout' \in Seq(Entry)
    BY <1>12, <1>a, <2>2, WrittenTyped DEF WriteTag
  <2>4. SubSeq(buff[t], 4, Len(buff[t])) \in Seq(Token)
        /\ Len(SubSeq(buff[t], 4, Len(buff[t]))) <= Cap
    BY <2>1, CapAssumption
  <2> QED
    BY <1>12, <2>3, <2>4 DEF WriteTag, stmts, enc, hist, Entry, Shown
<1>13. ASSUME NEW t \in Threads, ResetColor(t) PROVE TypeInv'
  <2>1. stdout' \in Seq(Entry)
    BY <1>13, <1>a, WrittenTyped DEF ResetColor
  <2> QED
    BY <1>13, <2>1 DEF ResetColor, stmts, enc, hist, Entry, Shown
<1>14. ASSUME NEW t \in Threads, WriteRest(t) PROVE TypeInv'
  <2>1. buff[t] \in Seq(Token)
    OBVIOUS
  <2>2. stdout' \in Seq(Entry)
    BY <1>14, <1>a, <2>1, WrittenTyped DEF WriteRest
  <2>3. <<>> \in Seq(Token) /\ Len(<<>>) <= Cap
    BY CapAssumption
  <2> QED
    BY <1>14, <2>2, <2>3 DEF WriteRest, stmts, enc, hist, Entry, Shown
<1>15. ASSUME NEW t \in Threads, EndRecord(t) PROVE TypeInv'
  <2>1. encoded' \in [Threads -> Seq(Pair)]
    BY <1>15 DEF EndRecord
  <2> QED
    BY <1>4, <1>15, <2>1 DEF EndRecord
<1>16. ASSUME UNCHANGED vars PROVE TypeInv'
  BY <1>16 DEF vars, stmts, enc, hist
<1>17. ASSUME NEW t \in Threads, Abort(t) PROVE TypeInv'
  BY <1>17 DEF Abort, stmts, enc, hist
<1> QED
  BY <1>1, <1>2, <1>3, <1>5, <1>6, <1>7, <1>8, <1>9, <1>10, <1>11, <1>12, <1>13, <1>14, <1>15, <1>16, <1>17, StepCases

(* The shared encoder never spoils the types: a buffer is a text of at     *)
(* most kBuffCap, whatever the threads race on.                            *)
THEOREM TypeCorrect == Spec => []TypeOK
<1>1. TypeInv => TypeOK
  BY DEF TypeInv
<1> QED
  BY <1>1, TypeInit, TypeStep, PTL DEF Spec

-----------------------------------------------------------------------------
(* What is on stdout *)

(* Plain, of any output. *)
Part(e, recs) ==
    IF e.rec \in recs /\ "color" \notin DOMAIN e.tok THEN <<e.tok>> ELSE <<>>
PlainOf(out, recs) == FlattenSeq([k \in DOMAIN out |-> Part(out[k], recs)])

LEMMA PartTyped ==
    ASSUME NEW e \in Entry, NEW recs
    PROVE  /\ Part(e, recs) \in Seq(Token)
           /\ Part(e, recs) = IF e.rec \in recs /\ e.tok \in Token THEN <<e.tok>> ELSE <<>>
<1>1. \A tok \in Shown : "color" \notin DOMAIN tok <=> tok \in Token
  <2>1. ASSUME NEW tok \in Token PROVE "color" \notin DOMAIN tok
    BY DEF Token
  <2>2. ASSUME NEW tok \in [color : {"on", "off"}] PROVE "color" \in DOMAIN tok
    OBVIOUS
  <2> QED
    BY <2>1, <2>2 DEF Shown
<1>2. e.tok \in Shown
  BY DEF Entry
<1> QED
  BY <1>1, <1>2 DEF Part

LEMMA PartsTyped ==
    ASSUME NEW out \in Seq(Entry), NEW recs
    PROVE  /\ [k \in DOMAIN out |-> Part(out[k], recs)] \in Seq(Seq(Token))
           /\ PlainOf(out, recs) \in Seq(Token)
<1> DEFINE texts == [k \in DOMAIN out |-> Part(out[k], recs)]
<1>1. Len(out) \in Nat /\ DOMAIN out = 1..Len(out) /\ \A k \in DOMAIN out : out[k] \in Entry
  OBVIOUS
<1>2. \A k \in DOMAIN out : Part(out[k], recs) \in Seq(Token)
  BY <1>1, PartTyped
<1>3. texts \in Seq(Seq(Token))
  BY <1>1, <1>2
<1> QED
  BY <1>3, FlattenType DEF PlainOf

(* One more entry. *)
LEMMA PlainOne ==
    ASSUME NEW out \in Seq(Entry), NEW e \in Entry, NEW recs
    PROVE  PlainOf(Append(out, e), recs) = PlainOf(out, recs) \o Part(e, recs)
<1> DEFINE texts == [k \in DOMAIN out |-> Part(out[k], recs)]
           more == [k \in DOMAIN Append(out, e) |-> Part(Append(out, e)[k], recs)]
<1>1. /\ Len(out) \in Nat /\ DOMAIN out = 1..Len(out) /\ DOMAIN Append(out, e) = 1..(Len(out) + 1)
      /\ \A k \in 1..Len(out) : Append(out, e)[k] = out[k]
      /\ Append(out, e)[Len(out) + 1] = e
  OBVIOUS
<1>2. texts \in Seq(Seq(Token)) /\ Part(e, recs) \in Seq(Token) /\ Len(texts) = Len(out)
  BY <1>1, PartsTyped, PartTyped
<1>3. more = Append(texts, Part(e, recs))
  <2>1. DOMAIN Append(texts, Part(e, recs)) = 1..(Len(out) + 1)
        /\ \A k \in 1..Len(out) : Append(texts, Part(e, recs))[k] = texts[k]
        /\ Append(texts, Part(e, recs))[Len(out) + 1] = Part(e, recs)
    BY <1>1, <1>2
  <2>2. \A k \in 1..Len(out) : more[k] = texts[k]
    BY <1>1
  <2>3. more[Len(out) + 1] = Part(e, recs) /\ DOMAIN more = 1..(Len(out) + 1)
    BY <1>1
  <2>4. Append(texts, Part(e, recs)) \in Seq(Seq(Token)) /\ more \in Seq(Seq(Token))
    <3>1. Append(out, e) \in Seq(Entry)
      OBVIOUS
    <3> QED
      BY <1>2, <3>1, PartsTyped
  <2> HIDE DEF texts, more
  <2>5. \A k \in 1..(Len(out) + 1) : k \in 1..Len(out) \/ k = Len(out) + 1
    BY <1>1
  <2> QED
    BY <2>1, <2>2, <2>3, <2>4, <2>5
<1>4. PlainOf(out, recs) = FlattenSeq(texts) /\ PlainOf(Append(out, e), recs) = FlattenSeq(more)
  BY DEF PlainOf
<1> HIDE DEF texts, more
<1> QED
  BY <1>2, <1>3, <1>4, FlattenAppend

(* An fwrite of text adds that text to its record, and nothing to others.  *)
LEMMA PlainWritten ==
    ASSUME NEW out \in Seq(Entry), NEW r \in Nat, NEW data \in Seq(Token), NEW recs,
           NEW new, new = [k \in DOMAIN data |-> [rec |-> r, tok |-> data[k]]]
    PROVE  PlainOf(out \o new, recs) =
               IF r \in recs THEN PlainOf(out, recs) \o data ELSE PlainOf(out, recs)
<1> DEFINE e(k) == [rec |-> r, tok |-> data[k]]
           first(n) == [k \in 1..n |-> e(k)]
           due(n) == IF r \in recs THEN PlainOf(out, recs) \o SubSeq(data, 1, n) ELSE PlainOf(out, recs)
           T == {n \in Nat : n <= Len(data) => PlainOf(out \o first(n), recs) = due(n)}
<1>1. Len(data) \in Nat /\ DOMAIN data = 1..Len(data) /\ \A k \in 1..Len(data) : e(k) \in Entry
  BY DEF Entry, Shown
<1>2. PlainOf(out, recs) \in Seq(Token)
  BY PartsTyped
<1>3. 0 \in T
  <2>1. first(0) = <<>> /\ SubSeq(data, 1, 0) = <<>>
    OBVIOUS
  <2>2. out \o <<>> = out /\ PlainOf(out, recs) \o <<>> = PlainOf(out, recs)
    BY <1>2
  <2> QED
    BY <2>1, <2>2
<1>4. ASSUME NEW n \in Nat, n \in T PROVE n + 1 \in T
  <2> SUFFICES ASSUME n + 1 <= Len(data) PROVE PlainOf(out \o first(n + 1), recs) = due(n + 1)
    OBVIOUS
  <2>1. n + 1 \in 1..Len(data) /\ e(n + 1) \in Entry /\ data[n + 1] \in Token
    BY <1>1
  <2>2. first(n) \in Seq(Entry) /\ first(n + 1) = Append(first(n), e(n + 1))
    BY <1>1, <2>1
  <2>3. out \o first(n + 1) = Append(out \o first(n), e(n + 1)) /\ out \o first(n) \in Seq(Entry)
    BY <2>1, <2>2
  <2>4. Part(e(n + 1), recs) = IF r \in recs THEN <<data[n + 1]>> ELSE <<>>
    BY <2>1, PartTyped
  <2>5. PlainOf(out \o first(n + 1), recs) = due(n) \o Part(e(n + 1), recs)
    <3>1. PlainOf(out \o first(n), recs) = due(n)
      BY <1>1, <1>4, <2>1
    <3> HIDE DEF first, e
    <3>2. PlainOf(Append(out \o first(n), e(n + 1)), recs) = PlainOf(out \o first(n), recs) \o Part(e(n + 1), recs)
      BY <2>1, <2>3, PlainOne
    <3> QED
      BY <2>3, <3>1, <3>2
  <2>6. SubSeq(data, 1, n + 1) = SubSeq(data, 1, n) \o <<data[n + 1]>> /\ SubSeq(data, 1, n) \in Seq(Token)
    BY <2>1
  <2>7. CASE r \in recs
    <3>1. due(n) \o <<data[n + 1]>> = PlainOf(out, recs) \o (SubSeq(data, 1, n) \o <<data[n + 1]>>)
      <4>1. <<data[n + 1]>> \in Seq(Token)
        BY <2>1
      <4>2. SubSeq(data, 1, n) \in Seq(Token)
        BY <2>6
      <4> DEFINE before == SubSeq(data, 1, n)
                 one == <<data[n + 1]>>
      <4>a. before \in Seq(Token) /\ one \in Seq(Token)
        BY <4>1, <4>2
      <4>3. (PlainOf(out, recs) \o before) \o one = PlainOf(out, recs) \o (before \o one)
        <5> HIDE DEF before, one
        <5> QED
          BY <1>2, <4>a, ConcatAssociative, SMTT(30)
      <4> QED
        BY <2>7, <4>3
    <3> QED
      BY <2>4, <2>5, <2>6, <2>7, <3>1
  <2>8. CASE r \notin recs
    BY <1>2, <2>4, <2>5, <2>8, SMTT(30)
  <2> QED
    BY <2>7, <2>8
<1> HIDE DEF T
<1>5. Nat \subseteq T
  BY <1>3, <1>4, SetInduction
<1>6. PlainOf(out \o first(Len(data)), recs) = due(Len(data)) /\ first(Len(data)) = new
  BY <1>1, <1>5 DEF T
<1>7. SubSeq(data, 1, Len(data)) = data
  BY <1>1
<1> QED
  BY <1>1, <1>6, <1>7

(* A colour adds nothing. *)
LEMMA PlainColor ==
    ASSUME NEW out \in Seq(Entry), NEW r \in Nat, NEW c \in [color : {"on", "off"}], NEW recs
    PROVE  PlainOf(out \o [k \in DOMAIN <<c>> |-> [rec |-> r, tok |-> <<c>>[k]]], recs) = PlainOf(out, recs)
<1> DEFINE e == [rec |-> r, tok |-> c]
<1>1. e \in Entry
  BY DEF Entry, Shown
<1>2. out \o [k \in DOMAIN <<c>> |-> [rec |-> r, tok |-> <<c>>[k]]] = Append(out, e)
  <2>1. [k \in DOMAIN <<c>> |-> [rec |-> r, tok |-> <<c>>[k]]] = <<e>>
    OBVIOUS
  <2> QED
    BY <1>1, <2>1
<1>3. Part(e, recs) = <<>>
  BY DEF Part
<1>4. PlainOf(out, recs) \in Seq(Token)
  BY PartsTyped
<1> HIDE DEF e
<1>5. PlainOf(Append(out, e), recs) = PlainOf(out, recs) \o Part(e, recs)
  BY <1>1, PlainOne
<1>6. PlainOf(out, recs) \o <<>> = PlainOf(out, recs)
  BY <1>4
<1> QED
  BY <1>2, <1>3, <1>5, <1>6

(* Of a record nothing has been written for there is nothing. *)
LEMMA PlainNone ==
    ASSUME NEW out \in Seq(Entry), NEW recs, \A k \in DOMAIN out : out[k].rec \notin recs
    PROVE  PlainOf(out, recs) = <<>>
<1> DEFINE texts == [k \in DOMAIN out |-> Part(out[k], recs)]
<1>1. Len(out) \in Nat /\ DOMAIN out = 1..Len(out)
  OBVIOUS
<1>2. \A k \in DOMAIN out : Part(out[k], recs) = <<>>
  BY DEF Part
<1>3. texts \in Seq(Seq({}))
  <2>1. <<>> \in Seq({})
    OBVIOUS
  <2>2. \A k \in 1..Len(out) : texts[k] \in Seq({})
    BY <1>1, <1>2, <2>1
  <2>3. texts = [k \in 1..Len(out) |-> texts[k]]
    BY <1>1
  <2> HIDE DEF texts
  <2> QED
    BY <1>1, <2>2, <2>3
<1>4. FlattenSeq(texts) \in Seq({})
  BY <1>3, FlattenType
<1>5. \A s \in Seq({}) : s = <<>>
  OBVIOUS
<1> QED
  BY <1>4, <1>5 DEF PlainOf

(* What the steps of a thread do to what is on stdout of a record. *)
LEMMA PlainSteps ==
    ASSUME TypeInv, NEW t \in Threads, NEW r
    PROVE  /\ PlainOf(stdout, {r}) \in Seq(Token)
           /\ (\A k \in DOMAIN stdout : stdout[k].rec # r) => PlainOf(stdout, {r}) = <<>>
           /\ \A data \in Seq(Token) : stdout' = Written(t, data) =>
                 PlainOf(stdout', {r}) =
                    IF record[t] = r THEN PlainOf(stdout, {r}) \o data ELSE PlainOf(stdout, {r})
           /\ \A c \in {ColorOn, ColorOff} : stdout' = Written(t, c) =>
                 PlainOf(stdout', {r}) = PlainOf(stdout, {r})
<1>1. stdout \in Seq(Entry) /\ record[t] \in Nat
  BY DEF TypeInv, TypeOK, Entry, Shown
<1>3. ASSUME \A k \in DOMAIN stdout : stdout[k].rec # r PROVE PlainOf(stdout, {r}) = <<>>
  BY <1>1, <1>3, PlainNone
<1>4. ASSUME NEW data \in Seq(Token), stdout' = Written(t, data)
      PROVE  PlainOf(stdout', {r}) =
                IF record[t] = r THEN PlainOf(stdout, {r}) \o data ELSE PlainOf(stdout, {r})
  <2> DEFINE new == [k \in DOMAIN data |-> [rec |-> record[t], tok |-> data[k]]]
  <2>1. new = [k \in DOMAIN data |-> [rec |-> record[t], tok |-> data[k]]]
    OBVIOUS
  <2>2. stdout' = stdout \o new
    BY <1>4 DEF Written
  <2> HIDE DEF new
  <2>3. PlainOf(stdout \o new, {r}) =
            IF record[t] \in {r} THEN PlainOf(stdout, {r}) \o data ELSE PlainOf(stdout, {r})
    BY <1>1, <1>4, <2>1, PlainWritten, SMTT(30)
  <2> QED
    BY <2>2, <2>3
<1>5. ASSUME NEW c \in {"on", "off"}, stdout' = Written(t, <<[color |-> c]>>)
      PROVE  PlainOf(stdout', {r}) = PlainOf(stdout, {r})
  <2>1. [color |-> c] \in [color : {"on", "off"}]
    OBVIOUS
  <2> QED
    BY <1>1, <1>5, <2>1, PlainColor DEF Written
<1>6. PlainOf(stdout, {r}) \in Seq(Token)
  BY <1>1, PartsTyped
<1> QED
  BY <1>3, <1>4, <1>5, <1>6 DEF ColorOn, ColorOff

-----------------------------------------------------------------------------
(* Records *)

(* Where a thread has begun to flush a record and has not ended it. *)
Flushing == {"color", "tag", "reset", "write", "done"}

(* Each thread flushes a record of its own, and nothing is written before  *)
(* the record is committed.                                                *)
FlushInv ==
    /\ \A t \in Threads :
        /\ pc[t] \in Flushing => record[t] \in 1..Len(records)
        /\ pc[t] = "done" => buff[t] = <<>>
    /\ \A t, u \in Threads :
        t # u /\ pc[t] \in Flushing /\ pc[u] \in Flushing => record[t] # record[u]
    /\ \A k \in DOMAIN stdout : stdout[k].rec <= Len(records)

LEMMA WrittenRecords ==
    ASSUME TypeInv, FlushInv, NEW t \in Threads, pc[t] \in Flushing,
           NEW data \in Seq(Shown), stdout' = Written(t, data)
    PROVE  \A k \in DOMAIN stdout' : stdout'[k].rec <= Len(records)
<1> DEFINE new == [k \in DOMAIN data |-> [rec |-> record[t], tok |-> data[k]]]
<1>1. stdout \in Seq(Entry) /\ record[t] <= Len(records) /\ record[t] \in Nat
  BY DEF TypeInv, TypeOK, Entry, Shown, FlushInv
<1>2. Len(data) \in Nat /\ DOMAIN data = 1..Len(data) /\ \A k \in 1..Len(data) : data[k] \in Shown
  OBVIOUS
<1>3. new \in Seq(Entry) /\ \A k \in DOMAIN new : new[k].rec = record[t]
  BY <1>1, <1>2 DEF Entry
<1>4. \A k \in DOMAIN stdout : stdout[k].rec <= Len(records)
  BY DEF FlushInv
<1>5. stdout' = stdout \o new
  BY DEF Written
<1> HIDE DEF new
<1>6. ASSUME NEW k \in DOMAIN stdout' PROVE stdout'[k].rec <= Len(records)
  <2>1. k \in 1..(Len(stdout) + Len(new)) /\ DOMAIN stdout = 1..Len(stdout)
        /\ DOMAIN new = 1..Len(new) /\ Len(stdout) \in Nat /\ Len(new) \in Nat
    BY <1>1, <1>3, <1>5, <1>6
  <2>2. CASE k <= Len(stdout)
    <3>1. stdout'[k] = stdout[k] /\ k \in DOMAIN stdout
      BY <1>1, <1>3, <1>5, <2>1, <2>2
    <3> QED
      BY <1>4, <3>1
  <2>3. CASE k > Len(stdout)
    <3>1. stdout'[k] = new[k - Len(stdout)] /\ k - Len(stdout) \in DOMAIN new
      BY <1>1, <1>3, <1>5, <2>1, <2>3
    <3> QED
      BY <1>1, <1>3, <3>1
  <2> QED
    BY <2>1, <2>2, <2>3
<1> QED
  BY <1>6

LEMMA FlushStep == TypeInv /\ FlushInv /\ [Next]_vars => FlushInv'
<1> SUFFICES ASSUME TypeInv, FlushInv, [Next]_vars PROVE FlushInv'
  OBVIOUS
<1>a. ColorOn \in Seq(Shown) /\ ColorOff \in Seq(Shown) /\ \A s \in Seq(Token) : s \in Seq(Shown)
  BY DEF ColorOn, ColorOff, Shown
<1> USE DEF Flushing
<1>1. ASSUME NEW t \in Threads, UNCHANGED <<buff, record, records, stdout>>,
             NEW p, p \notin Flushing, pc' = [pc EXCEPT ![t] = p]
      PROVE  FlushInv'
  BY <1>1 DEF FlushInv, TypeInv, TypeOK
<1>2. ASSUME NEW t \in Threads, Reinit(t) PROVE FlushInv'
  BY <1>1, <1>2 DEF Reinit, stmts
<1>3. ASSUME NEW t \in Threads, NewEncoder(t) PROVE FlushInv'
  BY <1>1, <1>3 DEF NewEncoder, stmts
<1>4. ASSUME NEW t \in Threads, NEW stmt \in Statements, Log(t, stmt) PROVE FlushInv'
  BY <1>1, <1>4 DEF Log
<1>5. ASSUME NEW t \in Threads, Unwritten(t) \/ Thrown(t) PROVE FlushInv'
  BY <1>1, <1>5 DEF Unwritten, Thrown, Return
<1>6. ASSUME NEW t \in Threads, WritePair(t) PROVE FlushInv'
  BY <1>6 DEF WritePair, FlushInv, TypeInv, TypeOK, stmts
<1>7. ASSUME NEW t \in Threads, LoadIndex(t) PROVE FlushInv'
  BY <1>1, <1>7 DEF LoadIndex, hist, stmts
<1>8. ASSUME NEW t \in Threads, StoreIndex(t) PROVE FlushInv'
  BY <1>1, <1>8 DEF StoreIndex, hist
<1>9. ASSUME NEW t \in Threads, Commit(t) PROVE FlushInv'
  <2>1. Len(records') = Len(records) + 1 /\ Len(records) \in Nat
    BY <1>9 DEF Commit, TypeInv, TypeOK
  <2>2. /\ record' = [record EXCEPT ![t] = Len(records')] /\ stdout' = stdout
        /\ pc'[t] \in {"color", "write"} /\ \A u \in Threads \ {t} : pc'[u] = pc[u] /\ buff'[u] = buff[u]
    BY <1>9 DEF Commit, TypeInv, TypeOK
  <2>3. \A u \in Threads : record[u] \in Nat
    BY DEF TypeInv, TypeOK
  <2>4. \A k \in DOMAIN stdout : stdout[k].rec \in Nat
    <3>1. stdout \in Seq(Entry)
      BY DEF TypeInv, TypeOK, Entry, Shown
    <3>2. \A k \in DOMAIN stdout : stdout[k] \in Entry
      BY <3>1
    <3> QED
      BY <3>2 DEF Entry
  <2>5. \A k \in DOMAIN stdout' : stdout'[k].rec <= Len(records')
    BY <2>1, <2>2, <2>4 DEF FlushInv
  <2> QED
    <3>1. \A u \in Threads \ {t} : record'[u] = record[u] /\ (pc[u] \in Flushing => record[u] <= Len(records))
      BY <2>2 DEF FlushInv, TypeInv, TypeOK
    <3>2. record'[t] = Len(records) + 1 /\ record'[t] \in 1..Len(records')
      BY <2>1, <2>2 DEF TypeInv, TypeOK
    <3>3. ASSUME NEW u \in Threads
          PROVE  /\ pc'[u] \in Flushing => record'[u] \in 1..Len(records')
                 /\ pc'[u] = "done" => buff'[u] = <<>>
      BY <2>1, <2>2, <3>1, <3>2 DEF FlushInv
    <3>4. ASSUME NEW u \in Threads, NEW v \in Threads, u # v, pc'[u] \in Flushing, pc'[v] \in Flushing
          PROVE  record'[u] # record'[v]
      <4>1. CASE u # t /\ v # t
        BY <2>2, <3>1, <3>4, <4>1 DEF FlushInv
      <4>2. CASE u = t
        BY <2>1, <2>2, <2>3, <3>1, <3>2, <3>4, <4>2
      <4>3. CASE v = t
        BY <2>1, <2>2, <2>3, <3>1, <3>2, <3>4, <4>3
      <4> QED
        BY <4>1, <4>2, <4>3
    <3> QED
      BY <2>5, <3>3, <3>4 DEF FlushInv
<1>10. ASSUME NEW t \in Threads, pc[t] \in Flushing, NEW data \in Seq(Shown),
              stdout' = Written(t, data), record' = record, records' = records,
              NEW p \in Flushing, pc' = [pc EXCEPT ![t] = p],
              p = "done" => buff'[t] = <<>>, \A u \in Threads \ {t} : buff'[u] = buff[u]
       PROVE  FlushInv'
  <2>1. \A k \in DOMAIN stdout' : stdout'[k].rec <= Len(records)
    BY <1>10, WrittenRecords
  <2> QED
    BY <1>10, <2>1 DEF FlushInv, TypeInv, TypeOK
<1>11. ASSUME NEW t \in Threads, Color(t) PROVE FlushInv'
  BY <1>10, <1>11, <1>a DEF Color, stmts, hist
<1>12. ASSUME NEW t \in Threads, WriteTag(t) PROVE FlushInv'
  <2>1. Len(buff[t]) \in Nat /\ Len(buff[t]) >= 3 /\ buff[t] \in Seq(Token)
    BY <1>12 DEF WriteTag, TypeInv, TypeOK
  <2>2. Tag(t) \in Seq(Shown)
    BY <1>a, <2>1 DEF Tag
  <2> QED
    BY <1>10, <1>12, <2>2 DEF WriteTag, stmts, hist, TypeInv, TypeOK
<1>13. ASSUME NEW t \in Threads, ResetColor(t) PROVE FlushInv'
  BY <1>10, <1>13, <1>a DEF ResetColor, stmts, hist
<1>14. ASSUME NEW t \in Threads, WriteRest(t) PROVE FlushInv'
  <2>1. buff[t] \in Seq(Shown)
    BY <1>a DEF TypeInv, TypeOK
  <2> QED
    BY <1>10, <1>14, <2>1 DEF WriteRest, stmts, hist, TypeInv, TypeOK
<1>15. ASSUME NEW t \in Threads, EndRecord(t) PROVE FlushInv'
  <2> DEFINE p == IF outer[t] = None THEN "idle" ELSE "pair"
  <2>1. pc' = [pc EXCEPT ![t] = p] /\ p \notin Flushing /\ UNCHANGED <<buff, record, records, stdout>>
    BY <1>15 DEF EndRecord, Return
  <2> HIDE DEF p
  <2> QED
    BY <1>1, <2>1
<1>16. ASSUME UNCHANGED vars PROVE FlushInv'
  BY <1>16 DEF vars, stmts, enc, hist, FlushInv
<1>17. ASSUME NEW t \in Threads, Abort(t) PROVE FlushInv'
  BY <1>17 DEF Abort, stmts, hist, FlushInv
<1> QED
  BY <1>2, <1>3, <1>4, <1>5, <1>6, <1>7, <1>8, <1>9, <1>11, <1>12, <1>13, <1>14, <1>15, <1>16, <1>17, StepCases

-----------------------------------------------------------------------------
(* What a buffer is cut to *)

(* Cutting once at the end is cutting at every write. *)
LEMMA CutTwice ==
    ASSUME NEW S, NEW x \in Seq(S), NEW y \in Seq(S)
    PROVE  Appended(Appended(<<>>, x), y) = Appended(<<>>, x \o y)
<1> DEFINE c == Appended(<<>>, x)
<1>1. <<>> \o x = x /\ <<>> \o (x \o y) = x \o y /\ x \o y \in Seq(S)
      /\ Len(x \o y) = Len(x) + Len(y) /\ Len(x) \in Nat /\ Len(y) \in Nat
  OBVIOUS
<1>2. c = SubSeq(x, 1, IF Len(x) < Cap THEN Len(x) ELSE Cap)
  BY <1>1 DEF Appended
<1>3. Appended(<<>>, x \o y) = SubSeq(x \o y, 1, IF Len(x \o y) < Cap THEN Len(x \o y) ELSE Cap)
  BY <1>1 DEF Appended
<1>4. CASE Len(x) < Cap
  <2>1. c = x
    BY <1>2, <1>4, SubSeqFull
  <2> DEFINE cut(z) == SubSeq(z, 1, IF Len(z) < Cap THEN Len(z) ELSE Cap)
  <2>2. \A b : Appended(b, y) = cut(b \o y)
    BY DEF Appended
  <2>3. Appended(<<>>, x \o y) = cut(<<>> \o (x \o y))
    BY DEF Appended
  <2> HIDE DEF c, cut
  <2>4. Appended(c, y) = Appended(<<>>, x \o y)
    BY <1>1, <2>1, <2>2, <2>3
  <2> QED
    BY <2>4 DEF c
<1>5. CASE Len(x) >= Cap
  <2>1. Cap \in Nat /\ 1 \in 1..Len(x) /\ Cap \in 1..Len(x)
    BY <1>1, <1>5, CapAssumption
  <2>2. c = SubSeq(x, 1, Cap) /\ c \in Seq(S) /\ Len(c) = Cap
    BY <1>2, <1>5, <2>1
  <2>3. SubSeq(x \o y, 1, Cap) = SubSeq(x, 1, Cap)
    BY <2>1, SubSeqOfConcat1
  <2>4. Appended(<<>>, x \o y) = c
    BY <1>1, <1>3, <1>5, <2>1, <2>2, <2>3
  <2> HIDE DEF c
  <2>5. Len(c \o y) = Cap + Len(y) /\ 1 \in 1..Len(c) /\ Cap \in 1..Len(c)
    BY <2>1, <2>2
  <2>6. Appended(c, y) = SubSeq(c \o y, 1, Cap)
    BY <1>1, <2>1, <2>5 DEF Appended
  <2>7. SubSeq(c \o y, 1, Cap) = SubSeq(c, 1, Cap)
    BY <2>5, <2>2, SubSeqOfConcat1
  <2>8. SubSeq(c, 1, Cap) = c
    BY <2>2, SubSeqFull
  <2> QED
    BY <2>4, <2>6, <2>7, <2>8 DEF c
<1> QED
  BY <1>1, <1>4, <1>5, CapAssumption

(* One more pair. *)
LEMMA PairsTextAppend ==
    ASSUME NEW ps \in Seq(Pair), NEW p \in Pair, NEW f, NEW g, NEW i,
           \A k \in DOMAIN ps : PairText(g[k], ps[k]) = PairText(f[k], ps[k]),
           PairText(g[Len(ps) + 1], p) = PairText(i, p)
    PROVE  PairsText(Append(ps, p), g) = PairsText(ps, f) \o PairText(i, p)
<1> DEFINE texts == [k \in DOMAIN ps |-> PairText(f[k], ps[k])]
           more == [k \in DOMAIN Append(ps, p) |-> PairText(g[k], Append(ps, p)[k])]
<1>1. /\ Len(ps) \in Nat /\ DOMAIN ps = 1..Len(ps) /\ DOMAIN Append(ps, p) = 1..(Len(ps) + 1)
      /\ \A k \in 1..Len(ps) : Append(ps, p)[k] = ps[k]
      /\ Append(ps, p)[Len(ps) + 1] = p /\ Append(ps, p) \in Seq(Pair)
  OBVIOUS
<1>2. texts \in Seq(Seq(Token)) /\ more \in Seq(Seq(Token)) /\ PairText(i, p) \in Seq(Token)
  BY <1>1, PairsTextTyped, PairTextTyped
<1>3. /\ DOMAIN texts = 1..Len(ps) /\ Len(texts) = Len(ps) /\ DOMAIN more = 1..(Len(ps) + 1)
      /\ \A k \in 1..Len(ps) : more[k] = texts[k]
      /\ more[Len(ps) + 1] = PairText(i, p)
  BY <1>1, <1>2
<1>4. PairsText(ps, f) = FlattenSeq(texts) /\ PairsText(Append(ps, p), g) = FlattenSeq(more)
  BY DEF PairsText
<1> HIDE DEF texts, more
<1>5. more = Append(texts, PairText(i, p))
  <2>1. \A k \in 1..(Len(ps) + 1) : k \in 1..Len(ps) \/ k = Len(ps) + 1
    BY <1>1
  <2>2. DOMAIN Append(texts, PairText(i, p)) = 1..(Len(ps) + 1)
        /\ \A k \in 1..Len(ps) : Append(texts, PairText(i, p))[k] = texts[k]
        /\ Append(texts, PairText(i, p))[Len(ps) + 1] = PairText(i, p)
        /\ Append(texts, PairText(i, p)) \in Seq(Seq(Token))
    BY <1>1, <1>2, <1>3
  <2> QED
    BY <1>2, <1>3, <2>1, <2>2
<1> QED
  BY <1>2, <1>4, <1>5, FlattenAppend

(* The form of a pair is told by whether its index is 1. *)
LEMMA TwoForms ==
    ASSUME NEW p \in Pair, NEW i
    PROVE  PairText(IF i = 1 THEN 1 ELSE 2, p) = PairText(i, p)
BY DEF PairText

-----------------------------------------------------------------------------
(* What a thread has sent *)

(* What of the record that it is at, or of the pairs it has left behind,   *)
(* is on stdout or in its buffer; and what that should be.                 *)
Sent(t) == IF pc[t] \in Flushing THEN Plain({record[t]}) \o buff[t] ELSE buff[t]
Made(t, indices) ==
    IF pc[t] \in Flushing THEN Text(encoded[t], indices) ELSE PairsText(encoded[t], indices)
SentAs(t, indices) == Sent(t) = Appended(<<>>, Made(t, indices))

(* The effects a step can have on it: none, a pair, the end of the line,   *)
(* and a new start.                                                        *)
NothingSent(t) ==
    /\ pc'[t] \in Flushing <=> pc[t] \in Flushing
    /\ encoded'[t] = encoded[t] /\ Sent(t)' = Sent(t)
PairSent(t) ==
    /\ pc[t] \notin Flushing /\ pc'[t] \notin Flushing
    /\ Head(todo[t]) \in Pair /\ encoded'[t] = Append(encoded[t], Head(todo[t]))
    /\ Sent(t)' = Appended(Sent(t), PairText(index, Head(todo[t])))
LineSent(t) ==
    /\ pc[t] \notin Flushing /\ pc'[t] \in Flushing
    /\ encoded'[t] = encoded[t] /\ Sent(t)' = Appended(Sent(t), NewLine)
StartedAnew(t) ==
    /\ pc'[t] \notin Flushing /\ encoded'[t] = <<>> /\ Sent(t)' = <<>>

LEMMA NothingSentAs ==
    ASSUME NEW t \in Threads, NothingSent(t), NEW f, SentAs(t, f)
    PROVE  SentAs(t, f)'
BY DEF NothingSent, SentAs, Made

LEMMA PairSentAs ==
    ASSUME TypeInv, NEW t \in Threads, PairSent(t), NEW f, NEW g, SentAs(t, f),
           \A k \in DOMAIN encoded[t] : PairText(g[k], encoded[t][k]) = PairText(f[k], encoded[t][k]),
           PairText(g[Len(encoded[t]) + 1], Head(todo[t])) = PairText(index, Head(todo[t]))
    PROVE  SentAs(t, g)'
<1> DEFINE ps == encoded[t]
           p == Head(todo[t])
<1>1. ps \in Seq(Pair) /\ p \in Pair
  BY DEF TypeInv, PairSent
<1>2. PairsText(Append(ps, p), g) = PairsText(ps, f) \o PairText(index, p)
  <2>1. /\ \A k \in DOMAIN ps : PairText(g[k], ps[k]) = PairText(f[k], ps[k])
        /\ PairText(g[Len(ps) + 1], p) = PairText(index, p)
    OBVIOUS
  <2> HIDE DEF ps, p
  <2> QED
    BY <1>1, <2>1, PairsTextAppend
<1>3. PairsText(ps, f) \in Seq(Token) /\ PairText(index, p) \in Seq(Token)
  BY <1>1, PairsTextTyped, PairTextTyped
<1>4. Sent(t) = Appended(<<>>, PairsText(ps, f))
  BY DEF SentAs, Made, PairSent
<1>5. Sent(t)' = Appended(<<>>, PairsText(ps, f) \o PairText(index, p))
  BY <1>3, <1>4, CutTwice DEF PairSent
<1>6. Made(t, g)' = PairsText(Append(ps, p), g)
  BY DEF Made, PairSent
<1> QED
  BY <1>2, <1>5, <1>6 DEF SentAs

LEMMA LineSentAs ==
    ASSUME TypeInv, NEW t \in Threads, LineSent(t), NEW f, SentAs(t, f)
    PROVE  SentAs(t, f)'
<1>1. encoded[t] \in Seq(Pair)
  BY DEF TypeInv
<1>2. PairsText(encoded[t], f) \in Seq(Token) /\ NewLine \in Seq(Token)
  BY <1>1, PairsTextTyped, NewLineTyped
<1>3. Sent(t) = Appended(<<>>, PairsText(encoded[t], f))
  BY DEF SentAs, Made, LineSent
<1>4. Sent(t)' = Appended(<<>>, PairsText(encoded[t], f) \o NewLine)
  BY <1>2, <1>3, CutTwice DEF LineSent
<1>5. Made(t, f)' = PairsText(encoded[t], f) \o NewLine
  BY DEF Made, LineSent, Text
<1> QED
  BY <1>4, <1>5 DEF SentAs

LEMMA StartedAnewAs ==
    ASSUME NEW t \in Threads, StartedAnew(t), NEW f
    PROVE  SentAs(t, f)'
<1>1. [k \in DOMAIN <<>> |-> PairText(f[k], <<>>[k])] = <<>>
  OBVIOUS
<1>2. FlattenSeq(<<>>) = <<>>
  BY DEF FlattenSeq
<1>3. PairsText(<<>>, f) = <<>>
  BY <1>1, <1>2 DEF PairsText
<1>4. Appended(<<>>, <<>>) = <<>>
  BY CapAssumption DEF Appended
<1> QED
  BY <1>3, <1>4 DEF StartedAnew, SentAs, Made

LEMMA SentIs ==
    ASSUME NEW t \in Threads
    PROVE  /\ Sent(t) = IF pc[t] \in Flushing THEN PlainOf(stdout, {record[t]}) \o buff[t] ELSE buff[t]
           /\ Sent(t)' = IF pc'[t] \in Flushing THEN PlainOf(stdout', {record'[t]}) \o buff'[t] ELSE buff'[t]
BY DEF Sent, Plain, PlainOf, Part

(* A step of a thread has no effect on the other ones: an fwrite is of its *)
(* own record.                                                             *)
LEMMA OthersKeep ==
    ASSUME TypeInv, FlushInv, NEW t \in Threads, NEW u \in Threads, t # u,
           pc'[u] = pc[u], buff'[u] = buff[u], record'[u] = record[u], encoded'[u] = encoded[u],
           \/ UNCHANGED stdout
           \/ /\ pc[t] \in Flushing
              /\ \/ \E data \in Seq(Token) : stdout' = Written(t, data)
                 \/ \E c \in {ColorOn, ColorOff} : stdout' = Written(t, c)
    PROVE  NothingSent(u)
<1>1. pc[u] \in Flushing => PlainOf(stdout', {record[u]}) = PlainOf(stdout, {record[u]})
  <2>1. CASE UNCHANGED stdout
    BY <2>1
  <2>2. CASE pc[t] \in Flushing
    <3> SUFFICES ASSUME pc[u] \in Flushing
                 PROVE  PlainOf(stdout', {record[u]}) = PlainOf(stdout, {record[u]})
      OBVIOUS
    <3>1. record[t] # record[u]
      BY <2>2 DEF FlushInv
    <3>2. CASE UNCHANGED stdout
      BY <3>2
    <3>3. CASE \E data \in Seq(Token) : stdout' = Written(t, data)
      BY <3>1, <3>3, PlainSteps
    <3>4. CASE \E c \in {ColorOn, ColorOff} : stdout' = Written(t, c)
      BY <3>4, PlainSteps
    <3> QED
      BY <3>2, <3>3, <3>4
  <2> QED
    BY <2>1, <2>2
<1> QED
  BY <1>1, SentIs DEF NothingSent

(* The tag and the rest of a line are the line. *)
LEMMA TagSplit ==
    ASSUME NEW S, NEW b \in Seq(S), NEW out \in Seq(S), Len(b) >= 3
    PROVE  (out \o SubSeq(b, 1, 3)) \o SubSeq(b, 4, Len(b)) = out \o b
<1> DEFINE tag == SubSeq(b, 1, 3)
           rest == SubSeq(b, 4, Len(b))
<1>1. /\ Len(b) \in Nat /\ 1 \in 1..(Len(b) + 1) /\ 3 \in (1 - 1)..Len(b) /\ 3 + 1 = 4
      /\ Len(b) \in 3..Len(b)
  OBVIOUS
<1>2. tag \in Seq(S)
  BY <1>1
<1>3. rest \in Seq(S)
  BY <1>1
<1>4. SubSeq(b, 1, 3) \o SubSeq(b, 3 + 1, Len(b)) = SubSeq(b, 1, Len(b))
  BY <1>1, ConcatAdjacentSubSeq, Zenon
<1>5. SubSeq(b, 1, Len(b)) = b
  BY SubSeqFull, Zenon
<1>6. tag \o rest = b
  BY <1>1, <1>4, <1>5, Zenon
<1> HIDE DEF tag, rest
<1>7. (out \o tag) \o rest = out \o (tag \o rest)
  BY <1>2, <1>3, ConcatAssociative, SMTT(30)
<1>8. (out \o tag) \o rest = out \o b
  BY <1>6, <1>7
<1> QED
  BY <1>8 DEF tag, rest

(* The effects of every step on every thread. *)
LEMMA Effects ==
    ASSUME TypeInv, FlushInv, [Next]_vars, NEW u \in Threads
    PROVE  \/ NothingSent(u)
           \/ WritePair(u) /\ PairSent(u)
           \/ Commit(u) /\ LineSent(u)
           \/ EndRecord(u) /\ StartedAnew(u)
<1> DEFINE P == NothingSent(u) \/ (WritePair(u) /\ PairSent(u)) \/ (Commit(u) /\ LineSent(u))
                \/ (EndRecord(u) /\ StartedAnew(u))
<1>t. pc[u] \in {"idle", "init", "pair", "load", "store", "commit"} \/ pc[u] \in Flushing
  BY DEF TypeInv, TypeOK, Flushing
<1>1. ASSUME NEW t \in Threads, NEW p, pc' = [pc EXCEPT ![t] = p],
             p \in Flushing <=> pc[t] \in Flushing, UNCHANGED <<buff, stdout, record, encoded>>
      PROVE  NothingSent(u)
  <2>1. pc'[u] \in Flushing <=> pc[u] \in Flushing
    BY <1>1 DEF TypeInv, TypeOK
  <2> QED
    BY <1>1, <2>1, SentIs DEF NothingSent
<1>2. ASSUME NEW t \in Threads, Reinit(t) PROVE P
  BY <1>1, <1>2 DEF Reinit, stmts, Flushing
<1>3. ASSUME NEW t \in Threads, NewEncoder(t) PROVE P
  BY <1>1, <1>3 DEF NewEncoder, stmts, Flushing
<1>4. ASSUME NEW t \in Threads, NEW stmt \in Statements, Log(t, stmt) PROVE P
  <2>1. pc[t] \notin Flushing
    BY <1>4 DEF Log, Begins, InArguments, Flushing
  <2>2. pc' = [pc EXCEPT ![t] = "pair"] /\ "pair" \notin Flushing
    BY <1>4 DEF Log, Flushing
  <2> QED
    BY <1>1, <1>4, <2>1, <2>2 DEF Log
<1>5. ASSUME NEW t \in Threads, Unwritten(t) PROVE P
  <2> DEFINE p == IF outer[t] = None THEN "idle" ELSE "pair"
  <2>1. pc' = [pc EXCEPT ![t] = p] /\ p \notin Flushing /\ pc[t] \notin Flushing
    BY <1>5 DEF Unwritten, Return, Flushing
  <2> HIDE DEF p
  <2> QED
    BY <1>1, <1>5, <2>1 DEF Unwritten
<1>6. ASSUME NEW t \in Threads, Thrown(t) PROVE P
  BY <1>1, <1>6 DEF Thrown, InArguments, Flushing
<1>7. ASSUME NEW t \in Threads, WritePair(t) PROVE P
  <2>1. CASE t # u
    <3>1. pc'[u] = pc[u] /\ buff'[u] = buff[u] /\ record'[u] = record[u] /\ encoded'[u] = encoded[u]
          /\ UNCHANGED stdout
      BY <1>7, <2>1 DEF WritePair, stmts, TypeInv, TypeOK
    <3> QED
      BY <2>1, <3>1, OthersKeep
  <2>2. CASE t = u
    <3>1. pc[u] = "pair" /\ pc'[u] = "load" /\ buff'[u] = Appended(buff[u], PairText(index, Head(todo[u])))
          /\ encoded'[u] = Append(encoded[u], Head(todo[u]))
      BY <1>7, <2>2 DEF WritePair, TypeInv, TypeOK
    <3>2. Head(todo[u]) \in Pair
      BY <3>1 DEF TypeInv
    <3>3. PairSent(u)
      BY <3>1, <3>2, SentIs DEF PairSent, Flushing
    <3> QED
      BY <1>7, <2>2, <3>3
  <2> QED
    BY <2>1, <2>2
<1>8. ASSUME NEW t \in Threads, LoadIndex(t) PROVE P
  BY <1>1, <1>8 DEF LoadIndex, hist, stmts, Flushing
<1>9. ASSUME NEW t \in Threads, StoreIndex(t) PROVE P
  <2> DEFINE p == IF Len(todo[t]) = 1 THEN "commit" ELSE "pair"
  <2>1. pc' = [pc EXCEPT ![t] = p] /\ p \notin Flushing /\ pc[t] \notin Flushing
    BY <1>9 DEF StoreIndex, Flushing
  <2> HIDE DEF p
  <2> QED
    BY <1>1, <1>9, <2>1 DEF StoreIndex, hist
<1>10. ASSUME NEW t \in Threads, Commit(t) PROVE P
  <2>1. CASE t # u
    <3>1. pc'[u] = pc[u] /\ buff'[u] = buff[u] /\ record'[u] = record[u] /\ encoded'[u] = encoded[u]
          /\ UNCHANGED stdout
      BY <1>10, <2>1 DEF Commit, TypeInv, TypeOK
    <3> QED
      BY <2>1, <3>1, OthersKeep
  <2>2. CASE t = u
    <3>1. /\ pc[u] = "commit" /\ pc'[u] \in {"color", "write"} /\ buff'[u] = Appended(buff[u], NewLine)
          /\ record'[u] = Len(records') /\ encoded'[u] = encoded[u] /\ stdout' = stdout
          /\ Len(records') = Len(records) + 1 /\ Len(records) \in Nat
      BY <1>10, <2>2 DEF Commit, TypeInv, TypeOK
    <3>2. \A k \in DOMAIN stdout : stdout[k].rec \in Nat /\ stdout[k].rec <= Len(records)
      <4>1. stdout \in Seq(Entry)
        BY DEF TypeInv, TypeOK, Entry, Shown
      <4>2. \A k \in DOMAIN stdout : stdout[k] \in Entry
        BY <4>1
      <4> QED
        BY <4>2 DEF Entry, FlushInv
    <3>3. \A k \in DOMAIN stdout : stdout[k].rec # record'[u]
      BY <3>1, <3>2
    <3>4. PlainOf(stdout, {record'[u]}) = <<>>
      BY <3>3, PlainSteps
    <3>5. buff'[u] \in Seq(Token)
      BY <3>1, NewLineTyped, AppendedTyped DEF TypeInv, TypeOK
    <3>6. <<>> \o buff'[u] = buff'[u]
      BY <3>5
    <3>7. LineSent(u)
      BY <3>1, <3>4, <3>6, SentIs DEF LineSent, Flushing
    <3> QED
      BY <1>10, <2>2, <3>7
  <2> QED
    BY <2>1, <2>2
<1>11. ASSUME NEW t \in Threads, Color(t) \/ ResetColor(t) PROVE P
  <2>1. PICK c \in {ColorOn, ColorOff} : stdout' = Written(t, c)
    BY <1>11 DEF Color, ResetColor
  <2>2. pc[t] \in Flushing /\ pc'[t] \in Flushing /\ (\A v \in Threads \ {t} : pc'[v] = pc[v])
        /\ UNCHANGED <<buff, record, encoded>>
    BY <1>11 DEF Color, ResetColor, stmts, hist, Flushing, TypeInv, TypeOK
  <2>3. CASE t # u
    BY <2>1, <2>2, <2>3, OthersKeep
  <2>4. CASE t = u
    <3>1. PlainOf(stdout', {record[u]}) = PlainOf(stdout, {record[u]})
      BY <2>1, PlainSteps
    <3> QED
      BY <2>2, <2>4, <3>1, SentIs DEF NothingSent
  <2> QED
    BY <2>3, <2>4
<1>12. ASSUME NEW t \in Threads, WriteTag(t) PROVE P
  <2>1. Len(buff[t]) \in Nat /\ Len(buff[t]) >= 3 /\ buff[t] \in Seq(Token)
    BY <1>12 DEF WriteTag, TypeInv, TypeOK
  <2>2. Tag(t) \in Seq(Token)
    BY <2>1 DEF Tag
  <2>3. pc[t] \in Flushing /\ pc'[t] \in Flushing /\ (\A v \in Threads \ {t} : pc'[v] = pc[v] /\ buff'[v] = buff[v])
        /\ UNCHANGED <<record, encoded>> /\ stdout' = Written(t, Tag(t))
        /\ buff'[t] = SubSeq(buff[t], 4, Len(buff[t]))
    BY <1>12 DEF WriteTag, stmts, hist, Flushing, TypeInv, TypeOK
  <2>4. CASE t # u
    BY <2>2, <2>3, <2>4, OthersKeep
  <2>5. CASE t = u
    <3>1. PlainOf(stdout', {record[u]}) = PlainOf(stdout, {record[u]}) \o Tag(u)
          /\ PlainOf(stdout, {record[u]}) \in Seq(Token)
      BY <2>2, <2>3, <2>5, PlainSteps
    <3> DEFINE out == PlainOf(stdout, {record[u]})
               rest == SubSeq(buff[u], 4, Len(buff[u]))
    <3>2. Tag(u) = SubSeq(buff[u], 1, 3) /\ buff'[u] = rest
      BY <2>3, <2>5 DEF Tag
    <3>3. (out \o Tag(u)) \o rest = out \o buff[u]
      <4>1. buff[u] \in Seq(Token) /\ Len(buff[u]) >= 3 /\ out \in Seq(Token)
        BY <2>1, <2>5, <3>1
      <4>2. (out \o SubSeq(buff[u], 1, 3)) \o SubSeq(buff[u], 4, Len(buff[u])) = out \o buff[u]
        BY <4>1, TagSplit, Zenon
      <4> QED
        BY <3>2, <4>2, Zenon
    <3>4. PlainOf(stdout', {record'[u]}) \o buff'[u] = out \o buff[u]
      BY <2>3, <2>5, <3>1, <3>2, <3>3, Zenon
    <3> HIDE DEF out, rest
    <3> QED
      BY <2>3, <2>5, <3>4, SentIs DEF NothingSent, out
  <2> QED
    BY <2>4, <2>5
<1>13. ASSUME NEW t \in Threads, WriteRest(t) PROVE P
  <2>1. buff[t] \in Seq(Token)
    BY DEF TypeInv, TypeOK
  <2>2. pc[t] \in Flushing /\ pc'[t] \in Flushing /\ (\A v \in Threads \ {t} : pc'[v] = pc[v] /\ buff'[v] = buff[v])
        /\ UNCHANGED <<record, encoded>> /\ stdout' = Written(t, buff[t]) /\ buff'[t] = <<>>
    BY <1>13 DEF WriteRest, stmts, hist, Flushing, TypeInv, TypeOK
  <2>3. CASE t # u
    BY <2>1, <2>2, <2>3, OthersKeep
  <2>4. CASE t = u
    <3>1. PlainOf(stdout', {record[u]}) = PlainOf(stdout, {record[u]}) \o buff[u]
          /\ PlainOf(stdout, {record[u]}) \in Seq(Token)
      BY <2>1, <2>2, <2>4, PlainSteps
    <3>2. PlainOf(stdout, {record[u]}) \o buff[u] \in Seq(Token)
      BY <2>1, <2>4, <3>1
    <3>3. (PlainOf(stdout, {record[u]}) \o buff[u]) \o <<>> = PlainOf(stdout, {record[u]}) \o buff[u]
      BY <3>2
    <3> QED
      BY <2>2, <2>4, <3>1, <3>3, SentIs DEF NothingSent
  <2> QED
    BY <2>3, <2>4
<1>14. ASSUME NEW t \in Threads, EndRecord(t) PROVE P
  <2>1. CASE t # u
    <3>1. pc'[u] = pc[u] /\ buff'[u] = buff[u] /\ record'[u] = record[u] /\ encoded'[u] = encoded[u]
          /\ UNCHANGED stdout
      BY <1>14, <2>1 DEF EndRecord, Return, TypeInv, TypeOK
    <3> QED
      BY <2>1, <3>1, OthersKeep
  <2>2. CASE t = u
    <3>1. pc'[u] \in {"idle", "pair"} /\ buff'[u] = <<>> /\ encoded'[u] = <<>>
      BY <1>14, <2>2 DEF EndRecord, Return, TypeInv, TypeOK, FlushInv
    <3>2. StartedAnew(u)
      BY <3>1, SentIs DEF StartedAnew, Flushing
    <3> QED
      BY <1>14, <2>2, <3>2
  <2> QED
    BY <2>1, <2>2
<1>15. ASSUME UNCHANGED vars PROVE P
  BY <1>15, SentIs DEF vars, stmts, enc, hist, NothingSent
<1>17. ASSUME NEW t \in Threads, Abort(t) PROVE P
  <2>1. UNCHANGED <<pc, buff, stdout, record, encoded>>
    BY <1>17 DEF Abort, stmts, hist
  <2> QED
    BY <2>1, SentIs DEF NothingSent
<1> HIDE DEF P
<1>16. P
  BY <1>2, <1>3, <1>4, <1>5, <1>6, <1>7, <1>8, <1>9, <1>10, <1>11, <1>12, <1>13, <1>14, <1>15, <1>17, StepCases
<1> QED
  BY <1>16 DEF P

-----------------------------------------------------------------------------
(* What a thread has sent is, cut to the buffer, the text of the pairs     *)
(* that it has encoded, each in one of the two forms.                      *)
FormsInv == \A t \in Threads :
    \E forms \in [DOMAIN encoded[t] -> {1, 2}] : SentAs(t, forms)

LEMMA FormsStep == TypeInv /\ FlushInv /\ FormsInv /\ [Next]_vars => FormsInv'
<1> SUFFICES ASSUME TypeInv, FlushInv, FormsInv, [Next]_vars, NEW t \in Threads
             PROVE  (\E forms \in [DOMAIN encoded[t] -> {1, 2}] : SentAs(t, forms))'
  BY DEF FormsInv
<1>1. PICK forms \in [DOMAIN encoded[t] -> {1, 2}] : SentAs(t, forms)
  BY DEF FormsInv
<1>2. CASE NothingSent(t)
  <2>1. SentAs(t, forms)'
    BY <1>1, <1>2, NothingSentAs
  <2>2. forms \in [DOMAIN encoded'[t] -> {1, 2}]
    BY <1>1, <1>2 DEF NothingSent
  <2> QED
    BY <2>1, <2>2
<1>3. CASE PairSent(t)
  <2> DEFINE n == Len(encoded[t])
             f == IF index = 1 THEN 1 ELSE 2
             h == [k \in 1..(n + 1) |-> IF k \in 1..n THEN forms[k] ELSE f]
  <2>1. n \in Nat /\ DOMAIN encoded[t] = 1..n /\ DOMAIN encoded'[t] = 1..(n + 1)
    BY <1>3 DEF PairSent, TypeInv
  <2>2. Head(todo[t]) \in Pair
    BY <1>3 DEF PairSent
  <2>3. h \in [1..(n + 1) -> {1, 2}] /\ (\A k \in 1..n : h[k] = forms[k]) /\ h[n + 1] = f
    BY <1>1, <2>1
  <2> HIDE DEF h
  <2>4. PICK g : g \in [1..(n + 1) -> {1, 2}] /\ (\A k \in 1..n : g[k] = forms[k]) /\ g[n + 1] = f
    BY <2>3
  <2>5. PairText(f, Head(todo[t])) = PairText(index, Head(todo[t]))
    BY <2>2, TwoForms
  <2> HIDE DEF f
  <2>6. \A k \in DOMAIN encoded[t] : PairText(g[k], encoded[t][k]) = PairText(forms[k], encoded[t][k])
    BY <2>1, <2>4
  <2>7. PairText(g[Len(encoded[t]) + 1], Head(todo[t])) = PairText(index, Head(todo[t]))
    BY <2>4, <2>5
  <2> HIDE DEF n
  <2>8. SentAs(t, g)'
    BY <1>1, <1>3, <2>6, <2>7, PairSentAs
  <2>9. g \in [DOMAIN encoded'[t] -> {1, 2}]
    BY <2>1, <2>4
  <2> QED
    BY <2>8, <2>9
<1>4. CASE LineSent(t)
  <2>1. SentAs(t, forms)'
    BY <1>1, <1>4, LineSentAs
  <2>2. forms \in [DOMAIN encoded'[t] -> {1, 2}]
    BY <1>1, <1>4 DEF LineSent
  <2> QED
    BY <2>1, <2>2
<1>5. CASE StartedAnew(t)
  <2> DEFINE f == [k \in {} |-> 1]
  <2>1. f \in [DOMAIN encoded'[t] -> {1, 2}]
    BY <1>5 DEF StartedAnew
  <2>2. SentAs(t, f)'
    BY <1>5, StartedAnewAs
  <2> QED
    BY <2>1, <2>2
<1> QED
  BY <1>2, <1>3, <1>4, <1>5, Effects

LEMMA FormsInit == Init => FlushInv /\ FormsInv
<1> SUFFICES ASSUME Init PROVE FlushInv /\ FormsInv
  OBVIOUS
<1>1. FlushInv
  BY DEF Init, FlushInv, Flushing
<1>2. ASSUME NEW t \in Threads
      PROVE  \E forms \in [DOMAIN encoded[t] -> {1, 2}] : SentAs(t, forms)
  <2> DEFINE f == [k \in {} |-> 1]
  <2>1. encoded[t] = <<>> /\ Sent(t) = <<>> /\ pc[t] \notin Flushing
    BY DEF Init, Sent, Flushing
  <2>2. f \in [DOMAIN encoded[t] -> {1, 2}]
    BY <2>1
  <2>3. PairsText(<<>>, f) = <<>>
    <3>1. [k \in DOMAIN <<>> |-> PairText(f[k], <<>>[k])] = <<>>
      OBVIOUS
    <3>2. FlattenSeq(<<>>) = <<>>
      BY DEF FlattenSeq
    <3> QED
      BY <3>1, <3>2 DEF PairsText
  <2>4. Appended(<<>>, <<>>) = <<>>
    BY CapAssumption DEF Appended
  <2> HIDE DEF f
  <2>5. SentAs(t, f)
    BY <2>1, <2>3, <2>4 DEF SentAs, Made
  <2> QED
    BY <2>2, <2>5
<1> QED
  BY <1>1, <1>2 DEF FormsInv

(* Once a record is flushed, all of it is on stdout. *)
LEMMA SentWhenDone ==
    ASSUME TypeInv, FlushInv, NEW t \in Threads, pc[t] = "done"
    PROVE  Sent(t) = Plain({record[t]})
<1>1. PlainOf(stdout, {record[t]}) \in Seq(Token) /\ buff[t] = <<>>
  BY PlainSteps DEF FlushInv
<1>2. PlainOf(stdout, {record[t]}) \o <<>> = PlainOf(stdout, {record[t]})
  BY <1>1
<1>3. Plain({record[t]}) = PlainOf(stdout, {record[t]})
  BY DEF Plain, PlainOf, Part
<1> QED
  BY <1>1, <1>2, <1>3, SentIs DEF Flushing

(* Whatever the threads race on, whatever chains are left without end and  *)
(* wherever they nest: what a record is on stdout is the pairs its thread  *)
(* has encoded since its last one, each once and in order; only the forms  *)
(* can be wrong.                                                           *)
THEOREM OnlyTheFormsRace == Spec => []OnlyFormsRace
<1> DEFINE Inv == TypeInv /\ FlushInv /\ FormsInv
<1>1. Init => Inv
  BY TypeInit, FormsInit
<1>2. Inv /\ [Next]_vars => Inv'
  BY TypeStep, FlushStep, FormsStep
<1>3. Inv => OnlyFormsRace
  <2> SUFFICES ASSUME TypeInv, FlushInv, FormsInv, NEW t \in Threads, pc[t] = "done"
               PROVE  \E forms \in [DOMAIN encoded[t] -> {1, 2}] :
                          Plain({record[t]}) = Appended(<<>>, Text(encoded[t], forms))
    BY DEF OnlyFormsRace
  <2>1. PICK forms \in [DOMAIN encoded[t] -> {1, 2}] : SentAs(t, forms)
    BY DEF FormsInv
  <2> QED
    BY <2>1, SentWhenDone DEF SentAs, Made, Flushing
<1> QED
  BY <1>1, <1>2, <1>3, PTL DEF Spec
-----------------------------------------------------------------------------
(* The indices that pair_index_ counts for a record nobody disturbs. *)
Documented(ps) == [k \in DOMAIN ps |-> k - 1]

(* How far thread t is with a record that it has begun with nothing left   *)
(* over, and during which nobody has been at another one.                  *)
Undisturbed(t) ==
    /\ pc[t] \in {"pair", "load", "store", "commit"} \cup Flushing
    /\ outer[t] = None
    /\ SentAs(t, Documented(encoded[t]))
    /\ pairs[t] = encoded[t] \o (IF pc[t] \in {"load", "store"} THEN Tail(todo[t]) ELSE todo[t])
    /\ pc[t] = "pair" => index = Len(encoded[t])
    /\ pc[t] \in {"load", "store"} => index = Len(encoded[t]) - 1
    /\ pc[t] = "store" => seen[t] = index
    /\ pc[t] \in {"commit"} \cup Flushing => todo[t] = <<>>

(* Whenever nobody is at a record the index is at its start, unless a      *)
(* statement has ended without commit.                                     *)
AloneInv ==
    /\ (\A t \in Threads : pc[t] = "idle") => astray \/ index = 0
    /\ \A t \in Threads : alone[t] =>
        /\ \A u \in Threads : pc[u] # "idle" => u = t
        /\ pc[t] # "idle" => Undisturbed(t)

LEMMA AloneInit == Init => AloneInv
BY DEF Init, AloneInv

(* The first part: where the last one leaves. *)
LEMMA IndexStep ==
    ASSUME TypeInv, AloneInv, [Next]_vars, \A t \in Threads : pc'[t] = "idle"
    PROVE  astray' \/ index' = 0
<1>1. ASSUME NEW t \in Threads, NEW p, pc' = [pc EXCEPT ![t] = p], p # "idle" PROVE FALSE
  BY <1>1 DEF TypeInv, TypeOK
<1>2. ASSUME UNCHANGED <<pc, astray, index>> PROVE astray' \/ index' = 0
  BY <1>2 DEF AloneInv
<1>3. ASSUME NEW t \in Threads, Reinit(t) PROVE FALSE
  BY <1>1, <1>3 DEF Reinit
<1>4. ASSUME NEW t \in Threads, NewEncoder(t) \/ EndRecord(t) PROVE index' = 0
  BY <1>4 DEF NewEncoder, EndRecord
<1>5. ASSUME NEW t \in Threads, NEW stmt \in Statements, Log(t, stmt) PROVE astray' \/ index' = 0
  BY <1>1, <1>2, <1>5 DEF Log, enc
<1>6. ASSUME NEW t \in Threads, Unwritten(t) \/ Thrown(t) PROVE astray'
  BY <1>6 DEF Unwritten, Thrown
<1>7. ASSUME NEW t \in Threads, WritePair(t) \/ LoadIndex(t) PROVE FALSE
  BY <1>1, <1>7 DEF WritePair, LoadIndex
<1>8. ASSUME NEW t \in Threads, StoreIndex(t) \/ Commit(t) PROVE FALSE
  <2>1. PICK p \in {"commit", "pair", "color", "write"} : pc' = [pc EXCEPT ![t] = p]
    BY <1>8 DEF StoreIndex, Commit
  <2> QED
    BY <1>1, <2>1
<1>9. ASSUME NEW t \in Threads, Color(t) \/ WriteTag(t) \/ ResetColor(t) \/ WriteRest(t) PROVE FALSE
  BY <1>1, <1>9 DEF Color, WriteTag, ResetColor, WriteRest
<1>10. ASSUME UNCHANGED vars PROVE astray' \/ index' = 0
  BY <1>2, <1>10 DEF vars, enc, hist
<1>11. ASSUME NEW t \in Threads, Abort(t) PROVE astray' \/ index' = 0
  BY <1>2, <1>11 DEF Abort, enc, hist
<1> QED
  BY <1>3, <1>4, <1>5, <1>6, <1>7, <1>8, <1>9, <1>10, <1>11, StepCases

(* Where a record is begun. *)
LEMMA BegunUndisturbed ==
    ASSUME TypeInv, FormsInv, AloneInv, NEW t \in Threads, NEW stmt \in Statements,
           Log(t, stmt), alone'[t]
    PROVE  Undisturbed(t)' /\ \A u \in Threads : pc'[u] # "idle" => u = t
<1>1. Busy = {} /\ ~astray /\ encoded[t] = <<>>
  BY DEF Log
<1>2. (\A u \in Threads : pc[u] = "idle") /\ index = 0
  BY <1>1 DEF Busy, AloneInv
<1>3. /\ pc' = [pc EXCEPT ![t] = "pair"] /\ outer'[t] = None
      /\ todo'[t] = Pairs(Ids, stmt) /\ pairs'[t] = Pairs(Ids, stmt)
      /\ UNCHANGED <<index, buff, encoded>>
  BY <1>2 DEF Log, enc, TypeInv, TypeOK
<1>4. pc'[t] = "pair" /\ \A u \in Threads : pc'[u] # "idle" => u = t
  BY <1>2, <1>3 DEF TypeInv, TypeOK
<1>5. PairsText(<<>>, <<>>) = <<>> /\ \A f : PairsText(<<>>, f) = PairsText(<<>>, <<>>)
  <2>1. \A f : [k \in DOMAIN <<>> |-> PairText(f[k], <<>>[k])] = <<>>
    OBVIOUS
  <2>2. FlattenSeq(<<>>) = <<>>
    BY DEF FlattenSeq
  <2> QED
    BY <2>1, <2>2 DEF PairsText
<1>6. buff[t] = <<>>
  <2>1. PICK forms \in [DOMAIN encoded[t] -> {1, 2}] : SentAs(t, forms)
    BY DEF FormsInv
  <2>2. buff[t] = Appended(<<>>, PairsText(<<>>, forms))
    BY <1>1, <1>2, <2>1 DEF SentAs, Sent, Made, Flushing
  <2>3. Appended(<<>>, <<>>) = <<>>
    BY CapAssumption DEF Appended
  <2> QED
    BY <1>5, <2>2, <2>3
<1>7. StartedAnew(t)
  BY <1>1, <1>3, <1>4, <1>6, SentIs DEF StartedAnew, Flushing
<1>8. PICK f : f = Documented(<<>>)
  OBVIOUS
<1>9. SentAs(t, f)'
  BY <1>7, StartedAnewAs
<1>10. SentAs(t, Documented(encoded[t]))'
  BY <1>1, <1>3, <1>8, <1>9 DEF SentAs, Made
<1>11. pairs'[t] = encoded'[t] \o todo'[t]
  BY <1>1, <1>3, PairsTyped
<1> QED
  BY <1>1, <1>2, <1>3, <1>4, <1>10, <1>11 DEF Undisturbed, Flushing

(* A step that sends nothing leaves what has been sent as it should be. *)
LEMMA StaysDocumented ==
    ASSUME TypeInv, NEW t \in Threads, NothingSent(t) \/ LineSent(t),
           SentAs(t, Documented(encoded[t]))
    PROVE  SentAs(t, Documented(encoded[t]))'
<1>1. PICK f : f = Documented(encoded[t])
  OBVIOUS
<1>2. SentAs(t, f)'
  BY <1>1, NothingSentAs, LineSentAs
<1>3. encoded'[t] = encoded[t]
  BY DEF NothingSent, LineSent
<1> QED
  BY <1>1, <1>2, <1>3 DEF SentAs, Made

LEMMA PairDocumented ==
    ASSUME TypeInv, NEW t \in Threads, PairSent(t), index = Len(encoded[t]),
           SentAs(t, Documented(encoded[t]))
    PROVE  SentAs(t, Documented(encoded[t]))'
<1>1. encoded[t] \in Seq(Pair) /\ Head(todo[t]) \in Pair /\ encoded'[t] = Append(encoded[t], Head(todo[t]))
  BY DEF TypeInv, PairSent
<1>2. PICK f : f = Documented(encoded[t])
  OBVIOUS
<1>3. PICK g : g = Documented(Append(encoded[t], Head(todo[t])))
  OBVIOUS
<1>4. /\ \A k \in DOMAIN encoded[t] : g[k] = f[k]
      /\ g[Len(encoded[t]) + 1] = index
  BY <1>1, <1>2, <1>3 DEF Documented
<1>5. SentAs(t, g)'
  BY <1>2, <1>4, PairSentAs
<1> QED
  BY <1>1, <1>3, <1>5 DEF SentAs, Made

(* The first of what is to be done moves to the end of what is done. *)
LEMMA OneMoved ==
    ASSUME NEW S, NEW done \in Seq(S), NEW left \in Seq(S), left # <<>>
    PROVE  done \o left = Append(done, Head(left)) \o Tail(left)
<1>1. Head(left) \in S /\ Tail(left) \in Seq(S) /\ left = <<Head(left)>> \o Tail(left)
  OBVIOUS
<1>2. ASSUME NEW h \in S, NEW rest \in Seq(S)
      PROVE  done \o (<<h>> \o rest) = Append(done, h) \o rest
  <2>1. \A x \in Seq(S) : (done \o x) \o rest = done \o (x \o rest)
    BY ConcatAssociative
  <2>2. <<h>> \in Seq(S) /\ done \o <<h>> = Append(done, h)
    OBVIOUS
  <2> QED
    BY <2>1, <2>2
<1> QED
  BY <1>1, <1>2

(* While it goes on. *)
LEMMA StaysUndisturbed ==
    ASSUME TypeInv, FlushInv, [Next]_vars, NEW t \in Threads, Undisturbed(t),
           \/ WritePair(t) \/ LoadIndex(t) \/ StoreIndex(t) \/ Commit(t)
           \/ Color(t) \/ WriteTag(t) \/ ResetColor(t) \/ WriteRest(t)
    PROVE  Undisturbed(t)'
<1>1. encoded[t] \in Seq(Pair) /\ todo[t] \in Seq(Pair) /\ Len(encoded[t]) \in Nat
  BY DEF TypeInv
<1>2. CASE WritePair(t)
  <2>1. pc[t] = "pair" /\ pc'[t] = "load" /\ todo[t] # <<>> /\ encoded'[t] = Append(encoded[t], Head(todo[t]))
        /\ UNCHANGED <<todo, outer, pairs, index, seen>>
    BY <1>2 DEF WritePair, stmts, enc, TypeInv, TypeOK
  <2>2. Head(todo[t]) \in Pair
    BY <1>1, <2>1
  <2>3. Len(encoded'[t]) = Len(encoded[t]) + 1 /\ encoded'[t] # encoded[t]
    BY <1>1, <2>1, <2>2
  <2>4. PairSent(t)
    BY <2>1, <2>3, Effects DEF NothingSent, Commit, EndRecord
  <2>5. SentAs(t, Documented(encoded[t]))'
    BY <2>1, <2>4, PairDocumented DEF Undisturbed
  <2>6. encoded[t] \o todo[t] = encoded'[t] \o Tail(todo[t])
    BY <1>1, <2>1, OneMoved
  <2>7. pairs'[t] = encoded'[t] \o Tail(todo'[t])
    BY <2>1, <2>6 DEF Undisturbed
  <2>8. index' = Len(encoded'[t]) - 1 /\ outer'[t] = None /\ pc'[t] = "load" /\ pc'[t] \notin Flushing
    BY <1>1, <2>1, <2>3 DEF Undisturbed, Flushing
  <2> QED
    BY <2>5, <2>7, <2>8 DEF Undisturbed
<1>3. CASE ~WritePair(t)
  <2>1. NothingSent(t) \/ (Commit(t) /\ LineSent(t))
    <3>1. ~EndRecord(t)
      BY <1>3 DEF EndRecord, LoadIndex, StoreIndex, Commit, Color, WriteTag, ResetColor, WriteRest
    <3> QED
      BY <1>3, <3>1, Effects
  <2>2. SentAs(t, Documented(encoded[t]))' /\ encoded'[t] = encoded[t]
    BY <2>1, StaysDocumented DEF Undisturbed, NothingSent, LineSent
  <2>3. CASE LoadIndex(t)
    BY <2>2, <2>3 DEF LoadIndex, Undisturbed, stmts, TypeInv, TypeOK, Flushing
  <2>4. CASE StoreIndex(t)
    <3>1. /\ pc[t] = "store" /\ index' = seen[t] + 1 /\ todo'[t] = Tail(todo[t]) /\ UNCHANGED <<outer, pairs, seen>>
          /\ \/ pc'[t] = "commit" /\ Len(todo[t]) = 1
             \/ pc'[t] = "pair"
      BY <2>4 DEF StoreIndex, TypeInv, TypeOK
    <3>2. Len(todo[t]) = 1 => Tail(todo[t]) = <<>>
      <4> SUFFICES ASSUME Len(todo[t]) = 1 PROVE Tail(todo[t]) = <<>>
        OBVIOUS
      <4>a. todo[t] # <<>>
        BY EmptySeq
      <4>1. Tail(todo[t]) \in Seq(Pair) /\ Len(Tail(todo[t])) = Len(todo[t]) - 1
        BY <1>1, <4>a
      <4>2. \A s \in Seq(Pair) : Len(s) = 0 => s = <<>>
        OBVIOUS
      <4>3. Len(Tail(todo[t])) = 0
        BY <4>1
      <4> QED
        BY <4>1, <4>2, <4>3, Zenon
    <3>3. index' = Len(encoded[t])
      BY <1>1, <3>1 DEF Undisturbed
    <3> QED
      BY <2>2, <3>1, <3>2, <3>3 DEF Undisturbed, Flushing
  <2>5. CASE Commit(t)
    <3>1. pc[t] = "commit" /\ pc'[t] \in {"color", "write"} /\ UNCHANGED <<outer, pairs, todo, index, seen>>
      BY <2>5 DEF Commit, enc, TypeInv, TypeOK
    <3> QED
      BY <2>2, <3>1 DEF Undisturbed, Flushing
  <2>6. CASE Color(t) \/ WriteTag(t) \/ ResetColor(t) \/ WriteRest(t)
    <3>1. pc[t] \in Flushing /\ pc'[t] \in Flushing /\ UNCHANGED <<outer, pairs, todo, index, seen>>
      BY <2>6 DEF Color, WriteTag, ResetColor, WriteRest, stmts, enc, Flushing, TypeInv, TypeOK
    <3> QED
      BY <2>2, <3>1 DEF Undisturbed, Flushing
  <2> QED
    BY <1>3, <2>3, <2>4, <2>5, <2>6
<1> QED
  BY <1>2, <1>3

LEMMA AloneStep == TypeInv /\ FlushInv /\ FormsInv /\ AloneInv /\ [Next]_vars => AloneInv'
<1> SUFFICES ASSUME TypeInv, FlushInv, FormsInv, AloneInv, [Next]_vars, NEW t \in Threads, alone'[t]
             PROVE  /\ \A u \in Threads : pc'[u] # "idle" => u = t
                    /\ pc'[t] # "idle" => Undisturbed(t)'
  BY IndexStep DEF AloneInv
<1> DEFINE P == /\ \A u \in Threads : pc'[u] # "idle" => u = t
                /\ pc'[t] # "idle" => Undisturbed(t)'
<1>1. ASSUME UNCHANGED <<pc, todo, outer, seen, index, pairs, record, buff, stdout, encoded, alone>> PROVE P
  BY <1>1, SentIs, ZenonT(30) DEF AloneInv, Undisturbed, SentAs, Made
<1>2. ASSUME NEW u \in Threads, Reinit(u) PROVE P
  BY <1>2 DEF Reinit, Nobody
<1>3. ASSUME NEW u \in Threads, NewEncoder(u) PROVE P
  <2>1. alone[t] /\ pc[u] = "init"
    BY <1>3 DEF NewEncoder
  <2>2. u = t /\ Undisturbed(t)
    BY <2>1 DEF AloneInv
  <2> QED
    BY <2>1, <2>2 DEF Undisturbed, Flushing
<1>4. ASSUME NEW u \in Threads, NEW stmt \in Statements, Log(u, stmt) PROVE P
  <2>1. t = u
    BY <1>4 DEF Log
  <2> QED
    BY <1>4, <2>1, BegunUndisturbed
(* The only one that is at a record is t. *)
<1>5. ASSUME NEW u \in Threads, pc[u] # "idle", alone' = alone, \A v \in Threads \ {u} : pc'[v] = pc[v]
      PROVE  u = t /\ Undisturbed(t) /\ \A v \in Threads : pc'[v] # "idle" => v = t
  BY <1>5 DEF AloneInv
<1>6. ASSUME NEW u \in Threads, Unwritten(u) \/ Thrown(u) \/ EndRecord(u) PROVE P
  <2>1. /\ pc[u] # "idle" /\ alone' = alone
        /\ \/ pc' = [pc EXCEPT ![u] = "idle"]
           \/ pc' = [pc EXCEPT ![u] = IF outer[u] = None THEN "idle" ELSE "pair"]
    BY <1>6 DEF Unwritten, Thrown, EndRecord, Return, InArguments
  <2>2. \A v \in Threads \ {u} : pc'[v] = pc[v]
    BY <2>1 DEF TypeInv, TypeOK
  <2>3. u = t /\ Undisturbed(t) /\ \A v \in Threads : pc'[v] # "idle" => v = t
    BY <1>5, <2>1, <2>2
  <2>4. outer[t] = None
    BY <2>3 DEF Undisturbed
  <2>5. pc'[t] = "idle"
    BY <2>1, <2>3, <2>4 DEF TypeInv, TypeOK
  <2> QED
    BY <2>3, <2>5
<1>7. ASSUME NEW u \in Threads,
             \/ WritePair(u) \/ LoadIndex(u) \/ StoreIndex(u) \/ Commit(u)
             \/ Color(u) \/ WriteTag(u) \/ ResetColor(u) \/ WriteRest(u)
      PROVE  P
  <2>1. pc[u] # "idle" /\ alone' = alone
    BY <1>7 DEF WritePair, LoadIndex, StoreIndex, Commit, Color, WriteTag, ResetColor, WriteRest, hist
  <2>2. \A v \in Threads \ {u} : pc'[v] = pc[v]
    BY <1>7 DEF WritePair, LoadIndex, StoreIndex, Commit, Color, WriteTag, ResetColor, WriteRest, TypeInv, TypeOK
  <2>3. u = t /\ Undisturbed(t) /\ \A v \in Threads : pc'[v] # "idle" => v = t
    BY <1>5, <2>1, <2>2
  <2>4. pc'[t] # "idle" => Undisturbed(t)'
    BY <1>7, <2>3, StaysUndisturbed
  <2> QED
    BY <2>3, <2>4
<1>8. ASSUME UNCHANGED vars PROVE P
  BY <1>1, <1>8 DEF vars, stmts, enc, hist
<1>10. ASSUME NEW u \in Threads, Abort(u) PROVE P
  BY <1>1, <1>10 DEF Abort, stmts, enc, hist
<1> HIDE DEF P
<1>9. P
  BY <1>2, <1>3, <1>4, <1>6, <1>7, <1>8, <1>10, StepCases
<1> QED
  BY <1>9 DEF P

(* text.hpp:21, "Output per record", for a record that is begun with       *)
(* nothing left over and during which nobody is at another one: its line   *)
(* is the documented one, cut to the buffer, whatever has been raced on,   *)
(* left without commit or nested before.                                   *)
THEOREM AloneLineDocumented == Spec => []AloneAsDocumented
<1> DEFINE Inv == TypeInv /\ FlushInv /\ FormsInv /\ AloneInv
<1>1. Init => Inv
  BY TypeInit, FormsInit, AloneInit
<1>2. Inv /\ [Next]_vars => Inv'
  BY TypeStep, FlushStep, FormsStep, AloneStep
<1>3. Inv => AloneAsDocumented
  <2> SUFFICES ASSUME TypeInv, FlushInv, AloneInv, NEW t \in Threads, pc[t] = "done", alone[t]
               PROVE  Plain({record[t]}) = Appended(<<>>, Due(pairs[t]))
    BY DEF AloneAsDocumented
  <2>1. Undisturbed(t)
    BY DEF AloneInv
  <2>2. pairs[t] = encoded[t]
    <3>1. pairs[t] = encoded[t] \o <<>> /\ encoded[t] \in Seq(Pair)
      BY <2>1 DEF Undisturbed, Flushing, TypeInv
    <3> QED
      BY <3>1
  <2>3. Made(t, Documented(encoded[t])) = Due(pairs[t])
    BY <2>2 DEF Made, Due, Documented, Flushing
  <2> QED
    BY <2>1, <2>3, SentWhenDone DEF Undisturbed, SentAs
<1> QED
  BY <1>1, <1>2, <1>3, PTL DEF Spec
=============================================================================
