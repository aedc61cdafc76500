------------------------- MODULE RingBuffSinkProofs -------------------------
(***************************************************************************)
(* Theorems about RingBuffSink for any producers, any ring and line sizes  *)
(* and any word: what holds however flushes and calls of the consumer      *)
(* overlap; and what holds of the window of unread bytes under the         *)
(* discipline of TamedSpec.                                                *)
(***************************************************************************)
EXTENDS RingBuffSink, SequenceTheorems, TLAPS

(* A step is one of these.  Every case split below follows this list. *)
LEMMA StepCases ==
    ASSUME [Next]_vars
    PROVE  \/ \E p \in Producers : \/ \E n \in 1..MaxCall : Write(p, n)
                                   \/ Reserve(p) \/ CopyByte(p) \/ LoadTail(p) \/ StoreTail(p)
           \/ \E size \in 0..MaxRead : ReadHead(size)
           \/ \E call \in {"clear", "available"} : LoadHead(call)
           \/ ReadTail \/ ReadByte \/ ReadDone \/ ClearStore \/ Available
           \/ MoveAssign
           \/ UNCHANGED vars
BY DEF Next, Producer, Flush, Consumer, Reading

-----------------------------------------------------------------------------
(* Arithmetic of positions and cells. *)

(* A remainder is below its divisor. *)
LEMMA ModRange ==
    ASSUME NEW x \in Int, NEW n \in Nat \ {0}
    PROVE  x % n \in 0..(n - 1)
OBVIOUS

(* Quotient and remainder make up the number. *)
LEMMA DivMod ==
    ASSUME NEW x \in Int, NEW n \in Nat \ {0}
    PROVE  x \div n \in Int /\ x = (n * (x \div n)) + (x % n)
OBVIOUS

(* Two ways to write a number as a multiple of n and a rest below n agree  *)
(* in the rest.                                                            *)
LEMMA SameRest ==
    ASSUME NEW n \in Nat \ {0}, NEW q \in Int, NEW k \in Int,
           NEW r \in 0..(n - 1), NEW s \in 0..(n - 1),
           (n * q) + r = (n * k) + s
    PROVE  r = s
<1>1. CASE q = k
  BY <1>1
<1>2. CASE q > k
  <2>1. n * (q - k) = s - r
    OBVIOUS
  <2>2. n * (q - k) >= n
    BY <1>2, q - k >= 1
  <2> QED BY <2>1, <2>2
<1>3. CASE k > q
  <2>1. n * (k - q) = r - s
    OBVIOUS
  <2>2. n * (k - q) >= n
    BY <1>3, k - q >= 1
  <2> QED BY <2>1, <2>2
<1> QED BY <1>1, <1>2, <1>3

(* A number below n is its own remainder. *)
LEMMA ModSmall ==
    ASSUME NEW n \in Nat \ {0}, NEW x \in 0..(n - 1)
    PROVE  x % n = x
<1> DEFINE q == x \div n
           r == x % n
<1>1. q \in Int /\ x = (n * q) + r /\ r \in 0..(n - 1)
  BY DivMod, ModRange
<1> SUFFICES r = x
  OBVIOUS
<1> HIDE DEF q, r
<1>2. (n * q) + r = (n * 0) + x
  BY <1>1
<1> QED BY <1>1, <1>2, SameRest

(* Two positions of one cell are at least the ring apart. *)
LEMMA CellMates ==
    ASSUME NEW n \in Nat \ {0}, NEW a \in Int, NEW b \in Int, a < b, a % n = b % n
    PROVE  a + n <= b
<1> DEFINE j == a \div n
           k == b \div n
<1>1. j \in Int /\ k \in Int /\ b - a = (n * k) - (n * j)
  BY DivMod, ModRange
<1> HIDE DEF j, k
<1>2. n * (k - j) = b - a
  BY <1>1
<1>3. k - j >= 1
  <2> SUFFICES ASSUME k - j <= 0 PROVE FALSE
    BY <1>1
  <2>1. n * (k - j) <= 0
    BY <1>1
  <2> QED BY <1>2, <2>1
<1>4. n * (k - j) >= n
  BY <1>1, <1>3
<1> QED BY <1>2, <1>4

(* Where position a + c falls, c bytes after the cell of a, before and     *)
(* after the end of the ring.                                              *)
LEMMA CellOf ==
    ASSUME NEW n \in Nat \ {0}, NEW a \in Nat, NEW c \in Nat
    PROVE  /\ (a % n) + c < n => (a + c) % n = (a % n) + c
           /\ (a % n) + c >= n /\ (a % n) + c < 2 * n => (a + c) % n = (a % n) + c - n
<1> DEFINE q == a \div n
           k == (a + c) \div n
           r == a % n
           s == (a + c) % n
<1>1. q \in Int /\ a = (n * q) + r /\ r \in 0..(n - 1)
  BY DivMod, ModRange
<1>2. a + c \in Int
  OBVIOUS
<1>3. k \in Int /\ a + c = (n * k) + s /\ s \in 0..(n - 1)
  BY <1>2, DivMod, ModRange
<1> SUFFICES /\ r + c < n => s = r + c
             /\ r + c >= n /\ r + c < 2 * n => s = r + c - n
  OBVIOUS
<1> HIDE DEF q, k, r, s
<1>4. n * q \in Int /\ n * k \in Int /\ (n * q) + (r + c) = (n * k) + s
  BY <1>1, <1>3
<1>5. ASSUME r + c < n PROVE s = r + c
  <2>1. r + c \in 0..(n - 1)
    BY <1>1, <1>5
  <2> QED BY <1>1, <1>3, <1>4, <2>1, SameRest
<1>6. ASSUME r + c >= n, r + c < 2 * n PROVE s = r + c - n
  <2>1. r + c - n \in 0..(n - 1)
    BY <1>1, <1>6
  <2>2. n * (q + 1) = (n * q) + n /\ q + 1 \in Int
    BY <1>1
  <2>3. (n * (q + 1)) + (r + c - n) = (n * k) + s
    BY <1>1, <1>3, <1>4, <2>2
  <2> QED BY <1>3, <2>1, <2>2, <2>3, SameRest
<1> QED BY <1>5, <1>6

(* The lesser of two naturals. *)
LEMMA LeastOf ==
    ASSUME NEW a \in Nat, NEW b \in Nat
    PROVE  Least(a, b) \in Nat /\ Least(a, b) <= a /\ Least(a, b) <= b
                               /\ Least(a, b) \in {a, b}
BY DEF Least

-----------------------------------------------------------------------------
(* Nothing is ever flushed into a ring of size 0, and read() takes nothing *)
(* out of it.                                                              *)
EmptyRing == Size = 0 => /\ Quiet
                         /\ head = 0 /\ tail = 0 /\ rh = 0 /\ rt = 0
                         /\ rpc = "copy" => want = 0

(* A flush has a ring. *)
LEMMA Room ==
    ASSUME EmptyRing, NEW p \in Producers, pc[p] # "idle"
    PROVE  Size \in Nat \ {0}
BY SizeAssumption DEF EmptyRing, Quiet

(* Every step keeps the empty ring empty. *)
LEMMA EmptyKept ==
    ASSUME TypeOK, EmptyRing, [Next]_vars
    PROVE  EmptyRing'
<1> SUFFICES ASSUME Size = 0
             PROVE  /\ Quiet'
                    /\ head' = 0 /\ tail' = 0 /\ rh' = 0 /\ rt' = 0
                    /\ rpc' = "copy" => want' = 0
  BY DEF EmptyRing
<1>0. /\ Quiet /\ head = 0 /\ tail = 0 /\ rh = 0 /\ rt = 0
      /\ rpc = "copy" => want = 0
  BY DEF EmptyRing
<1>1. Word \in Nat \ {0} /\ 0 % Word = 0
  <2>1. Word \in Nat \ {0} /\ 0 \in 0..(Word - 1)
    BY WordAssumption
  <2> QED BY <2>1, ModSmall
<1>2. ASSUME NEW p \in Producers, NEW n \in 1..MaxCall, Write(p, n) PROVE UNCHANGED <<shared, flushing, reading>>
  BY <1>2 DEF Write
<1>3. ASSUME NEW p \in Producers, Reserve(p) \/ CopyByte(p) \/ LoadTail(p) \/ StoreTail(p) PROVE FALSE
  BY <1>0, <1>3 DEF Reserve, CopyByte, LoadTail, StoreTail, Quiet
<1>4. ASSUME NEW size \in 0..MaxRead, ReadHead(size) PROVE rpc' = "tail" /\ rh' = 0 /\ UNCHANGED <<shared, flushing, rt>>
  BY <1>0, <1>4 DEF ReadHead
<1>5. ASSUME NEW call \in {"clear", "available"}, LoadHead(call)
      PROVE  rpc' # "copy" /\ rh' = 0 /\ UNCHANGED <<shared, flushing, rt>>
  BY <1>0, <1>5 DEF LoadHead
<1>6. CASE ReadTail
  <2>1. want' = Least((rh - tail) % Word, want) /\ rt' = 0 /\ UNCHANGED <<shared, flushing, rh>>
    BY <1>0, <1>6 DEF ReadTail
  <2>2. want' = 0
    BY <1>0, <1>1, <2>1 DEF Least, TypeOK
  <2> QED BY <1>0, <2>1, <2>2 DEF shared, flushing, Quiet
<1>7. ReadByte => UNCHANGED <<shared, flushing, rpc, rh, rt, want>>
  BY DEF ReadByte
<1>8. CASE ReadDone
  <2>1. tail' = (rt + want) % Word /\ want = 0 /\ rpc' = "idle" /\ rh' = 0 /\ UNCHANGED <<head, flushing, rt>>
    BY <1>0, <1>8 DEF ReadDone
  <2> QED BY <1>0, <1>1, <2>1 DEF flushing, Quiet
<1>9. ClearStore => tail' = 0 /\ rpc' = "idle" /\ rh' = 0 /\ UNCHANGED <<head, flushing, rt>>
  BY <1>0 DEF ClearStore
<1>10. Available => rpc' = "idle" /\ rh' = 0 /\ UNCHANGED <<shared, flushing, rt>>
  BY DEF Available
<1>11. MoveAssign => head' = 0 /\ tail' = 0 /\ rt' = 0 /\ UNCHANGED <<flushing, rpc, rh, want>>
  BY DEF MoveAssign
<1> QED BY StepCases, <1>0, <1>2, <1>3, <1>4, <1>5, <1>6, <1>7, <1>8, <1>9, <1>10, <1>11
        DEF vars, shared, flushing, reading, Quiet

(* Every step keeps the type of every variable. *)
LEMMA TypeKept ==
    ASSUME TypeOK, EmptyRing, [Next]_vars
    PROVE  TypeOK'
<1> USE SizeAssumption, WordAssumption, BoundsAssumption, NoByteAssumption
<1>w. Word \in Nat \ {0} /\ (\A x \in Int : x % Word \in Words)
  BY ModRange DEF Words
<1>0. 0 \in Words /\ tail \in Int /\ (\A x \in Words : x \in Nat) /\ (\A x \in 0..MaxTotal : x \in Words)
  BY <1>w DEF TypeOK, Words
<1>1. ASSUME NEW p \in Producers, NEW n \in 1..MaxCall, Write(p, n) PROVE TypeOK'
  <2>1. staged[p] + n \in Nat /\ LineCap \in Nat
    BY DEF TypeOK
  <2>2. Least(staged[p] + n, LineCap) \in 0..LineCap
    BY <2>1, LeastOf
  <2> QED BY <1>1, <2>2 DEF TypeOK, Write, shared, flushing, reading
<1>2. ASSUME NEW p \in Producers, Reserve(p) PROVE TypeOK'
  BY <1>2 DEF TypeOK, Reserve, reading
<1>3. ASSUME NEW p \in Producers, CopyByte(p) PROVE TypeOK'
  <2>1. start[p] + copied[p] \in Bytes /\ copied[p] + 1 \in 0..LineCap
    BY <1>3 DEF TypeOK, CopyByte, Bytes
  <2> QED BY <1>3, <2>1 DEF TypeOK, CopyByte, reading
<1>4. ASSUME NEW p \in Producers, LoadTail(p) PROVE TypeOK'
  BY <1>4 DEF TypeOK, LoadTail, shared, reading
<1>5. ASSUME NEW p \in Producers, StoreTail(p) PROVE TypeOK'
  <2>1. start[p] + staged[p] - Size \in Int
    BY DEF TypeOK
  <2>2. tail' \in Words
    BY <1>w, <1>5, <2>1 DEF TypeOK, StoreTail
  <2>3. 0 \in Words
    BY <1>w DEF Words
  <2> QED BY <1>5, <2>2, <2>3 DEF TypeOK, StoreTail, reading
<1>6. ASSUME NEW size \in 0..MaxRead, ReadHead(size) PROVE TypeOK'
  BY <1>w, <1>0, <1>6 DEF TypeOK, ReadHead, shared, flushing
<1>7. ASSUME NEW call \in {"clear", "available"}, LoadHead(call) PROVE TypeOK'
  BY <1>w, <1>0, <1>7 DEF TypeOK, LoadHead, shared, flushing
<1>8. CASE ReadTail
  <2>1. rh - tail \in Int
    BY <1>0 DEF TypeOK
  <2>2. (rh - tail) % Word \in Nat
    BY <1>w, <1>0, <2>1
  <2>3. want \in Nat /\ want <= MaxRead
    BY DEF TypeOK
  <2>4. Least((rh - tail) % Word, want) \in 0..MaxRead
    BY <2>2, <2>3, LeastOf
  <2> QED BY <1>8, <2>4 DEF TypeOK, ReadTail, shared, flushing
<1>9. CASE ReadByte
  <2>1. (rt + Len(out)) % Word \in Int
    BY <1>w, <1>0 DEF TypeOK
  <2>2. Size # 0
    BY <1>0, <1>9 DEF ReadByte, EmptyRing, TypeOK
  <2>3. ((rt + Len(out)) % Word) % Size \in 0..(Size - 1)
    BY <2>1, <2>2, ModRange
  <2>4. ring[((rt + Len(out)) % Word) % Size] \in Bytes
    BY <2>3 DEF TypeOK
  <2> QED BY <1>9, <2>4 DEF TypeOK, ReadByte, shared, flushing
<1>10. CASE ReadDone
  <2>1. rt + want \in Int
    BY <1>0 DEF TypeOK
  <2>2. (rt + want) % Word \in Words
    BY <1>w, <2>1
  <2> QED BY <1>10, <2>2 DEF TypeOK, ReadDone, flushing
<1>11. CASE ClearStore
  BY <1>0, <1>11 DEF TypeOK, ClearStore, flushing
<1>12. CASE Available
  <2>1. rh - tail \in Int
    BY <1>0 DEF TypeOK
  <2>2. (rh - tail) % Word \in Words
    BY <1>w, <2>1
  <2> QED BY <1>12, <2>2 DEF TypeOK, Available, shared, flushing
<1>13. CASE MoveAssign
  <2>1. 0 \in Words
    BY <1>w DEF Words
  <2> QED BY <1>13, <2>1 DEF TypeOK, MoveAssign, Blank, Bytes, flushing
<1>14. CASE UNCHANGED vars
  BY <1>14 DEF TypeOK, vars, shared, flushing, reading
<1> QED BY StepCases, <1>1, <1>2, <1>3, <1>4, <1>5, <1>6, <1>7, <1>8, <1>9, <1>10,
           <1>11, <1>12, <1>13, <1>14

(* Both hold of every state. *)
LEMMA TypesAndRoom == Spec => [](TypeOK /\ EmptyRing)
<1>1. Init => TypeOK
  <2>1. 0 \in Words
    BY WordAssumption DEF Words
  <2> QED BY <2>1, SizeAssumption, WordAssumption, BoundsAssumption DEF Init, Blank, TypeOK, Bytes
<1>2. Init => EmptyRing
  BY DEF Init, EmptyRing, Quiet
<1>3. TypeOK /\ EmptyRing /\ [Next]_vars => TypeOK' /\ EmptyRing'
  BY TypeKept, EmptyKept
<1> QED BY <1>1, <1>2, <1>3, PTL DEF Spec

(* Every variable keeps its type: the indices stay within the word and the *)
(* staging buffers within their capacity, whatever the interleaving.       *)
THEOREM TypeCorrect == Spec => []TypeOK
BY TypesAndRoom, PTL

-----------------------------------------------------------------------------
(* The ranges of running flushes lie below head_, one after the other: what *)
(* fetch_add hands out next begins above them all.                          *)
BelowHead == \A p \in Producers : Flushing(p) => start[p] + staged[p] <= head

Before(p, q) == start[p] + staged[p] <= start[q]

InOrder == \A p, q \in Producers :
    p # q /\ Flushing(p) /\ Flushing(q) => Before(p, q) \/ Before(q, p)

RangesInv == TypeOK /\ EmptyRing /\ BelowHead /\ InOrder

(* ... which every step keeps. *)
LEMMA RangesKept == Spec => []RangesInv
<1>1. Init => BelowHead /\ InOrder
  BY DEF Init, BelowHead, InOrder, Flushing
<1>2. TypeOK /\ TypeOK' /\ BelowHead /\ InOrder /\ [Next]_vars => BelowHead' /\ InOrder'
  <2> SUFFICES ASSUME TypeOK, TypeOK', BelowHead, InOrder, [Next]_vars
               PROVE  BelowHead' /\ InOrder'
    OBVIOUS
  <2> USE DEF BelowHead, InOrder, Before, Flushing
  <2>1. ASSUME NEW p \in Producers, NEW n \in 1..MaxCall, Write(p, n)
        PROVE  BelowHead' /\ InOrder'
    BY <2>1 DEF TypeOK, Write, shared, flushing
  <2>2. ASSUME NEW p \in Producers, Reserve(p) PROVE BelowHead' /\ InOrder'
    <3>1. head \in Nat /\ staged[p] \in Nat /\ head' = head + staged[p]
          /\ \A q \in Producers : start[q] \in Nat /\ staged[q] \in Nat
      BY <2>2 DEF TypeOK, Reserve
    <3>2. start'[p] = head /\ staged' = staged
          /\ \A q \in Producers \ {p} : start'[q] = start[q] /\ pc'[q] = pc[q]
      BY <2>2 DEF TypeOK, Reserve
    <3>3. BelowHead'
      BY <3>1, <3>2
    <3>4. ASSUME NEW q \in Producers \ {p}, Flushing(q)' PROVE Before(q, p)'
      BY <3>1, <3>2, <3>4
    <3>5. InOrder'
      BY <3>2, <3>4
    <3> QED BY <3>3, <3>5
  <2>3. ASSUME NEW p \in Producers, CopyByte(p) PROVE BelowHead' /\ InOrder'
    BY <2>3 DEF CopyByte
  <2>4. ASSUME NEW p \in Producers, LoadTail(p) PROVE BelowHead' /\ InOrder'
    BY <2>4 DEF TypeOK, LoadTail, shared
  <2>5. ASSUME NEW p \in Producers, StoreTail(p) PROVE BelowHead' /\ InOrder'
    BY <2>5 DEF TypeOK, StoreTail
  <2>6. ASSUME UNCHANGED <<head, staged, flushing>> PROVE BelowHead' /\ InOrder'
    BY <2>6 DEF flushing
  <2>7. CASE MoveAssign
    BY <2>7 DEF MoveAssign, Quiet, flushing
  <2>8. (\E size \in 0..MaxRead : ReadHead(size)) \/ ReadTail \/ ReadByte \/ ReadDone
        \/ (\E call \in {"clear", "available"} : LoadHead(call)) \/ ClearStore \/ Available
        \/ UNCHANGED vars
        => UNCHANGED <<head, staged, flushing>>
    BY DEF ReadHead, ReadTail, ReadByte, ReadDone, LoadHead, ClearStore, Available, vars,
           shared, flushing
  <2> QED BY StepCases, <2>1, <2>2, <2>3, <2>4, <2>5, <2>6, <2>7, <2>8
<1> QED BY <1>1, <1>2, TypesAndRoom, PTL DEF Spec, RangesInv

(* No two flushes ever have a position in common, and each has its own     *)
(* below head_, for any number of producers.                               *)
THEOREM RangesDisjoint == Spec => []ReservationsDisjoint
<1>1. RangesInv => ReservationsDisjoint
  <2> SUFFICES ASSUME RangesInv, NEW p \in Producers, NEW q \in Producers \ {p},
                      Flushing(p), Flushing(q)
               PROVE  Reserved(p) \cap Reserved(q) = {}
    BY DEF RangesInv, BelowHead, ReservationsDisjoint
  <2>1. /\ start[p] \in Nat /\ staged[p] \in Nat /\ start[q] \in Nat /\ staged[q] \in Nat
        /\ Before(p, q) \/ Before(q, p)
    BY DEF RangesInv, TypeOK, InOrder
  <2> QED BY <2>1 DEF Reserved, Before
<1> QED BY <1>1, RangesKept, PTL

-----------------------------------------------------------------------------
(* The byte copied next goes to the cell of its position, or outside of    *)
(* the ring if it lies two rings or more behind the cell of offset 0.      *)
LEMMA CellInPlace ==
    ASSUME TypeOK, Size \in Nat \ {0}, NEW p \in Producers, copied[p] < staged[p]
    PROVE  IF (start[p] % Size) + copied[p] < 2 * Size
           THEN Cell(p) = (start[p] + copied[p]) % Size
           ELSE Cell(p) \notin DOMAIN ring
<1> DEFINE offset == start[p] % Size
           first == Least(staged[p], Size - offset)
           cell == (start[p] + copied[p]) % Size
<1>1. /\ Size \in Nat \ {0} /\ start[p] \in Nat /\ copied[p] \in Nat /\ staged[p] \in Nat
      /\ copied[p] < staged[p]
  BY SizeAssumption DEF TypeOK
<1>2. offset \in 0..(Size - 1)
  <2>1. start[p] \in Int
    BY <1>1
  <2> QED BY <1>1, <2>1, ModRange
<1>3. first \in Nat /\ first <= Size - offset /\ first \in {staged[p], Size - offset}
  <2>1. Size - offset \in Nat
    BY <1>1, <1>2
  <2> HIDE DEF offset
  <2> QED BY <1>1, <2>1, LeastOf
<1>4. DOMAIN ring = 0..(Size - 1)
  BY DEF TypeOK
<1>5. /\ offset + copied[p] < Size => cell = offset + copied[p]
      /\ offset + copied[p] >= Size /\ offset + copied[p] < 2 * Size
         => cell = offset + copied[p] - Size
  BY <1>1, CellOf
<1>6. Cell(p) = IF copied[p] < first THEN offset + copied[p] ELSE copied[p] - first
  BY DEF Cell
<1> SUFFICES IF offset + copied[p] < 2 * Size THEN Cell(p) = cell ELSE Cell(p) \notin 0..(Size - 1)
  BY <1>4
<1> HIDE DEF offset, first, cell
<1>7. CASE copied[p] < first
  BY <1>1, <1>2, <1>3, <1>5, <1>6, <1>7
<1>8. CASE copied[p] >= first
  <2>1. first = Size - offset
    BY <1>1, <1>2, <1>3, <1>8
  <2>2. offset + copied[p] >= Size /\ Cell(p) = offset + copied[p] - Size
    BY <1>1, <1>2, <1>6, <1>8, <2>1
  <2> QED BY <1>1, <1>2, <1>5, <2>2
<1> QED BY <1>1, <1>3, <1>7, <1>8

(* The two memcpys put every byte where read() will look for its position, *)
(* for any ring and any line, up to the second time the line reaches the   *)
(* end of the ring; from there on they write behind the ring.              *)
THEOREM CopiesStayInPlace == Spec => []CopiesInPlace
<1>1. TypeOK /\ EmptyRing => CopiesInPlace
  <2> SUFFICES ASSUME TypeOK, EmptyRing, NEW p \in Producers, pc[p] = "copy", copied[p] < staged[p]
               PROVE  IF (start[p] % Size) + copied[p] < 2 * Size
                      THEN Cell(p) = (start[p] + copied[p]) % Size
                      ELSE Cell(p) \notin DOMAIN ring
    BY DEF CopiesInPlace
  <2>1. Size \in Nat \ {0}
    BY Room
  <2> QED BY <2>1, CellInPlace
<1> QED BY <1>1, TypesAndRoom, PTL

-----------------------------------------------------------------------------
(* The window of unread bytes under the discipline of TamedSpec: no call   *)
(* of the consumer overlaps a flush, no line reaches the end of the ring   *)
(* twice, and a flush that overwrites unread bytes runs alone.             *)

TamedNext == QuietNext /\ Roomy

-----------------------------------------------------------------------------
(* The inductive invariant.                                                *)

(* The locals of a flush: zero outside it, the whole line copied and the   *)
(* present tail_ loaded before the store. *)
Locals == \A p \in Producers :
    /\ pc[p] = "idle" => copied[p] = 0
    /\ copied[p] <= staged[p]
    /\ pc[p] = "store" => copied[p] = staged[p] /\ seen[p] = tail

(* Every flush begins at or above tail_. *)
AboveTail == /\ tail <= head
             /\ \A p \in Producers : Flushing(p) => tail <= start[p]

(* No copy leaves the ring. *)
Inside == \A p \in Producers : Flushing(p) => (start[p] % Size) + staged[p] <= 2 * Size

(* What is reserved and unread fits in the ring, unless the newest line is *)
(* being flushed by the only flush there is.                               *)
Overruns(p) == Flushing(p) /\ Alone(p) /\ start[p] + staged[p] = head
Fitting == head - tail <= Size \/ \E p \in Producers : Overruns(p)

(* Position a is reserved but not copied, is in its cell, or was           *)
(* overwritten by a running flush that has come Size positions further.    *)
Uncopied(p, a) == /\ Flushing(p)
                  /\ start[p] + copied[p] <= a
                  /\ a < start[p] + staged[p]
Overwritten(p, a) == Flushing(p) /\ a + Size < start[p] + copied[p]
Held(a) == ring[a % Size] = a
Accounted == \A a \in tail..(head - 1) :
    Held(a) \/ \E p \in Producers : Uncopied(p, a) \/ Overwritten(p, a)

(* While a call of the consumer runs nobody flushes, so what it loaded is  *)
(* still so; what it has taken out is the beginning of the window.         *)
Consumed ==
    /\ rpc # "idle" => Quiet /\ rh = head
    /\ rpc = "copy" => rt = tail /\ want <= rh - rt /\ Len(out) <= want
    /\ rpc # "copy" => rt + Len(out) <= tail
    /\ \A i \in 1..Len(out) : rpc = "copy" => out[i] = rt + i - 1
    /\ count <= Size

WindowInv == Locals /\ AboveTail /\ Inside /\ Fitting /\ Accounted /\ Consumed
Inv == RangesInv /\ WindowInv

-----------------------------------------------------------------------------
(* What the typing says of the numbers involved. *)
LEMMA Numbers ==
    ASSUME TypeOK
    PROVE  /\ Size \in Nat
           /\ head \in Nat /\ head < Word /\ tail \in Nat /\ rh \in Nat /\ rt \in Nat
           /\ want \in Nat /\ Len(out) \in Nat
           /\ \A p \in Producers : start[p] \in Nat /\ staged[p] \in Nat /\ copied[p] \in Nat
<1>1. /\ head \in 0..MaxTotal /\ tail \in 0..(Word - 1)
      /\ rh \in 0..MaxTotal /\ rt \in 0..(Word - 1) /\ want \in 0..MaxRead
      /\ \A p \in Producers : start[p] \in 0..MaxTotal /\ staged[p] \in 0..LineCap
                              /\ copied[p] \in 0..LineCap
  BY DEF TypeOK, Words
<1>2. Len(out) \in Nat
  BY DEF TypeOK
<1>3. Size \in Nat /\ Word \in Nat /\ MaxTotal \in Nat /\ MaxTotal < Word
  BY SizeAssumption, WordAssumption
<1> QED BY <1>1, <1>2, <1>3

(* Every position has a cell. *)
LEMMA Cells ==
    ASSUME TypeOK, Size \in Nat \ {0}, NEW a \in Int
    PROVE  a % Size \in DOMAIN ring
BY ModRange DEF TypeOK

(* A step of a producer inside flush finds the consumer outside any call. *)
LEMMA ConsumerIdle ==
    ASSUME Consumed, NEW p \in Producers, Flushing(p)
    PROVE  rpc = "idle"
BY DEF Consumed, Quiet, Flushing

(* A reservation: the new positions are all still to be copied, and the    *)
(* guard of TamedSpec makes the window fit or the flush the only one.      *)
LEMMA ReserveKeeps ==
    ASSUME Inv, Roomy, NEW p \in Producers, Reserve(p), rpc' # "idle" => Quiet'
    PROVE  WindowInv'
<1>0. TypeOK
  BY DEF Inv, RangesInv
<1>1. /\ pc[p] = "idle" /\ staged[p] > 0 /\ copied[p] = 0
      /\ head' = head + staged[p] /\ start'[p] = head /\ pc'[p] = "copy"
      /\ \A q \in Producers \ {p} : start'[q] = start[q] /\ pc'[q] = pc[q]
      /\ UNCHANGED <<ring, tail, staged, copied, seen, reading>>
  BY <1>0 DEF Reserve, TypeOK, Inv, WindowInv, Locals
<1>2. Locals'
  BY <1>0, <1>1, Numbers DEF Inv, WindowInv, Locals
<1>3. AboveTail'
  <2>1. tail <= head /\ \A q \in Producers : Flushing(q) => tail <= start[q]
    BY DEF Inv, WindowInv, AboveTail
  <2> QED BY <1>0, <1>1, <2>1, Numbers DEF AboveTail, Flushing
<1>i. Inside'
  <2>1. (head % Size) + staged[p] <= 2 * Size
    BY DEF Roomy
  <2> QED BY <1>1, <2>1 DEF Inv, WindowInv, Inside, Flushing
<1>4. Fitting'
  <2>1. CASE Alone(p)
    BY <1>1, <2>1 DEF Fitting, Overruns, Alone, Flushing
  <2>2. CASE head + staged[p] - tail <= Size
    <3>1. head' - tail' <= Size
      BY <1>0, <1>1, <2>2, Numbers
    <3> QED BY <3>1 DEF Fitting
  <2> QED BY <2>1, <2>2 DEF Roomy
<1>5. Accounted'
  <2> SUFFICES ASSUME NEW a \in tail..(head' - 1)
               PROVE  Held(a) \/ \E q \in Producers : (Uncopied(q, a) \/ Overwritten(q, a))'
    BY <1>1 DEF Accounted, Held
  <2>1. CASE a >= head
    <3>1. Uncopied(p, a)'
      BY <1>0, <1>1, <2>1, Numbers DEF Uncopied, Flushing
    <3> QED BY <3>1
  <2>2. CASE a < head
    <3>1. Held(a) \/ \E q \in Producers : Uncopied(q, a) \/ Overwritten(q, a)
      BY <1>0, <2>2, Numbers DEF Inv, WindowInv, Accounted
    <3>2. ASSUME NEW q \in Producers, Uncopied(q, a) \/ Overwritten(q, a)
          PROVE  (Uncopied(q, a) \/ Overwritten(q, a))'
      BY <1>1, <3>2 DEF Uncopied, Overwritten, Flushing
    <3> QED BY <3>1, <3>2
  <2> QED BY <1>0, <2>1, <2>2, Numbers
<1>6. Consumed'
  <2>1. rpc = "idle"
    BY <1>1 DEF Quiet, reading
  <2> QED BY <1>1, <2>1 DEF Consumed, Inv, WindowInv, reading
<1> QED BY <1>2, <1>3, <1>i, <1>4, <1>5, <1>6 DEF WindowInv

(* Copying position b: another position of the same cell either lies       *)
(* beyond b and is still to be copied, or Size or more before b.           *)
LEMMA CopyKeeps ==
    ASSUME Inv, NEW p \in Producers, CopyByte(p)
    PROVE  WindowInv'
<1> DEFINE b == start[p] + copied[p]
<1>0. TypeOK /\ EmptyRing
  BY DEF Inv, RangesInv
<1>s. Size \in Nat \ {0}
  BY <1>0, Room DEF CopyByte
<1>1. /\ pc[p] = "copy" /\ copied[p] < staged[p]
      /\ copied'[p] = copied[p] + 1
      /\ \A q \in Producers \ {p} : copied'[q] = copied[q]
      /\ UNCHANGED <<head, tail, staged, pc, start, seen, reading>>
  BY <1>0 DEF CopyByte, TypeOK
<1>2. /\ ring' = [ring EXCEPT ![b % Size] = b] /\ b \in Nat
      /\ tail <= b /\ b < start[p] + staged[p] /\ b < head
  <2>0. start[p] % Size \in Nat /\ (start[p] % Size) + staged[p] <= 2 * Size
    <3>1. start[p] \in Int
      BY <1>0, Numbers
    <3>2. start[p] % Size \in Nat
      BY <1>s, <3>1, ModRange
    <3> QED BY <1>1, <3>2 DEF Inv, WindowInv, Inside, Flushing
  <2>1. Cell(p) = b % Size
    <3>1. (start[p] % Size) + copied[p] < 2 * Size
      BY <1>0, <1>1, <1>s, <2>0, Numbers
    <3> QED BY <1>0, <1>1, <1>s, <3>1, CellInPlace
  <2>2. start[p] + staged[p] <= head /\ tail <= start[p]
    BY <1>1 DEF Inv, RangesInv, BelowHead, WindowInv, AboveTail, Flushing
  <2>3. ring' = [ring EXCEPT ![b % Size] = b]
    BY <2>1 DEF CopyByte
  <2>4. start[p] \in Nat /\ copied[p] \in Nat /\ staged[p] \in Nat /\ head \in Nat /\ tail \in Nat
    BY <1>0, Numbers
  <2> QED BY <1>1, <2>2, <2>3, <2>4
<1>3. Locals'
  BY <1>0, <1>1, Numbers DEF Inv, WindowInv, Locals
<1>4. AboveTail'
  BY <1>1 DEF Inv, WindowInv, AboveTail, Flushing
<1>i. Inside'
  BY <1>1 DEF Inv, WindowInv, Inside, Flushing
<1>5. Fitting'
  BY <1>1 DEF Inv, WindowInv, Fitting, Overruns, Alone, Flushing
<1>6. Accounted'
  <2> SUFFICES ASSUME NEW a \in tail..(head - 1)
               PROVE  Held(a)' \/ \E q \in Producers : (Uncopied(q, a) \/ Overwritten(q, a))'
    BY <1>1 DEF Accounted, Held
  <2>0. a \in Nat /\ tail <= a /\ a < head
    BY <1>0, Numbers
  <2>1. CASE a = b
    <3>1. Held(a)'
      BY <1>0, <1>s, <1>2, <2>0, <2>1, Cells DEF Held
    <3> QED BY <3>1
  <2>2. CASE a # b /\ a % Size = b % Size /\ Fitting
    <3>1. a < b => a + Size <= b
      BY <1>s, <1>2, <2>0, <2>2, CellMates
    <3>2. b < a => b + Size <= a
      BY <1>s, <1>2, <2>0, <2>2, CellMates
    <3>3. CASE a < b
      <4>1. Overwritten(p, a)'
        BY <1>0, <1>1, <2>0, <3>1, <3>3, Numbers, SMTT(30) DEF Overwritten, Flushing
      <4> QED BY <4>1
    <3>4. CASE b < a
      <4>1. head - tail > Size
        BY <1>0, <1>2, <2>0, <3>2, <3>4, Numbers
      <4>2. PICK q \in Producers : Overruns(q)
        BY <1>0, <2>2, <4>1, Numbers DEF Fitting
      <4>3. q = p
        BY <1>1, <4>2 DEF Overruns, Alone
      <4>4. Uncopied(p, a)'
        BY <1>0, <1>1, <2>0, <3>4, <4>2, <4>3, Numbers, SMTT(30) DEF Overruns, Uncopied, Flushing
      <4> QED BY <4>4
    <3> QED BY <1>2, <2>0, <2>2, <3>3, <3>4
  <2>3. CASE a # b /\ a % Size # b % Size
    <3>1. Held(a) => Held(a)'
      BY <1>0, <1>s, <1>2, <2>0, <2>3, Cells DEF Held
    <3>2. ASSUME NEW q \in Producers, Uncopied(q, a) \/ Overwritten(q, a)
          PROVE  (Uncopied(q, a) \/ Overwritten(q, a))'
      <4>1. CASE q = p
        <5>1. start[p] \in Nat /\ copied[p] \in Nat /\ staged[p] \in Nat /\ Size \in Nat
          BY <1>0, Numbers
        <5>2. CASE Uncopied(p, a)
          <6>1. start[p] + copied[p] + 1 <= a /\ a < start[p] + staged[p]
            BY <2>0, <2>3, <5>1, <5>2 DEF Uncopied
          <6> QED BY <1>1, <2>0, <4>1, <5>1, <6>1 DEF Uncopied, Flushing
        <5>3. CASE Overwritten(p, a)
          BY <1>1, <2>0, <4>1, <5>1, <5>3 DEF Overwritten, Flushing
        <5> QED BY <3>2, <4>1, <5>2, <5>3
      <4>2. CASE q # p
        BY <1>1, <3>2, <4>2 DEF Uncopied, Overwritten, Flushing
      <4> QED BY <4>1, <4>2
    <3> QED BY <3>1, <3>2 DEF Inv, WindowInv, Accounted
  <2> QED BY <2>1, <2>2, <2>3 DEF Inv, WindowInv
<1>7. Consumed'
  BY <1>1 DEF Inv, WindowInv, Consumed, Quiet, reading
<1> QED BY <1>3, <1>4, <1>i, <1>5, <1>6, <1>7 DEF WindowInv

(* The end of a flush.  If it ran over unread bytes it is the newest and   *)
(* the only one, and tail_ moves to what the ring still holds; if not,     *)
(* tail_ stays.                                                            *)
LEMMA StoreKeeps ==
    ASSUME Inv, NEW p \in Producers, StoreTail(p)
    PROVE  /\ WindowInv'
           /\ tail' # tail => head - tail' = Size
<1> DEFINE end == start[p] + staged[p]
<1>0. TypeOK
  BY DEF Inv, RangesInv
<1>1. /\ pc[p] = "store" /\ copied[p] = staged[p] /\ seen[p] = tail
      /\ pc'[p] = "idle" /\ copied'[p] = 0
      /\ \A q \in Producers \ {p} : /\ start'[q] = start[q] /\ copied'[q] = copied[q]
                                    /\ staged'[q] = staged[q] /\ pc'[q] = pc[q]
                                    /\ seen'[q] = seen[q]
      /\ staged'[p] = 0
      /\ UNCHANGED <<ring, head, reading>>
  BY <1>0 DEF StoreTail, TypeOK, Inv, WindowInv, Locals
<1>2. end \in Nat /\ end <= head /\ tail <= start[p] /\ tail <= head
  BY <1>0, <1>1, Numbers DEF Inv, RangesInv, BelowHead, WindowInv, AboveTail, Flushing
<1>3. end - tail \in 0..(Word - 1) /\ (end - Size > 0 => end - Size \in 0..(Word - 1))
  <2>1. head \in Nat /\ head < Word /\ tail \in Nat /\ Size \in Nat /\ Word \in Nat
    BY <1>0, Numbers, WordAssumption
  <2>2. start[p] \in Nat /\ staged[p] \in Nat
    BY <1>0, Numbers
  <2>3. end \in Nat /\ tail <= end
    BY <1>2, <2>1, <2>2
  <2> HIDE DEF end
  <2> QED BY <1>2, <2>1, <2>3
<1>4. (end - tail) % Word = end - tail /\ (end - Size > 0 => (end - Size) % Word = end - Size)
  BY <1>3, WordAssumption, ModSmall
<1>i. Inside'
  BY <1>1 DEF Inv, WindowInv, Inside, Flushing
<1>5. CASE end - tail > Size
  <2>1. tail' = head - Size /\ end = head /\ Alone(p) /\ tail < tail'
    <3>1. PICK q \in Producers : Overruns(q)
      BY <1>0, <1>2, <1>5, Numbers DEF Inv, WindowInv, Fitting
    <3>2. q = p
      BY <1>1, <3>1 DEF Overruns, Alone
    <3>3. tail' = end - Size
      BY <1>0, <1>1, <1>2, <1>4, <1>5, Numbers, SMTT(30) DEF StoreTail, Overwrote
    <3> QED BY <1>0, <1>2, <1>5, <3>1, <3>2, <3>3, Numbers DEF Overruns
  <2>2. \A q \in Producers : pc'[q] = "idle"
    BY <1>1, <2>1 DEF Alone
  <2>3. Locals'
    BY <1>0, <1>1, <2>1, <2>2, Numbers, SMTT(30) DEF Inv, WindowInv, Locals, Alone
  <2>4. AboveTail'
    BY <1>0, <1>1, <2>1, <2>2, Numbers DEF AboveTail, Flushing
  <2>5. Fitting'
    <3>1. head' - tail' <= Size
      BY <1>0, <1>1, <2>1, Numbers
    <3> QED BY <3>1 DEF Fitting
  <2>6. Accounted'
    <3> SUFFICES ASSUME NEW a \in tail'..(head - 1) PROVE Held(a)
      BY <1>1 DEF Accounted, Held
    <3>1. a \in tail..(head - 1) /\ head <= a + Size
      BY <1>0, <2>1, Numbers
    <3>2. ASSUME NEW q \in Producers, Uncopied(q, a) \/ Overwritten(q, a) PROVE FALSE
      <4>1. q = p
        BY <2>1, <3>2 DEF Uncopied, Overwritten, Flushing, Alone
      <4> QED BY <1>0, <1>1, <2>1, <3>1, <3>2, <4>1, Numbers DEF Uncopied, Overwritten
    <3> QED BY <3>1, <3>2 DEF Inv, WindowInv, Accounted
  <2>7. Consumed'
    <3>1. rpc = "idle"
      BY <1>1, ConsumerIdle DEF Inv, WindowInv, Flushing
    <3> QED BY <1>0, <1>1, <2>1, <3>1, Numbers DEF Inv, WindowInv, Consumed, reading
  <2> QED BY <1>0, <1>i, <2>1, <2>3, <2>4, <2>5, <2>6, <2>7, Numbers DEF WindowInv
<1>6. CASE end - tail <= Size
  <2>1. tail' = tail
    <3>1. ~Overwrote(p)
      BY <1>0, <1>1, <1>2, <1>4, <1>6, Numbers, SMTT(30) DEF Overwrote
    <3> QED BY <3>1 DEF StoreTail
  <2>2. head - tail <= Size
    <3> SUFFICES ASSUME NEW q \in Producers, Overruns(q) PROVE head - tail <= Size
      BY DEF Inv, WindowInv, Fitting
    <3>1. q = p
      BY <1>1 DEF Overruns, Alone
    <3> QED BY <1>6, <3>1 DEF Overruns
  <2>3. Locals'
    BY <1>0, <1>1, <2>1, Numbers DEF Inv, WindowInv, Locals
  <2>4. AboveTail'
    BY <1>1, <2>1 DEF Inv, WindowInv, AboveTail, Flushing
  <2>5. Fitting'
    <3>1. head' - tail' <= Size
      BY <1>1, <2>1, <2>2
    <3> QED BY <3>1 DEF Fitting
  <2>6. Accounted'
    <3> SUFFICES ASSUME NEW a \in tail..(head - 1)
                 PROVE  Held(a) \/ \E q \in Producers : (Uncopied(q, a) \/ Overwritten(q, a))'
      BY <1>1, <2>1 DEF Accounted, Held
    <3>1. ~Uncopied(p, a) /\ ~Overwritten(p, a)
      BY <1>0, <1>1, <1>2, <2>2, Numbers DEF Uncopied, Overwritten
    <3>2. ASSUME NEW q \in Producers \ {p}, Uncopied(q, a) \/ Overwritten(q, a)
          PROVE  (Uncopied(q, a) \/ Overwritten(q, a))'
      BY <1>1, <3>2 DEF Uncopied, Overwritten, Flushing
    <3> QED BY <3>1, <3>2 DEF Inv, WindowInv, Accounted
  <2>7. Consumed'
    <3>1. rpc = "idle"
      BY <1>1, ConsumerIdle DEF Inv, WindowInv, Flushing
    <3> QED BY <1>1, <2>1, <3>1 DEF Inv, WindowInv, Consumed, reading
  <2> QED BY <1>i, <2>1, <2>3, <2>4, <2>5, <2>6, <2>7 DEF WindowInv
<1> QED BY <1>0, <1>2, <1>5, <1>6, Numbers

(* Calls of the consumer begin, run and end while nobody flushes, and move *)
(* tail_ only forwards and only up to head_.                               *)
LEMMA ConsumerKeeps ==
    ASSUME Inv, rpc' # "idle" => Quiet',
           \/ \E size \in 0..MaxRead : ReadHead(size)
           \/ \E call \in {"clear", "available"} : LoadHead(call)
           \/ ReadTail \/ ReadByte \/ ReadDone \/ ClearStore \/ Available
    PROVE  WindowInv'
<1>0. TypeOK
  BY DEF Inv, RangesInv
<1>1. Quiet /\ UNCHANGED <<ring, head, staged, flushing>>
  <2>1. UNCHANGED <<ring, head, staged, flushing>>
    BY DEF ReadHead, LoadHead, ReadTail, ReadByte, ReadDone, ClearStore, Available,
           shared
  <2>2. rpc # "idle" \/ rpc' # "idle"
    BY DEF ReadHead, LoadHead, ReadTail, ReadByte, ReadDone, ClearStore, Available
  <2> QED BY <2>1, <2>2 DEF Inv, WindowInv, Consumed, Quiet, flushing
<1>2. head - tail <= Size
  BY <1>1 DEF Inv, WindowInv, Fitting, Overruns, Quiet, Flushing
<1>3. tail <= head /\ tail <= tail' /\ tail' <= head /\ tail' \in Nat /\ Consumed'
  <2>0. tail <= head
    BY DEF Inv, WindowInv, AboveTail
  <2> SUFFICES tail <= tail' /\ tail' <= head /\ tail' \in Nat /\ Consumed'
    BY <2>0
  <2>1. Quiet' /\ head' = head /\ Consumed
    BY <1>1 DEF Quiet, flushing, Inv, WindowInv
  <2>2. /\ Size \in Nat /\ head \in Nat /\ head < Word /\ tail \in Nat /\ rt \in Nat /\ rh \in Nat
        /\ want \in Nat /\ Len(out) \in Nat /\ Word \in Nat \ {0}
    BY <1>0, Numbers, WordAssumption
  <2>3. (head - tail) % Word = head - tail
    <3>1. head - tail \in 0..(Word - 1)
      BY <2>0, <2>2
    <3> QED BY <2>2, <3>1, ModSmall
  <2>4. CASE (\E size \in 0..MaxRead : ReadHead(size))
             \/ (\E call \in {"clear", "available"} : LoadHead(call))
    <3>1. /\ rpc = "idle" /\ rpc' \in {"tail", "clear", "available"} /\ rh' = head /\ count' = 0
          /\ tail' = tail /\ rt' = rt /\ out' = out
      BY <2>4 DEF ReadHead, LoadHead, shared
    <3>2. rt' + Len(out') <= tail'
      BY <2>1, <3>1 DEF Consumed
    <3> QED BY <2>0, <2>1, <2>2, <3>1, <3>2 DEF Consumed
  <2>5. CASE ReadTail
    <3>1. /\ rpc = "tail" /\ rpc' = "copy" /\ rt' = tail /\ rh' = rh /\ count' = count
          /\ out' = <<>> /\ tail' = tail /\ want' = Least(rh - tail, want) /\ rh = head
      BY <2>1, <2>3, <2>5 DEF ReadTail, shared, Consumed
    <3>2. want' \in Nat /\ want' <= rh - tail
      <4>1. rh - tail \in Nat
        BY <2>0, <2>2, <3>1
      <4> QED BY <2>2, <3>1, <4>1, LeastOf
    <3>3. Len(out') = 0
      BY <3>1
    <3> QED BY <2>0, <2>1, <2>2, <3>1, <3>2, <3>3 DEF Consumed
  <2>6. CASE ReadByte
    <3> DEFINE a == rt + Len(out)
    <3>1. /\ rpc = "copy" /\ rpc' = "copy" /\ Len(out) < want /\ rt = tail /\ want <= rh - rt
          /\ rh = head /\ out' = Append(out, ring[(a % Word) % Size])
          /\ UNCHANGED <<tail, rh, rt, want, count>>
      BY <2>1, <2>6 DEF ReadByte, shared, Consumed
    <3>2. a \in tail..(head - 1) /\ a \in 0..(Word - 1)
      BY <2>2, <3>1
    <3>3. ring[(a % Word) % Size] = a
      <4>1. a % Word = a
        BY <2>2, <3>2, ModSmall
      <4>2. Held(a)
        BY <1>1, <3>2 DEF Inv, WindowInv, Accounted, Uncopied, Overwritten, Quiet, Flushing
      <4> QED BY <4>1, <4>2 DEF Held
    <3>4. out \in Seq(Bytes) /\ a \in Bytes
      BY <1>0, <2>2 DEF TypeOK, Bytes
    <3>5. Len(out') = Len(out) + 1 /\ out'[Len(out) + 1] = a
          /\ \A i \in 1..Len(out) : out'[i] = out[i]
      <4> HIDE DEF a
      <4>1. out' = Append(out, a)
        BY <3>1, <3>3
      <4> QED BY <3>4, <4>1
    <3>6. \A i \in 1..Len(out') : out'[i] = rt + i - 1
      <4> SUFFICES ASSUME NEW i \in 1..Len(out') PROVE out'[i] = rt + i - 1
        OBVIOUS
      <4>1. CASE i = Len(out) + 1
        BY <2>2, <3>5, <4>1
      <4>2. CASE i \in 1..Len(out)
        BY <2>1, <3>1, <3>5, <4>2 DEF Consumed
      <4> QED BY <2>2, <3>5, <4>1, <4>2
    <3> HIDE DEF a
    <3> QED BY <2>0, <2>1, <2>2, <3>1, <3>5, <3>6 DEF Consumed
  <2>7. CASE ReadDone
    <3>1. /\ rpc = "copy" /\ rpc' = "idle" /\ Len(out) = want /\ rt = tail /\ want <= rh - rt
          /\ rh = head /\ tail' = (rt + want) % Word /\ UNCHANGED <<rt, out, count>>
      BY <2>1, <2>7 DEF ReadDone, Consumed
    <3>2. rt + want \in 0..(Word - 1)
      BY <2>2, <3>1
    <3>3. tail' = rt + want
      BY <2>2, <3>1, <3>2, ModSmall
    <3> QED BY <2>0, <2>1, <2>2, <3>1, <3>3 DEF Consumed
  <2>8. CASE ClearStore
    <3>1. /\ rpc = "clear" /\ rpc' = "idle" /\ tail' = head /\ UNCHANGED <<rt, out, count>>
          /\ rt + Len(out) <= tail
      BY <2>1, <2>8 DEF ClearStore, Consumed
    <3> QED BY <2>0, <2>1, <2>2, <3>1 DEF Consumed
  <2>9. CASE Available
    <3>1. /\ rpc = "available" /\ rpc' = "idle" /\ count' = head - tail
          /\ UNCHANGED <<tail, rt, out>> /\ rt + Len(out) <= tail
      BY <2>1, <2>3, <2>9 DEF Available, shared, Consumed
    <3> QED BY <1>2, <2>0, <2>1, <2>2, <3>1 DEF Consumed
  <2> QED BY <2>4, <2>5, <2>6, <2>7, <2>8, <2>9
<1>4. Locals' /\ AboveTail' /\ Inside' /\ Fitting' /\ Accounted'
  <2>1. \A p \in Producers : pc[p] = "idle" /\ pc'[p] = "idle"
    BY <1>1 DEF Quiet, flushing
  <2>2. Locals'
    BY <1>1, <2>1 DEF Inv, WindowInv, Locals, flushing
  <2>3. AboveTail'
    BY <1>1, <1>3, <2>1 DEF AboveTail, Flushing
  <2>4. Fitting'
    <3>1. head' - tail' <= Size
      BY <1>0, <1>1, <1>2, <1>3, Numbers
    <3> QED BY <3>1 DEF Fitting
  <2>5. Accounted'
    <3> SUFFICES ASSUME NEW a \in tail'..(head - 1) PROVE Held(a)
      BY <1>1 DEF Accounted, Held
    <3>1. a \in tail..(head - 1)
      BY <1>0, <1>3, Numbers
    <3> QED BY <2>1, <3>1 DEF Inv, WindowInv, Accounted, Uncopied, Overwritten, Flushing
  <2>6. Inside'
    BY <2>1 DEF Inside, Flushing
  <2> QED BY <2>2, <2>3, <2>4, <2>5, <2>6
<1> QED BY <1>3, <1>4 DEF WindowInv

(* What TamedSpec adds to a step. *)
LEMMA TamedStep ==
    ASSUME [TamedNext]_vars
    PROVE  /\ [Next]_vars
           /\ UNCHANGED vars \/ (Roomy /\ (rpc' # "idle" => Quiet'))
BY DEF TamedNext, QuietNext, Quiet

(* The invariant is inductive. *)
LEMMA WindowKept ==
    ASSUME Inv, [TamedNext]_vars
    PROVE  WindowInv'
<1>0. TypeOK
  BY DEF Inv, RangesInv
<1> USE DEF Inv, WindowInv
<1>1. CASE UNCHANGED vars
  BY <1>1 DEF vars, shared, flushing, reading, Locals, AboveTail, Inside, Fitting, Overruns, Alone,
              Accounted, Held, Uncopied, Overwritten, Consumed, Quiet, Flushing
<1>2. ASSUME NEW p \in Producers, NEW n \in 1..MaxCall, Write(p, n) PROVE WindowInv'
  <2>1. /\ pc[p] = "idle" /\ UNCHANGED <<shared, flushing, reading>>
        /\ \A q \in Producers : q # p => staged'[q] = staged[q]
    BY <1>0, <1>2 DEF Write, TypeOK
  <2>2. staged'[p] \in Nat
    <3>1. staged[p] + n \in Nat /\ LineCap \in Nat
      BY <1>0, SizeAssumption DEF TypeOK
    <3> QED BY <1>0, <1>2, <3>1, LeastOf DEF Write, TypeOK
  <2>3. Locals'
    BY <1>0, <2>1, <2>2, Numbers DEF Locals, flushing, shared
  <2>4. AboveTail' /\ Consumed'
    BY <2>1 DEF AboveTail, Consumed, Quiet, Flushing, flushing, shared, reading
  <2>5. \A q \in Producers : Flushing(q)' = Flushing(q) /\ (Flushing(q) => staged'[q] = staged[q])
    BY <2>1 DEF Flushing, flushing
  <2>6. Fitting'
    BY <2>1, <2>5 DEF Fitting, Overruns, Alone, flushing, shared
  <2>7. Accounted'
    BY <2>1, <2>5 DEF Accounted, Held, Uncopied, Overwritten, flushing, shared
  <2>8. Inside'
    BY <2>1, <2>5 DEF Inside, flushing
  <2> QED BY <2>3, <2>4, <2>6, <2>7, <2>8
<1>3. ASSUME NEW p \in Producers, LoadTail(p) PROVE WindowInv'
  <2>1. /\ pc[p] = "copy" /\ copied[p] = staged[p] /\ pc'[p] = "store" /\ seen'[p] = tail
        /\ \A q \in Producers \ {p} : pc'[q] = pc[q] /\ seen'[q] = seen[q]
        /\ UNCHANGED <<shared, staged, start, copied, reading>>
    BY <1>0, <1>3 DEF LoadTail, TypeOK
  <2>2. Locals'
    BY <2>1 DEF Locals, shared
  <2>3. \A q \in Producers : Flushing(q)' = Flushing(q)
    BY <2>1 DEF Flushing
  <2>4. AboveTail' /\ Consumed'
    BY <2>1, <2>3 DEF AboveTail, Consumed, Quiet, Flushing, shared, reading
  <2>5. Fitting'
    BY <2>1, <2>3 DEF Fitting, Overruns, Alone, Flushing, shared
  <2>6. Accounted'
    BY <2>1, <2>3 DEF Accounted, Held, Uncopied, Overwritten, shared
  <2>7. Inside'
    BY <2>1, <2>3 DEF Inside
  <2> QED BY <2>2, <2>4, <2>5, <2>6, <2>7
<1>4. CASE MoveAssign
  <2>1. /\ \A q \in Producers : pc[q] = "idle" /\ pc'[q] = "idle"
        /\ rpc' = "idle" /\ head' = 0 /\ tail' = 0 /\ rt' = 0 /\ out' = <<>> /\ count' = 0
        /\ UNCHANGED <<staged, flushing>>
    BY <1>4 DEF MoveAssign, Quiet, flushing
  <2>2. Locals' /\ AboveTail' /\ Inside' /\ Accounted'
    BY <2>1 DEF Locals, AboveTail, Inside, Accounted, Flushing, flushing
  <2>3. Fitting' /\ Consumed'
    BY <2>1, SizeAssumption DEF Fitting, Consumed
  <2> QED BY <2>2, <2>3
<1> QED BY TamedStep, StepCases, ReserveKeeps, CopyKeeps, StoreKeeps, ConsumerKeeps,
           <1>1, <1>2, <1>3, <1>4

(* Every behaviour of TamedSpec is one of Spec, so what holds of all       *)
(* interleavings holds of these, and the window invariant besides.         *)
LEMMA WindowHolds == TamedSpec => []Inv
<1>1. TamedSpec => Spec
  <2>1. [QuietNext /\ Roomy]_vars => [Next]_vars
    BY DEF QuietNext
  <2> QED BY <2>1, PTL DEF TamedSpec, Spec
<1>2. Init => WindowInv
  BY SizeAssumption DEF Init, WindowInv, Locals, AboveTail, Inside, Fitting, Accounted, Consumed, Flushing,
                        Quiet
<1>3. RangesInv /\ WindowInv /\ [QuietNext /\ Roomy]_vars => WindowInv'
  BY WindowKept DEF Inv, TamedNext
<1> QED BY <1>1, <1>2, <1>3, RangesKept, PTL DEF TamedSpec, Inv

-----------------------------------------------------------------------------
(* Between flushes the unread window is no larger than the ring and holds  *)
(* every byte of it: an overrun costs the oldest bytes and nothing else.   *)
THEOREM WindowStaysIntact == TamedSpec => []WindowIntact
<1>1. Inv => WindowIntact
  <2> SUFFICES ASSUME Inv, Quiet
               PROVE  tail <= head /\ Window <= Size /\ \A a \in tail..(head - 1) : ring[a % Size] = a
    BY DEF WindowIntact
  <2>1. TypeOK /\ tail <= head
    BY DEF Inv, RangesInv, WindowInv, AboveTail
  <2>2. head - tail <= Size
    BY DEF Inv, WindowInv, Fitting, Overruns, Quiet, Flushing
  <2>3. head - tail \in 0..(Word - 1) /\ Word \in Nat \ {0}
    BY <2>1, Numbers, WordAssumption
  <2>4. Window <= Size
    BY <2>2, <2>3, ModSmall DEF Window
  <2> QED BY <2>1, <2>4 DEF Inv, WindowInv, Accounted, Held, Uncopied, Overwritten, Quiet, Flushing
<1> QED BY <1>1, WindowHolds, PTL

(* read() returns the positions of the window in order, from the oldest on *)
(* and none that is not yet in the ring, across the wrap of the indices.   *)
THEOREM ReadsTheWindow == TamedSpec => []ReadsWindow
<1>1. Inv => ReadsWindow
  <2> SUFFICES ASSUME Inv, rpc = "copy", NEW i \in DOMAIN out
               PROVE  out[i] = rt + i - 1 /\ out[i] < head
    BY DEF ReadsWindow
  <2>1. TypeOK
    BY DEF Inv, RangesInv
  <2>2. i \in 1..Len(out)
    BY <2>1 DEF TypeOK
  <2>3. out[i] = rt + i - 1 /\ rh = head /\ want <= rh - rt /\ Len(out) <= want
    BY <2>2 DEF Inv, WindowInv, Consumed
  <2> QED BY <2>1, <2>2, <2>3, Numbers
<1> QED BY <1>1, WindowHolds, PTL

(* available() never reports more than the ring holds. *)
THEOREM AvailableStaysBounded == TamedSpec => []AvailableBounded
<1>1. Inv => AvailableBounded
  BY DEF Inv, WindowInv, Consumed, AvailableBounded
<1> QED BY <1>1, WindowHolds, PTL

(* A flush that moves tail_ leaves a full ring behind it: no byte is       *)
(* dropped that the ring could have kept.                                  *)
THEOREM LossIsOldest == TamedSpec => OnlyOldestLost
<1>1. Inv /\ [QuietNext /\ Roomy]_vars
      => [(\E p \in Producers : StoreTail(p)) /\ tail' # tail => head - tail' = Size]_vars
  BY StoreKeeps
<1> QED BY <1>1, WindowHolds, PTL DEF TamedSpec, OnlyOldestLost

(* A call of read begins at or after the end of the one before: no byte is *)
(* returned twice.                                                         *)
THEOREM ReadsNeverRepeat == TamedSpec => ReadsAdvance
<1>1. Inv /\ [QuietNext /\ Roomy]_vars => [ReadTail => rt' >= rt + Len(out)]_vars
  <2> SUFFICES ASSUME Inv, ReadTail PROVE rt' >= rt + Len(out)
    OBVIOUS
  <2>1. TypeOK /\ rt + Len(out) <= tail /\ rt' = tail
    BY DEF Inv, RangesInv, WindowInv, Consumed, ReadTail
  <2> QED BY <2>1, Numbers
<1> QED BY <1>1, WindowHolds, PTL DEF TamedSpec, ReadsAdvance
=============================================================================
