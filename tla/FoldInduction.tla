--------------------------- MODULE FoldInduction ---------------------------
(***************************************************************************)
(* Induction over the elements of a sequence, for a loop that is modelled  *)
(* by FoldLeft.  A module that proves something about such a loop takes an *)
(* instance of this one, with the loop's body for Op and its invariant for *)
(* Holds, and cites FoldInvariant.                                         *)
(***************************************************************************)
EXTENDS SequenceLemmas

CONSTANTS
    Op(_, _),       \* the body: the next state, from a state and an element
    Holds(_, _, _)  \* the invariant: of what the loop is given, of how many
                    \* elements it has taken, and of its state

-----------------------------------------------------------------------------
(* A set of numbers up to n has a largest one. *)
LEMMA Largest ==
    ASSUME NEW n \in Nat, NEW S \in SUBSET (1..n), S # {}
    PROVE  /\ Max(S) \in S
           /\ \A y \in S : Max(S) >= y
<1> DEFINE T == {k \in Nat : n - k \in S}
<1>1. T \in SUBSET Nat /\ T # {}
  <2>1. PICK y \in S : y \in 1..n
    OBVIOUS
  <2>2. n - y \in Nat /\ n - (n - y) = y
    BY <2>1
  <2> QED
    BY <2>2
<1>2. PICK m \in T : \A k \in T : m <= k
  BY <1>1, LeastNumber
<1>3. n - m \in S /\ m \in Nat
  BY <1>2
<1>4. ASSUME NEW y \in S PROVE n - m >= y
  <2>1. y \in 1..n
    OBVIOUS
  <2>2. n - y \in Nat /\ n - (n - y) = y
    BY <2>1
  <2>3. m <= n - y
    BY <1>2, <2>2
  <2> QED
    BY <1>3, <2>1, <2>3
<1>5. \E z \in S : \A y \in S : z >= y
  BY <1>3, <1>4
<1> QED
  BY <1>5 DEF Max

-----------------------------------------------------------------------------
(* The recursion of MapThenFoldSet, by which FoldLeft is defined: the fold *)
(* over the elements at the places in s.                                   *)
Unrolled(g, s, base, seq) ==
    IF s = {} THEN base ELSE Op(g[s \ {Max(s)}], seq[Max(s)])

IsUnrolling(g, base, seq, D) == g = [s \in SUBSET D |-> Unrolled(g, s, base, seq)]

(* There is a function that satisfies the recursion. *)
LEMMA UnrollingExists ==
    ASSUME NEW base, NEW seq, NEW len \in Nat
    PROVE  \E g : IsUnrolling(g, base, seq, 1..len)
<1> DEFINE T == {n \in Nat : \E g : IsUnrolling(g, base, seq, 1..n)}
<1>1. 0 \in T
  <2> DEFINE g == [s \in {{}} |-> base]
  <2>1. SUBSET (1..0) = {{}}
    OBVIOUS
  <2>2. IsUnrolling(g, base, seq, 1..0)
    BY <2>1 DEF IsUnrolling, Unrolled
  <2> QED
    BY <2>2
<1>2. ASSUME NEW n \in Nat, n \in T PROVE n + 1 \in T
  <2> PICK g : IsUnrolling(g, base, seq, 1..n)
    BY <1>2
  <2> DEFINE h == [s \in SUBSET (1..(n + 1)) |-> Unrolled(g, s, base, seq)]
  <2>1. \A s \in SUBSET (1..n) : h[s] = g[s]
    BY DEF IsUnrolling
  <2>2. ASSUME NEW s \in SUBSET (1..(n + 1))
        PROVE  Unrolled(g, s, base, seq) = Unrolled(h, s, base, seq)
    <3>1. CASE s = {}
      BY <3>1 DEF Unrolled
    <3>2. CASE s # {}
      <4>1. Max(s) \in s /\ \A y \in s : Max(s) >= y
        BY <3>2, Largest, n + 1 \in Nat
      <4>2. ASSUME NEW y \in s \ {Max(s)} PROVE y \in 1..n
        <5>1. y \in 1..(n + 1) /\ Max(s) \in 1..(n + 1) /\ y # Max(s) /\ Max(s) >= y
          BY <4>1
        <5> QED
          BY <5>1
      <4>3. h[s \ {Max(s)}] = g[s \ {Max(s)}]
        BY <2>1, <4>2
      <4> HIDE DEF h
      <4> QED
        BY <4>3 DEF Unrolled
    <3> QED
      BY <3>1, <3>2
  <2>3. h = [s \in SUBSET (1..(n + 1)) |-> Unrolled(h, s, base, seq)]
    BY <2>2
  <2>4. IsUnrolling(h, base, seq, 1..(n + 1))
    BY <2>3 DEF IsUnrolling
  <2> HIDE DEF h
  <2> QED
    BY <2>4
<1> HIDE DEF T
<1>3. Nat \subseteq T
  BY <1>1, <1>2, SetInduction
<1> QED
  BY <1>3 DEF T

(* FoldLeft is that function at all places. *)
LEMMA FoldUnrolls ==
    ASSUME NEW base, NEW seq, NEW len \in Nat, DOMAIN seq = 1..len
    PROVE  \E g : /\ IsUnrolling(g, base, seq, 1..len)
                  /\ FoldLeft(Op, base, seq) = g[1..len]
<1> DEFINE g == CHOOSE f : IsUnrolling(f, base, seq, 1..len)
<1>1. IsUnrolling(g, base, seq, 1..len)
  BY UnrollingExists
<1>2. FoldLeft(Op, base, seq) = g[1..len]
  BY DEF FoldLeft, MapThenFoldSet, IsUnrolling, Unrolled
<1> QED
  BY <1>1, <1>2

(* The states a loop goes through: it begins with the first, each element  *)
(* makes the next one, the last is the fold, and all keep the invariant.   *)
IsTrace(trace, c, base, seq, len) ==
    /\ DOMAIN trace = 0..len
    /\ trace[0] = base /\ trace[len] = FoldLeft(Op, base, seq)
    /\ \A k \in 1..len : trace[k] = Op(trace[k - 1], seq[k])
    /\ \A k \in 0..len : Holds(c, k, trace[k])

(* A loop has a trace when its invariant holds before the first element    *)
(* and is kept by every one.                                               *)
THEOREM FoldTrace ==
    ASSUME NEW c, NEW base, NEW seq, NEW len \in Nat, DOMAIN seq = 1..len,
           Holds(c, 0, base),
           \A k \in 1..len : \A s : Holds(c, k - 1, s) => Holds(c, k, Op(s, seq[k]))
    PROVE  \E trace : IsTrace(trace, c, base, seq, len)
<1>1. PICK g : IsUnrolling(g, base, seq, 1..len) /\ FoldLeft(Op, base, seq) = g[1..len]
  BY FoldUnrolls
<1> DEFINE trace == [k \in 0..len |-> g[1..k]]
<1>2. trace[0] = base
  <2>1. 1..0 = {} /\ 1..0 \in SUBSET (1..len)
    OBVIOUS
  <2>2. g[1..0] = base
    BY <1>1, <2>1 DEF IsUnrolling, Unrolled
  <2> QED
    BY <2>2
<1>3. ASSUME NEW n \in Nat, n + 1 <= len PROVE trace[n + 1] = Op(trace[n], seq[n + 1])
  <2> DEFINE s == 1..(n + 1)
  <2>1. s \in SUBSET (1..len) /\ s # {} /\ n + 1 \in s
    BY <1>3
  <2>2. Max(s) \in s /\ Max(s) >= n + 1
    BY <2>1, Largest, n + 1 \in Nat
  <2>3. Max(s) = n + 1
    BY <2>2
  <2>4. s \ {n + 1} = 1..n
    OBVIOUS
  <2>5. g[s] = Op(g[1..n], seq[n + 1])
    BY <1>1, <2>1, <2>3, <2>4 DEF IsUnrolling, Unrolled
  <2>6. n \in 0..len /\ n + 1 \in 0..len
    BY <1>3
  <2> QED
    BY <2>5, <2>6
<1>4. DOMAIN trace = 0..len /\ trace[len] = FoldLeft(Op, base, seq)
  BY <1>1
<1> HIDE DEF trace
<1>5. ASSUME NEW k \in 1..len PROVE trace[k] = Op(trace[k - 1], seq[k])
  <2>1. k - 1 \in Nat /\ (k - 1) + 1 = k /\ k <= len
    OBVIOUS
  <2> QED
    BY <1>3, <2>1
<1> DEFINE T == {n \in Nat : n <= len => Holds(c, n, trace[n])}
<1>6. 0 \in T
  BY <1>2
<1>7. ASSUME NEW n \in Nat, n \in T PROVE n + 1 \in T
  <2> SUFFICES ASSUME n + 1 <= len PROVE Holds(c, n + 1, trace[n + 1])
    OBVIOUS
  <2>1. n + 1 \in 1..len /\ Holds(c, (n + 1) - 1, trace[n])
    BY <1>7
  <2>2. trace[n + 1] = Op(trace[n], seq[n + 1])
    BY <1>3
  <2> QED
    BY <2>1, <2>2
<1> HIDE DEF T
<1>8. Nat \subseteq T
  BY <1>6, <1>7, SetInduction
<1>9. \A k \in 0..len : Holds(c, k, trace[k])
  BY <1>8 DEF T
<1> QED
  BY <1>2, <1>4, <1>5, <1>9 DEF IsTrace

(* What holds before the first element and is kept by every element holds  *)
(* of the fold over all of them.                                           *)
LEMMA FoldInvariant ==
    ASSUME NEW c, NEW base, NEW seq, NEW len \in Nat, DOMAIN seq = 1..len,
           Holds(c, 0, base),
           \A k \in 1..len : \A s : Holds(c, k - 1, s) => Holds(c, k, Op(s, seq[k]))
    PROVE  Holds(c, len, FoldLeft(Op, base, seq))
<1>1. PICK trace : IsTrace(trace, c, base, seq, len)
  BY FoldTrace, Zenon
<1>2. len \in 0..len
  OBVIOUS
<1> QED
  BY <1>1, <1>2 DEF IsTrace
=============================================================================
