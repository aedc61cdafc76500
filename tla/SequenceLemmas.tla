--------------------------- MODULE SequenceLemmas ---------------------------
(***************************************************************************)
(* Induction over the natural numbers, said of a set so that it can be     *)
(* cited, and what it gives: a function that is defined by recursion       *)
(* exists, and FlattenSeq, by which the models join what a loop writes,    *)
(* goes from one element to the next.  And prefixes.                       *)
(***************************************************************************)
EXTENDS SequencesExt, SequenceTheorems, WellFoundedInduction, TLAPS

(* A set of natural numbers that is not empty has a least one. *)
LEMMA LeastNumber ==
    ASSUME NEW T \in SUBSET Nat, T # {}
    PROVE  \E m \in T : \A k \in T : m <= k
<1> DEFINE R == {p \in Nat \X Nat : p[1] < p[2]}
<1>1. IsWellFoundedOn(R, Nat)
  BY NatLessThanWellFounded DEF OpToRel
<1>2. \A k, m \in T : <<k, m>> \notin R => m <= k
  OBVIOUS
<1> HIDE DEF R
<1>3. PICK m \in T : \A k \in T : <<k, m>> \notin R
  BY <1>1, WFMin
<1> QED
  BY <1>2, <1>3

(* Induction: a set with 0 in it, and with each number the next one, has   *)
(* all of them.  Said of a set and not of a predicate, so that it can be   *)
(* cited.                                                                  *)
LEMMA SetInduction ==
    ASSUME NEW T, 0 \in T, \A n \in Nat : n \in T => n + 1 \in T
    PROVE  Nat \subseteq T
<1> SUFFICES ASSUME Nat \ T # {} PROVE FALSE
  OBVIOUS
<1>1. PICK m \in Nat \ T : \A k \in Nat \ T : m <= k
  BY LeastNumber
<1>2. m # 0 /\ m - 1 \in Nat 
  BY <1>1
<1>3. m - 1 \in T
  BY <1>1, <1>2
<1> QED
  BY <1>1, <1>2, <1>3

(* A function that is defined by recursion over 0..n, with values in a set *)
(* that its steps do not leave, exists.                                    *)
IsRecursion(f, base, step, n) ==
    f = [k \in 0..n |-> IF k = 0 THEN base ELSE step[<<k, f[k - 1]>>]]

LEMMA RecursionExists ==
    ASSUME NEW V, NEW base \in V, NEW n \in Nat, NEW step \in [(1..n) \X V -> V]
    PROVE  \E f \in [0..n -> V] : IsRecursion(f, base, step, n)
<1> DEFINE T == {m \in Nat : m <= n => \E f \in [0..m -> V] : IsRecursion(f, base, step, m)}
<1>1. 0 \in T
  <2>1. [k \in 0..0 |-> base] \in [0..0 -> V] /\ IsRecursion([k \in 0..0 |-> base], base, step, 0)
    BY DEF IsRecursion
  <2> QED
    BY <2>1
<1>2. ASSUME NEW m \in Nat, m \in T PROVE m + 1 \in T
  <2> SUFFICES ASSUME m + 1 <= n
               PROVE  \E f \in [0..(m + 1) -> V] : IsRecursion(f, base, step, m + 1)
    OBVIOUS
  <2>1. PICK f \in [0..m -> V] : IsRecursion(f, base, step, m)
    BY <1>2
  <2> DEFINE g == [k \in 0..(m + 1) |-> IF k \in 0..m THEN f[k] ELSE step[<<m + 1, f[m]>>]]
  <2>2. g \in [0..(m + 1) -> V]
    <3>1. step[<<m + 1, f[m]>>] \in V
      OBVIOUS
    <3> QED
      BY <3>1
  <2>3. ASSUME NEW k \in 0..(m + 1)
        PROVE  g[k] = IF k = 0 THEN base ELSE step[<<k, g[k - 1]>>]
    <3>1. CASE k \in 0..m
      <4>1. f[k] = IF k = 0 THEN base ELSE step[<<k, f[k - 1]>>]
        BY <2>1, <3>1 DEF IsRecursion
      <4>2. k # 0 => g[k - 1] = f[k - 1]
        BY <3>1
      <4>3. g[k] = f[k]
        BY <3>1
      <4> HIDE DEF g
      <4> QED
        BY <4>1, <4>2, <4>3
    <3>2. CASE k = m + 1
      <4>1. g[m] = f[m] /\ k - 1 = m /\ k # 0 /\ g[k] = step[<<m + 1, f[m]>>]
        BY <3>2
      <4> HIDE DEF g
      <4> QED
        BY <3>2, <4>1
    <3> QED
      BY <3>1, <3>2
  <2>4. DOMAIN g = 0..(m + 1)
    OBVIOUS
  <2> HIDE DEF g
  <2>5. IsRecursion(g, base, step, m + 1)
    BY <2>2, <2>3 DEF IsRecursion
  <2> QED
    BY <2>2, <2>5
<1> HIDE DEF T
<1>3. Nat \subseteq T
  BY <1>1, <1>2, SetInduction
<1> QED
  BY <1>3 DEF T

-----------------------------------------------------------------------------
(* FlattenSeq *)

(* The recursion of FlattenSeq: what has been joined up to each place. *)
IsJoining(f, texts, len) ==
    f = [i \in 1..len |-> IF i = 1 THEN texts[i] ELSE f[i - 1] \o texts[i]]

(* There is a function that satisfies the recursion. *)
LEMMA JoiningExists ==
    ASSUME NEW texts, NEW len \in Nat
    PROVE  \E f : IsJoining(f, texts, len)
<1> DEFINE T == {n \in Nat : \E f : IsJoining(f, texts, n)}
<1>1. 0 \in T
  <2>1. IsJoining([i \in 1..0 |-> <<>>], texts, 0)
    BY DEF IsJoining
  <2> QED
    BY <2>1
<1>2. ASSUME NEW n \in Nat, n \in T PROVE n + 1 \in T
  <2> PICK f : IsJoining(f, texts, n)
    BY <1>2
  <2> DEFINE g == [i \in 1..(n + 1) |-> IF i \in 1..n THEN f[i]
                       ELSE IF i = 1 THEN texts[i] ELSE f[i - 1] \o texts[i]]
  <2>1. ASSUME NEW i \in 1..(n + 1)
        PROVE  g[i] = IF i = 1 THEN texts[i] ELSE g[i - 1] \o texts[i]
    <3>1. i # 1 => i - 1 \in 1..n
      OBVIOUS
    <3>2. i # 1 => g[i - 1] = f[i - 1]
      BY <3>1
    <3>3. i \in 1..n => f[i] = IF i = 1 THEN texts[i] ELSE f[i - 1] \o texts[i]
      BY DEF IsJoining
    <3> QED
      BY <3>2, <3>3
  <2>2. IsJoining(g, texts, n + 1)
    BY <2>1 DEF IsJoining
  <2> QED
    BY <2>2
<1> HIDE DEF T
<1>3. Nat \subseteq T
  BY <1>1, <1>2, SetInduction
<1> QED
  BY <1>3 DEF T

(* FlattenSeq is that function at the last place. *)
LEMMA FlattenJoins ==
    ASSUME NEW texts, NEW len \in Nat \ {0}, Len(texts) = len
    PROVE  \E f : IsJoining(f, texts, len) /\ FlattenSeq(texts) = f[len]
<1> DEFINE g == CHOOSE f : IsJoining(f, texts, len)
<1>1. IsJoining(g, texts, len)
  BY JoiningExists
<1>2. FlattenSeq(texts) = g[len]
  BY DEF FlattenSeq, IsJoining
<1> QED
  BY <1>1, <1>2

(* Its values. *)
LEMMA JoiningAt ==
    ASSUME NEW f, NEW texts, NEW len \in Nat, IsJoining(f, texts, len), NEW n \in Nat, n + 1 <= len
    PROVE  f[n + 1] = IF n = 0 THEN texts[1] ELSE f[n] \o texts[n + 1]
<1>1. n + 1 \in 1..len /\ (n + 1) - 1 = n /\ (n + 1 = 1 <=> n = 0)
  OBVIOUS
<1>2. \A i \in 1..len : f[i] = IF i = 1 THEN texts[i] ELSE f[i - 1] \o texts[i]
  BY Zenon DEF IsJoining
<1>3. f[n + 1] = IF n + 1 = 1 THEN texts[n + 1] ELSE f[(n + 1) - 1] \o texts[n + 1]
  BY <1>1, <1>2
<1> QED
  BY <1>1, <1>3

(* What is joined of sequences of texts is a text; of none, nothing. *)
LEMMA FlattenType ==
    ASSUME NEW S, NEW texts \in Seq(Seq(S))
    PROVE  /\ FlattenSeq(texts) \in Seq(S)
           /\ texts = <<>> => FlattenSeq(texts) = <<>>
<1> DEFINE len == Len(texts)
<1>1. CASE len = 0
  <2>1. texts = <<>>
    BY <1>1
  <2>2. FlattenSeq(texts) = texts
    BY <1>1 DEF FlattenSeq
  <2>3. <<>> \in Seq(S)
    OBVIOUS
  <2> QED
    BY <2>1, <2>2, <2>3
<1>2. CASE len # 0
  <2>1. len \in Nat \ {0} /\ texts # <<>>
    BY <1>2
  <2>2. PICK f : IsJoining(f, texts, len) /\ FlattenSeq(texts) = f[len]
    BY <2>1, FlattenJoins
  <2> DEFINE T == {n \in Nat : n \in 1..len => f[n] \in Seq(S)}
  <2>3. 0 \in T
    OBVIOUS
  <2>4. ASSUME NEW n \in Nat, n \in T PROVE n + 1 \in T
    <3> SUFFICES ASSUME n + 1 \in 1..len PROVE f[n + 1] \in Seq(S)
      OBVIOUS
    <3>1. texts[n + 1] \in Seq(S)
      OBVIOUS
    <3>2. f[n + 1] = IF n = 0 THEN texts[1] ELSE f[n] \o texts[n + 1]
      BY <2>2, JoiningAt, SMTT(30)
    <3>3. n # 0 => f[n] \in Seq(S)
      BY <2>4
    <3> QED
      BY <3>1, <3>2, <3>3
  <2> HIDE DEF T
  <2>5. Nat \subseteq T
    BY <2>3, <2>4, SetInduction
  <2>6. len \in Nat /\ len \in 1..len
    BY <2>1
  <2> QED
    BY <2>1, <2>2, <2>5, <2>6 DEF T
<1> QED
  BY <1>1, <1>2

(* One more text is joined at the end. *)
LEMMA FlattenAppend ==
    ASSUME NEW S, NEW texts \in Seq(Seq(S)), NEW text \in Seq(S)
    PROVE  FlattenSeq(Append(texts, text)) = FlattenSeq(texts) \o text
<1> DEFINE len == Len(texts)
           more == Append(texts, text)
<1>1. /\ len \in Nat /\ Len(more) = len + 1 /\ more[len + 1] = text
      /\ \A k \in 1..len : more[k] = texts[k]
      /\ more \in Seq(Seq(S))
  OBVIOUS
<1> HIDE DEF more
<1>2. PICK g : IsJoining(g, more, len + 1) /\ FlattenSeq(more) = g[len + 1]
  BY <1>1, FlattenJoins
<1>3. CASE len = 0
  <2>1. g[1] = text
    BY <1>1, <1>2, <1>3, JoiningAt
  <2>2. texts = <<>>
    BY <1>3
  <2>3. FlattenSeq(texts) = <<>>
    BY <2>2, FlattenType
  <2> QED
    BY <1>2, <1>3, <2>1, <2>3 DEF more
<1>4. CASE len # 0
  <2>1. PICK f : IsJoining(f, texts, len) /\ FlattenSeq(texts) = f[len]
    BY <1>1, <1>4, FlattenJoins
  <2> DEFINE T == {n \in Nat : n \in 1..len => f[n] = g[n]}
  <2>2. 0 \in T
    OBVIOUS
  <2>3. ASSUME NEW n \in Nat, n \in T PROVE n + 1 \in T
    <3> SUFFICES ASSUME n + 1 \in 1..len PROVE f[n + 1] = g[n + 1]
      OBVIOUS
    <3>1. f[n + 1] = IF n = 0 THEN texts[1] ELSE f[n] \o texts[n + 1]
      BY <2>1, JoiningAt
    <3>2. g[n + 1] = IF n = 0 THEN more[1] ELSE g[n] \o more[n + 1]
      <4>1. len + 1 \in Nat /\ n + 1 <= len + 1
        BY <1>1
      <4> QED
        BY <1>2, <4>1, JoiningAt
    <3>3. more[n + 1] = texts[n + 1]
      BY <1>1
    <3>4. n # 0 => f[n] = g[n]
      BY <2>3
    <3> QED
      BY <3>1, <3>2, <3>3, <3>4
  <2> HIDE DEF T
  <2>4. Nat \subseteq T
    BY <2>2, <2>3, SetInduction
  <2>5. f[len] = g[len]
    BY <1>1, <1>4, <2>4 DEF T
  <2>6. g[len + 1] = g[len] \o more[len + 1]
    <3>1. len + 1 \in Nat /\ len + 1 <= len + 1
      BY <1>1
    <3> QED
      BY <1>1, <1>2, <1>4, <3>1, JoiningAt
  <2> QED
    BY <1>1, <1>2, <2>1, <2>5, <2>6 DEF more
<1> QED
  BY <1>3, <1>4

-----------------------------------------------------------------------------
(* Prefixes *)

(* A prefix has the same elements.                                         *)
LEMMA PrefixElements ==
    ASSUME NEW S, NEW s \in Seq(S), NEW t \in Seq(S)
    PROVE  IsPrefix(s, t) <=> Len(s) <= Len(t) /\ \A i \in 1..Len(s) : s[i] = t[i]
  BY DEF IsPrefix

(* What is appended to leaves a prefix.                                    *)
LEMMA PrefixAppended ==
    ASSUME NEW S, NEW s \in Seq(S), NEW t \in Seq(S), NEW u \in Seq(S)
    PROVE  /\ IsPrefix(s, s \o u)
           /\ IsPrefix(s, t) => IsPrefix(s, t \o u)
           /\ IsPrefix(t, u) => IsPrefix(s \o t, s \o u)
<1>1. s \o u \in Seq(S) /\ t \o u \in Seq(S) /\ s \o t \in Seq(S)
  OBVIOUS
<1>2. IsPrefix(s, s \o u)
  <2>1. Len(s) <= Len(s \o u) /\ \A i \in 1..Len(s) : s[i] = (s \o u)[i]
    OBVIOUS
  <2> QED
    BY <1>1, <2>1, PrefixElements
<1>3. ASSUME IsPrefix(s, t) PROVE IsPrefix(s, t \o u)
  <2>1. Len(s) <= Len(t) /\ \A i \in 1..Len(s) : s[i] = t[i]
    BY <1>3, PrefixElements
  <2>2. Len(s) <= Len(t \o u) /\ \A i \in 1..Len(s) : s[i] = (t \o u)[i]
    BY <2>1
  <2> QED
    BY <1>1, <2>2, PrefixElements
<1>4. ASSUME IsPrefix(t, u) PROVE IsPrefix(s \o t, s \o u)
  <2>1. Len(t) <= Len(u) /\ \A i \in 1..Len(t) : t[i] = u[i]
    BY <1>4, PrefixElements
  <2>2. Len(s \o t) <= Len(s \o u) /\ \A i \in 1..Len(s \o t) : (s \o t)[i] = (s \o u)[i]
    BY <2>1
  <2> QED
    BY <1>1, <2>2, PrefixElements
<1> QED
  BY <1>2, <1>3, <1>4

(* A prefix of a prefix is one, and of two prefixes the shorter is one of  *)
(* the other.                                                              *)
LEMMA PrefixTransitive ==
    ASSUME NEW S, NEW s \in Seq(S), NEW t \in Seq(S), NEW u \in Seq(S),
           IsPrefix(s, t), IsPrefix(t, u)
    PROVE  IsPrefix(s, u)
  BY PrefixElements
=============================================================================
