-------------------------- MODULE BinaryLogProofs --------------------------
(***************************************************************************)
(* Proofs about the binary log, for every width of a payload, every        *)
(* program and all its versions: that a pair is read as it was written,    *)
(* and so a record (FormattedReads); that the ids which the preprocessor   *)
(* gives out stand for the same statement in every version that has it     *)
(* (RecordsKnown); and, with the inductive invariant LogInv, that the      *)
(* postprocessor writes what was logged.                                   *)
(***************************************************************************)
EXTENDS BinaryLog, RewriterProofs

-----------------------------------------------------------------------------
(* Numbers *)

Bytes == 0..(Byte - 1)

(* Quotient and remainder.                                                 *)
LEMMA Divided ==
    ASSUME NEW a \in Nat, NEW b \in Nat \ {0}
    PROVE  /\ a \div b \in Nat /\ a % b \in 0..(b - 1) /\ a = b * (a \div b) + (a % b)
           /\ a < b => a \div b = 0 /\ a % b = a
  OBVIOUS

(* The low digits of a number are what p times the quotient leaves of it.  *)
IsLow(low, u, p) == low + (u \div p) * p = u

(* One digit more.                                                         *)
LEMMA DigitAdded ==
    ASSUME NEW u \in Nat, NEW b \in Nat \ {0}, NEW p \in Nat \ {0}, NEW low \in Nat, IsLow(low, u, p)
    PROVE  IsLow(low + ((u \div p) % b) * p, u, b * p)
<1> DEFINE q == u \div p
<1>1. q \in Nat
  OBVIOUS
<1>2. q = b * (q \div b) + (q % b) /\ q \div b \in Nat /\ q % b \in Nat
  <2> HIDE DEF q
  <2> QED
    BY <1>1
<1>3. q \div b = u \div (p * b) /\ p * b = b * p
  OBVIOUS
<1>4. low + q * p = u
  BY DEF IsLow
<1> HIDE DEF q
<1>5. q * p = (b * (q \div b)) * p + (q % b) * p
  <2>1. \A x, y \in Nat : (x + y) * p = x * p + y * p
    OBVIOUS
  <2> QED
    BY <1>2, <2>1
<1>6. (b * (q \div b)) * p = (q \div b) * (b * p)
  BY <1>2
<1>7. (low + (q % b) * p) + (q \div b) * (b * p) = u
  <2>1. (q % b) * p \in Nat /\ (q \div b) * (b * p) \in Nat
    BY <1>2
  <2> QED
    BY <1>4, <1>5, <1>6, <2>1
<1> QED
  BY <1>3, <1>7 DEF q, IsLow

(* The values of a nibble and of a byte. *)
LEMMA Sizes ==
    /\ MaxWidth \in Nat /\ MaxWidth >= 2
    /\ Nibbles \in Nat /\ Nibbles >= 4
    /\ Byte \in Nat /\ Byte >= 16 /\ Byte % 2 = 0
<1>1. MaxWidth \in Nat /\ MaxWidth >= 2
  BY WidthAssumption
<1>2. Nibbles \in Nat /\ Nibbles >= 4 /\ Nibbles = 2 * MaxWidth
  BY <1>1 DEF Nibbles
<1>3. Byte = Nibbles * Nibbles
  BY DEF Byte
<1>4. Nibbles * Nibbles >= 4 * 4
  BY <1>2
<1>5. Nibbles * Nibbles = 2 * (MaxWidth * Nibbles) /\ MaxWidth * Nibbles \in Nat
  BY <1>1, <1>2
<1>6. \A n \in Nat : (2 * n) % 2 = 0
  OBVIOUS
<1> QED
  BY <1>1, <1>2, <1>3, <1>4, <1>5, <1>6

(* The powers of a byte: each is so many times the one before. *)
LEMMA PowerSteps ==
    /\ Power \in [0..MaxWidth -> Nat]
    /\ Power[0] = 1
    /\ \A n \in 1..MaxWidth : Power[n] = Byte * Power[n - 1]
<1> DEFINE step == [x \in (1..MaxWidth) \X Nat |-> Byte * x[2]]
<1>1. step \in [(1..MaxWidth) \X Nat -> Nat]
  BY Sizes
<1>2. PICK f \in [0..MaxWidth -> Nat] : IsRecursion(f, 1, step, MaxWidth)
  <2>1. 1 \in Nat /\ MaxWidth \in Nat
    BY Sizes
  <2> HIDE DEF step
  <2> QED
    BY <1>1, <2>1, RecursionExists
<1>3. f = [n \in 0..MaxWidth |-> IF n = 0 THEN 1 ELSE Byte * f[n - 1]]
  <2>1. ASSUME NEW n \in 0..MaxWidth, n # 0 PROVE step[<<n, f[n - 1]>>] = Byte * f[n - 1]
    <3>1. n \in 1..MaxWidth /\ n - 1 \in 0..MaxWidth
      BY <2>1, Sizes
    <3>2. f[n - 1] \in Nat
      BY <3>1
    <3> QED
      BY <3>1, <3>2
  <2> HIDE DEF step
  <2> QED
    BY <1>2, <2>1 DEF IsRecursion
<1>4. Power = [n \in 0..MaxWidth |-> IF n = 0 THEN 1 ELSE Byte * Power[n - 1]]
  BY <1>3, Zenon DEF Power
<1>5. Power[0] = 1 /\ \A n \in 1..MaxWidth : Power[n] = Byte * Power[n - 1]
  BY <1>4, Sizes
<1> DEFINE T == {n \in Nat : n <= MaxWidth => Power[n] \in Nat}
<1>6. 0 \in T
  BY <1>5
<1>7. ASSUME NEW n \in Nat, n \in T PROVE n + 1 \in T
  <2> SUFFICES ASSUME n + 1 <= MaxWidth PROVE Power[n + 1] \in Nat
    OBVIOUS
  <2>1. n + 1 \in 1..MaxWidth /\ (n + 1) - 1 = n /\ Power[n] \in Nat
    BY <1>7, Sizes
  <2> QED
    BY <1>5, <2>1, Sizes
<1> HIDE DEF T
<1>8. Nat \subseteq T
  BY <1>6, <1>7, SetInduction
<1>9. \A n \in 0..MaxWidth : Power[n] \in Nat
  BY <1>8, Sizes DEF T
<1> QED
  BY <1>4, <1>5, <1>9

(* Every power of the byte the codec uses is a natural number.             *)
LEMMA PowerType ==
    \A n \in 0..MaxWidth : Power[n] \in Nat
BY PowerSteps

(* They grow. *)
LEMMA PowerGrows ==
    ASSUME NEW m \in 0..MaxWidth, NEW n \in 0..MaxWidth, m <= n
    PROVE  Power[m] \in Nat \ {0} /\ Power[m] <= Power[n]
<1> DEFINE T == {k \in Nat : m + k <= MaxWidth => Power[m] <= Power[m + k]}
<1>1. \A k \in 0..MaxWidth : Power[k] \in Nat
  BY PowerSteps
<1>2. 0 \in T
  BY <1>1
<1>3. ASSUME NEW k \in Nat, k \in T PROVE k + 1 \in T
  <2> SUFFICES ASSUME m + (k + 1) <= MaxWidth PROVE Power[m] <= Power[m + (k + 1)]
    OBVIOUS
  <2>1. m + (k + 1) \in 1..MaxWidth /\ (m + (k + 1)) - 1 = m + k /\ m + k \in 0..MaxWidth
    BY Sizes
  <2>2. Power[m + (k + 1)] = Byte * Power[m + k]
    BY <2>1, PowerSteps
  <2>3. Power[m] <= Power[m + k] /\ Power[m + k] \in Nat /\ Power[m] \in Nat
    BY <1>1, <1>3, <2>1
  <2>4. Byte * Power[m + k] >= Power[m + k]
    BY <2>3, Sizes
  <2> QED
    BY <1>1, <2>1, <2>2, <2>3, <2>4
<1> HIDE DEF T
<1>4. Nat \subseteq T
  BY <1>2, <1>3, SetInduction
<1>5. n - m \in Nat /\ m + (n - m) = n
  BY Sizes
<1>6. Power[m] <= Power[n]
  BY <1>4, <1>5, Sizes DEF T
<1> DEFINE U == {k \in Nat : k <= MaxWidth => Power[k] # 0}
<1>7. 0 \in U
  BY PowerSteps
<1>8. ASSUME NEW k \in Nat, k \in U PROVE k + 1 \in U
  <2> SUFFICES ASSUME k + 1 <= MaxWidth PROVE Power[k + 1] # 0
    OBVIOUS
  <2>1. k + 1 \in 1..MaxWidth /\ (k + 1) - 1 = k /\ k \in 0..MaxWidth
    BY Sizes
  <2>2. Power[k + 1] = Byte * Power[k] /\ Power[k] \in Nat /\ Power[k] # 0
    BY <1>1, <1>8, <2>1, PowerSteps
  <2> QED
    BY <2>2, Sizes
<1> HIDE DEF U
<1>9. Nat \subseteq U
  BY <1>7, <1>8, SetInduction
<1> QED
  BY <1>1, <1>6, <1>9, Sizes DEF U

(* A word is an even number of values, of at least two bytes.              *)
LEMMA WordSize == /\ Word \in Nat /\ Word % 2 = 0 /\ Word >= Power[2]
                  /\ Power[1] = Byte /\ Power[2] = Byte * Byte
<1>1. MaxWidth \in 1..MaxWidth /\ MaxWidth - 1 \in 0..MaxWidth /\ 2 \in 1..MaxWidth /\ 1 \in 1..MaxWidth
  BY Sizes
<1>2. Word = Byte * Power[MaxWidth - 1] /\ Power[MaxWidth - 1] \in Nat
  BY <1>1, PowerSteps DEF Word
<1>3. Word \in Nat
  BY <1>2, Sizes
<1>4. PICK h \in Nat : Byte = 2 * h
  <2>1. Byte = 2 * (Byte \div 2) /\ Byte \div 2 \in Nat
    BY Sizes
  <2> QED
    BY <2>1
<1>5. Word = 2 * (h * Power[MaxWidth - 1]) /\ h * Power[MaxWidth - 1] \in Nat
  BY <1>2, <1>4
<1>6. \A n \in Nat : (2 * n) % 2 = 0
  OBVIOUS
<1>7. Word >= Power[2]
  BY <1>1, Sizes, PowerGrows DEF Word
<1>8. Power[1] = Byte * Power[0] /\ Power[0] = 1 /\ Power[2] = Byte * Power[1]
  BY <1>1, PowerSteps
<1>9. Byte * 1 = Byte
  BY Sizes
<1> QED
  BY <1>3, <1>5, <1>6, <1>7, <1>8, <1>9, Sizes

(* width: every value of a word has one, and fits in that many bytes.      *)
LEMMA WidthFits ==
    ASSUME NEW u \in 0..(Word - 1)
    PROVE  Width(u) \in 1..MaxWidth /\ u < Power[Width(u)]
<1> DEFINE fits == {w \in Nat : w \in 1..MaxWidth /\ u < Power[w]}
<1>1. MaxWidth \in fits
  BY Sizes, WordSize DEF Word
<1>2. PICK w \in fits : \A x \in fits : w <= x
  BY <1>1, LeastNumber
<1>3. ASSUME w > 1 PROVE u >= Power[w - 1]
  <2>1. w - 1 \in 1..MaxWidth /\ w - 1 \in Nat /\ w - 1 < w
    BY <1>2, <1>3, Sizes
  <2>2. w - 1 \notin fits
    BY <1>2, <2>1
  <2>3. Power[w - 1] \in Nat /\ Word \in Nat
    BY <2>1, PowerSteps, WordSize
  <2> QED
    BY <2>1, <2>2, <2>3
<1>4. \E x \in 1..MaxWidth : u < Power[x] /\ (x > 1 => u >= Power[x - 1])
  BY <1>2, <1>3
<1> QED
  BY <1>4 DEF Width

-----------------------------------------------------------------------------
(* One value *)

(* What prepare makes of a value. *)
Prepared(v) ==
    /\ v.neg \in {0, 1} /\ v.width \in 1..MaxWidth
    /\ v.u \in 0..(Power[v.width] - 1)

(* The code of a value is a nibble that tells its sign and its width.      *)
LEMMA CodeTells ==
    ASSUME NEW v, Prepared(v)
    PROVE  /\ Code(v) \in 0..(Nibbles - 1)
           /\ Code(v) \div MaxWidth = v.neg /\ (Code(v) % MaxWidth) + 1 = v.width
<1>1. MaxWidth \in Nat \ {0} /\ v.neg \in {0, 1} /\ v.width - 1 \in 0..(MaxWidth - 1)
      /\ v.width \in 1..MaxWidth
  BY Sizes DEF Prepared
<1>2. Code(v) = MaxWidth * v.neg + (v.width - 1)
  BY <1>1 DEF Code
<1>3. Code(v) \div MaxWidth = v.neg /\ Code(v) % MaxWidth = v.width - 1
  BY <1>1, <1>2
<1>4. v.neg = 0 \/ v.neg = 1
  BY <1>1
<1>5. Code(v) \in 0..(Nibbles - 1)
  BY <1>1, <1>2, <1>4 DEF Nibbles
<1> QED
  BY <1>1, <1>3, <1>5

(* A payload is as many bytes as the width says.                           *)
LEMMA PayloadBytes ==
    ASSUME NEW v, Prepared(v)
    PROVE  Payload(v) \in Seq(Bytes) /\ Len(Payload(v)) = v.width
<1>1. v.width \in 1..MaxWidth /\ v.u \in Nat
  BY PowerSteps, Sizes DEF Prepared
<1>2. ASSUME NEW k \in 1..v.width PROVE (v.u \div Power[k - 1]) % Byte \in Bytes
  <2>1. k - 1 \in 0..MaxWidth
    BY <1>1, Sizes
  <2>2. Power[k - 1] \in Nat \ {0}
    BY <2>1, PowerGrows
  <2>3. v.u \div Power[k - 1] \in Nat
    BY <1>1, <2>2
  <2> QED
    BY <2>3, Sizes DEF Bytes
<1> QED
  BY <1>1, <1>2 DEF Payload

(* The sums of the first k of the bytes after at, each times its power.   *)
AreSums(low, in, at, width) ==
    low[0] = 0 /\ \A k \in 1..width : low[k] = low[k - 1] + in[at + k] * Power[k - 1]

IsSum(value, in, at, nibble, width) ==
    \E low \in [0..width -> Nat] :
        /\ AreSums(low, in, at, width)
        /\ value = [neg |-> nibble \div MaxWidth, width |-> width, u |-> low[width]]

(* read_fixed_payload adds up the bytes it reads.                          *)
LEMMA DecodedSum ==
    ASSUME NEW in, NEW at \in Nat, NEW nibble \in 0..(Nibbles - 1),
           NEW width, width = (nibble % MaxWidth) + 1,
           \A k \in 1..width : in[at + k] \in Nat
    PROVE  width \in 1..MaxWidth /\ IsSum(Decoded(in, at, nibble), in, at, nibble, width)
<1> DEFINE step == [x \in (1..width) \X Nat |-> x[2] + in[at + x[1]] * Power[x[1] - 1]]
<1>1. width \in 1..MaxWidth
  BY Sizes
<1>2. step \in [(1..width) \X Nat -> Nat]
  <2>1. ASSUME NEW x \in (1..width) \X Nat PROVE x[2] + in[at + x[1]] * Power[x[1] - 1] \in Nat
    <3>1. x[1] \in 1..width /\ x[2] \in Nat /\ x[1] - 1 \in 0..MaxWidth
      BY <1>1, Sizes
    <3>2. in[at + x[1]] \in Nat /\ Power[x[1] - 1] \in Nat
      BY <3>1, PowerSteps
    <3> QED
      BY <3>1, <3>2
  <2> QED
    BY <2>1
<1>3. PICK f \in [0..width -> Nat] : IsRecursion(f, 0, step, width)
  <2>1. 0 \in Nat /\ width \in Nat
    BY <1>1
  <2> HIDE DEF step
  <2> QED
    BY <1>2, <2>1, RecursionExists
<1>4. f = [k \in 0..width |-> IF k = 0 THEN 0 ELSE f[k - 1] + in[at + k] * Power[k - 1]]
  <2>1. ASSUME NEW k \in 0..width, k # 0
        PROVE  step[<<k, f[k - 1]>>] = f[k - 1] + in[at + k] * Power[k - 1]
    <3>1. k \in 1..width /\ k - 1 \in 0..width
      BY <2>1, <1>1
    <3>2. f[k - 1] \in Nat
      BY <3>1
    <3> QED
      BY <3>1, <3>2
  <2> HIDE DEF step
  <2> QED
    BY <1>3, <2>1 DEF IsRecursion
<1> DEFINE low == CHOOSE g : g = [k \in 0..width |-> IF k = 0 THEN 0 ELSE g[k - 1] + in[at + k] * Power[k - 1]]
<1>5. low = [k \in 0..width |-> IF k = 0 THEN 0 ELSE low[k - 1] + in[at + k] * Power[k - 1]]
  <2> HIDE DEF step
  <2> QED
    BY <1>4, Zenon
<1>6. Decoded(in, at, nibble) = [neg |-> nibble \div MaxWidth, width |-> width, u |-> low[width]]
  BY Zenon DEF Decoded
<1> HIDE DEF low, step
<1>7. low[0] = 0 /\ \A k \in 1..width : low[k] = low[k - 1] + in[at + k] * Power[k - 1]
  BY <1>1, <1>5
<1> DEFINE T == {n \in Nat : n <= width => low[n] \in Nat}
<1>8. 0 \in T
  BY <1>7
<1>9. ASSUME NEW n \in Nat, n \in T PROVE n + 1 \in T
  <2> SUFFICES ASSUME n + 1 <= width PROVE low[n + 1] \in Nat
    OBVIOUS
  <2>1. n + 1 \in 1..width /\ (n + 1) - 1 = n /\ low[n] \in Nat /\ n \in 0..MaxWidth
    BY <1>1, <1>9, Sizes
  <2>2. in[at + (n + 1)] \in Nat /\ Power[n] \in Nat
    BY <2>1, PowerSteps
  <2>3. low[n + 1] = low[n] + in[at + (n + 1)] * Power[n]
    BY <1>7, <2>1
  <2>4. in[at + (n + 1)] * Power[n] \in Nat
    BY <2>2
  <2> QED
    BY <2>1, <2>3, <2>4
<1> HIDE DEF T
<1>10. Nat \subseteq T
  BY <1>8, <1>9, SetInduction
<1>11. low \in [0..width -> Nat]
  <2>1. \A n \in 0..width : low[n] \in Nat
    BY <1>1, <1>10 DEF T
  <2> QED
    BY <1>5, <2>1
<1>12. \E g \in [0..width -> Nat] :
         /\ AreSums(g, in, at, width)
         /\ Decoded(in, at, nibble) = [neg |-> nibble \div MaxWidth, width |-> width, u |-> g[width]]
  BY <1>6, <1>7, <1>11, Zenon DEF AreSums
<1> QED
  BY <1>1, <1>12, Zenon DEF IsSum

(* What is read is a sign, a width and a number.                           *)
LEMMA DecodedType ==
    ASSUME NEW in, NEW at \in Nat, NEW nibble \in 0..(Nibbles - 1),
           \A k \in 1..((nibble % MaxWidth) + 1) : in[at + k] \in Nat
    PROVE  /\ Decoded(in, at, nibble).width = (nibble % MaxWidth) + 1
           /\ Decoded(in, at, nibble).u \in Nat
           /\ Decoded(in, at, nibble).neg = nibble \div MaxWidth
<1> DEFINE width == (nibble % MaxWidth) + 1
<1>1. \A k \in 1..width : in[at + k] \in Nat
  OBVIOUS
<1> HIDE DEF width
<1>2. width = (nibble % MaxWidth) + 1
  BY DEF width
<1>3. width \in 1..MaxWidth
  BY <1>1, <1>2, DecodedSum
<1>4. PICK low \in [0..width -> Nat] :
        Decoded(in, at, nibble) = [neg |-> nibble \div MaxWidth, width |-> width, u |-> low[width]]
  <2>1. IsSum(Decoded(in, at, nibble), in, at, nibble, width)
    BY <1>1, <1>2, DecodedSum
  <2> QED
    BY <2>1, Zenon DEF IsSum
<1> QED
  BY <1>2, <1>3, <1>4

(* A number is the sum of its bytes, each times its power: what follows a  *)
(* code is read as the value that was written.                             *)
LEMMA ValueRead ==
    ASSUME NEW v, Prepared(v), NEW in, NEW at \in Nat,
           \A k \in 1..v.width : in[at + k] = Payload(v)[k]
    PROVE  Decoded(in, at, Code(v)) = [neg |-> v.neg, width |-> v.width, u |-> v.u]
<1> DEFINE w == v.width
<1>1. /\ Code(v) \in 0..(Nibbles - 1) /\ Code(v) \div MaxWidth = v.neg
      /\ (Code(v) % MaxWidth) + 1 = w /\ w \in 1..MaxWidth /\ v.u \in Nat /\ v.u < Power[w]
  <2>1. v.width \in 1..MaxWidth /\ v.u \in 0..(Power[v.width] - 1)
    BY DEF Prepared
  <2>2. Power[v.width] \in Nat
    <3>1. v.width \in 0..MaxWidth
      BY <2>1, Sizes
    <3> QED
      BY <3>1, PowerType
  <2> QED
    BY <2>1, <2>2, CodeTells
<1>2. \A k \in 1..w : in[at + k] = (v.u \div Power[k - 1]) % Byte
  BY DEF Payload
<1>3. \A k \in 1..w : in[at + k] \in Nat
  <2>1. \A k \in 1..w : Payload(v)[k] \in Bytes
    BY PayloadBytes
  <2> QED
    BY <2>1, Sizes DEF Bytes
<1>4. PICK low \in [0..w -> Nat] :
        /\ AreSums(low, in, at, w)
        /\ Decoded(in, at, Code(v)) = [neg |-> v.neg, width |-> w, u |-> low[w]]
  <2>1. w = (Code(v) % MaxWidth) + 1 /\ Code(v) \div MaxWidth = v.neg /\ Code(v) \in 0..(Nibbles - 1)
    BY <1>1
  <2> HIDE DEF w
  <2> DEFINE nibble == Code(v)
  <2>2. /\ nibble \in 0..(Nibbles - 1) /\ w = (nibble % MaxWidth) + 1 /\ nibble \div MaxWidth = v.neg
    BY <2>1
  <2> HIDE DEF nibble
  <2>3. IsSum(Decoded(in, at, nibble), in, at, nibble, w)
    BY <1>3, <2>2, DecodedSum
  <2>4. PICK low \in [0..w -> Nat] :
          /\ AreSums(low, in, at, w)
          /\ Decoded(in, at, nibble) = [neg |-> nibble \div MaxWidth, width |-> w, u |-> low[w]]
    BY <2>3, Zenon DEF IsSum
  <2>5. Decoded(in, at, nibble) = [neg |-> v.neg, width |-> w, u |-> low[w]]
    BY <2>2, <2>4, Zenon
  <2> QED
    BY <2>4, <2>5, Zenon DEF nibble
<1> DEFINE T == {n \in Nat : n <= w => IsLow(low[n], v.u, Power[n])}
<1> HIDE DEF w
<1>12. low[0] = 0 /\ \A k \in 1..w : low[k] = low[k - 1] + in[at + k] * Power[k - 1]
  BY <1>4 DEF AreSums
<1>5. 0 \in T
  <2>1. v.u \div 1 = v.u
    BY <1>1
  <2> QED
    BY <1>1, <1>12, <2>1, PowerSteps DEF IsLow
<1>6. ASSUME NEW n \in Nat, n \in T PROVE n + 1 \in T
  <2> SUFFICES ASSUME n + 1 <= w
               PROVE  IsLow(low[n + 1], v.u, Power[n + 1])
    OBVIOUS
  <2>1. n + 1 \in 1..w /\ (n + 1) - 1 = n /\ n + 1 \in 1..MaxWidth /\ n \in 0..MaxWidth /\ n \in 0..w
    BY <1>1, Sizes
  <2>2. IsLow(low[n], v.u, Power[n]) /\ low[n] \in Nat
    BY <1>6, <2>1
  <2>3. Power[n] \in Nat \ {0} /\ Power[n + 1] = Byte * Power[n]
    BY <2>1, PowerGrows, PowerSteps
  <2>4. low[n + 1] = low[n] + ((v.u \div Power[n]) % Byte) * Power[n]
    BY <1>2, <1>12, <2>1
  <2> DEFINE p == Power[n]
  <2>5. p \in Nat \ {0} /\ IsLow(low[n], v.u, p)
    BY <2>2, <2>3
  <2> HIDE DEF p
  <2>6. IsLow(low[n] + ((v.u \div p) % Byte) * p, v.u, Byte * p)
    <3>1. v.u \in Nat /\ Byte \in Nat \ {0} /\ low[n] \in Nat
      BY <1>1, <2>2, Sizes
    <3> QED
      BY <2>5, <3>1, DigitAdded, Zenon
  <2> QED
    BY <2>3, <2>4, <2>6 DEF p
<1> HIDE DEF T
<1>7. Nat \subseteq T
  BY <1>5, <1>6, SetInduction
<1>8. low[w] + (v.u \div Power[w]) * Power[w] = v.u
  BY <1>1, <1>7 DEF T, IsLow
<1>9. v.u \div Power[w] = 0 /\ Power[w] \in Nat
  <2>1. Power[w] \in Nat \ {0}
    BY <1>1, PowerGrows, Sizes
  <2> QED
    BY <1>1, <2>1, Divided
<1>10. low[w] = v.u
  <2>1. low[w] \in Nat
    BY <1>1, <1>4
  <2> QED
    BY <1>1, <1>8, <1>9, <2>1
<1> QED
  BY <1>4, <1>10, Zenon DEF w

-----------------------------------------------------------------------------
(* One pair *)

(* As far as the stream goes, the bytes after at are these.               *)
Agrees(in, at, bytes) == \A n \in 1..Len(bytes) : at + n <= Len(in) => in[at + n] = bytes[n]

(* Two sequences, joined.                                                  *)
LEMMA Joined ==
    ASSUME NEW S, NEW a \in Seq(S), NEW b \in Seq(S)
    PROVE  /\ a \o b \in Seq(S) /\ Len(a \o b) = Len(a) + Len(b) /\ Len(a) \in Nat /\ Len(b) \in Nat
           /\ \A n \in 1..Len(a) : (a \o b)[n] = a[n]
           /\ \A n \in 1..Len(b) : (a \o b)[Len(a) + n] = b[n]
  OBVIOUS

(* The bytes of two pieces are those of one and then the other.            *)
LEMMA AgreesJoined ==
    ASSUME NEW S, NEW a \in Seq(S), NEW b \in Seq(S), NEW in, NEW at \in Nat,
           Agrees(in, at, a \o b)
    PROVE  Agrees(in, at, a) /\ Agrees(in, at + Len(a), b)
<1>1. /\ Len(a \o b) = Len(a) + Len(b) /\ Len(a) \in Nat /\ Len(b) \in Nat
      /\ \A n \in 1..Len(a) : (a \o b)[n] = a[n]
      /\ \A n \in 1..Len(b) : (a \o b)[Len(a) + n] = b[n]
  OBVIOUS
<1> DEFINE ab == a \o b
<1> HIDE DEF ab
<1>2. \A n \in 1..Len(ab) : at + n <= Len(in) => in[at + n] = ab[n]
  BY DEF Agrees, ab
<1>3. Agrees(in, at, a)
  <2> SUFFICES ASSUME NEW n \in 1..Len(a), at + n <= Len(in) PROVE in[at + n] = a[n]
    BY DEF Agrees
  <2>1. n \in 1..Len(ab) /\ ab[n] = a[n]
    BY <1>1 DEF ab
  <2> QED
    BY <1>2, <2>1
<1>4. Agrees(in, at + Len(a), b)
  <2> SUFFICES ASSUME NEW n \in 1..Len(b), (at + Len(a)) + n <= Len(in)
               PROVE  in[(at + Len(a)) + n] = b[n]
    BY DEF Agrees
  <2>1. Len(a) + n \in 1..Len(ab) /\ ab[Len(a) + n] = b[n]
    BY <1>1 DEF ab
  <2>2. (at + Len(a)) + n = at + (Len(a) + n)
    BY <1>1
  <2> QED
    BY <1>2, <2>1, <2>2
<1> QED
  BY <1>3, <1>4

(* The bytes of a fixed pair.                                              *)
LEMMA FixedBytes ==
    ASSUME NEW a, Prepared(a), NEW b, Prepared(b)
    PROVE  /\ FixedPair(a, b) \in Seq(Bytes)
           /\ Len(FixedPair(a, b)) = 1 + a.width + b.width /\ Len(FixedPair(a, b)) >= 3
           /\ a.width \in 1..MaxWidth /\ b.width \in 1..MaxWidth
<1>1. Code(a) \in 0..(Nibbles - 1) /\ Code(b) \in 0..(Nibbles - 1)
  BY CodeTells
<1>2. Code(a) * Nibbles + Code(b) \in Bytes
  <2> DEFINE x == Code(a)
             y == Code(b)
  <2>1. x \in 0..(Nibbles - 1) /\ y \in 0..(Nibbles - 1)
    BY <1>1
  <2> HIDE DEF x, y
  <2>2. x * Nibbles \in Nat /\ x * Nibbles <= (Nibbles - 1) * Nibbles
    BY <2>1, Sizes
  <2>3. (Nibbles - 1) * Nibbles = Nibbles * Nibbles - Nibbles
    BY Sizes
  <2>4. x * Nibbles + y \in 0..(Nibbles * Nibbles - 1)
    BY <2>1, <2>2, <2>3, Sizes
  <2> QED
    BY <2>4 DEF Bytes, Byte, x, y
<1>3. Header(a, b) \in Seq(Bytes) /\ Len(Header(a, b)) = 1
  BY <1>2 DEF Header
<1>4. /\ Payload(a) \in Seq(Bytes) /\ Len(Payload(a)) = a.width
      /\ Payload(b) \in Seq(Bytes) /\ Len(Payload(b)) = b.width
  BY PayloadBytes
<1>5. a.width \in 1..MaxWidth /\ b.width \in 1..MaxWidth
  BY DEF Prepared
<1> DEFINE h == Header(a, b)
           p == Payload(a)
           q == Payload(b)
<1>6. h \in Seq(Bytes) /\ p \in Seq(Bytes) /\ q \in Seq(Bytes) /\ Len(h) = 1 /\ Len(p) = a.width /\ Len(q) = b.width
  BY <1>3, <1>4
<1> HIDE DEF h, p, q
<1>7. h \o p \o q \in Seq(Bytes) /\ Len(h \o p \o q) = 1 + a.width + b.width
  <2>1. h \o p \in Seq(Bytes) /\ Len(h \o p) = 1 + a.width
    <3>1. h \o p \in Seq(Bytes) /\ Len(h \o p) = Len(h) + Len(p)
      BY <1>6, Joined
    <3> QED
      BY <1>6, <3>1
  <2>2. (h \o p) \o q \in Seq(Bytes) /\ Len((h \o p) \o q) = Len(h \o p) + b.width
    BY <1>6, <2>1, SMTT(30)
  <2> QED
    BY <2>1, <2>2
<1>8. \A x, y \in 1..MaxWidth : 1 + x + y >= 3
  BY Sizes
<1> QED
  BY <1>5, <1>7, <1>8 DEF FixedPair, h, p, q

(* A fixed pair that is in the stream is read as it was written, and one   *)
(* that is not is missed.                                                  *)
LEMMA FixedRead ==
    ASSUME NEW a, Prepared(a), NEW b, Prepared(b),
           NEW in \in Seq(Bytes), NEW at \in 0..Len(in), Agrees(in, at, FixedPair(a, b)),
           NEW size, size = Len(FixedPair(a, b))
    PROVE  /\ HasPair(in, at) <=> at + size <= Len(in)
           /\ HasPair(in, at) =>
                /\ PairSize(in, at) = size
                /\ FirstOf(in, at) = [neg |-> a.neg, width |-> a.width, u |-> a.u]
                /\ SecondOf(in, at) = [neg |-> b.neg, width |-> b.width, u |-> b.u]
<1>1. size = 1 + a.width + b.width /\ a.width \in 1..MaxWidth /\ b.width \in 1..MaxWidth
  BY FixedBytes
<1>2. Len(in) \in Nat /\ at \in Nat
  OBVIOUS
<1>3. CASE ~(at < Len(in))
  BY <1>1, <1>2, <1>3, Sizes DEF HasPair
<1>4. CASE at < Len(in)
  <2> DEFINE h == Header(a, b)
             p == Payload(a)
             q == Payload(b)
  <2>1. /\ Payload(a) \in Seq(Bytes) /\ Len(Payload(a)) = a.width
        /\ Payload(b) \in Seq(Bytes) /\ Len(Payload(b)) = b.width
    BY PayloadBytes
  <2>2. h \in Seq(Int) /\ Len(h) = 1 /\ h[1] = Code(a) * Nibbles + Code(b)
    <3>1. Code(a) \in Int /\ Code(b) \in Int
      BY CodeTells, Sizes
    <3> QED
      BY <3>1, Sizes DEF Header
  <2>3. /\ p \in Seq(Int) /\ Len(p) = a.width /\ q \in Seq(Int) /\ Len(q) = b.width
    BY <2>1, Sizes DEF Bytes
  <2>4. Agrees(in, at, h \o p \o q)
    BY DEF FixedPair
  <2> HIDE DEF h, p, q
  <2>5. Agrees(in, at, h) /\ Agrees(in, at + 1, p) /\ Agrees(in, (at + 1) + a.width, q)
    <3>1. Agrees(in, at, h \o p) /\ Agrees(in, at + Len(h \o p), q)
      <4>1. h \o p \in Seq(Int)
        BY <2>2, <2>3, Joined
      <4> QED
        BY <1>2, <2>3, <2>4, <4>1, AgreesJoined
    <3>2. Agrees(in, at, h) /\ Agrees(in, at + 1, p)
      BY <1>2, <2>2, <2>3, <3>1, AgreesJoined
    <3>3. at + Len(h \o p) = (at + 1) + a.width
      <4>1. Len(h \o p) = Len(h) + Len(p)
        BY <2>2, <2>3, Joined
      <4> QED
        <5> DEFINE len == Len(h \o p)
        <5>1. len = 1 + a.width
          BY <2>2, <2>3, <4>1, Zenon
        <5> HIDE DEF len
        <5>2. at + len = (at + 1) + a.width
          BY <1>1, <1>2, <5>1, Sizes
        <5> QED
          BY <5>2 DEF len
    <3> QED
      BY <3>1, <3>2, <3>3
  <2>6. in[at + 1] = Code(a) * Nibbles + Code(b)
    BY <1>2, <1>4, <2>2, <2>5 DEF Agrees
  <2>7. /\ in[at + 1] \div Nibbles = Code(a) /\ in[at + 1] % Nibbles = Code(b)
    <3>1. \A n \in Nat \ {0} : \A x, y \in 0..(n - 1) : (x * n + y) \div n = x /\ (x * n + y) % n = y
      OBVIOUS
    <3>2. Code(a) \in 0..(Nibbles - 1) /\ Code(b) \in 0..(Nibbles - 1)
      BY CodeTells
    <3> QED
      BY <2>6, <3>1, <3>2, Sizes
  <2>8. PairSize(in, at) = size
    BY <1>1, <2>7, CodeTells, Sizes DEF PairSize
  <2>9. HasPair(in, at) <=> at + size <= Len(in)
    BY <1>4, <2>8 DEF HasPair
  <2>10. ASSUME at + size <= Len(in)
         PROVE  /\ FirstOf(in, at) = [neg |-> a.neg, width |-> a.width, u |-> a.u]
                /\ SecondOf(in, at) = [neg |-> b.neg, width |-> b.width, u |-> b.u]
    <3>1. \A k \in 1..a.width : in[(at + 1) + k] = Payload(a)[k]
      <4>1. \A k \in 1..a.width : k \in 1..Len(p) /\ (at + 1) + k <= Len(in)
        BY <1>1, <1>2, <2>3, <2>10, Sizes, SMTT(30)
      <4> QED
        BY <2>5, <4>1 DEF Agrees, p
    <3>2. \A k \in 1..b.width : in[((at + 1) + a.width) + k] = Payload(b)[k]
      <4>1. \A k \in 1..b.width : k \in 1..Len(q) /\ ((at + 1) + a.width) + k <= Len(in)
        BY <1>1, <1>2, <2>3, <2>10, Sizes, SMTT(30)
      <4> QED
        BY <2>5, <4>1 DEF Agrees, q
    <3>3. FirstOf(in, at) = [neg |-> a.neg, width |-> a.width, u |-> a.u]
      <4>1. at + 1 \in Nat
        BY <1>2
      <4>2. Decoded(in, at + 1, Code(a)) = [neg |-> a.neg, width |-> a.width, u |-> a.u]
        BY <3>1, <4>1, ValueRead
      <4> QED
        BY <2>7, <4>2 DEF FirstOf
    <3>4. SecondOf(in, at) = [neg |-> b.neg, width |-> b.width, u |-> b.u]
      <4>1. (at + 1) + a.width \in Nat /\ FirstOf(in, at).width = a.width
        BY <1>1, <1>2, <3>3, Sizes
      <4>2. Decoded(in, (at + 1) + a.width, Code(b)) = [neg |-> b.neg, width |-> b.width, u |-> b.u]
        BY <3>2, <4>1, ValueRead
      <4> QED
        BY <2>7, <4>1, <4>2 DEF SecondOf
    <3> QED
      BY <3>3, <3>4
  <2> QED
    BY <2>8, <2>9, <2>10
<1> QED
  BY <1>3, <1>4

-----------------------------------------------------------------------------
(* The values of a pair *)

(* Unzigzag is the inverse of Zigzag.                                      *)
LEMMA ZigzagRead ==
    ASSUME NEW n \in (-(Word \div 2))..(-1)
    PROVE  Zigzag(n) \in 0..(Word - 1) /\ Unzigzag(Zigzag(n)) = n
<1> DEFINE W == Word
<1>1. W \in Nat /\ W = 2 * (W \div 2) /\ W \div 2 \in Nat /\ W > 0
  <2>1. Power[2] \in Nat /\ Power[2] > 0
    BY WordSize, Sizes
  <2> QED
    BY <2>1, WordSize
<1>2. n \in Int /\ -(W \div 2) <= n /\ n <= -1
  BY <1>1
<1> HIDE DEF W
<1>3. (2 * n) % W = 2 * n + W
  <2> DEFINE m == 2 * n + W
  <2>1. m \in 0..(W - 1)
    BY <1>1, <1>2
  <2>2. (2 * n) % W = m
    BY <1>1, <1>2, <2>1
  <2> QED
    BY <2>2
<1>4. Zigzag(n) = -2 * n - 1
  BY <1>1, <1>2, <1>3 DEF Zigzag, W
<1>5. (-2 * n - 1) \div 2 = -n - 1 /\ (-2 * n - 1) % 2 = 1 /\ -2 * n - 1 \in 0..(W - 1)
  BY <1>1, <1>2
<1>6. (W - 1) - (-n - 1) = W + n /\ W + n >= W \div 2
  BY <1>1, <1>2
<1>7. Unzigzag(-2 * n - 1) = n
  BY <1>1, <1>2, <1>5, <1>6 DEF Unzigzag, W
<1> QED
  BY <1>4, <1>5, <1>7 DEF W

(* prepare of an unsigned value.                                           *)
LEMMA UnsignedPrepared ==
    ASSUME NEW u \in 0..(Word - 1)
    PROVE  /\ Prepared(Unsigned(u)) /\ Unsigned(u).u = u /\ Unsigned(u).neg = 0
<1>1. Width(u) \in 1..MaxWidth /\ u < Power[Width(u)]
  BY WidthFits
<1>2. Power[Width(u)] \in Nat
  BY <1>1, PowerSteps, Sizes
<1> QED
  BY <1>1, <1>2, WordSize DEF Unsigned, Prepared

(* prepare of a signed value; what is read of it is that value.            *)
IntegerRead(neg, u) == IF neg # 0 THEN Unzigzag(u) ELSE u

(* What Integer prepares is read back, whatever its sign.                  *)
LEMMA IntegerPrepared ==
    ASSUME NEW n \in (-(Word \div 2))..(Word - 1)
    PROVE  Prepared(Integer(n)) /\ IntegerRead(Integer(n).neg, Integer(n).u) = n
<1>1. Word \in Nat /\ Word \div 2 \in Nat
  BY WordSize
<1>2. CASE n < 0
  <2>1. n \in (-(Word \div 2))..(-1)
    BY <1>1, <1>2
  <2>2. Zigzag(n) \in 0..(Word - 1) /\ Unzigzag(Zigzag(n)) = n
    BY <2>1, ZigzagRead
  <2> DEFINE z == Unsigned(Zigzag(n))
  <2>3. Prepared(z) /\ z.u = Zigzag(n) /\ z.neg = 0
    BY <2>2, UnsignedPrepared
  <2>4. z = [u |-> z.u, width |-> z.width, neg |-> z.neg]
    BY DEF Unsigned
  <2> HIDE DEF z
  <2>5. Integer(n) = [z EXCEPT !.neg = 1]
    BY <1>2 DEF Integer, z
  <2>6. Integer(n).u = z.u /\ Integer(n).width = z.width /\ Integer(n).neg = 1
    BY <2>4, <2>5
  <2> QED
    BY <2>2, <2>3, <2>6 DEF Prepared, IntegerRead
<1>3. CASE ~(n < 0)
  <2>1. n \in 0..(Word - 1) /\ Integer(n) = Unsigned(n)
    BY <1>1, <1>3 DEF Integer
  <2> QED
    BY <2>1, UnsignedPrepared DEF IntegerRead
<1> QED
  BY <1>2, <1>3

(* What an encoder may be given.                                           *)
IsPair(p) ==
    /\ p.id \in 0..(Word - 1)
    /\ p.kind \in {"event", "i", "f", "b", "s", "cs"}
    /\ p.kind \in {"event", "i"} => p.val \in (-(Word \div 2))..(Word - 1)
    /\ p.kind = "b" => p.val \in BOOLEAN
    /\ p.kind = "f" =>
        /\ p.val \in [width : Nat, bits : Nat]
        /\ p.val.width \in {MaxWidth \div 2, MaxWidth} /\ p.val.bits < Power[p.val.width]
    /\ p.kind = "s" => p.val \in Seq(Bytes)
    /\ p.kind = "cs" => p.valId \in 0..(Word - 1)

(* The second value of a pair, and what follows it.                        *)
LengthOf(s) == [u |-> Len(Kept(s)), width |-> LengthWidth(Len(Kept(s))), neg |-> 0]
Second(p) ==
    CASE p.kind \in {"event", "i"} -> Integer(p.val)
      [] p.kind = "b" -> Unsigned(IF p.val THEN 1 ELSE 0)
      [] p.kind = "f" -> Floating(p.val)
      [] p.kind = "cs" -> Unsigned(p.valId)
      [] p.kind = "s" -> LengthOf(p.val)

(* What is kept of a string fits in two bytes of length.                   *)
LEMMA KeptBytes ==
    ASSUME NEW s \in Seq(Bytes)
    PROVE  /\ Kept(s) \in Seq(Bytes) /\ Len(Kept(s)) \in 0..(Power[2] - 1)
           /\ Kept(s) = SubSeq(s, 1, IF Len(s) < Power[2] - 1 THEN Len(s) ELSE Power[2] - 1)
           /\ Prepared(LengthOf(s))
<1>1. Power[2] \in Nat /\ Power[2] = Byte * Byte /\ Power[1] = Byte /\ Byte \in Nat /\ Power[2] >= 1
  <2>1. 2 \in 0..MaxWidth
    BY Sizes
  <2>2. Power[2] \in Nat \ {0}
    BY <2>1, PowerGrows
  <2> QED
    BY <2>2, Sizes, WordSize
<1> DEFINE m == Power[2]
<1> HIDE DEF m
<1>2. Len(s) \in Nat /\ SubSeq(s, 1, Len(s)) = s
  OBVIOUS
<1>3. Kept(s) = IF Len(s) < m THEN s ELSE SubSeq(s, 1, m - 1)
  BY DEF Kept, m
<1>4. m \in Nat /\ m >= 1
  BY <1>1 DEF m
<1>5. Kept(s) = SubSeq(s, 1, IF Len(s) < m - 1 THEN Len(s) ELSE m - 1)
  <2>1. CASE Len(s) < m - 1
    BY <1>2, <1>3, <1>4, <2>1
  <2>2. CASE Len(s) = m - 1
    BY <1>2, <1>3, <1>4, <2>2
  <2>3. CASE Len(s) > m - 1
    BY <1>2, <1>3, <1>4, <2>3
  <2> QED
    BY <1>2, <1>4, <2>1, <2>2, <2>3
<1>6. Kept(s) \in Seq(Bytes) /\ Len(Kept(s)) \in 0..(m - 1)
  <2>1. CASE Len(s) < m
    BY <1>2, <1>3, <1>4, <2>1
  <2>2. CASE ~(Len(s) < m)
    <3>1. m - 1 \in 0..Len(s)
      BY <1>2, <1>4, <2>2
    <3>2. SubSeq(s, 1, m - 1) \in Seq(Bytes) /\ Len(SubSeq(s, 1, m - 1)) = m - 1
      BY <3>1
    <3> QED
      BY <1>3, <1>4, <2>2, <3>2
  <2> QED
    BY <2>1, <2>2
<1>7. Prepared(LengthOf(s))
  <2> DEFINE len == Len(Kept(s))
  <2>1. len \in 0..(m - 1)
    BY <1>6
  <2> HIDE DEF len
  <2>2. LengthWidth(len) \in {1, 2} /\ (LengthWidth(len) = 1 <=> len <= Byte - 1)
    BY DEF LengthWidth
  <2>3. len \in 0..(Power[LengthWidth(len)] - 1)
    BY <1>1, <2>1, <2>2 DEF m
  <2>4. LengthOf(s) = [u |-> len, width |-> LengthWidth(len), neg |-> 0]
    BY DEF LengthOf, len
  <2> QED
    BY <2>2, <2>3, <2>4, Sizes DEF Prepared
<1> QED
  BY <1>5, <1>6, <1>7 DEF m

-----------------------------------------------------------------------------
(* One field *)

Rest(p) == IF p.kind = "s" THEN Kept(p.val) ELSE <<>>

(* The bytes of a pair.                                                    *)
LEMMA PairBytes ==
    ASSUME NEW p, IsPair(p)
    PROVE  /\ Prepared(Unsigned(p.id)) /\ Unsigned(p.id).u = p.id
           /\ Prepared(Second(p))
           /\ EncodePair(p) = FixedPair(Unsigned(p.id), Second(p)) \o Rest(p)
           /\ FixedPair(Unsigned(p.id), Second(p)) \in Seq(Bytes) /\ Rest(p) \in Seq(Bytes)
           /\ Len(FixedPair(Unsigned(p.id), Second(p))) >= 3
           /\ EncodePair(p) \in Seq(Bytes)
<1> DEFINE a == Unsigned(p.id)
           b == Second(p)
<1>1. Prepared(a) /\ a.u = p.id
  BY UnsignedPrepared DEF IsPair
<1>2. CASE p.kind \in {"event", "i"}
  <2>1. b = Integer(p.val) /\ Rest(p) = <<>> /\ EncodePair(p) = FixedPair(a, b)
    BY <1>2 DEF Second, Rest, EncodePair
  <2>2. Prepared(b)
    BY <1>2, <2>1, IntegerPrepared DEF IsPair
  <2> HIDE DEF a, b
  <2>3. FixedPair(a, b) \in Seq(Bytes) /\ Len(FixedPair(a, b)) >= 3
    BY <1>1, <2>2, FixedBytes
  <2>4. FixedPair(a, b) \o <<>> = FixedPair(a, b)
    BY <2>3
  <2> QED
    BY <1>1, <2>1, <2>2, <2>3, <2>4 DEF a, b
<1>3. CASE p.kind = "b"
  <2>1. b = Unsigned(IF p.val THEN 1 ELSE 0) /\ Rest(p) = <<>> /\ EncodePair(p) = FixedPair(a, b)
    BY <1>3 DEF Second, Rest, EncodePair
  <2>2. Prepared(b)
    <3>1. 0 \in 0..(Word - 1) /\ 1 \in 0..(Word - 1)
      <4>1. Byte * Byte >= 16 * 16
        BY Sizes
      <4> QED
        BY <4>1, WordSize, Sizes
    <3> QED
      BY <2>1, <3>1, UnsignedPrepared
  <2> HIDE DEF a, b
  <2>3. FixedPair(a, b) \in Seq(Bytes) /\ Len(FixedPair(a, b)) >= 3
    BY <1>1, <2>2, FixedBytes
  <2>4. FixedPair(a, b) \o <<>> = FixedPair(a, b)
    BY <2>3
  <2> QED
    BY <1>1, <2>1, <2>2, <2>3, <2>4 DEF a, b
<1>4. CASE p.kind = "f"
  <2>1. b = Floating(p.val) /\ Rest(p) = <<>> /\ EncodePair(p) = FixedPair(a, b)
    BY <1>4 DEF Second, Rest, EncodePair
  <2>2. Prepared(b)
    <3>1. /\ p.val.bits \in Nat /\ p.val.width \in {MaxWidth \div 2, MaxWidth}
          /\ p.val.bits < Power[p.val.width]
      BY <1>4 DEF IsPair
    <3>2. p.val.width \in 1..MaxWidth
      BY <3>1, Sizes
    <3>3. Power[p.val.width] \in Nat
      <4>1. p.val.width \in 0..MaxWidth
        BY <3>2, Sizes
      <4> QED
        BY <4>1, PowerType
    <3> QED
      BY <2>1, <3>1, <3>2, <3>3 DEF Prepared, Floating
  <2> HIDE DEF a, b
  <2>3. FixedPair(a, b) \in Seq(Bytes) /\ Len(FixedPair(a, b)) >= 3
    BY <1>1, <2>2, FixedBytes
  <2>4. FixedPair(a, b) \o <<>> = FixedPair(a, b)
    BY <2>3
  <2> QED
    BY <1>1, <2>1, <2>2, <2>3, <2>4 DEF a, b
<1>5. CASE p.kind = "cs"
  <2>1. b = Unsigned(p.valId) /\ Rest(p) = <<>> /\ EncodePair(p) = FixedPair(a, b)
    BY <1>5 DEF Second, Rest, EncodePair
  <2>2. Prepared(b)
    BY <1>5, <2>1, UnsignedPrepared DEF IsPair
  <2> HIDE DEF a, b
  <2>3. FixedPair(a, b) \in Seq(Bytes) /\ Len(FixedPair(a, b)) >= 3
    BY <1>1, <2>2, FixedBytes
  <2>4. FixedPair(a, b) \o <<>> = FixedPair(a, b)
    BY <2>3
  <2> QED
    BY <1>1, <2>1, <2>2, <2>3, <2>4 DEF a, b
<1>6. CASE p.kind = "s"
  <2>1. p.val \in Seq(Bytes)
    BY <1>6 DEF IsPair
  <2>2. b = LengthOf(p.val) /\ Rest(p) = Kept(p.val)
    BY <1>6 DEF Second, Rest
  <2>3. EncodePair(p) = FixedPair(a, b) \o Rest(p)
    <3>1. EncodePair(p) = StringPair(a, p.val)
      BY <1>6 DEF EncodePair
    <3>2. Kept(p.val) = SubSeq(p.val, 1, IF Len(p.val) < Power[2] - 1 THEN Len(p.val) ELSE Power[2] - 1)
      BY <2>1, KeptBytes
    <3>3. StringPair(a, p.val) = FixedPair(a, LengthOf(p.val)) \o Kept(p.val)
      BY <3>2, Zenon DEF StringPair, LengthOf
    <3> QED
      BY <2>2, <3>1, <3>3
  <2>4. Prepared(b) /\ Rest(p) \in Seq(Bytes)
    BY <2>1, <2>2, KeptBytes
  <2> HIDE DEF a, b
  <2>5. FixedPair(a, b) \in Seq(Bytes) /\ Len(FixedPair(a, b)) >= 3
    BY <1>1, <2>4, FixedBytes
  <2>6. FixedPair(a, b) \o Rest(p) \in Seq(Bytes)
    BY <2>4, <2>5
  <2> QED
    BY <1>1, <2>3, <2>4, <2>5, <2>6 DEF a, b
<1> QED
  BY <1>2, <1>3, <1>4, <1>5, <1>6 DEF IsPair

(* What a formatter with these names may write.                            *)
Letters(tags) == Token \cup [text : Range(tags)]

(* The value of a field that is not a string is read as it was given.      *)
LEMMA ScalarRead ==
    ASSUME NEW p, IsPair(p), p.kind \in {"i", "f", "b", "cs"}, NEW tags, NEW v,
           v.neg = Second(p).neg, v.width = Second(p).width, v.u = Second(p).u,
           p.kind = "cs" => TagText(tags, p.valId) = Str(p.val)
    PROVE  ScalarText(p.kind, v, tags) = ValueText(p)
<1>1. CASE p.kind = "i"
  <2>1. v.neg = Integer(p.val).neg /\ v.u = Integer(p.val).u
    BY <1>1 DEF Second
  <2>2. IntegerRead(v.neg, v.u) = p.val
    BY <1>1, <2>1, IntegerPrepared DEF IsPair
  <2>3. ScalarText(p.kind, v, tags) = Num(IntegerRead(v.neg, v.u))
    BY <1>1 DEF ScalarText, IntegerRead
  <2>4. ValueText(p) = Num(p.val)
    BY <1>1 DEF ValueText
  <2> QED
    BY <2>2, <2>3, <2>4
<1>2. CASE p.kind = "f"
  <2>1. v.width = p.val.width /\ v.u = p.val.bits
    BY <1>2 DEF Second, Floating
  <2>2. p.val.width \in {MaxWidth \div 2, MaxWidth} /\ p.val \in [width : Nat, bits : Nat]
    BY <1>2 DEF IsPair
  <2>3. [width |-> IF v.width = MaxWidth \div 2 THEN v.width ELSE MaxWidth, bits |-> v.u] = p.val
    BY <2>1, <2>2
  <2>4. ValueText(p) = Real(p.val)
    BY <1>2 DEF ValueText
  <2>5. ScalarText(p.kind, v, tags)
          = Real([width |-> IF v.width = MaxWidth \div 2 THEN v.width ELSE MaxWidth, bits |-> v.u])
    BY <1>2 DEF ScalarText
  <2> QED
    BY <2>3, <2>4, <2>5
<1>3. CASE p.kind = "b"
  <2>1. v.u = Unsigned(IF p.val THEN 1 ELSE 0).u
    BY <1>3 DEF Second
  <2>2. v.u = IF p.val THEN 1 ELSE 0
    BY <2>1 DEF Unsigned
  <2>3. ScalarText(p.kind, v, tags) = Str(IF v.u # 0 THEN "true" ELSE "false")
    BY <1>3 DEF ScalarText
  <2>4. ValueText(p) = Str(IF p.val THEN "true" ELSE "false")
    BY <1>3 DEF ValueText
  <2> QED
    BY <2>2, <2>3, <2>4
<1>4. CASE p.kind = "cs"
  <2>1. v.u = p.valId
    BY <1>4 DEF Second, Unsigned
  <2> QED
    BY <1>4, <2>1 DEF ScalarText, ValueText
<1> QED
  BY <1>1, <1>2, <1>3, <1>4

-----------------------------------------------------------------------------
(* Any pair *)

Cursors(in, S) == [ok : BOOLEAN, pos : 0..Len(in), text : Seq(S)]

(* Three sequences, joined.                                                *)
LEMMA Joined3 ==
    ASSUME NEW S, NEW a \in Seq(S), NEW b \in Seq(S), NEW c \in Seq(S)
    PROVE  (a \o b) \o c = a \o (b \o c) /\ a \o (b \o c) \in Seq(S)
  OBVIOUS

(* A sequence of one.                                                      *)
LEMMA Single ==
    ASSUME NEW S, NEW x \in S
    PROVE  <<x>> \in Seq(S) /\ Len(<<x>>) = 1
  OBVIOUS

(* A byte is two nibbles. *)
LEMMA NibblesOf ==
    ASSUME NEW n \in Nat \ {0}, NEW y \in 0..(n * n - 1)
    PROVE  y \div n \in 0..(n - 1) /\ y % n \in 0..(n - 1)
<1>1. n * n \in Nat
  OBVIOUS
<1>2. y \in Nat /\ y < n * n
  BY <1>1
<1>3. y \div n \in Nat /\ y % n \in 0..(n - 1) /\ y = n * (y \div n) + (y % n)
  BY <1>2
<1>4. y \div n < n
  <2> SUFFICES ASSUME y \div n >= n PROVE FALSE
    BY <1>3
  <2>1. n * (y \div n) >= n * n
    BY <1>3
  <2>2. n * (y \div n) \in Nat
    BY <1>3
  <2> QED
    BY <1>1, <1>2, <1>3, <2>1, <2>2
<1> QED
  BY <1>3, <1>4

(* Whatever the stream holds, a pair that is wholly in it is read.         *)
LEMMA PairTyped ==
    ASSUME NEW in \in Seq(Bytes), NEW at \in 0..Len(in), HasPair(in, at)
    PROVE  /\ PairSize(in, at) \in Nat /\ PairSize(in, at) >= 3
           /\ at + PairSize(in, at) \in 0..Len(in)
           /\ FirstOf(in, at).u \in Nat
           /\ SecondOf(in, at).u \in Nat /\ SecondOf(in, at).width \in Nat
<1> DEFINE hdr == in[at + 1]
           a == hdr \div Nibbles
           b == hdr % Nibbles
           m == (a % MaxWidth) + 1
           n == (b % MaxWidth) + 1
<1>1. Len(in) \in Nat /\ at \in Nat /\ at < Len(in) /\ at + PairSize(in, at) <= Len(in)
  BY DEF HasPair
<1>2. hdr \in 0..(Nibbles * Nibbles - 1)
  <2>1. hdr \in Bytes
    BY <1>1
  <2> QED
    BY <2>1 DEF Bytes, Byte
<1>3. \A k \in 1..Len(in) : in[k] \in Nat
  BY Sizes DEF Bytes
<1>4. PairSize(in, at) = 1 + m + n
  BY Zenon DEF PairSize
<1>5. FirstOf(in, at) = Decoded(in, at + 1, a)
  BY Zenon DEF FirstOf
<1>6. SecondOf(in, at) = Decoded(in, (at + 1) + FirstOf(in, at).width, b)
  BY Zenon DEF SecondOf
<1> HIDE DEF hdr
<1>7. a \in 0..(Nibbles - 1) /\ b \in 0..(Nibbles - 1)
  <2>1. Nibbles \in Nat \ {0}
    BY Sizes
  <2> QED
    BY <1>2, <2>1, NibblesOf
<1> HIDE DEF a, b
<1>8. m \in 1..MaxWidth /\ n \in 1..MaxWidth /\ m = (a % MaxWidth) + 1 /\ n = (b % MaxWidth) + 1
  BY <1>7, Sizes
<1> HIDE DEF m, n
<1>9. PairSize(in, at) \in Nat /\ PairSize(in, at) >= 3
  BY <1>4, <1>8, Sizes
<1>10. at + PairSize(in, at) \in 0..Len(in)
  BY <1>1, <1>9
<1>11. FirstOf(in, at).u \in Nat /\ FirstOf(in, at).width = m
  <2>1. \A k \in 1..m : in[(at + 1) + k] \in Nat
    <3> SUFFICES ASSUME NEW k \in 1..m PROVE (at + 1) + k \in 1..Len(in)
      BY <1>3
    <3> QED
      BY <1>1, <1>4, <1>8, <1>10, Sizes
  <2>2. \A k \in 1..((a % MaxWidth) + 1) : in[(at + 1) + k] \in Nat
    BY <1>8, <2>1
  <2>3. at + 1 \in Nat
    BY <1>1
  <2>4. Decoded(in, at + 1, a).width = (a % MaxWidth) + 1 /\ Decoded(in, at + 1, a).u \in Nat
    BY <1>7, <2>2, <2>3, DecodedType
  <2> QED
    BY <1>5, <1>8, <2>4
<1>12. SecondOf(in, at).u \in Nat /\ SecondOf(in, at).width \in Nat
  <2>1. \A k \in 1..n : in[((at + 1) + m) + k] \in Nat
    <3> SUFFICES ASSUME NEW k \in 1..n PROVE ((at + 1) + m) + k \in 1..Len(in)
      BY <1>3
    <3> QED
      BY <1>1, <1>4, <1>8, <1>10, Sizes, SMTT(30)
  <2>2. \A k \in 1..((b % MaxWidth) + 1) : in[((at + 1) + m) + k] \in Nat
    BY <1>8, <2>1
  <2>3. (at + 1) + m \in Nat
    BY <1>1, <1>8, Sizes
  <2>4. Decoded(in, (at + 1) + m, b).width = (b % MaxWidth) + 1 /\ Decoded(in, (at + 1) + m, b).u \in Nat
    BY <1>7, <2>2, <2>3, DecodedType
  <2> QED
    BY <1>6, <1>8, <1>11, <2>4, Sizes
<1> QED
  BY <1>9, <1>10, <1>11, <1>12

(* The texts.                                                              *)
LEMMA Texts ==
    ASSUME NEW tags
    PROVE  /\ Space \in Seq(Letters(tags)) /\ NewLine \in Seq(Letters(tags))
           /\ \A id : id \in Nat => TagText(tags, id) \in Seq(Letters(tags))
           /\ \A bytes \in Seq(Bytes) : Chars(bytes) \in Seq(Letters(tags)) /\ Len(Chars(bytes)) = Len(bytes)
<1>1. Space \in Seq(Letters(tags)) /\ NewLine \in Seq(Letters(tags))
  <2>1. [text |-> " "] \in Letters(tags) /\ [text |-> "\n"] \in Letters(tags)
    BY DEF Letters, Token, Strings
  <2>2. <<[text |-> " "]>> \in Seq(Letters(tags)) /\ <<[text |-> "\n"]>> \in Seq(Letters(tags))
    BY <2>1, Single
  <2> QED
    BY <2>2, Zenon DEF Space, NewLine, Str
<1>2. ASSUME NEW id, id \in Nat PROVE TagText(tags, id) \in Seq(Letters(tags))
  <2>1. CASE id \in DOMAIN tags
    <3>1. [text |-> tags[id]] \in Letters(tags)
      BY <2>1 DEF Letters, Range
    <3> QED
      BY <2>1, <3>1 DEF TagText, Str
  <2>2. CASE id \notin DOMAIN tags
    <3>1. [num |-> id] \in Letters(tags)
      BY <1>2 DEF Letters, Token
    <3> QED
      BY <2>2, <3>1 DEF TagText, Num
  <2> QED
    BY <2>1, <2>2
<1>3. ASSUME NEW bytes \in Seq(Bytes)
      PROVE  Chars(bytes) \in Seq(Letters(tags)) /\ Len(Chars(bytes)) = Len(bytes)
  <2>1. \A k \in 1..Len(bytes) : [char |-> bytes[k]] \in Letters(tags)
    BY Sizes DEF Letters, Token, Bytes
  <2>2. DOMAIN bytes = 1..Len(bytes) /\ Len(bytes) \in Nat
    OBVIOUS
  <2> QED
    BY <2>1, <2>2 DEF Chars
<1> QED
  BY <1>1, <1>2, <1>3

(* The value of a field is some text, whatever was read.                   *)
LEMMA ScalarTyped ==
    ASSUME NEW tags, NEW v, v.u \in Nat, v.width \in Nat, NEW ft \in {"i", "f", "b", "cs"}
    PROVE  ScalarText(ft, v, tags) \in Seq(Letters(tags))
<1>1. CASE ft = "i"
  <2> DEFINE n == IF v.neg # 0 THEN Unzigzag(v.u) ELSE v.u
  <2>1. ScalarText(ft, v, tags) = Num(n)
    BY <1>1 DEF ScalarText
  <2>2. Unzigzag(v.u) \in Int
    <3>1. \A z \in Nat : Unzigzag(z) \in Int
      BY WordSize DEF Unzigzag
    <3> QED
      BY <3>1
  <2>3. n \in Int
    BY <2>2
  <2> HIDE DEF n
  <2>4. [num |-> n] \in Letters(tags)
    BY <2>3 DEF Letters, Token
  <2> QED
    BY <2>1, <2>4 DEF Num
<1>2. CASE ft = "f"
  <2> DEFINE f == [width |-> IF v.width = MaxWidth \div 2 THEN v.width ELSE MaxWidth, bits |-> v.u]
  <2>1. ScalarText(ft, v, tags) = Real(f)
    BY <1>2 DEF ScalarText
  <2>2. f \in [width : Nat, bits : Nat]
    BY Sizes
  <2> HIDE DEF f
  <2>3. [float |-> f] \in Letters(tags)
    BY <2>2 DEF Letters, Token
  <2> QED
    BY <2>1, <2>3 DEF Real
<1>3. CASE ft = "b"
  <2>1. ScalarText(ft, v, tags) = Str(IF v.u # 0 THEN "true" ELSE "false")
    BY <1>3 DEF ScalarText
  <2>2. [text |-> IF v.u # 0 THEN "true" ELSE "false"] \in Letters(tags)
    BY DEF Letters, Token, Strings
  <2> QED
    BY <2>1, <2>2 DEF Str
<1>4. CASE ft = "cs"
  <2>1. ScalarText(ft, v, tags) = TagText(tags, v.u)
    BY <1>4 DEF ScalarText
  <2> QED
    BY <2>1, Texts
<1> QED
  BY <1>1, <1>2, <1>3, <1>4

(* Whatever a string is said to be long, what there is of it is read.      *)
LEMMA StringTyped ==
    ASSUME NEW S, [char : Nat] \subseteq S, NEW in \in Seq(Bytes), NEW c \in Cursors(in, S), NEW len \in Nat
    PROVE  StringRead(c, in, len) \in Cursors(in, S) /\ StringRead(c, in, len).pos >= c.pos
<1>1. Len(in) \in Nat /\ c.pos \in 0..Len(in) /\ c.text \in Seq(S) /\ c = [ok |-> c.ok, pos |-> c.pos, text |-> c.text] /\ c.ok \in BOOLEAN
  BY DEF Cursors
<1>2. \A n \in 0..(Len(in) - c.pos) : Chars(SubSeq(in, c.pos + 1, c.pos + n)) \in Seq(S)
  <2> SUFFICES ASSUME NEW n \in 0..(Len(in) - c.pos) PROVE Chars(SubSeq(in, c.pos + 1, c.pos + n)) \in Seq(S)
    OBVIOUS
  <2> DEFINE part == SubSeq(in, c.pos + 1, c.pos + n)
  <2>1. part \in Seq(Bytes)
    BY <1>1
  <2> HIDE DEF part
  <2>2. \A k \in 1..Len(part) : [char |-> part[k]] \in S
    BY <2>1, Sizes DEF Bytes
  <2>3. Chars(part) \in Seq(S)
    BY <2>1, <2>2 DEF Chars
  <2> QED
    BY <2>3 DEF part
<1>3. CASE c.pos + len <= Len(in)
  <2>1. len \in 0..(Len(in) - c.pos)
    BY <1>1, <1>3
  <2> DEFINE more == Chars(SubSeq(in, c.pos + 1, c.pos + len))
  <2>2. more \in Seq(S)
    BY <1>2, <2>1
  <2>3. StringRead(c, in, len) = [c EXCEPT !.pos = @ + len, !.text = @ \o more]
    BY <1>3 DEF StringRead
  <2> HIDE DEF more
  <2>4. c.text \o more \in Seq(S)
    BY <1>1, <2>2
  <2>5. StringRead(c, in, len) = [ok |-> c.ok, pos |-> c.pos + len, text |-> c.text \o more]
    BY <1>1, <2>3
  <2> QED
    BY <1>1, <1>3, <2>4, <2>5 DEF Cursors
<1>4. CASE ~(c.pos + len <= Len(in))
  <2> DEFINE whole == ((Len(in) - c.pos) \div Chunk) * Chunk
             more == Chars(SubSeq(in, c.pos + 1, c.pos + whole))
  <2>1. whole \in 0..(Len(in) - c.pos)
    <3>1. \A n \in Nat : \A k \in Nat \ {0} : (n \div k) * k \in 0..n
      OBVIOUS
    <3>2. Len(in) - c.pos \in Nat
      BY <1>1
    <3> QED
      BY <3>1, <3>2, ChunkAssumption
  <2>2. more \in Seq(S)
    BY <1>2, <2>1
  <2>3. StringRead(c, in, len) = Failed([c EXCEPT !.text = @ \o more], in)
    BY <1>4 DEF StringRead
  <2> HIDE DEF more
  <2>4. c.text \o more \in Seq(S)
    BY <1>1, <2>2
  <2>5. StringRead(c, in, len) = [ok |-> FALSE, pos |-> Len(in), text |-> c.text \o more]
    BY <1>1, <2>3 DEF Failed
  <2> QED
    BY <1>1, <2>4, <2>5 DEF Cursors
<1> QED
  BY <1>3, <1>4

(* Some bytes of a stream.                                                 *)
LEMMA Slice ==
    ASSUME NEW S, NEW in \in Seq(S), NEW m \in Nat, NEW n \in Nat, m + n <= Len(in)
    PROVE  /\ SubSeq(in, m + 1, m + n) \in Seq(S) /\ Len(SubSeq(in, m + 1, m + n)) = n
           /\ \A k \in 1..n : SubSeq(in, m + 1, m + n)[k] = in[m + k]
  OBVIOUS

(* Any field is read to some text.                                         *)
LEMMA FieldTyped ==
    ASSUME NEW tags, NEW in \in Seq(Bytes), NEW c \in Cursors(in, Letters(tags)),
           NEW ft \in {"i", "f", "b", "s", "cs"}
    PROVE  /\ FieldRead(c, in, ft, tags) \in Cursors(in, Letters(tags))
           /\ FieldRead(c, in, ft, tags).pos >= c.pos
<1> DEFINE S == Letters(tags)
           v == SecondOf(in, c.pos)
           name == TagText(tags, FirstOf(in, c.pos).u)
           named == [c EXCEPT !.pos = @ + PairSize(in, c.pos), !.text = @ \o Space \o name \o Space]
<1>1. Len(in) \in Nat /\ c.pos \in 0..Len(in) /\ c.text \in Seq(S) /\ c.ok \in BOOLEAN
      /\ c = [ok |-> c.ok, pos |-> c.pos, text |-> c.text]
  BY DEF Cursors
<1>2. FieldRead(c, in, ft, tags) =
        IF ~c.ok THEN c ELSE IF ~HasPair(in, c.pos) THEN Failed(c, in)
        ELSE IF ft = "s" THEN StringRead(named, in, v.u)
        ELSE [named EXCEPT !.text = @ \o ScalarText(ft, v, tags)]
  BY Zenon DEF FieldRead
<1>3. CASE ~c.ok
  BY <1>1, <1>2, <1>3
<1>4. CASE c.ok /\ ~HasPair(in, c.pos)
  <2>1. FieldRead(c, in, ft, tags) = [ok |-> FALSE, pos |-> Len(in), text |-> c.text]
    BY <1>1, <1>2, <1>4 DEF Failed
  <2> QED
    BY <1>1, <2>1 DEF Cursors
<1>5. CASE c.ok /\ HasPair(in, c.pos)
  <2>1. /\ PairSize(in, c.pos) \in Nat /\ c.pos + PairSize(in, c.pos) \in 0..Len(in)
        /\ FirstOf(in, c.pos).u \in Nat /\ v.u \in Nat /\ v.width \in Nat
    BY <1>1, <1>5, PairTyped
  <2>2. name \in Seq(S) /\ Space \in Seq(S)
    BY <2>1, Texts
  <2> DEFINE size == PairSize(in, c.pos)
             before == c.text \o Space \o name \o Space
  <2> HIDE DEF v, name
  <2>3. named = [ok |-> c.ok, pos |-> c.pos + size, text |-> before]
    <3>1. named = [c EXCEPT !.pos = c.pos + size, !.text = before]
      OBVIOUS
    <3> HIDE DEF named, size, before
    <3> QED
      BY <1>1, <3>1
  <2>4. before \in Seq(S)
    <3> HIDE DEF S
    <3>1. c.text \o Space \in Seq(S)
      BY <1>1, <2>2
    <3>2. c.text \o Space \o name \in Seq(S)
      BY <2>2, <3>1
    <3> QED
      BY <2>2, <3>2
  <2> HIDE DEF before, named, size, S
  <2>5. c.pos + size \in 0..Len(in) /\ size \in Nat
    BY <2>1 DEF size
  <2>6. named \in Cursors(in, S) /\ named.pos >= c.pos
    BY <1>1, <2>3, <2>4, <2>5 DEF Cursors
  <2>7. CASE ft = "s"
    <3>1. FieldRead(c, in, ft, tags) = StringRead(named, in, v.u)
      BY <1>2, <1>5, <2>7
    <3>2. [char : Nat] \subseteq S
      BY DEF S, Letters, Token
    <3>3. StringRead(named, in, v.u) \in Cursors(in, S) /\ StringRead(named, in, v.u).pos >= named.pos
      BY <2>1, <2>6, <3>2, StringTyped
    <3>4. StringRead(named, in, v.u).pos \in Nat /\ named.pos \in Nat
      BY <1>1, <2>6, <3>3 DEF Cursors
    <3> QED
      BY <1>1, <2>6, <3>1, <3>3, <3>4 DEF S
  <2>8. CASE ft # "s"
    <3> DEFINE value == ScalarText(ft, v, tags)
    <3>1. FieldRead(c, in, ft, tags) = [named EXCEPT !.text = @ \o value]
      BY <1>2, <1>5, <2>8
    <3>2. value \in Seq(S)
      BY <2>1, <2>8, ScalarTyped DEF S
    <3> HIDE DEF value
    <3>3. before \o value \in Seq(S)
      BY <2>4, <3>2
    <3>4. FieldRead(c, in, ft, tags) = [ok |-> c.ok, pos |-> c.pos + size, text |-> before \o value]
      BY <2>3, <3>1
    <3> QED
      BY <1>1, <2>5, <3>3, <3>4 DEF S, Cursors
  <2> QED
    BY <2>7, <2>8
<1> QED
  BY <1>1, <1>3, <1>4, <1>5

-----------------------------------------------------------------------------
(* What was written is read *)

(* A read that ends at end with the text read is good, or the stream ends  *)
(* before and there is a prefix of it.                                     *)
Reads(r, in, end, read, S) ==
    /\ r \in Cursors(in, S)
    /\ end <= Len(in) => r.ok /\ r.pos = end /\ r.text = read
    /\ end > Len(in) => ~r.ok /\ r.pos = Len(in) /\ IsPrefix(r.text, read)

(* The bytes of a string are read, or those that are there.                *)
LEMMA StringReads ==
    ASSUME NEW S, [char : Nat] \subseteq S, NEW in \in Seq(Bytes), NEW c \in Cursors(in, S), c.ok,
           NEW bytes \in Seq(Bytes), Agrees(in, c.pos, bytes)
    PROVE  Reads(StringRead(c, in, Len(bytes)), in, c.pos + Len(bytes), c.text \o Chars(bytes), S)
<1> DEFINE len == Len(bytes)
           r == StringRead(c, in, len)
<1>1. /\ Len(in) \in Nat /\ c.pos \in 0..Len(in) /\ c.text \in Seq(S) /\ len \in Nat
      /\ c = [ok |-> TRUE, pos |-> c.pos, text |-> c.text]
  BY DEF Cursors
<1>2. r \in Cursors(in, S)
  BY <1>1, StringTyped
<1>3. \A n \in 1..len : c.pos + n <= Len(in) => in[c.pos + n] = bytes[n]
  BY DEF Agrees
<1>4. Chars(bytes) \in Seq(S) /\ Len(Chars(bytes)) = len /\ \A k \in 1..len : Chars(bytes)[k] = [char |-> bytes[k]]
  <2>1. \A k \in 1..len : [char |-> bytes[k]] \in S
    BY Sizes DEF Bytes
  <2>2. DOMAIN bytes = 1..len
    OBVIOUS
  <2> QED
    BY <1>1, <2>1, <2>2 DEF Chars
<1>5. ASSUME NEW n \in 0..len, c.pos + n <= Len(in), NEW part, part = SubSeq(in, c.pos + 1, c.pos + n)
      PROVE  Chars(part) \in Seq(S) /\ IsPrefix(Chars(part), Chars(bytes)) /\ (n = len => Chars(part) = Chars(bytes))
  <2>1. part \in Seq(Bytes) /\ Len(part) = n /\ \A k \in 1..n : part[k] = in[c.pos + k]
    <3> DEFINE m == c.pos
    <3>1. n \in Nat /\ m \in Nat /\ m + n <= Len(in) /\ part = SubSeq(in, m + 1, m + n)
      BY <1>1, <1>5
    <3> HIDE DEF m
    <3>2. part \in Seq(Bytes) /\ Len(part) = n /\ \A k \in 1..n : part[k] = in[m + k]
      BY <3>1, Slice
    <3> QED
      BY <3>2 DEF m
  <2>2. \A k \in 1..n : part[k] = bytes[k]
    <3> SUFFICES ASSUME NEW k \in 1..n PROVE part[k] = bytes[k]
      OBVIOUS
    <3>1. k \in 1..len /\ c.pos + k <= Len(in)
      BY <1>1, <1>5
    <3> QED
      BY <1>3, <2>1, <3>1
  <2>3. Chars(part) \in Seq(S) /\ Len(Chars(part)) = n /\ \A k \in 1..n : Chars(part)[k] = [char |-> part[k]]
    <3>1. \A k \in 1..n : [char |-> part[k]] \in S
      <4>1. \A k \in 1..n : part[k] \in Nat
        BY <2>1, Sizes DEF Bytes
      <4> QED
        BY <4>1
    <3>2. DOMAIN part = 1..n
      BY <2>1
    <3> QED
      BY <1>1, <3>1, <3>2, SMTT(30) DEF Chars
  <2>4. \A k \in 1..n : Chars(part)[k] = Chars(bytes)[k]
    <3> SUFFICES ASSUME NEW k \in 1..n PROVE Chars(part)[k] = Chars(bytes)[k]
      OBVIOUS
    <3>1. k \in 1..len
      BY <1>1
    <3> QED
      BY <1>4, <2>2, <2>3, <3>1
  <2> DEFINE x == Chars(part)
             y == Chars(bytes)
  <2>5. x \in Seq(S) /\ y \in Seq(S) /\ Len(x) = n /\ Len(y) = len /\ \A k \in 1..n : x[k] = y[k]
    BY <1>4, <2>3, <2>4
  <2> HIDE DEF x, y
  <2>6. IsPrefix(x, y)
    BY <1>1, <2>5, PrefixElements
  <2>7. n = len => x = y
    BY <2>5
  <2> QED
    BY <2>5, <2>6, <2>7 DEF x, y
<1>6. CASE c.pos + len <= Len(in)
  <2> DEFINE part == SubSeq(in, c.pos + 1, c.pos + len)
  <2>1. Chars(part) = Chars(bytes)
    <3>1. len \in 0..len
      BY <1>1
    <3> HIDE DEF len
    <3> QED
      BY <1>5, <1>6, <3>1
  <2>2. r = [c EXCEPT !.pos = @ + len, !.text = @ \o Chars(part)]
    BY <1>6 DEF StringRead
  <2> HIDE DEF part, r
  <2>3. r = [ok |-> TRUE, pos |-> c.pos + len, text |-> c.text \o Chars(bytes)]
    BY <1>1, <2>1, <2>2
  <2>4. r.ok /\ r.pos = c.pos + len /\ r.text = c.text \o Chars(bytes) /\ ~(c.pos + len > Len(in))
    BY <1>1, <1>6, <2>3
  <2> QED
    BY <1>2, <2>4 DEF Reads, r
<1>7. CASE ~(c.pos + len <= Len(in))
  <2> DEFINE whole == ((Len(in) - c.pos) \div Chunk) * Chunk
             part == SubSeq(in, c.pos + 1, c.pos + whole)
             more == Chars(part)
  <2>1. whole \in 0..len /\ c.pos + whole <= Len(in)
    <3>1. \A n \in Nat : \A k \in Nat \ {0} : (n \div k) * k \in 0..n
      OBVIOUS
    <3>2. Len(in) - c.pos \in Nat /\ Len(in) - c.pos < len
      BY <1>1, <1>7
    <3>3. whole \in 0..(Len(in) - c.pos)
      BY <3>1, <3>2, ChunkAssumption
    <3> HIDE DEF whole
    <3> QED
      BY <1>1, <3>2, <3>3
  <2> HIDE DEF whole
  <2>2. more \in Seq(S) /\ IsPrefix(more, Chars(bytes))
    BY <1>5, <2>1
  <2>3. r = Failed([c EXCEPT !.text = @ \o more], in)
    BY <1>7 DEF StringRead, whole
  <2> HIDE DEF more, r
  <2>4. r = [ok |-> FALSE, pos |-> Len(in), text |-> c.text \o more]
    BY <1>1, <2>3 DEF Failed
  <2>5. IsPrefix(c.text \o more, c.text \o Chars(bytes))
    BY <1>1, <1>4, <2>2, PrefixAppended
  <2>6. ~r.ok /\ r.pos = Len(in) /\ IsPrefix(r.text, c.text \o Chars(bytes))
    BY <2>4, <2>5
  <2> QED
    BY <1>2, <1>7, <2>6 DEF Reads, r
<1> QED
  BY <1>6, <1>7

(* The text of a field that comes out: a string is cut.                    *)
FieldValue(p) == IF p.kind = "s" THEN Chars(Kept(p.val)) ELSE ValueText(p)
FieldText(p) == Space \o Str(p.name) \o Space \o FieldValue(p)

(* The names are the ones the ids of the pair stand for.                   *)
Named(p, tags) ==
    /\ TagText(tags, p.id) = Str(p.name)
    /\ p.kind = "cs" => TagText(tags, p.valId) = Str(p.val)

(* The text of a field is of the tokens that its names add.                *)
LEMMA FieldTextTyped ==
    ASSUME NEW p, IsPair(p), p.kind \in {"i", "f", "b", "s", "cs"}, NEW tags, Named(p, tags)
    PROVE  /\ Str(p.name) \in Seq(Letters(tags)) /\ FieldValue(p) \in Seq(Letters(tags))
           /\ FieldText(p) \in Seq(Letters(tags))
<1>1. p.id \in Nat /\ (p.kind = "cs" => p.valId \in Nat)
  BY WordSize DEF IsPair
<1>2. Str(p.name) \in Seq(Letters(tags)) /\ Space \in Seq(Letters(tags))
  BY <1>1, Texts DEF Named
<1>3. FieldValue(p) \in Seq(Letters(tags))
  <2>1. CASE p.kind = "i"
    <3>1. p.val \in Int /\ FieldValue(p) = Num(p.val)
      BY <2>1, WordSize DEF IsPair, FieldValue, ValueText
    <3>2. [num |-> p.val] \in Letters(tags)
      BY <3>1 DEF Letters, Token
    <3> QED
      BY <3>1, <3>2, Single DEF Num
  <2>2. CASE p.kind = "f"
    <3>1. p.val \in [width : Nat, bits : Nat] /\ FieldValue(p) = Real(p.val)
      BY <2>2 DEF IsPair, FieldValue, ValueText
    <3>2. [float |-> p.val] \in Letters(tags)
      BY <3>1 DEF Letters, Token
    <3> QED
      BY <3>1, <3>2, Single DEF Real
  <2>3. CASE p.kind = "b"
    <3>1. FieldValue(p) = Str(IF p.val THEN "true" ELSE "false")
      BY <2>3 DEF FieldValue, ValueText
    <3>2. [text |-> IF p.val THEN "true" ELSE "false"] \in Letters(tags)
      BY DEF Letters, Token, Strings
    <3> QED
      BY <3>1, <3>2, Single DEF Str
  <2>4. CASE p.kind = "cs"
    <3>1. FieldValue(p) = Str(p.val)
      BY <2>4 DEF FieldValue, ValueText
    <3> QED
      BY <1>1, <2>4, <3>1, Texts DEF Named
  <2>5. CASE p.kind = "s"
    <3>1. FieldValue(p) = Chars(Kept(p.val)) /\ Kept(p.val) \in Seq(Bytes)
      BY <2>5, KeptBytes DEF FieldValue, IsPair
    <3> QED
      BY <3>1, Texts
  <2> QED
    BY <2>1, <2>2, <2>3, <2>4, <2>5
<1> DEFINE S == Letters(tags)
           name == Str(p.name)
           value == FieldValue(p)
<1>4. name \in Seq(S) /\ value \in Seq(S) /\ Space \in Seq(S)
  BY <1>2, <1>3
<1> HIDE DEF S, name, value
<1>5. Space \o name \in Seq(S)
  BY <1>4
<1>6. Space \o name \o Space \in Seq(S)
  BY <1>4, <1>5
<1>7. Space \o name \o Space \o value \in Seq(S)
  BY <1>4, <1>6
<1> QED
  BY <1>2, <1>3, <1>7 DEF FieldText, S, name, value

(* A field that is in the stream is read as it was written.                *)
LEMMA FieldReads ==
    ASSUME NEW p, IsPair(p), p.kind \in {"i", "f", "b", "s", "cs"}, NEW tags, Named(p, tags),
           NEW in \in Seq(Bytes), NEW c \in Cursors(in, Letters(tags)), c.ok,
           Agrees(in, c.pos, EncodePair(p))
    PROVE  Reads(FieldRead(c, in, p.kind, tags), in, c.pos + Len(EncodePair(p)),
                 c.text \o FieldText(p), Letters(tags))
<1> DEFINE S == Letters(tags)
           v == SecondOf(in, c.pos)
           a == Unsigned(p.id)
           b == Second(p)
           fixed == FixedPair(a, b)
           rest == Rest(p)
           size == Len(fixed)
           len == Len(rest)
           end == c.pos + Len(EncodePair(p))
           r == FieldRead(c, in, p.kind, tags)
           named == [c EXCEPT !.pos = @ + PairSize(in, c.pos),
                              !.text = @ \o Space \o TagText(tags, FirstOf(in, c.pos).u) \o Space]
           before == c.text \o Space \o Str(p.name) \o Space
<1>1. Len(in) \in Nat /\ c.pos \in 0..Len(in) /\ c.text \in Seq(S)
      /\ c = [ok |-> TRUE, pos |-> c.pos, text |-> c.text]
  BY DEF Cursors
<1>2. r = IF ~HasPair(in, c.pos) THEN Failed(c, in)
          ELSE IF p.kind = "s" THEN StringRead(named, in, v.u)
          ELSE [named EXCEPT !.text = @ \o ScalarText(p.kind, v, tags)]
  BY Zenon DEF FieldRead
<1>3. /\ Prepared(a) /\ a.u = p.id /\ Prepared(b) /\ EncodePair(p) = fixed \o rest
      /\ fixed \in Seq(Bytes) /\ rest \in Seq(Bytes)
  BY PairBytes
<1>4. Str(p.name) \in Seq(S) /\ FieldValue(p) \in Seq(S) /\ FieldText(p) \in Seq(S) /\ Space \in Seq(S)
  BY FieldTextTyped, Texts
<1>5. r \in Cursors(in, S)
  BY FieldTyped
<1>6. /\ Agrees(in, c.pos, fixed) /\ Agrees(in, c.pos + size, rest)
      /\ size \in Nat /\ len \in Nat /\ end = (c.pos + size) + len
  <2> HIDE DEF fixed, rest
  <2>1. c.pos \in Nat /\ Agrees(in, c.pos, fixed \o rest)
    BY <1>1, <1>3
  <2>2. Len(fixed \o rest) = size + len /\ size \in Nat /\ len \in Nat
    BY <1>3
  <2>3. Agrees(in, c.pos, fixed) /\ Agrees(in, c.pos + size, rest)
    BY <1>3, <2>1, AgreesJoined
  <2>4. end = c.pos + (size + len)
    BY <1>3, <2>2
  <2> HIDE DEF end, size, len
  <2>5. end = (c.pos + size) + len
    BY <2>1, <2>2, <2>4
  <2> QED
    BY <2>2, <2>3, <2>5
<1>7. /\ HasPair(in, c.pos) <=> c.pos + size <= Len(in)
      /\ HasPair(in, c.pos) =>
           /\ PairSize(in, c.pos) = size /\ FirstOf(in, c.pos).u = a.u
           /\ v.u = b.u /\ v.width = b.width /\ v.neg = b.neg
  <2>1. /\ HasPair(in, c.pos) => FirstOf(in, c.pos) = [neg |-> a.neg, width |-> a.width, u |-> a.u]
        /\ HasPair(in, c.pos) => v = [neg |-> b.neg, width |-> b.width, u |-> b.u]
        /\ HasPair(in, c.pos) => PairSize(in, c.pos) = size
        /\ HasPair(in, c.pos) <=> c.pos + size <= Len(in)
    BY <1>1, <1>3, <1>6, FixedRead
  <2> HIDE DEF v, a, b, size
  <2> QED
    BY <2>1
<1> HIDE DEF r, end, size, len, fixed, rest, a, b, v, S, named, before
<1>8. CASE ~HasPair(in, c.pos)
  <2>1. r = [ok |-> FALSE, pos |-> Len(in), text |-> c.text]
    BY <1>1, <1>2, <1>8 DEF Failed
  <2>2. end > Len(in)
    BY <1>1, <1>6, <1>7, <1>8
  <2>3. IsPrefix(c.text, c.text \o FieldText(p))
    BY <1>1, <1>4, PrefixAppended
  <2>4. Reads(r, in, end, c.text \o FieldText(p), S)
    BY <1>1, <1>5, <2>1, <2>2, <2>3, <1>6 DEF Reads
  <2> QED
    BY <2>4 DEF r, end, S
<1>9. CASE HasPair(in, c.pos)
  <2>1. PairSize(in, c.pos) = size /\ TagText(tags, FirstOf(in, c.pos).u) = Str(p.name)
    BY <1>3, <1>7, <1>9 DEF Named
  <2>2. named = [ok |-> TRUE, pos |-> c.pos + size, text |-> before]
    <3>1. named = [c EXCEPT !.pos = c.pos + size, !.text = before]
      BY <2>1 DEF named, before
    <3> QED
      BY <1>1, <3>1
  <2>3. before \in Seq(S)
    <3>1. c.text \o Space \in Seq(S)
      BY <1>1, <1>4
    <3>2. c.text \o Space \o Str(p.name) \in Seq(S)
      BY <1>4, <3>1
    <3> QED
      BY <1>4, <3>2 DEF before
  <2>4. before \o FieldValue(p) = c.text \o FieldText(p)
    <3> DEFINE name == Str(p.name)
               value == FieldValue(p)
               t == c.text
    <3>1. name \in Seq(S) /\ value \in Seq(S) /\ t \in Seq(S) /\ Space \in Seq(S)
      BY <1>1, <1>4
    <3> HIDE DEF name, value, t
    <3>2. Space \o name \in Seq(S)
      BY <3>1
    <3>3. (Space \o name) \o Space \in Seq(S)
      BY <3>1, <3>2
    <3>4. (t \o Space) \o name = t \o (Space \o name)
      BY <3>1, Joined3
    <3>5. (t \o (Space \o name)) \o Space = t \o ((Space \o name) \o Space)
      BY <3>1, <3>2, Joined3, SMTT(30)
    <3>6. (t \o ((Space \o name) \o Space)) \o value = t \o (((Space \o name) \o Space) \o value)
      BY <3>1, <3>3, Joined3, SMTT(30)
    <3>7. (((t \o Space) \o name) \o Space) \o value = t \o (((Space \o name) \o Space) \o value)
      BY <3>4, <3>5, <3>6, Zenon
    <3> QED
      BY <3>7, Zenon DEF before, FieldText, name, value, t
  <2>5. named \in Cursors(in, S) /\ named.ok /\ named.pos = c.pos + size /\ named.text = before
    BY <1>1, <1>6, <1>7, <1>9, <2>2, <2>3 DEF Cursors
  <2>6. CASE p.kind = "s"
    <3>1. rest = Kept(p.val) /\ v.u = len /\ FieldValue(p) = Chars(rest)
      <4>1. rest = Kept(p.val) /\ FieldValue(p) = Chars(rest)
        BY <2>6 DEF rest, Rest, FieldValue
      <4>2. b.u = Len(Kept(p.val))
        BY <2>6 DEF b, Second, LengthOf
      <4> QED
        BY <1>7, <1>9, <4>1, <4>2 DEF len
    <3>2. r = StringRead(named, in, Len(rest))
      BY <1>2, <1>9, <2>6, <3>1 DEF len
    <3>3. [char : Nat] \subseteq S
      BY DEF S, Letters, Token
    <3>4. Agrees(in, named.pos, rest)
      BY <1>6, <2>5
    <3>5. Reads(StringRead(named, in, Len(rest)), in, named.pos + Len(rest), named.text \o Chars(rest), S)
      BY <1>3, <2>5, <3>3, <3>4, StringReads
    <3>6. Reads(r, in, end, before \o FieldValue(p), S)
      BY <1>6, <2>5, <3>1, <3>2, <3>5 DEF len
    <3> QED
      BY <2>4, <3>6 DEF r, end, S
  <2>7. CASE p.kind # "s"
    <3>1. ScalarText(p.kind, v, tags) = FieldValue(p)
      <4>1. v.neg = Second(p).neg /\ v.width = Second(p).width /\ v.u = Second(p).u
        BY <1>7, <1>9 DEF b
      <4>2. ScalarText(p.kind, v, tags) = ValueText(p)
        BY <2>7, <4>1, ScalarRead DEF Named
      <4> QED
        BY <2>7, <4>2 DEF FieldValue
    <3>2. r = [named EXCEPT !.text = @ \o FieldValue(p)]
      BY <1>2, <1>9, <2>7, <3>1
    <3>3. r = [ok |-> TRUE, pos |-> c.pos + size, text |-> before \o FieldValue(p)]
      BY <2>2, <3>2
    <3>4. end = c.pos + size /\ end <= Len(in)
      <4>1. rest = <<>> /\ len = 0
        BY <2>7 DEF rest, Rest, len
      <4> QED
        BY <1>1, <1>6, <1>7, <1>9, <4>1
    <3>5. r.ok /\ r.pos = end /\ r.text = c.text \o FieldText(p)
      BY <2>4, <3>3, <3>4
    <3>6. ~(end > Len(in))
      BY <1>1, <1>6, <3>4
    <3>7. Reads(r, in, end, c.text \o FieldText(p), S)
      BY <1>5, <3>5, <3>6 DEF Reads
    <3> QED
      BY <3>7 DEF r, end, S
  <2> QED
    BY <2>6, <2>7
<1> QED
  BY <1>8, <1>9

-----------------------------------------------------------------------------
(* The first texts of some *)
Part(seqs, n) == [i \in 1..n |-> seqs[i]]

(* What is joined goes from one part to the next.                          *)
LEMMA FlattenParts ==
    ASSUME NEW S, NEW seqs \in Seq(Seq(S)), NEW n \in 0..Len(seqs)
    PROVE  /\ Part(seqs, n) \in Seq(Seq(S)) /\ FlattenSeq(Part(seqs, n)) \in Seq(S)
           /\ n = 0 => FlattenSeq(Part(seqs, n)) = <<>>
           /\ n = Len(seqs) => Part(seqs, n) = seqs
           /\ n < Len(seqs) => FlattenSeq(Part(seqs, n + 1)) = FlattenSeq(Part(seqs, n)) \o seqs[n + 1]
<1>1. n \in Nat /\ \A i \in 1..n : i \in 1..Len(seqs) /\ seqs[i] \in Seq(S)
  OBVIOUS
<1>2. Part(seqs, n) \in Seq(Seq(S)) /\ Len(Part(seqs, n)) = n
  BY <1>1 DEF Part
<1>3. n = 0 => Part(seqs, n) = <<>>
  BY DEF Part
<1>4. FlattenSeq(Part(seqs, n)) \in Seq(S) /\ (n = 0 => FlattenSeq(Part(seqs, n)) = <<>>)
  BY <1>2, <1>3, FlattenType
<1>5. n = Len(seqs) => Part(seqs, n) = seqs
  BY DEF Part
<1>6. ASSUME n < Len(seqs)
      PROVE  FlattenSeq(Part(seqs, n + 1)) = FlattenSeq(Part(seqs, n)) \o seqs[n + 1]
  <2>1. seqs[n + 1] \in Seq(S)
    BY <1>1, <1>6
  <2>2. Part(seqs, n + 1) = Append(Part(seqs, n), seqs[n + 1])
    <3>1. \A i \in 1..(n + 1) : Part(seqs, n + 1)[i] = Append(Part(seqs, n), seqs[n + 1])[i]
      BY <1>1, <1>2 DEF Part
    <3>2. \A i \in 1..(n + 1) : seqs[i] \in Seq(S)
      BY <1>1, <2>1
    <3>3. Part(seqs, n + 1) \in Seq(Seq(S)) /\ Len(Part(seqs, n + 1)) = n + 1
      BY <1>1, <3>2 DEF Part
    <3> DEFINE x == Part(seqs, n + 1)
               y == Append(Part(seqs, n), seqs[n + 1])
    <3>6. y \in Seq(Seq(S)) /\ Len(y) = n + 1
      <4> DEFINE part == Part(seqs, n)
                 more == seqs[n + 1]
      <4>1. part \in Seq(Seq(S)) /\ Len(part) = n /\ more \in Seq(S)
        BY <1>2, <2>1
      <4> HIDE DEF part, more
      <4>2. Append(part, more) \in Seq(Seq(S)) /\ Len(Append(part, more)) = n + 1
        BY <1>1, <4>1
      <4> QED
        BY <4>2 DEF part, more
    <3>7. \A i \in 1..(n + 1) : x[i] = y[i]
      BY <3>1
    <3> HIDE DEF x, y
    <3>4. x \in Seq(Seq(S)) /\ Len(x) = n + 1
      BY <3>3 DEF x
    <3>5. x = y
      BY <3>4, <3>6, <3>7
    <3> QED
      BY <3>5 DEF x, y
  <2> QED
    BY <1>2, <2>1, <2>2, FlattenAppend
<1> QED
  BY <1>2, <1>4, <1>5, <1>6

(* What agrees with all of them agrees with each.                          *)
LEMMA AgreesParts ==
    ASSUME NEW S, NEW seqs \in Seq(Seq(S)), NEW in, NEW at \in Nat,
           Agrees(in, at, FlattenSeq(seqs)), NEW n \in 0..Len(seqs)
    PROVE  /\ Agrees(in, at, FlattenSeq(Part(seqs, n)))
           /\ Len(FlattenSeq(Part(seqs, n))) <= Len(FlattenSeq(seqs))
           /\ n < Len(seqs) => Agrees(in, at + Len(FlattenSeq(Part(seqs, n))), seqs[n + 1])
<1> DEFINE len == Len(seqs)
           whole == FlattenSeq(seqs)
           all(k) == FlattenSeq(Part(seqs, k))
           good(k) == Agrees(in, at, all(k)) /\ Len(all(k)) <= Len(whole)
           T == {m \in Nat : m <= len => good(len - m)}
<1>1. len \in Nat
  OBVIOUS
<1>2. ASSUME NEW k \in Nat, k + 1 <= len
      PROVE  /\ all(k + 1) = all(k) \o seqs[k + 1] /\ seqs[k + 1] \in Seq(S)
             /\ all(k) \in Seq(S) /\ all(k + 1) \in Seq(S)
  <2>1. k \in 0..Len(seqs) /\ k + 1 \in 0..Len(seqs) /\ k < Len(seqs)
    BY <1>1, <1>2
  <2>2. FlattenSeq(Part(seqs, k)) \in Seq(S) /\ FlattenSeq(Part(seqs, k + 1)) \in Seq(S)
        /\ FlattenSeq(Part(seqs, k + 1)) = FlattenSeq(Part(seqs, k)) \o seqs[k + 1]
    BY <2>1, FlattenParts
  <2>3. seqs[k + 1] \in Seq(S)
    BY <1>2
  <2> QED
    BY <2>2, <2>3
<1>3. 0 \in T
  <2>1. all(len) = whole /\ len - 0 = len /\ whole \in Seq(S)
    <3>1. len \in 0..Len(seqs)
      BY <1>1
    <3>2. Part(seqs, Len(seqs)) = seqs /\ FlattenSeq(seqs) \in Seq(S)
      BY <3>1, FlattenParts
    <3> QED
      BY <1>1, <3>2
  <2> HIDE DEF all, whole
  <2>2. good(len)
    BY <2>1 DEF whole
  <2> QED
    BY <2>1, <2>2
<1>4. ASSUME NEW m \in Nat, m \in T PROVE m + 1 \in T
  <2> SUFFICES ASSUME m + 1 <= len PROVE good(len - (m + 1))
    OBVIOUS
  <2> DEFINE k == len - (m + 1)
  <2>1. k \in Nat /\ k + 1 <= len /\ k + 1 = len - m
    BY <1>1
  <2> HIDE DEF k
  <2>2. good(k + 1)
    <3> HIDE DEF good
    <3>1. m <= len /\ good(len - m)
      BY <1>1, <1>4, <2>1
    <3> QED
      BY <2>1, <3>1
  <2>3. all(k + 1) = all(k) \o seqs[k + 1] /\ seqs[k + 1] \in Seq(S) /\ all(k) \in Seq(S)
    BY <1>2, <2>1
  <2> HIDE DEF all
  <2>4. Agrees(in, at, all(k) \o seqs[k + 1]) /\ Len(all(k) \o seqs[k + 1]) <= Len(whole)
    BY <2>2, <2>3
  <2>5. Agrees(in, at, all(k))
    BY <2>3, <2>4, AgreesJoined
  <2>6. Len(all(k) \o seqs[k + 1]) >= Len(all(k))
    BY <2>3, Joined
  <2>7. Len(all(k)) <= Len(whole)
    <3>1. Len(all(k)) \in Nat /\ Len(all(k) \o seqs[k + 1]) \in Nat /\ Len(whole) \in Nat
      <4>1. whole \in Seq(S)
        BY FlattenType
      <4>2. Len(whole) \in Nat
        BY <4>1
      <4> HIDE DEF whole
      <4> QED
        BY <2>3, <4>2
    <3> QED
      BY <2>4, <2>6, <3>1
  <2>8. good(k)
    BY <2>5, <2>7
  <2> QED
    BY <2>8 DEF k
<1> HIDE DEF T
<1>5. Nat \subseteq T
  BY <1>3, <1>4, SetInduction
<1>6. good(n)
  <2>1. len - n \in Nat /\ len - n <= len /\ len - (len - n) = n
    BY <1>1
  <2> HIDE DEF good
  <2> QED
    BY <1>5, <2>1 DEF T
<1>7. ASSUME n < len PROVE Agrees(in, at + Len(all(n)), seqs[n + 1])
  <2>1. n \in Nat /\ n + 1 <= len /\ n + 1 \in 0..len
    BY <1>1, <1>7
  <2>2. all(n + 1) = all(n) \o seqs[n + 1] /\ seqs[n + 1] \in Seq(S) /\ all(n) \in Seq(S)
    BY <1>2, <2>1
  <2>3. good(n + 1)
    <3>1. len - (n + 1) \in Nat /\ len - (n + 1) <= len /\ len - (len - (n + 1)) = n + 1
      BY <1>1, <2>1
    <3> HIDE DEF good
    <3> QED
      BY <1>5, <3>1 DEF T
  <2> HIDE DEF all
  <2>4. Agrees(in, at, all(n) \o seqs[n + 1])
    BY <2>2, <2>3
  <2> QED
    BY <2>2, <2>4, AgreesJoined
<1> QED
  BY <1>6, <1>7

-----------------------------------------------------------------------------
(* One record *)

(* The loop over the field types.                                          *)
IsReading(read, opened, in, types, tags) ==
    read = [k \in 0..Len(types) |->
              IF k = 0 THEN opened ELSE FieldRead(read[k - 1], in, types[k], tags)]

(* The loop over the fields is a function.                                 *)
LEMMA ReadingExists ==
    ASSUME NEW tags, NEW in \in Seq(Bytes), NEW opened \in Cursors(in, Letters(tags)),
           NEW types \in Seq({"i", "f", "b", "s", "cs"})
    PROVE  \E read \in [0..Len(types) -> Cursors(in, Letters(tags))] :
              IsReading(read, opened, in, types, tags)
<1> DEFINE V == Cursors(in, Letters(tags))
           len == Len(types)
           step == [x \in (1..len) \X V |-> FieldRead(x[2], in, types[x[1]], tags)]
<1>1. step \in [(1..len) \X V -> V]
  <2>1. ASSUME NEW x \in (1..len) \X V PROVE FieldRead(x[2], in, types[x[1]], tags) \in V
    <3>1. x[2] \in V /\ types[x[1]] \in {"i", "f", "b", "s", "cs"}
      OBVIOUS
    <3> QED
      BY <3>1, FieldTyped
  <2> QED
    BY <2>1
<1>2. len \in Nat /\ opened \in V
  OBVIOUS
<1>3. PICK read \in [0..len -> V] : IsRecursion(read, opened, step, len)
  <2> HIDE DEF step, V
  <2> QED
    BY <1>1, <1>2, RecursionExists
<1>4. ASSUME NEW k \in 0..len, k # 0
      PROVE  step[<<k, read[k - 1]>>] = FieldRead(read[k - 1], in, types[k], tags)
  <2>1. k \in 1..len /\ k - 1 \in 0..len
    BY <1>2, <1>4
  <2> HIDE DEF V
  <2>2. read[k - 1] \in V
    BY <2>1
  <2> QED
    BY <2>1, <2>2
<1> HIDE DEF step, V
<1>5. read = [k \in 0..len |-> IF k = 0 THEN opened ELSE FieldRead(read[k - 1], in, types[k], tags)]
  BY <1>3, <1>4 DEF IsRecursion
<1> QED
  BY <1>5 DEF IsReading, V

(* The head of a record: both pairs are there, and what is written then.   *)
HasHead(in, at) == HasPair(in, at) /\ HasPair(in, at + PairSize(in, at))
Opened(in, at, tags) ==
    LET second == at + PairSize(in, at)
    IN  [ok |-> TRUE, pos |-> second + PairSize(in, second),
         text |-> Opening(SecondOf(in, at).u % Byte, FirstOf(in, second).u, tags)]
TypesAt(in, at, fields) ==
    IF FirstOf(in, at).u \in DOMAIN fields THEN fields[FirstOf(in, at).u] ELSE <<>>

(* What the head of a record writes is of the tokens, ...                  *)
LEMMA OpeningTyped ==
    ASSUME NEW tags, NEW level \in Nat, NEW msg \in Nat
    PROVE  Opening(level, msg, tags) \in Seq(Letters(tags))
<1> DEFINE S == Letters(tags)
           open == Str("[")
           close == Str("]")
           name == IF level + 1 \in DOMAIN LevelNames THEN Str(LevelNames[level + 1]) ELSE <<>>
           tag == TagText(tags, msg)
<1>1. open \in Seq(S) /\ close \in Seq(S)
  <2>1. [text |-> "["] \in S /\ [text |-> "]"] \in S
    BY DEF Letters, Token, Strings
  <2> HIDE DEF S
  <2>2. <<[text |-> "["]>> \in Seq(S) /\ <<[text |-> "]"]>> \in Seq(S)
    BY <2>1, Single
  <2> QED
    BY <2>2, Zenon DEF Str
<1>2. name \in Seq(S)
  <2>1. CASE level + 1 \in DOMAIN LevelNames
    <3> DEFINE s == LevelNames[level + 1]
    <3>1. s \in Strings
      BY <2>1, Zenon DEF Strings
    <3> HIDE DEF s
    <3>2. [text |-> s] \in S
      BY <3>1 DEF Letters, Token
    <3>3. Str(s) \in Seq(S)
      BY <3>2, Single DEF Str
    <3> QED
      BY <2>1, <3>3 DEF s
  <2>2. CASE level + 1 \notin DOMAIN LevelNames
    BY <2>2
  <2> QED
    BY <2>1, <2>2
<1>3. tag \in Seq(S) /\ Space \in Seq(S)
  BY Texts
<1>4. Opening(level, msg, tags) = open \o name \o close \o Space \o tag
  BY Zenon DEF Opening
<1> HIDE DEF S, open, close, name, tag
<1>5. open \o name \in Seq(S)
  BY <1>1, <1>2
<1>6. open \o name \o close \in Seq(S)
  BY <1>1, <1>5
<1>7. open \o name \o close \o Space \in Seq(S)
  BY <1>3, <1>6
<1>8. open \o name \o close \o Space \o tag \in Seq(S)
  BY <1>3, <1>7
<1> QED
  BY <1>4, <1>8 DEF S

(* ... and so is what there is after it.                                   *)
LEMMA OpenedTyped ==
    ASSUME NEW tags, NEW in \in Seq(Bytes), NEW at \in 0..Len(in), HasHead(in, at)
    PROVE  Opened(in, at, tags) \in Cursors(in, Letters(tags)) /\ Opened(in, at, tags).pos >= at + 6
<1> DEFINE second == at + PairSize(in, at)
           end == second + PairSize(in, second)
           head == Opening(SecondOf(in, at).u % Byte, FirstOf(in, second).u, tags)
<1>1. second \in 0..Len(in) /\ PairSize(in, at) \in Nat /\ PairSize(in, at) >= 3 /\ SecondOf(in, at).u \in Nat
  BY PairTyped DEF HasHead
<1>2. end \in 0..Len(in) /\ PairSize(in, second) \in Nat /\ PairSize(in, second) >= 3 /\ FirstOf(in, second).u \in Nat
  BY <1>1, PairTyped DEF HasHead
<1>3. SecondOf(in, at).u % Byte \in Nat
  BY <1>1, Sizes
<1>4. head \in Seq(Letters(tags))
  BY <1>2, <1>3, OpeningTyped
<1>5. end >= at + 6
  <2>1. at \in Nat
    OBVIOUS
  <2> DEFINE x == PairSize(in, at)
             y == PairSize(in, second)
  <2>2. x \in Nat /\ y \in Nat /\ x >= 3 /\ y >= 3
    BY <1>1, <1>2
  <2> HIDE DEF x, y
  <2>3. (at + x) + y >= at + 6
    BY <2>1, <2>2
  <2> QED
    BY <2>3 DEF x, y
<1>6. Opened(in, at, tags) = [ok |-> TRUE, pos |-> end, text |-> head]
  BY Zenon DEF Opened
<1> HIDE DEF head, end
<1>7. [ok |-> TRUE, pos |-> end, text |-> head] \in Cursors(in, Letters(tags))
  BY <1>2, <1>4 DEF Cursors
<1> QED
  BY <1>5, <1>6, <1>7

(* The fields of a record are read from the opened one on.                 *)
IsRead(r, in, opened, types, tags) ==
    \E read \in [0..Len(types) -> Cursors(in, Letters(tags))] :
        /\ IsReading(read, opened, in, types, tags)
        /\ r = IF read[Len(types)].ok
               THEN [read[Len(types)] EXCEPT !.text = @ \o NewLine] ELSE read[Len(types)]

(* What format does.                                                       *)
LEMMA FormattedSteps ==
    ASSUME NEW tags, NEW fields,
           \A e \in DOMAIN fields : fields[e] \in Seq({"i", "f", "b", "s", "cs"}),
           NEW in \in Seq(Bytes), NEW at \in 0..Len(in), NEW r, r = Formatted(in, at, tags, fields)
    PROVE  /\ ~HasHead(in, at) => r = [ok |-> FALSE, pos |-> Len(in), text |-> <<>>]
           /\ HasHead(in, at) => IsRead(r, in, Opened(in, at, tags), TypesAt(in, at, fields), tags)
<1> DEFINE none == [ok |-> TRUE, pos |-> at, text |-> <<>>]
           second == at + PairSize(in, at)
           opened == [none EXCEPT !.pos = second + PairSize(in, second),
                        !.text = Opening(SecondOf(in, at).u % Byte, FirstOf(in, second).u, tags)]
           types == TypesAt(in, at, fields)
           read == CHOOSE g : g = [k \in 0..Len(types) |->
                      IF k = 0 THEN opened ELSE FieldRead(g[k - 1], in, types[k], tags)]
           last == read[Len(types)]
<1>1. r = IF ~HasPair(in, at) \/ ~HasPair(in, second) THEN Failed(none, in)
          ELSE IF last.ok THEN [last EXCEPT !.text = @ \o NewLine] ELSE last
  BY Zenon DEF Formatted, TypesAt
<1>2. opened = Opened(in, at, tags)
  <2> DEFINE p == second + PairSize(in, second)
             t == Opening(SecondOf(in, at).u % Byte, FirstOf(in, second).u, tags)
  <2>1. Opened(in, at, tags) = [ok |-> TRUE, pos |-> p, text |-> t]
    BY Zenon DEF Opened
  <2> HIDE DEF p, t
  <2>2. [none EXCEPT !.pos = p, !.text = t] = [ok |-> TRUE, pos |-> p, text |-> t]
    <3> DEFINE d == [none EXCEPT !.pos = p, !.text = t]
    <3>1. DOMAIN d = {"ok", "pos", "text"} /\ d.ok = TRUE /\ d.pos = p /\ d.text = t
      OBVIOUS
    <3>2. d = [x \in DOMAIN d |-> d[x]]
      OBVIOUS
    <3> HIDE DEF d
    <3>3. d = [ok |-> TRUE, pos |-> p, text |-> t]
      BY <3>1, <3>2
    <3> QED
      BY <3>3 DEF d
  <2> QED
    BY <2>1, <2>2 DEF p, t
<1>3. ~HasHead(in, at) => r = [ok |-> FALSE, pos |-> Len(in), text |-> <<>>]
  <2>1. Failed(none, in) = [ok |-> FALSE, pos |-> Len(in), text |-> <<>>]
    <3> DEFINE d == Failed(none, in)
    <3>1. DOMAIN d = {"ok", "pos", "text"} /\ d.ok = FALSE /\ d.pos = Len(in) /\ d.text = <<>>
      BY DEF Failed
    <3>2. d = [x \in DOMAIN d |-> d[x]]
      BY DEF Failed
    <3> HIDE DEF d
    <3>3. d = [ok |-> FALSE, pos |-> Len(in), text |-> <<>>]
      BY <3>1, <3>2
    <3> QED
      BY <3>3 DEF d
  <2> HIDE DEF none, last
  <2> QED
    BY <1>1, <2>1 DEF HasHead
<1>4. ASSUME HasHead(in, at)
      PROVE  IsRead(r, in, Opened(in, at, tags), types, tags)
  <2>1. types \in Seq({"i", "f", "b", "s", "cs"})
    BY DEF TypesAt
  <2>2. opened \in Cursors(in, Letters(tags))
    BY <1>2, <1>4, OpenedTyped
  <2> HIDE DEF opened, types
  <2>3. PICK f \in [0..Len(types) -> Cursors(in, Letters(tags))] : IsReading(f, opened, in, types, tags)
    BY <2>1, <2>2, ReadingExists
  <2>4. read = [k \in 0..Len(types) |->
                  IF k = 0 THEN opened ELSE FieldRead(read[k - 1], in, types[k], tags)]
    BY <2>3, Zenon DEF IsReading
  <2> HIDE DEF read
  <2>5. IsReading(read, opened, in, types, tags)
    BY <2>4, Zenon DEF IsReading
  <2>6. read \in [0..Len(types) -> Cursors(in, Letters(tags))]
    <3> DEFINE T == {k \in Nat : k <= Len(types) => read[k] \in Cursors(in, Letters(tags))}
    <3>1. Len(types) \in Nat
      BY <2>1
    <3>2. 0 \in T
      BY <2>2, <2>4, <3>1
    <3>3. ASSUME NEW k \in Nat, k \in T PROVE k + 1 \in T
      <4> SUFFICES ASSUME k + 1 <= Len(types) PROVE read[k + 1] \in Cursors(in, Letters(tags))
        OBVIOUS
      <4>1. k + 1 \in 0..Len(types) /\ k + 1 # 0 /\ (k + 1) - 1 = k /\ k <= Len(types)
        BY <3>1
      <4>2. read[k + 1] = FieldRead(read[k], in, types[k + 1], tags)
        BY <2>4, <4>1
      <4>3. read[k] \in Cursors(in, Letters(tags)) /\ types[k + 1] \in {"i", "f", "b", "s", "cs"}
        BY <2>1, <3>3, <4>1
      <4> QED
        BY <4>2, <4>3, FieldTyped
    <3> HIDE DEF T
    <3>4. Nat \subseteq T
      BY <3>2, <3>3, SetInduction
    <3>5. \A k \in 0..Len(types) : read[k] \in Cursors(in, Letters(tags))
      BY <3>1, <3>4 DEF T
    <3> QED
      BY <2>4, <3>5
  <2>7. r = IF last.ok THEN [last EXCEPT !.text = @ \o NewLine] ELSE last
    BY <1>1, <1>4 DEF HasHead
  <2> QED
    BY <1>2, <2>5, <2>6, <2>7 DEF IsRead
<1> QED
  BY <1>3, <1>4, Zenon

(* Whatever the stream holds: a record is at least six bytes of it.        *)
THEOREM FormattedTyped ==
    ASSUME NEW tags, NEW fields,
           \A e \in DOMAIN fields : fields[e] \in Seq({"i", "f", "b", "s", "cs"}),
           NEW in \in Seq(Bytes), NEW at \in 0..Len(in), NEW r, r = Formatted(in, at, tags, fields)
    PROVE  /\ r \in Cursors(in, Letters(tags)) /\ r.pos >= at
           /\ r.ok => r.pos >= at + 6
<1>1. CASE ~HasHead(in, at)
  <2>1. r = [ok |-> FALSE, pos |-> Len(in), text |-> <<>>]
    BY <1>1, FormattedSteps
  <2>2. <<>> \in Seq(Letters(tags)) /\ Len(in) \in Nat /\ at \in 0..Len(in)
    OBVIOUS
  <2> QED
    BY <2>1, <2>2 DEF Cursors
<1>2. CASE HasHead(in, at)
  <2> DEFINE types == TypesAt(in, at, fields)
             n == Len(types)
             S == Letters(tags)
  <2>1. types \in Seq({"i", "f", "b", "s", "cs"})
    BY DEF TypesAt
  <2>2. PICK read \in [0..n -> Cursors(in, S)] :
          /\ IsReading(read, Opened(in, at, tags), in, types, tags)
          /\ r = IF read[n].ok THEN [read[n] EXCEPT !.text = @ \o NewLine] ELSE read[n]
    <3>1. IsRead(r, in, Opened(in, at, tags), types, tags)
      BY <1>2, FormattedSteps
    <3> QED
      BY <3>1, Zenon DEF IsRead
  <2> HIDE DEF types
  <2>3. n \in Nat
    BY <2>1
  <2>4. Opened(in, at, tags).pos >= at + 6
    BY <1>2, OpenedTyped
  <2> DEFINE T == {k \in Nat : k <= n => read[k].pos >= at + 6}
  <2>5. 0 \in T
    BY <2>2, <2>3, <2>4 DEF IsReading
  <2>6. ASSUME NEW k \in Nat, k \in T PROVE k + 1 \in T
    <3> SUFFICES ASSUME k + 1 <= n PROVE read[k + 1].pos >= at + 6
      OBVIOUS
    <3>1. k + 1 \in 0..n /\ k + 1 # 0 /\ (k + 1) - 1 = k /\ k \in 0..n
      BY <2>3
    <3>2. read[k + 1] = FieldRead(read[k], in, types[k + 1], tags)
      BY <2>2, <3>1 DEF IsReading
    <3>3. read[k] \in Cursors(in, S) /\ read[k + 1] \in Cursors(in, S) /\ types[k + 1] \in {"i", "f", "b", "s", "cs"}
      BY <2>1, <3>1
    <3>4. read[k + 1].pos >= read[k].pos
      BY <3>2, <3>3, FieldTyped
    <3>5. read[k].pos >= at + 6
      BY <2>6, <3>1
    <3>6. read[k].pos \in Nat /\ read[k + 1].pos \in Nat /\ at \in Nat
      BY <3>3 DEF Cursors
    <3> DEFINE x == read[k].pos
               y == read[k + 1].pos
    <3>7. x \in Nat /\ y \in Nat /\ at \in Nat /\ y >= x /\ x >= at + 6
      BY <3>4, <3>5, <3>6
    <3> HIDE DEF x, y
    <3>8. y >= at + 6
      BY <3>7
    <3> QED
      BY <3>8 DEF y
  <2> HIDE DEF T
  <2>7. Nat \subseteq T
    BY <2>5, <2>6, SetInduction
  <2>8. read[n].pos >= at + 6 /\ read[n] \in Cursors(in, S)
    BY <2>3, <2>7 DEF T
  <2>9. r \in Cursors(in, S) /\ r.pos = read[n].pos
    <3> DEFINE c == read[n]
    <3>1. c = [ok |-> c.ok, pos |-> c.pos, text |-> c.text] /\ c.text \in Seq(S) /\ c.pos \in 0..Len(in) /\ c.ok \in BOOLEAN
      BY <2>8 DEF Cursors
    <3>2. r = IF c.ok THEN [c EXCEPT !.text = @ \o NewLine] ELSE c
      BY <2>2
    <3>3. NewLine \in Seq(S)
      BY Texts
    <3> HIDE DEF c, S
    <3>4. c.text \o NewLine \in Seq(S)
      BY <3>1, <3>3
    <3>5. CASE c.ok
      <4>1. r = [ok |-> c.ok, pos |-> c.pos, text |-> c.text \o NewLine]
        BY <3>1, <3>2, <3>5
      <4> QED
        BY <3>1, <3>4, <4>1 DEF Cursors, c
    <3>6. CASE ~c.ok
      BY <2>8, <3>2, <3>6 DEF c, S
    <3> QED
      BY <3>5, <3>6
  <2>10. r.pos >= at
    <3>1. r.pos \in Nat /\ at \in Nat
      BY <2>9 DEF Cursors
    <3> QED
      BY <2>8, <2>9, <3>1
  <2> QED
    BY <2>8, <2>9, <2>10
<1> QED
  BY <1>1, <1>2

-----------------------------------------------------------------------------
(* The pairs of a statement and their texts *)

Methods == {"i", "f", "b", "s", "cs"}
AnyField == Field("i") \cup Field("f") \cup Field("b") \cup Field("s") \cup Field("cs")

EventPair(ids, stmt) == [kind |-> "event", id |-> NextId(ids, 1), val |-> stmt.level]
MessagePair(ids, stmt) ==
    [kind |-> "i", id |-> NextId(ids, 2), name |-> stmt.msg, val |-> 0, valId |-> 0]

(* The pairs, one by one.                                                  *)
LEMMA PairsAt ==
    ASSUME NEW ids, NEW stmt, NEW n \in Nat, DOMAIN stmt.fields = 1..n
    PROVE  /\ DOMAIN Pairs(ids, stmt) = 1..(n + 2) /\ Len(Pairs(ids, stmt)) = n + 2
           /\ Pairs(ids, stmt)[1] = EventPair(ids, stmt) /\ Pairs(ids, stmt)[2] = MessagePair(ids, stmt)
           /\ \A k \in 1..n : Pairs(ids, stmt)[k + 2] = FieldPair(ids, stmt.fields, k)
<1> DEFINE a == EventPair(ids, stmt)
           b == MessagePair(ids, stmt)
           rest == [k \in DOMAIN stmt.fields |-> FieldPair(ids, stmt.fields, k)]
           S == {a, b} \cup {FieldPair(ids, stmt.fields, k) : k \in 1..n}
<1>1. rest \in Seq(S) /\ Len(rest) = n /\ \A k \in 1..n : rest[k] = FieldPair(ids, stmt.fields, k)
  OBVIOUS
<1>2. Pairs(ids, stmt) = <<a, b>> \o rest
  BY DEF Pairs, EventPair, MessagePair
<1>3. a \in S /\ b \in S
  OBVIOUS
<1> HIDE DEF a, b, rest, S
<1>4. <<a, b>> \in Seq(S) /\ Len(<<a, b>>) = 2 /\ <<a, b>>[1] = a /\ <<a, b>>[2] = b
  BY <1>3
<1> DEFINE head == <<a, b>>
           whole == head \o rest
<1>5. head \in Seq(S) /\ Len(head) = 2 /\ head[1] = a /\ head[2] = b
  BY <1>4
<1> HIDE DEF head
<1>6. whole \in Seq(S) /\ Len(whole) = 2 + n /\ whole[1] = head[1] /\ whole[2] = head[2]
      /\ \A k \in 1..n : whole[2 + k] = rest[k]
  <2>1. /\ whole \in Seq(S) /\ Len(whole) = Len(head) + Len(rest)
        /\ \A k \in 1..Len(head) : whole[k] = head[k]
        /\ \A k \in 1..Len(rest) : whole[Len(head) + k] = rest[k]
    <3>1. rest \in Seq(S) /\ head \in Seq(S)
      BY <1>1, <1>5
    <3>2. /\ head \o rest \in Seq(S) /\ Len(head \o rest) = Len(head) + Len(rest)
          /\ \A k \in 1..Len(head) : (head \o rest)[k] = head[k]
          /\ \A k \in 1..Len(rest) : (head \o rest)[Len(head) + k] = rest[k]
      BY <3>1, Joined
    <3> QED
      BY <3>2
  <2> HIDE DEF whole
  <2> QED
    BY <1>1, <1>5, <2>1
<1>7. whole = Pairs(ids, stmt)
  BY <1>2 DEF head
<1> HIDE DEF whole
<1>8. DOMAIN whole = 1..(n + 2) /\ Len(whole) = n + 2 /\ \A k \in 1..n : whole[k + 2] = rest[k]
  BY <1>6
<1> QED
  BY <1>1, <1>5, <1>6, <1>7, <1>8 DEF a, b

(* A statement whose values fit and whose ids are a word gives an encoder  *)
(* what it can take.                                                       *)
LEMMA PairsWell ==
    ASSUME NEW stmt, IsStatement(stmt), \A k \in DOMAIN stmt.fields : Fits(stmt.fields[k]),
           NEW ids, \A n \in Nat : NextId(ids, n) \in 0..(Word - 1)
    PROVE  /\ stmt.fields \in Seq(AnyField) /\ stmt.level \in 0..5
           /\ IsPair(EventPair(ids, stmt)) /\ IsPair(MessagePair(ids, stmt))
           /\ \A k \in DOMAIN stmt.fields :
                IsPair(FieldPair(ids, stmt.fields, k)) /\ stmt.fields[k].method \in Methods
<1>1. stmt.fields \in Seq(AnyField) /\ stmt.level \in 0..5
  BY DEF IsStatement, AnyField, Levels
<1>2. Word \in Nat /\ Word \div 2 \in Nat /\ 0..5 \subseteq (-(Word \div 2))..(Word - 1)
      /\ 0 \in (-(Word \div 2))..(Word - 1) /\ 0 \in 0..(Word - 1)
  <2>1. Byte * Byte >= 16 * 16
    BY Sizes
  <2> QED
    BY <2>1, WordSize, Sizes
<1>3. IsPair(EventPair(ids, stmt))
  <2>1. stmt.level \in (-(Word \div 2))..(Word - 1) /\ NextId(ids, 1) \in 0..(Word - 1)
    BY <1>1, <1>2
  <2> HIDE DEF NextId
  <2> QED
    BY <2>1 DEF IsPair, EventPair
<1>4. IsPair(MessagePair(ids, stmt))
  <2>1. NextId(ids, 2) \in 0..(Word - 1)
    OBVIOUS
  <2> QED
    BY <1>2, <2>1 DEF IsPair, MessagePair
<1>5. ASSUME NEW k \in DOMAIN stmt.fields
      PROVE  IsPair(FieldPair(ids, stmt.fields, k)) /\ stmt.fields[k].method \in Methods
  <2> DEFINE f == stmt.fields[k]
             at == Place(stmt.fields, k)
             p == FieldPair(ids, stmt.fields, k)
  <2>1. k \in Nat /\ f \in AnyField /\ Fits(f)
    BY <1>1
  <2>2. at \in Nat
    <3> DEFINE before == {j \in 1..(k - 1) : stmt.fields[j].method = "cs"}
    <3>1. IsFiniteSet(1..(k - 1))
      <4>1. 1 \in Int /\ k - 1 \in Int
        BY <2>1
      <4> QED
        BY <4>1, FS_Interval
    <3>2. IsFiniteSet(before)
      <4>1. before \subseteq 1..(k - 1)
        OBVIOUS
      <4> QED
        BY <3>1, <4>1, FS_Subset
    <3>3. Cardinality(before) \in Nat
      BY <3>2, FS_CardinalityType
    <3>4. at = 2 + k + Cardinality(before)
      BY DEF Place
    <3> HIDE DEF at, before
    <3> QED
      BY <2>1, <3>3, <3>4
  <2>3. p = [kind |-> f.method, id |-> NextId(ids, at), name |-> f.name, val |-> f.val,
             valId |-> IF f.method = "cs" THEN NextId(ids, at + 1) ELSE 0]
    BY DEF FieldPair
  <2>4. NextId(ids, at) \in 0..(Word - 1) /\ NextId(ids, at + 1) \in 0..(Word - 1)
    BY <2>2
  <2>12. /\ p.kind = f.method /\ p.id = NextId(ids, at) /\ p.val = f.val
         /\ p.valId = IF f.method = "cs" THEN NextId(ids, at + 1) ELSE 0
    BY <2>3
  <2> HIDE DEF f, at, p
  <2>5. f.method \in Methods
    BY <2>1 DEF AnyField, Field, Methods
  <2>6. ASSUME f.method = "i" PROVE IsPair(p)
    BY <2>1, <2>12, <2>4, <2>6 DEF Fits, IsPair
  <2>7. ASSUME f.method = "f" PROVE IsPair(p)
    <3>1. f.val \in Value("f")
      BY <2>1, <2>7 DEF AnyField, Field
    <3>2. f.val \in [width : Nat, bits : Nat]
      BY <3>1 DEF Value
    <3> QED
      BY <2>1, <2>12, <2>4, <2>7, <3>2 DEF Fits, IsPair
  <2>8. ASSUME f.method = "b" PROVE IsPair(p)
    <3>1. f.val \in Value("b")
      BY <2>1, <2>8 DEF AnyField, Field
    <3>2. f.val \in BOOLEAN
      BY <3>1 DEF Value
    <3> QED
      BY <2>12, <2>4, <2>8, <3>2 DEF IsPair
  <2>9. ASSUME f.method = "s" PROVE IsPair(p)
    BY <2>1, <2>12, <2>4, <2>9 DEF Fits, IsPair, Bytes
  <2>10. ASSUME f.method = "cs" PROVE IsPair(p)
    BY <2>12, <2>4, <2>10 DEF IsPair
  <2>11. IsPair(p)
    BY <2>5, <2>6, <2>7, <2>8, <2>9, <2>10 DEF Methods
  <2> QED
    BY <2>5, <2>11 DEF f, p
<1> QED
  BY <1>1, <1>3, <1>4, <1>5

(* The text of a line, pair by pair.                                       *)
LineTexts(ids, stmt, n) ==
    [k \in 1..(n + 2) |-> IF k = 1 THEN LevelText(stmt.level)
                          ELSE IF k = 2 THEN Str(stmt.msg)
                          ELSE FieldText(FieldPair(ids, stmt.fields, k - 2))]

(* The line is the texts of the pairs, joined.                             *)
LEMMA LineOfTexts ==
    ASSUME NEW ids, NEW stmt, stmt.fields \in Seq(AnyField), IsStatement(stmt)
    PROVE  Line(ids, Cut(stmt)) = FlattenSeq(LineTexts(ids, stmt, Len(stmt.fields))) \o NewLine
<1> DEFINE n == Len(stmt.fields)
           cut == Cut(stmt)
           pairs == Pairs(ids, cut)
<1>1. n \in Nat /\ DOMAIN stmt.fields = 1..n
  OBVIOUS
<1>2. /\ DOMAIN cut.fields = 1..n /\ cut.level = stmt.level /\ cut.msg = stmt.msg
      /\ \A k \in 1..n : cut.fields[k] = CutField(stmt.fields[k])
  <2>1. stmt = [level |-> stmt.level, msg |-> stmt.msg, fields |-> stmt.fields]
    BY DEF IsStatement
  <2> DEFINE new == [k \in DOMAIN stmt.fields |-> CutField(stmt.fields[k])]
  <2>2. cut = [stmt EXCEPT !.fields = new]
    BY Zenon DEF Cut
  <2>3. DOMAIN new = 1..n /\ \A k \in 1..n : new[k] = CutField(stmt.fields[k])
    BY <1>1
  <2> HIDE DEF cut, new
  <2>4. cut.fields = new /\ cut.level = stmt.level /\ cut.msg = stmt.msg
    BY <2>1, <2>2
  <2> QED
    BY <2>3, <2>4
<1> HIDE DEF cut
<1>3. /\ DOMAIN pairs = 1..(n + 2) /\ Len(pairs) = n + 2
      /\ pairs[1] = EventPair(ids, cut) /\ pairs[2] = MessagePair(ids, cut)
      /\ \A k \in 1..n : pairs[k + 2] = FieldPair(ids, cut.fields, k)
  <2>1. n \in Nat /\ DOMAIN cut.fields = 1..n
    BY <1>1, <1>2
  <2> HIDE DEF n
  <2>2. /\ DOMAIN Pairs(ids, cut) = 1..(n + 2) /\ Len(Pairs(ids, cut)) = n + 2
        /\ Pairs(ids, cut)[1] = EventPair(ids, cut) /\ Pairs(ids, cut)[2] = MessagePair(ids, cut)
        /\ \A k \in 1..n : Pairs(ids, cut)[k + 2] = FieldPair(ids, cut.fields, k)
    BY <2>1, PairsAt
  <2> QED
    BY <2>2
<1> HIDE DEF pairs
<1>4. PairText(0, pairs[1]) = LevelText(stmt.level)
  BY <1>2, <1>3 DEF PairText, EventPair
<1>5. PairText(1, pairs[2]) = Str(stmt.msg)
  BY <1>2, <1>3 DEF PairText, MessagePair
<1>6. ASSUME NEW k \in 1..n
      PROVE  PairText(k + 1, pairs[k + 2]) = FieldText(FieldPair(ids, stmt.fields, k))
  <2> DEFINE f == stmt.fields[k]
             g == cut.fields[k]
             p == FieldPair(ids, stmt.fields, k)
             q == FieldPair(ids, cut.fields, k)
  <2>1. f \in AnyField /\ k + 1 # 1
    BY <1>1
  <2>2. f.method \in Methods /\ DOMAIN f = {"method", "name", "val"}
    BY <2>1 DEF AnyField, Field, Methods
  <2>3. g = IF f.method = "s" THEN [f EXCEPT !.val = Kept(@)] ELSE f
    BY <1>2 DEF CutField
  <2>4. p.kind = f.method /\ p.name = f.name /\ p.val = f.val
    BY DEF FieldPair
  <2>5. q.kind = g.method /\ q.name = g.name /\ q.val = g.val
    BY DEF FieldPair
  <2> HIDE DEF f, g, p, q
  <2>6. g.method = f.method /\ g.name = f.name /\ g.val = IF f.method = "s" THEN Kept(f.val) ELSE f.val
    BY <2>2, <2>3
  <2>7. PairText(k + 1, q) = Space \o Str(q.name) \o Space \o ValueText(q)
    BY <2>1, <2>2, <2>5, <2>6 DEF PairText, Methods
  <2>8. ValueText(q) = FieldValue(p)
    <3>1. CASE f.method = "s"
      BY <2>4, <2>5, <2>6, <3>1 DEF ValueText, FieldValue
    <3>2. CASE f.method # "s"
      <4>1. q.kind = p.kind /\ q.val = p.val /\ p.kind # "s"
        BY <2>4, <2>5, <2>6, <3>2
      <4>2. ValueText(q) = ValueText(p)
        BY <4>1, Zenon DEF ValueText
      <4> QED
        BY <4>1, <4>2 DEF FieldValue
    <3> QED
      BY <3>1, <3>2
  <2>9. PairText(k + 1, q) = FieldText(p)
    BY <2>4, <2>5, <2>6, <2>7, <2>8 DEF FieldText
  <2> QED
    BY <1>3, <2>9 DEF p, q
<1> DEFINE index == [k \in DOMAIN pairs |-> k - 1]
           texts == [k \in DOMAIN pairs |-> PairText(index[k], pairs[k])]
<1>7. ASSUME NEW k \in 1..(n + 2) PROVE texts[k] = LineTexts(ids, stmt, n)[k]
  <2>1. texts[k] = PairText(k - 1, pairs[k])
    BY <1>3
  <2>2. CASE k = 1
    BY <1>1, <1>4, <2>1, <2>2 DEF LineTexts
  <2>3. CASE k = 2
    BY <1>1, <1>5, <2>1, <2>3 DEF LineTexts
  <2>4. CASE k > 2
    <3>1. k - 2 \in 1..n /\ (k - 2) + 1 = k - 1 /\ (k - 2) + 2 = k /\ k # 1 /\ k # 2
      BY <1>1, <2>4
    <3>2. PairText(k - 1, pairs[k]) = FieldText(FieldPair(ids, stmt.fields, k - 2))
      BY <1>6, <3>1
    <3> QED
      BY <2>1, <3>1, <3>2 DEF LineTexts
  <2> QED
    BY <1>1, <2>2, <2>3, <2>4
<1>8. texts = LineTexts(ids, stmt, n)
  BY <1>3, <1>7 DEF LineTexts
<1>9. Line(ids, cut) = FlattenSeq(texts) \o NewLine
  BY Zenon DEF Line, Due, Text, PairsText, pairs
<1> QED
  BY <1>8, <1>9 DEF cut

-----------------------------------------------------------------------------
(* One record is read back *)

(* The names and the field types that the formatter has are those of the   *)
(* statement.                                                              *)
Knows(ids, stmt, tags, fields) ==
    /\ TagText(tags, NextId(ids, 2)) = Str(stmt.msg)
    /\ \A k \in DOMAIN stmt.fields : Named(FieldPair(ids, stmt.fields, k), tags)
    /\ NextId(ids, 1) \in DOMAIN fields
    /\ fields[NextId(ids, 1)] = [k \in DOMAIN stmt.fields |-> stmt.fields[k].method]

IsRecord(ids, stmt) ==
    /\ IsStatement(stmt) /\ \A k \in DOMAIN stmt.fields : Fits(stmt.fields[k])
    /\ \A n \in Nat : NextId(ids, n) \in 0..(Word - 1)

(* The encoder's loop over the pairs. *)
RecordBytes(ids, stmt) == [k \in DOMAIN Pairs(ids, stmt) |-> EncodePair(Pairs(ids, stmt)[k])]

(* The bytes of a record are those of its pairs, joined.                   *)
LEMMA RecordTyped ==
    ASSUME NEW ids, NEW stmt, IsRecord(ids, stmt)
    PROVE  /\ Encoded(ids, stmt) = FlattenSeq(RecordBytes(ids, stmt))
           /\ RecordBytes(ids, stmt) \in Seq(Seq(Bytes))
           /\ Len(RecordBytes(ids, stmt)) = Len(stmt.fields) + 2
           /\ Encoded(ids, stmt) \in Seq(Bytes)
           /\ RecordBytes(ids, stmt)[1] = FixedPair(Unsigned(NextId(ids, 1)), Integer(stmt.level))
           /\ RecordBytes(ids, stmt)[2] = FixedPair(Unsigned(NextId(ids, 2)), Integer(0))
           /\ \A k \in 1..Len(stmt.fields) :
                RecordBytes(ids, stmt)[k + 2] = EncodePair(FieldPair(ids, stmt.fields, k))
<1> DEFINE n == Len(stmt.fields)
           p == Pairs(ids, stmt)
           bytes == RecordBytes(ids, stmt)
<1>1. /\ stmt.fields \in Seq(AnyField)
      /\ IsPair(EventPair(ids, stmt)) /\ IsPair(MessagePair(ids, stmt))
      /\ \A k \in DOMAIN stmt.fields : IsPair(FieldPair(ids, stmt.fields, k))
  BY PairsWell DEF IsRecord
<1>2. n \in Nat /\ DOMAIN stmt.fields = 1..n
  BY <1>1
<1>3. /\ DOMAIN p = 1..(n + 2) /\ p[1] = EventPair(ids, stmt) /\ p[2] = MessagePair(ids, stmt)
      /\ \A k \in 1..n : p[k + 2] = FieldPair(ids, stmt.fields, k)
  <2> HIDE DEF n
  <2> QED
    BY <1>2, PairsAt
<1>4. bytes = [k \in DOMAIN p |-> EncodePair(p[k])] /\ Encoded(ids, stmt) = FlattenSeq(bytes)
  BY Zenon DEF RecordBytes, Encoded
<1> HIDE DEF p, bytes, n
<1>5. ASSUME NEW k \in 1..(n + 2) PROVE EncodePair(p[k]) \in Seq(Bytes)
  <2>1. IsPair(p[k])
    <3>1. CASE k = 1
      BY <1>1, <1>3, <3>1
    <3>2. CASE k = 2
      BY <1>1, <1>3, <3>2
    <3>3. CASE k > 2
      <4>1. k - 2 \in 1..n /\ (k - 2) + 2 = k
        BY <1>2, <3>3
      <4>2. p[k] = FieldPair(ids, stmt.fields, k - 2)
        BY <1>3, <4>1
      <4> QED
        BY <1>1, <1>2, <4>1, <4>2
    <3> QED
      BY <1>2, <3>1, <3>2, <3>3
  <2> QED
    BY <2>1, PairBytes
<1>6. bytes \in Seq(Seq(Bytes)) /\ Len(bytes) = n + 2 /\ \A k \in 1..(n + 2) : bytes[k] = EncodePair(p[k])
  BY <1>2, <1>3, <1>4, <1>5
<1>7. FlattenSeq(bytes) \in Seq(Bytes)
  BY <1>6, FlattenType
<1>8. 1 \in 1..(n + 2) /\ 2 \in 1..(n + 2) /\ \A k \in 1..n : k + 2 \in 1..(n + 2)
  BY <1>2
<1>9. bytes[1] = EncodePair(EventPair(ids, stmt)) /\ bytes[2] = EncodePair(MessagePair(ids, stmt))
      /\ \A k \in 1..n : bytes[k + 2] = EncodePair(FieldPair(ids, stmt.fields, k))
  BY <1>3, <1>6, <1>8
<1>10. EncodePair(EventPair(ids, stmt)) = FixedPair(Unsigned(NextId(ids, 1)), Integer(stmt.level))
  BY DEF EncodePair, EventPair
<1>11. EncodePair(MessagePair(ids, stmt)) = FixedPair(Unsigned(NextId(ids, 2)), Integer(0))
  BY DEF EncodePair, MessagePair
<1> QED
  BY <1>4, <1>6, <1>7, <1>9, <1>10, <1>11 DEF bytes, n

(* The texts of a line are texts.                                          *)
LEMMA LineTyped ==
    ASSUME NEW ids, NEW stmt, IsRecord(ids, stmt), NEW tags, NEW fields, Knows(ids, stmt, tags, fields)
    PROVE  /\ LineTexts(ids, stmt, Len(stmt.fields)) \in Seq(Seq(Letters(tags)))
           /\ Len(LineTexts(ids, stmt, Len(stmt.fields))) = Len(stmt.fields) + 2
           /\ Opening(stmt.level, NextId(ids, 2), tags) = LevelText(stmt.level) \o Str(stmt.msg)
           /\ Line(ids, Cut(stmt)) \in Seq(Letters(tags))
<1> DEFINE n == Len(stmt.fields)
           S == Letters(tags)
           texts == LineTexts(ids, stmt, n)
           level == LevelText(stmt.level)
<1>1. /\ stmt.fields \in Seq(AnyField) /\ stmt.level \in 0..5
      /\ \A k \in DOMAIN stmt.fields :
           IsPair(FieldPair(ids, stmt.fields, k)) /\ stmt.fields[k].method \in Methods
  BY PairsWell DEF IsRecord
<1>2. n \in Nat /\ DOMAIN stmt.fields = 1..n
  BY <1>1
<1>3. NextId(ids, 2) \in Nat
  BY WordSize DEF IsRecord
<1>4. Str(stmt.msg) \in Seq(S)
  BY <1>3, Texts DEF Knows
<1>5. stmt.level + 1 \in DOMAIN LevelNames
  BY <1>1 DEF LevelNames
<1>6. level \in Seq(S) /\ Opening(stmt.level, NextId(ids, 2), tags) = level \o Str(stmt.msg)
  <2> DEFINE name == LevelNames[stmt.level + 1]
             s == Str(name)
             open == Str("[")
             close == Str("]")
  <2>1. Opening(stmt.level, NextId(ids, 2), tags) = open \o s \o close \o Space \o Str(stmt.msg)
    BY <1>5 DEF Opening, Knows
  <2>2. level = open \o s \o close \o Space
    BY Zenon DEF LevelText
  <2>3. open \in Seq(S) /\ close \in Seq(S)
    <3>1. [text |-> "["] \in S /\ [text |-> "]"] \in S
      BY DEF Letters, Token, Strings
    <3> HIDE DEF S
    <3>2. <<[text |-> "["]>> \in Seq(S) /\ <<[text |-> "]"]>> \in Seq(S)
      BY <3>1, Single
    <3> QED
      BY <3>2, Zenon DEF Str
  <2>4. s \in Seq(S)
    <3>1. name \in Strings
      BY <1>5, Zenon DEF Strings
    <3> HIDE DEF name
    <3>2. [text |-> name] \in S
      BY <3>1 DEF Letters, Token
    <3> QED
      BY <3>2, Single DEF Str
  <2>5. Space \in Seq(S)
    BY Texts
  <2> HIDE DEF s, open, close, S, level
  <2>6. open \o s \in Seq(S)
    BY <2>3, <2>4
  <2>7. open \o s \o close \in Seq(S)
    BY <2>3, <2>6
  <2>8. level \in Seq(S)
    BY <2>2, <2>5, <2>7
  <2> QED
    BY <2>1, <2>2, <2>8
<1>7. \A k \in 1..n : FieldText(FieldPair(ids, stmt.fields, k)) \in Seq(S)
  <2> SUFFICES ASSUME NEW k \in 1..n PROVE FieldText(FieldPair(ids, stmt.fields, k)) \in Seq(S)
    OBVIOUS
  <2> DEFINE p == FieldPair(ids, stmt.fields, k)
  <2>1. IsPair(p) /\ Named(p, tags) /\ p.kind = stmt.fields[k].method /\ stmt.fields[k].method \in Methods
    BY <1>1, <1>2 DEF Knows, FieldPair
  <2> HIDE DEF p
  <2>2. p.kind \in {"i", "f", "b", "s", "cs"}
    BY <2>1 DEF Methods
  <2>3. FieldText(p) \in Seq(S)
    BY <2>1, <2>2, FieldTextTyped
  <2> QED
    BY <2>3 DEF p
<1> HIDE DEF level, S
<1>8. ASSUME NEW k \in 1..(n + 2) PROVE texts[k] \in Seq(S)
  <2>1. CASE k = 1
    BY <1>2, <1>6, <2>1 DEF LineTexts, level
  <2>2. CASE k = 2
    BY <1>2, <1>4, <2>2 DEF LineTexts
  <2>3. CASE k > 2
    <3>1. k - 2 \in 1..n /\ k # 1 /\ k # 2
      BY <1>2, <2>3
    <3>2. texts[k] = FieldText(FieldPair(ids, stmt.fields, k - 2))
      BY <3>1 DEF LineTexts
    <3> QED
      BY <1>7, <3>1, <3>2
  <2> QED
    BY <1>2, <2>1, <2>2, <2>3
<1>9. texts \in Seq(Seq(S)) /\ Len(texts) = n + 2
  <2>1. DOMAIN texts = 1..(n + 2) /\ texts = [k \in 1..(n + 2) |-> texts[k]]
    BY DEF LineTexts
  <2> HIDE DEF texts
  <2> QED
    BY <1>2, <1>8, <2>1
<1>10. Line(ids, Cut(stmt)) \in Seq(S)
  <2>1. Line(ids, Cut(stmt)) = FlattenSeq(texts) \o NewLine
    BY <1>1, LineOfTexts DEF IsRecord
  <2>2. FlattenSeq(texts) \in Seq(S)
    BY <1>9, FlattenType
  <2>3. NewLine \in Seq(S)
    BY Texts DEF S
  <2> HIDE DEF texts
  <2> QED
    BY <2>1, <2>2, <2>3
<1> QED
  BY <1>6, <1>9, <1>10 DEF level, S

(* The first two texts, joined.                                            *)
LEMMA FlattenTwo ==
    ASSUME NEW S, NEW seqs \in Seq(Seq(S)), Len(seqs) >= 2
    PROVE  /\ FlattenSeq(Part(seqs, 1)) = seqs[1] /\ FlattenSeq(Part(seqs, 2)) = seqs[1] \o seqs[2]
           /\ seqs[1] \in Seq(S) /\ seqs[2] \in Seq(S)
<1> DEFINE all(n) == FlattenSeq(Part(seqs, n))
<1>1. \A n, m \in 0..Len(seqs) : m = n + 1 => all(m) = all(n) \o seqs[m]
  <2> SUFFICES ASSUME NEW n \in 0..Len(seqs), NEW m \in 0..Len(seqs), m = n + 1
               PROVE  all(m) = all(n) \o seqs[m]
    OBVIOUS
  <2>1. n < Len(seqs)
    OBVIOUS
  <2> QED
    BY <2>1, FlattenParts
<1>2. all(0) = <<>>
  <2>1. 0 \in 0..Len(seqs)
    OBVIOUS
  <2> QED
    BY <2>1, FlattenParts
<1>3. seqs[1] \in Seq(S) /\ seqs[2] \in Seq(S) /\ 0 \in 0..Len(seqs) /\ 1 \in 0..Len(seqs) /\ 2 \in 0..Len(seqs)
  OBVIOUS
<1> HIDE DEF all
<1>4. all(1) = all(0) \o seqs[1] /\ all(2) = all(1) \o seqs[2]
  BY <1>1, <1>3
<1>5. <<>> \o seqs[1] = seqs[1]
  BY <1>3
<1>6. all(1) = seqs[1] /\ all(2) = seqs[1] \o seqs[2]
  BY <1>2, <1>4, <1>5
<1> QED
  BY <1>3, <1>6 DEF all

(* The head takes size bytes, and what is written then is this.            *)
HeadRead(in, at, tags, fields, stmt, size, head) ==
    /\ HasHead(in, at) <=> at + size <= Len(in)
    /\ HasHead(in, at) =>
         /\ Opened(in, at, tags) = [ok |-> TRUE, pos |-> at + size, text |-> head]
         /\ TypesAt(in, at, fields) = [k \in DOMAIN stmt.fields |-> stmt.fields[k].method]

(* The head of a record that was written is read as its level and message. *)
LEMMA HeadReads ==
    ASSUME NEW ids, NEW stmt, IsRecord(ids, stmt), NEW tags, NEW fields, Knows(ids, stmt, tags, fields),
           NEW in \in Seq(Bytes), NEW at \in 0..Len(in), Agrees(in, at, Encoded(ids, stmt)),
           NEW bytes, bytes = RecordBytes(ids, stmt),
           NEW texts, texts = LineTexts(ids, stmt, Len(stmt.fields)),
           NEW size, size = Len(FlattenSeq(Part(bytes, 2)))
    PROVE  HeadRead(in, at, tags, fields, stmt, size, FlattenSeq(Part(texts, 2)))
<1> DEFINE n == Len(stmt.fields)
           S == Letters(tags)
           id1 == NextId(ids, 1)
           id2 == NextId(ids, 2)
           a == Unsigned(id1)
           b == Integer(stmt.level)
           c == Unsigned(id2)
           d == Integer(0)
           one == FixedPair(a, b)
           two == FixedPair(c, d)
<1>1. /\ Encoded(ids, stmt) = FlattenSeq(bytes) /\ bytes \in Seq(Seq(Bytes)) /\ Len(bytes) = n + 2
      /\ bytes[1] = one /\ bytes[2] = two
  BY RecordTyped
<1>2. /\ texts \in Seq(Seq(S)) /\ Len(texts) = n + 2
      /\ Opening(stmt.level, id2, tags) = LevelText(stmt.level) \o Str(stmt.msg)
  BY LineTyped
<1>3. stmt.level \in 0..5 /\ stmt.fields \in Seq(AnyField)
  BY PairsWell DEF IsRecord
<1>4. n \in Nat
  BY <1>3
<1>5. Prepared(a) /\ a.u = id1 /\ Prepared(c) /\ c.u = id2
  <2>1. id1 \in 0..(Word - 1) /\ id2 \in 0..(Word - 1)
    BY DEF IsRecord
  <2> HIDE DEF id1, id2
  <2> QED
    BY <2>1, UnsignedPrepared
<1>6. Prepared(b) /\ b.u = stmt.level /\ Prepared(d)
  <2>1. Byte * Byte >= 16 * 16
    BY Sizes
  <2>2. 0 \in 0..(Word - 1) /\ stmt.level \in 0..(Word - 1) /\ ~(stmt.level < 0) /\ ~(0 < 0)
    BY <1>3, <2>1, WordSize, Sizes
  <2>3. b = Unsigned(stmt.level) /\ d = Unsigned(0)
    BY <2>2 DEF Integer
  <2> QED
    BY <2>2, <2>3, UnsignedPrepared
<1> HIDE DEF a, b, c, d, n, S
<1>7. one \in Seq(Bytes) /\ two \in Seq(Bytes)
  BY <1>5, <1>6, FixedBytes
<1> DEFINE s1 == Len(one)
           s2 == Len(two)
<1>8. s1 \in Nat /\ s2 \in Nat /\ at \in Nat /\ Len(in) \in Nat
  BY <1>7
<1>9. /\ FlattenSeq(Part(bytes, 1)) = one /\ FlattenSeq(Part(bytes, 2)) = one \o two
      /\ size = s1 + s2
  <2>1. Len(bytes) >= 2
    BY <1>1, <1>4
  <2> HIDE DEF one, two
  <2>4. FlattenSeq(Part(bytes, 1)) = one /\ FlattenSeq(Part(bytes, 2)) = one \o two
    BY <1>1, <2>1, FlattenTwo
  <2>5. Len(one \o two) = s1 + s2
    BY <1>7, Joined
  <2> QED
    BY <2>4, <2>5
<1>10. Agrees(in, at, one) /\ Agrees(in, at + s1, two)
  <2>1. 0 \in 0..Len(bytes) /\ 1 \in 0..Len(bytes) /\ 0 < Len(bytes) /\ 1 < Len(bytes)
    BY <1>1, <1>4
  <2>2. Agrees(in, at, FlattenSeq(bytes))
    BY <1>1
  <2>3. Agrees(in, at, FlattenSeq(Part(bytes, 1))) /\ Agrees(in, at + Len(FlattenSeq(Part(bytes, 1))), bytes[1 + 1])
    BY <1>1, <1>8, <2>1, <2>2, AgreesParts
  <2> QED
    BY <1>1, <1>9, <2>3
<1>11. FlattenSeq(Part(texts, 2)) = Opening(stmt.level, id2, tags)
  <2>1. Len(texts) >= 2
    BY <1>2, <1>4
  <2>2. FlattenSeq(Part(texts, 2)) = texts[1] \o texts[2]
    BY <1>2, <2>1, FlattenTwo
  <2>3. texts[1] = LevelText(stmt.level) /\ texts[2] = Str(stmt.msg)
    BY <1>4 DEF LineTexts, n
  <2> QED
    BY <1>2, <2>2, <2>3
<1> HIDE DEF one, two, id1, id2, s1, s2
<1>12. /\ HasPair(in, at) <=> at + s1 <= Len(in)
       /\ HasPair(in, at) =>
            PairSize(in, at) = s1 /\ FirstOf(in, at).u = id1 /\ SecondOf(in, at).u = stmt.level
  <2>1. /\ HasPair(in, at) <=> at + s1 <= Len(in)
        /\ HasPair(in, at) => PairSize(in, at) = s1
        /\ HasPair(in, at) => FirstOf(in, at) = [neg |-> a.neg, width |-> a.width, u |-> a.u]
        /\ HasPair(in, at) => SecondOf(in, at) = [neg |-> b.neg, width |-> b.width, u |-> b.u]
    BY <1>5, <1>6, <1>10, FixedRead DEF s1, one
  <2> QED
    BY <1>5, <1>6, <2>1
<1>13. ASSUME HasPair(in, at)
       PROVE  /\ HasPair(in, at + s1) <=> (at + s1) + s2 <= Len(in)
              /\ HasPair(in, at + s1) => PairSize(in, at + s1) = s2 /\ FirstOf(in, at + s1).u = id2
  <2> DEFINE second == at + s1
  <2>1. second \in 0..Len(in) /\ Agrees(in, second, two)
    BY <1>8, <1>10, <1>12, <1>13
  <2> HIDE DEF second
  <2>2. /\ HasPair(in, second) <=> second + s2 <= Len(in)
        /\ HasPair(in, second) => PairSize(in, second) = s2
        /\ HasPair(in, second) => FirstOf(in, second) = [neg |-> c.neg, width |-> c.width, u |-> c.u]
    <3>1. Prepared(c) /\ Prepared(d) /\ s2 = Len(FixedPair(c, d)) /\ Agrees(in, second, FixedPair(c, d))
      BY <1>5, <1>6, <2>1 DEF s2, two
    <3> QED
      BY <2>1, <3>1, FixedRead
  <2>3. HasPair(in, second) => FirstOf(in, second).u = id2
    BY <1>5, <2>2
  <2> QED
    BY <2>2, <2>3 DEF second
<1>14. HasHead(in, at) <=> at + size <= Len(in)
  <2>1. at + size = (at + s1) + s2
    <3>1. size = s1 + s2
      BY <1>9
    <3> QED
      BY <1>8, <3>1
  <2>2. CASE HasPair(in, at)
    BY <1>12, <1>13, <2>1, <2>2 DEF HasHead
  <2>3. CASE ~HasPair(in, at)
    BY <1>8, <1>12, <2>1, <2>3 DEF HasHead
  <2> QED
    BY <2>2, <2>3
<1>15. ASSUME HasHead(in, at)
       PROVE  /\ Opened(in, at, tags) = [ok |-> TRUE, pos |-> at + size, text |-> FlattenSeq(Part(texts, 2))]
              /\ TypesAt(in, at, fields) = [k \in DOMAIN stmt.fields |-> stmt.fields[k].method]
  <2>1. /\ PairSize(in, at) = s1 /\ FirstOf(in, at).u = id1 /\ SecondOf(in, at).u = stmt.level
        /\ HasPair(in, at)
    BY <1>12, <1>15 DEF HasHead
  <2>2. PairSize(in, at + s1) = s2 /\ FirstOf(in, at + s1).u = id2
    BY <1>13, <1>15, <2>1 DEF HasHead
  <2>3. stmt.level % Byte = stmt.level
    <3>1. \A l \in 0..5 : l % Byte = l
      BY Sizes
    <3> QED
      BY <1>3, <3>1
  <2>4. Opened(in, at, tags) = [ok |-> TRUE, pos |-> (at + s1) + s2, text |-> Opening(stmt.level, id2, tags)]
    BY <2>1, <2>2, <2>3 DEF Opened
  <2>5. (at + s1) + s2 = at + size
    BY <1>8, <1>9, SMTT(30)
  <2>6. TypesAt(in, at, fields) = [k \in DOMAIN stmt.fields |-> stmt.fields[k].method]
    BY <2>1 DEF TypesAt, Knows, id1
  <2> QED
    BY <1>11, <2>4, <2>5, <2>6
<1> QED
  BY <1>14, <1>15 DEF HeadRead

(* A record that is wholly in the stream comes out as the line that the    *)
(* text encoder would have written, and of one that is not a prefix does.  *)
THEOREM FormattedReads ==
    ASSUME NEW ids, NEW stmt, IsRecord(ids, stmt), NEW tags, NEW fields, Knows(ids, stmt, tags, fields),
           \A e \in DOMAIN fields : fields[e] \in Seq(Methods),
           NEW in \in Seq(Bytes), NEW at \in 0..Len(in), Agrees(in, at, Encoded(ids, stmt))
    PROVE  Reads(Formatted(in, at, tags, fields), in, at + Len(Encoded(ids, stmt)),
                 Line(ids, Cut(stmt)), Letters(tags))
<1> DEFINE n == Len(stmt.fields)
           S == Letters(tags)
           bytes == RecordBytes(ids, stmt)
           texts == LineTexts(ids, stmt, n)
           some(k) == FlattenSeq(Part(bytes, k))
           read(k) == FlattenSeq(Part(texts, k))
           size(k) == Len(some(k))
           r == Formatted(in, at, tags, fields)
           opened == Opened(in, at, tags)
           types == TypesAt(in, at, fields)
           line == Line(ids, Cut(stmt))
           end == at + Len(Encoded(ids, stmt))
<1>1. /\ stmt.fields \in Seq(AnyField) /\ IsStatement(stmt)
      /\ \A k \in DOMAIN stmt.fields :
           IsPair(FieldPair(ids, stmt.fields, k)) /\ stmt.fields[k].method \in Methods
  BY PairsWell DEF IsRecord
<1>2. n \in Nat /\ DOMAIN stmt.fields = 1..n /\ at \in Nat /\ Len(in) \in Nat
  BY <1>1
<1>3. /\ Encoded(ids, stmt) = FlattenSeq(bytes) /\ bytes \in Seq(Seq(Bytes)) /\ Len(bytes) = n + 2
      /\ \A k \in 1..n : bytes[k + 2] = EncodePair(FieldPair(ids, stmt.fields, k))
  BY RecordTyped
<1>4. /\ texts \in Seq(Seq(S)) /\ Len(texts) = n + 2 /\ line \in Seq(S)
      /\ line = FlattenSeq(texts) \o NewLine
  BY <1>1, LineTyped, LineOfTexts
<1>5. \A k \in 1..n : texts[k + 2] = FieldText(FieldPair(ids, stmt.fields, k))
  <2> SUFFICES ASSUME NEW k \in 1..n PROVE texts[k + 2] = FieldText(FieldPair(ids, stmt.fields, k))
    OBVIOUS
  <2>1. k + 2 \in 1..(n + 2) /\ k + 2 # 1 /\ k + 2 # 2 /\ (k + 2) - 2 = k
    BY <1>2
  <2> QED
    BY <2>1 DEF LineTexts
<1>6. /\ HasHead(in, at) <=> at + size(2) <= Len(in)
      /\ HasHead(in, at) =>
           /\ opened = [ok |-> TRUE, pos |-> at + size(2), text |-> read(2)]
           /\ types = [k \in DOMAIN stmt.fields |-> stmt.fields[k].method]
  <2> DEFINE head == size(2)
  <2>1. /\ bytes = RecordBytes(ids, stmt) /\ texts = LineTexts(ids, stmt, Len(stmt.fields))
        /\ head = Len(FlattenSeq(Part(bytes, 2)))
    OBVIOUS
  <2> HIDE DEF bytes, texts, head
  <2>2. HeadRead(in, at, tags, fields, stmt, head, FlattenSeq(Part(texts, 2)))
    BY <2>1, HeadReads
  <2> QED
    BY <2>2 DEF head, HeadRead
<1>7. /\ ~HasHead(in, at) => r = [ok |-> FALSE, pos |-> Len(in), text |-> <<>>]
      /\ HasHead(in, at) => IsRead(r, in, opened, types, tags)
  BY FormattedSteps DEF Methods
<1>8. r \in Cursors(in, S)
  BY FormattedTyped DEF Methods
<1> HIDE DEF r, opened, types, line, bytes, texts, n, S
<1>9. ASSUME NEW k \in 0..(n + 2)
      PROVE  /\ some(k) \in Seq(Bytes) /\ size(k) \in Nat /\ read(k) \in Seq(S)
             /\ size(k) <= Len(Encoded(ids, stmt))
             /\ k = n + 2 => some(k) = Encoded(ids, stmt) /\ read(k) = FlattenSeq(texts)
             /\ k < n + 2 =>
                  /\ bytes[k + 1] \in Seq(Bytes) /\ texts[k + 1] \in Seq(S)
                  /\ some(k + 1) = some(k) \o bytes[k + 1] /\ read(k + 1) = read(k) \o texts[k + 1]
                  /\ Agrees(in, at + size(k), bytes[k + 1])
  <2>1. k \in 0..Len(bytes) /\ k \in 0..Len(texts)
    BY <1>3, <1>4
  <2>2. /\ some(k) \in Seq(Bytes)
        /\ k = Len(bytes) => Part(bytes, k) = bytes
        /\ k < Len(bytes) => some(k + 1) = some(k) \o bytes[k + 1]
    BY <1>3, <2>1, FlattenParts
  <2>3. /\ read(k) \in Seq(S)
        /\ k = Len(texts) => Part(texts, k) = texts
        /\ k < Len(texts) => read(k + 1) = read(k) \o texts[k + 1]
    BY <1>4, <2>1, FlattenParts
  <2>4. /\ size(k) <= Len(FlattenSeq(bytes))
        /\ k < Len(bytes) => Agrees(in, at + size(k), bytes[k + 1])
    BY <1>2, <1>3, <2>1, AgreesParts
  <2>5. size(k) \in Nat
    BY <2>2
  <2>6. k < n + 2 => bytes[k + 1] \in Seq(Bytes) /\ texts[k + 1] \in Seq(S)
    BY <1>2, <1>3, <1>4
  <2> HIDE DEF some, read
  <2>7. k = n + 2 => some(k) = Encoded(ids, stmt) /\ read(k) = FlattenSeq(texts)
    BY <1>3, <1>4, <2>2, <2>3 DEF some, read
  <2> QED
    BY <1>3, <1>4, <2>2, <2>3, <2>4, <2>5, <2>6, <2>7
<1>10. Len(Encoded(ids, stmt)) \in Nat
  <2>1. Encoded(ids, stmt) \in Seq(Bytes)
    BY RecordTyped
  <2> QED
    BY <2>1
<1>11. end \in Nat /\ 2 \in 0..(n + 2) /\ n + 2 \in 0..(n + 2) /\ at + size(2) <= end
  <2>1. 2 \in 0..(n + 2) /\ n + 2 \in 0..(n + 2)
    BY <1>2
  <2>2. size(2) \in Nat /\ size(2) <= Len(Encoded(ids, stmt))
    BY <1>9, <2>1
  <2> HIDE DEF size
  <2> QED
    BY <1>2, <1>10, <2>1, <2>2
<1> HIDE DEF some, read, size, end
<1>12. CASE ~HasHead(in, at)
  <2>1. end > Len(in)
    <3>1. ~(at + size(2) <= Len(in)) /\ size(2) \in Nat
      BY <1>6, <1>9, <1>11, <1>12
    <3> QED
      BY <1>2, <1>11, <3>1
  <2>2. ~r.ok /\ r.pos = Len(in) /\ r.text = <<>>
    BY <1>7, <1>12
  <2>3. IsPrefix(<<>>, line)
    <3>1. <<>> \in Seq(S) /\ Len(<<>>) = 0
      OBVIOUS
    <3>2. Len(<<>>) <= Len(line) /\ \A i \in 1..Len(<<>>) : <<>>[i] = line[i]
      BY <1>4, <3>1
    <3> QED
      BY <1>4, <3>1, <3>2, PrefixElements
  <2>4. Reads(r, in, end, line, S)
    BY <1>2, <1>8, <1>11, <2>1, <2>2, <2>3 DEF Reads
  <2> QED
    BY <2>4 DEF r, end, line, S
<1>13. CASE HasHead(in, at)
  <2>1. opened = [ok |-> TRUE, pos |-> at + size(2), text |-> read(2)] /\ at + size(2) <= Len(in)
    BY <1>6, <1>13
  <2>2. DOMAIN types = 1..n /\ \A k \in 1..n : types[k] = stmt.fields[k].method /\ types[k] \in Methods
    BY <1>1, <1>2, <1>6, <1>13
  <2>3. Len(types) = n
    <3>1. types = [k \in 1..n |-> types[k]]
      BY <1>2, <1>6, <1>13
    <3>2. types \in Seq(Methods)
      BY <1>2, <2>2, <3>1
    <3> QED
      BY <1>2, <2>2, <3>2
  <2>4. PICK g \in [0..n -> Cursors(in, S)] :
          /\ IsReading(g, opened, in, types, tags)
          /\ r = IF g[n].ok THEN [g[n] EXCEPT !.text = @ \o NewLine] ELSE g[n]
    <3>1. IsRead(r, in, opened, types, tags)
      BY <1>7, <1>13
    <3> QED
      BY <2>3, <3>1, Zenon DEF IsRead, S
  <2>5. g[0] = opened /\ \A k \in 1..n : g[k] = FieldRead(g[k - 1], in, types[k], tags)
    <3>1. g = [k \in 0..n |-> IF k = 0 THEN opened ELSE FieldRead(g[k - 1], in, types[k], tags)]
      BY <2>3, <2>4 DEF IsReading
    <3>2. 0 \in 0..n /\ \A k \in 1..n : k \in 0..n /\ k # 0
      BY <1>2
    <3>3. g[0] = opened
      BY <3>1, <3>2, Zenon
    <3>4. ASSUME NEW k \in 1..n PROVE g[k] = FieldRead(g[k - 1], in, types[k], tags)
      BY <3>1, <3>2, Zenon
    <3> QED
      BY <3>3, <3>4
  <2> DEFINE good(k) == Reads(g[k], in, at + size(k + 2), read(k + 2), S)
             T == {k \in Nat : k <= n => good(k)}
  <2>6. 0 \in T
    <3>1. g[0] \in Cursors(in, S) /\ g[0].ok /\ g[0].pos = at + size(2) /\ g[0].text = read(2)
      <4>1. 0 \in 0..n
        BY <1>2
      <4>2. g[0] \in Cursors(in, S)
        BY <2>4, <4>1
      <4> QED
        BY <2>1, <2>5, <4>2
    <3>2. size(2) \in Nat
      BY <1>9, <1>11
    <3>3. Reads(g[0], in, at + size(2), read(2), S)
      BY <1>2, <2>1, <3>1, <3>2 DEF Reads
    <3> QED
      BY <3>3
  <2>7. ASSUME NEW k \in Nat, k \in T PROVE k + 1 \in T
    <3> SUFFICES ASSUME k + 1 <= n PROVE good(k + 1)
      OBVIOUS
    <3> DEFINE p == FieldPair(ids, stmt.fields, k + 1)
               c == g[k]
               d == g[k + 1]
               i == k + 2
               from == at + size(i)
    <3>1. k + 1 \in 1..n /\ (k + 1) - 1 = k /\ k \in 0..n /\ k <= n /\ i \in 0..(n + 2) /\ i < n + 2
          /\ i + 1 \in 0..(n + 2) /\ i + 1 = (k + 1) + 2
      BY <1>2
    <3>2. Reads(c, in, from, read(i), S)
      BY <2>7, <3>1
    <3>3. d = FieldRead(c, in, types[k + 1], tags) /\ c \in Cursors(in, S) /\ d \in Cursors(in, S)
      BY <1>2, <2>4, <2>5, <3>1
    <3>4. IsPair(p) /\ Named(p, tags) /\ p.kind = types[k + 1] /\ p.kind \in {"i", "f", "b", "s", "cs"}
      BY <1>1, <1>2, <2>2, <3>1 DEF Knows, FieldPair, Methods
    <3> HIDE DEF p, c, d, i
    <3>5. bytes[i + 1] = EncodePair(p) /\ texts[i + 1] = FieldText(p)
      <4>1. i + 1 = (k + 1) + 2
        BY <3>1
      <4> QED
        BY <1>3, <1>5, <3>1, <4>1 DEF p
    <3>6. /\ size(i) \in Nat /\ read(i) \in Seq(S) /\ some(i) \in Seq(Bytes)
          /\ bytes[i + 1] \in Seq(Bytes) /\ texts[i + 1] \in Seq(S)
          /\ some(i + 1) = some(i) \o bytes[i + 1] /\ read(i + 1) = read(i) \o texts[i + 1]
          /\ Agrees(in, at + size(i), bytes[i + 1])
      BY <1>9, <3>1
    <3>7. size(i + 1) = size(i) + Len(EncodePair(p)) /\ Len(EncodePair(p)) \in Nat
      <4>1. Len(some(i) \o bytes[i + 1]) = Len(some(i)) + Len(bytes[i + 1]) /\ Len(bytes[i + 1]) \in Nat
        BY <3>6, Joined
      <4> QED
        BY <3>5, <3>6, <4>1 DEF size
    <3>8. Reads(d, in, at + size(i + 1), read(i + 1), S)
      <4> DEFINE len == Len(EncodePair(p))
                 to == at + size(i + 1)
      <4>1. from \in Nat /\ len \in Nat /\ to = from + len
        <5>1. \A x, y, z \in Nat : x + (y + z) = (x + y) + z
          OBVIOUS
        <5> QED
          BY <1>2, <3>6, <3>7, <5>1
      <4> HIDE DEF from, to, len
      <4>2. CASE from <= Len(in)
        <5>1. c.ok /\ c.pos = from /\ c.text = read(i)
          BY <3>2, <4>2 DEF Reads
        <5>2. Agrees(in, c.pos, EncodePair(p))
          BY <3>5, <3>6, <5>1 DEF from
        <5>3. Reads(FieldRead(c, in, p.kind, tags), in, c.pos + len, c.text \o FieldText(p), S)
          BY <3>3, <3>4, <5>1, <5>2, FieldReads DEF S, len
        <5>4. FieldRead(c, in, p.kind, tags) = d /\ c.pos + len = to /\ c.text \o FieldText(p) = read(i + 1)
          BY <3>3, <3>4, <3>5, <3>6, <4>1, <5>1
        <5> QED
          BY <5>3, <5>4 DEF to
      <4>3. CASE ~(from <= Len(in))
        <5>1. ~c.ok /\ c.pos = Len(in) /\ IsPrefix(c.text, read(i))
          BY <1>2, <3>2, <4>1, <4>3 DEF Reads
        <5>2. d = c
          BY <3>3, <5>1 DEF FieldRead
        <5>3. IsPrefix(c.text, read(i + 1))
          <6>1. c.text \in Seq(S)
            BY <3>3 DEF Cursors
          <6> QED
            BY <3>6, <5>1, <6>1, PrefixAppended
        <5>4. to > Len(in)
          BY <1>2, <4>1, <4>3
        <5>5. Reads(d, in, to, read(i + 1), S)
          BY <1>2, <3>3, <4>1, <5>1, <5>2, <5>3, <5>4 DEF Reads
        <5> QED
          BY <5>5 DEF to
      <4> QED
        BY <4>2, <4>3
    <3>9. Reads(d, in, at + size((k + 1) + 2), read((k + 1) + 2), S)
      <4>1. i + 1 = (k + 1) + 2
        BY <3>1
      <4> QED
        BY <3>8, <4>1
    <3> QED
      BY <3>9 DEF d
  <2> HIDE DEF T
  <2>8. Nat \subseteq T
    BY <2>6, <2>7, SetInduction
  <2> DEFINE c == g[n]
  <2>9. Reads(c, in, end, FlattenSeq(texts), S) /\ c \in Cursors(in, S)
    <3>1. Reads(g[n], in, at + size(n + 2), read(n + 2), S)
      BY <1>2, <2>8 DEF T
    <3>2. some(n + 2) = Encoded(ids, stmt) /\ read(n + 2) = FlattenSeq(texts)
      BY <1>9, <1>11
    <3>3. at + size(n + 2) = end
      BY <3>2 DEF size, end
    <3>4. c \in Cursors(in, S)
      BY <1>2, <2>4
    <3> QED
      BY <3>1, <3>2, <3>3, <3>4
  <2>10. c = [ok |-> c.ok, pos |-> c.pos, text |-> c.text] /\ c.text \in Seq(S)
    BY <2>9 DEF Cursors
  <2>11. r = IF c.ok THEN [c EXCEPT !.text = @ \o NewLine] ELSE c
    BY <2>4
  <2> HIDE DEF c
  <2>12. Reads(r, in, end, line, S)
    <3>1. CASE end <= Len(in)
      <4>1. c.ok /\ c.pos = end /\ c.text = FlattenSeq(texts)
        BY <2>9, <3>1 DEF Reads
      <4>2. r = [ok |-> c.ok, pos |-> c.pos, text |-> c.text \o NewLine]
        BY <2>10, <2>11, <4>1
      <4>3. r.ok /\ r.pos = end /\ r.text = line
        BY <1>4, <4>1, <4>2
      <4>4. ~(end > Len(in))
        BY <1>2, <1>11, <3>1
      <4> QED
        BY <1>8, <4>3, <4>4 DEF Reads
    <3>2. CASE ~(end <= Len(in))
      <4>1. end > Len(in)
        BY <1>2, <1>11, <3>2
      <4>2. ~c.ok /\ c.pos = Len(in) /\ IsPrefix(c.text, FlattenSeq(texts))
        BY <2>9, <4>1 DEF Reads
      <4>3. r = c
        BY <2>11, <4>2
      <4>4. IsPrefix(c.text, line)
        <5>1. FlattenSeq(texts) \in Seq(S)
          BY <1>4, FlattenType
        <5>2. NewLine \in Seq(S)
          BY Texts DEF S
        <5> QED
          BY <1>4, <2>10, <4>2, <5>1, <5>2, PrefixAppended
      <4> QED
        BY <1>8, <3>2, <4>2, <4>3, <4>4 DEF Reads
    <3> QED
      BY <3>1, <3>2
  <2> QED
    BY <2>12 DEF r, end, line, S
<1> QED
  BY <1>12, <1>13

-----------------------------------------------------------------------------
(* The chain of a statement *)

Links == [method : Methods \cup {"cs_val"} \cup {Starters[l] : l \in DOMAIN Starters}, tag : STRING]

TypesOf(ch) == [k \in DOMAIN ch |-> IF ch[k].method \in FieldMethods THEN <<ch[k].method>> ELSE <<>>]

(* The field types of a chain, ...                                         *)
LEMMA FieldsTyped ==
    ASSUME NEW ch \in Seq(Links)
    PROVE  TypesOf(ch) \in Seq(Seq(Methods)) /\ Fields(ch) \in Seq(Methods) /\ Fields(ch) = FlattenSeq(TypesOf(ch))
<1>1. FieldMethods = Methods
  BY DEF FieldMethods, Methods
<1> HIDE DEF Methods
<1>2. (\A m \in Methods : <<m>> \in Seq(Methods)) /\ <<>> \in Seq(Methods)
  OBVIOUS
<1>3. ASSUME NEW k \in 1..Len(ch) PROVE TypesOf(ch)[k] \in Seq(Methods)
  <2>1. k \in DOMAIN ch
    OBVIOUS
  <2> QED
    BY <1>1, <1>2, <2>1 DEF TypesOf
<1>4. DOMAIN ch = 1..Len(ch) /\ Len(ch) \in Nat
  OBVIOUS
<1>5. TypesOf(ch) = [k \in 1..Len(ch) |-> TypesOf(ch)[k]]
  BY <1>4 DEF TypesOf
<1>6. TypesOf(ch) \in Seq(Seq(Methods))
  BY <1>3, <1>4, <1>5
<1>7. Fields(ch) = FlattenSeq(TypesOf(ch))
  BY Zenon DEF Fields, TypesOf
<1> QED
  BY <1>6, <1>7, FlattenType

(* ... and with one more link.                                             *)
LEMMA FieldsAppend ==
    ASSUME NEW ch \in Seq(Links), NEW l \in Links
    PROVE  /\ Fields(ch) \in Seq(Methods)
           /\ Fields(Append(ch, l)) =
                IF l.method \in Methods THEN Append(Fields(ch), l.method) ELSE Fields(ch)
<1> DEFINE more == IF l.method \in Methods THEN <<l.method>> ELSE <<>>
<1>1. Append(ch, l) \in Seq(Links)
  OBVIOUS
<1>2. /\ TypesOf(ch) \in Seq(Seq(Methods)) /\ Fields(ch) \in Seq(Methods)
      /\ Fields(ch) = FlattenSeq(TypesOf(ch)) /\ Fields(Append(ch, l)) = FlattenSeq(TypesOf(Append(ch, l)))
  BY <1>1, FieldsTyped
<1>3. TypesOf(Append(ch, l)) = Append(TypesOf(ch), more)
  BY DEF TypesOf, FieldMethods, Methods
<1> HIDE DEF Methods
<1>4. more \in Seq(Methods)
  OBVIOUS
<1> HIDE DEF more
<1>5. Fields(Append(ch, l)) = Fields(ch) \o more
  BY <1>2, <1>3, <1>4, FlattenAppend
<1>6. CASE l.method \in Methods
  BY <1>2, <1>5, <1>6 DEF more
<1>7. CASE l.method \notin Methods
  BY <1>2, <1>5, <1>7 DEF more
<1> QED
  BY <1>2, <1>6, <1>7

(* Each cs before a field takes one place more.                            *)
LEMMA PlaceSteps ==
    ASSUME NEW fields, NEW k \in Nat
    PROVE  /\ Place(fields, 1) = 3
           /\ Place(fields, k + 1) \in Nat /\ Place(fields, k + 1) >= k + 3
           /\ Place(fields, (k + 1) + 1) =
                Place(fields, k + 1) + (IF fields[k + 1].method = "cs" THEN 2 ELSE 1)
<1> DEFINE T(m) == {j \in 1..(m - 1) : fields[j].method = "cs"}
<1>1. \A m \in Nat : IsFiniteSet(T(m)) /\ Cardinality(T(m)) \in Nat
  <2> SUFFICES ASSUME NEW m \in Nat PROVE IsFiniteSet(T(m)) /\ Cardinality(T(m)) \in Nat
    OBVIOUS
  <2>1. IsFiniteSet(1..(m - 1))
    BY FS_Interval
  <2>2. IsFiniteSet(T(m))
    BY <2>1, FS_Subset
  <2> QED
    BY <2>2, FS_CardinalityType
<1>2. T(1) = {}
  OBVIOUS
<1>3. T((k + 1) + 1) = IF fields[k + 1].method = "cs" THEN T(k + 1) \cup {k + 1} ELSE T(k + 1)
  OBVIOUS
<1>4. k + 1 \notin T(k + 1)
  OBVIOUS
<1>5. \A m : Place(fields, m) = 2 + m + Cardinality(T(m))
  BY Zenon DEF Place
<1> HIDE DEF T
<1>6. Cardinality(T(1)) = 0
  BY <1>2, FS_EmptySet
<1>7. Cardinality(T((k + 1) + 1)) = Cardinality(T(k + 1)) + (IF fields[k + 1].method = "cs" THEN 1 ELSE 0)
  <2>1. k + 1 \in Nat
    OBVIOUS
  <2>2. IsFiniteSet(T(k + 1)) /\ Cardinality(T(k + 1)) \in Nat
    BY <1>1, <2>1
  <2>3. Cardinality(T(k + 1) \cup {k + 1}) = Cardinality(T(k + 1)) + 1
    BY <1>4, <2>2, FS_AddElement
  <2> QED
    BY <1>3, <2>2, <2>3
<1>8. k + 1 \in Nat /\ Cardinality(T(k + 1)) \in Nat
  BY <1>1
<1> QED
  BY <1>5, <1>6, <1>7, <1>8

(* The links of field k stand where its ids do, less the event's.          *)
LinkAt(ch, fields, k) ==
    /\ Place(fields, k) - 1 \in 1..Len(ch) /\ ch[Place(fields, k) - 1].tag = fields[k].name
    /\ fields[k].method = "cs" => Place(fields, k) \in 1..Len(ch) /\ ch[Place(fields, k)].tag = fields[k].val

(* With one more link the others stay where they are.                      *)
LEMMA LinkStays ==
    ASSUME NEW ch \in Seq(Links), NEW l \in Links, NEW fields, NEW k, LinkAt(ch, fields, k)
    PROVE  LinkAt(Append(ch, l), fields, k)
<1>1. Len(Append(ch, l)) = Len(ch) + 1 /\ \A i \in 1..Len(ch) : Append(ch, l)[i] = ch[i] /\ i \in 1..(Len(ch) + 1)
  OBVIOUS
<1> QED
  BY <1>1 DEF LinkAt

(* The chain of a statement has the types of its fields, and its names.    *)
LEMMA ChainTyped ==
    ASSUME NEW stmt, IsStatement(stmt)
    PROVE  /\ ChainOf(stmt) \in Seq(Links) /\ Len(ChainOf(stmt)) >= 1 /\ ChainOf(stmt)[1].tag = stmt.msg
           /\ Fields(ChainOf(stmt)) = [k \in DOMAIN stmt.fields |-> stmt.fields[k].method]
           /\ \A k \in DOMAIN stmt.fields : LinkAt(ChainOf(stmt), stmt.fields, k)
<1> DEFINE fields == stmt.fields
           n == Len(fields)
           start == [method |-> Starters[stmt.level + 1], tag |-> stmt.msg]
           calls == [k \in DOMAIN fields |-> FieldCalls(fields[k])]
           ch(k) == <<start>> \o FlattenSeq(Part(calls, k))
           good(k) == /\ ch(k) \in Seq(Links) /\ Len(ch(k)) = Place(fields, k + 1) - 2 /\ ch(k)[1].tag = stmt.msg
                      /\ Fields(ch(k)) = [j \in 1..k |-> fields[j].method]
                      /\ \A j \in 1..k : LinkAt(ch(k), fields, j)
           T == {k \in Nat : k <= n => good(k)}
<1>1. fields \in Seq(AnyField) /\ stmt.level \in 0..5 /\ stmt.msg \in STRING
  BY DEF IsStatement, AnyField, Levels
<1>2. n \in Nat /\ DOMAIN fields = 1..n
  BY <1>1
<1>3. ASSUME NEW k \in 1..n
      PROVE  /\ FieldCalls(fields[k]) \in Seq(Links)
             /\ fields[k].method = "cs" =>
                  \E a, b \in Links : /\ FieldCalls(fields[k]) = <<a, b>>
                                      /\ a.tag = fields[k].name /\ b.tag = fields[k].val
                                      /\ a.method = "cs" /\ b.method = "cs_val"
             /\ fields[k].method # "cs" =>
                  \E a \in Links : /\ FieldCalls(fields[k]) = <<a>> /\ a.tag = fields[k].name
                                   /\ a.method = fields[k].method /\ a.method \in Methods
  <2> DEFINE f == fields[k]
             a == [method |-> f.method, tag |-> f.name]
             b == [method |-> "cs_val", tag |-> f.val]
  <2>1. f \in AnyField
    BY <1>1
  <2> HIDE DEF f
  <2>2. f.method \in Methods /\ f.name \in STRING /\ (f.method = "cs" => f.val \in STRING)
    BY <2>1 DEF AnyField, Field, Methods, Value
  <2>3. a \in Links /\ (f.method = "cs" => b \in Links)
    BY <2>2 DEF Links
  <2>4. FieldCalls(f) = IF f.method = "cs" THEN <<a, b>> ELSE <<a>>
    BY DEF FieldCalls
  <2>5. a.method = f.method /\ a.tag = f.name /\ b.method = "cs_val" /\ b.tag = f.val
    OBVIOUS
  <2> HIDE DEF a, b, Links
  <2>6. FieldCalls(f) \in Seq(Links)
    BY <2>3, <2>4
  <2>7. CASE f.method = "cs"
    BY <2>3, <2>4, <2>5, <2>6, <2>7, Zenon DEF f
  <2>8. CASE f.method # "cs"
    BY <2>2, <2>3, <2>4, <2>5, <2>6, <2>8, Zenon DEF f
  <2> QED
    BY <2>7, <2>8
<1>4. calls \in Seq(Seq(Links)) /\ Len(calls) = n /\ \A k \in 1..n : calls[k] = FieldCalls(fields[k])
  <2>1. calls = [k \in 1..n |-> FieldCalls(fields[k])]
    BY <1>2
  <2> HIDE DEF calls, fields, n, Links
  <2> QED
    BY <1>2, <1>3, <2>1
<1>5. start \in Links /\ start.tag = stmt.msg /\ start.method \notin Methods
  <2>1. stmt.level + 1 \in DOMAIN Starters /\ Starters[stmt.level + 1] \notin Methods
    BY <1>1 DEF Starters, Methods
  <2> QED
    BY <1>1, <2>1 DEF Links
<1>6. ChainOf(stmt) = <<start>> \o FlattenSeq(calls)
  BY Zenon DEF ChainOf
<1> HIDE DEF start, calls, fields, n, Links
<1>7. <<start>> \in Seq(Links) /\ Len(<<start>>) = 1 /\ <<start>>[1] = start
  BY <1>5, Single
<1>8. ch(0) = <<start>> /\ ch(n) = ChainOf(stmt)
  <2>1. 0 \in 0..Len(calls) /\ n \in 0..Len(calls)
    BY <1>2, <1>4
  <2>2. FlattenSeq(Part(calls, 0)) = <<>> /\ Part(calls, n) = calls
    BY <1>4, <2>1, FlattenParts
  <2>3. <<start>> \o <<>> = <<start>>
    BY <1>7
  <2> QED
    BY <1>6, <2>2, <2>3
<1>9. ASSUME NEW k \in Nat, k + 1 <= n
      PROVE  ch(k + 1) = ch(k) \o FieldCalls(fields[k + 1])
  <2>1. k \in 0..Len(calls) /\ k < Len(calls) /\ k + 1 \in 1..n
    <3>1. n \in Nat /\ Len(calls) = n
      BY <1>2, <1>4
    <3> QED
      BY <1>9, <3>1
  <2> DEFINE some == FlattenSeq(Part(calls, k))
             next == FieldCalls(fields[k + 1])
  <2>2. FlattenSeq(Part(calls, k + 1)) = some \o next /\ some \in Seq(Links) /\ next \in Seq(Links)
    <3>1. calls[k + 1] = FieldCalls(fields[k + 1]) /\ FieldCalls(fields[k + 1]) \in Seq(Links)
      BY <1>3, <1>4, <2>1
    <3>2. some \in Seq(Links) /\ FlattenSeq(Part(calls, k + 1)) = some \o calls[k + 1]
      BY <1>4, <2>1, FlattenParts
    <3> QED
      BY <3>1, <3>2
  <2> HIDE DEF some, next
  <2>3. <<start>> \o (some \o next) = (<<start>> \o some) \o next
    BY <1>7, <2>2
  <2> QED
    BY <2>2, <2>3 DEF some, next
<1> HIDE DEF ch
<1>10. 0 \in T
  <2>1. Place(fields, 1) = 3
    BY PlaceSteps
  <2>2. Fields(<<start>>) = <<>>
    <3>1. <<>> \in Seq(Links) /\ Append(<<>>, start) = <<start>>
      OBVIOUS
    <3>2. Fields(<<start>>) = Fields(<<>>)
      BY <1>5, <3>1, FieldsAppend
    <3>3. Fields(<<>>) = <<>>
      <4> DEFINE none == [j \in DOMAIN <<>> |-> IF <<>>[j].method \in FieldMethods THEN <<<<>>[j].method>> ELSE <<>>]
      <4>1. none = <<>>
        OBVIOUS
      <4>2. Fields(<<>>) = FlattenSeq(none)
        BY Zenon DEF Fields
      <4>3. <<>> \in Seq(Seq(Links))
        OBVIOUS
      <4> QED
        BY <4>1, <4>2, <4>3, FlattenType
    <3> QED
      BY <3>2, <3>3
  <2>3. [j \in 1..0 |-> fields[j].method] = <<>>
    OBVIOUS
  <2>4. Place(fields, 0 + 1) = 3
    BY <2>1
  <2>5. good(0)
    <3>1. ch(0) \in Seq(Links) /\ Len(ch(0)) = Place(fields, 0 + 1) - 2 /\ ch(0)[1].tag = stmt.msg
      <4>1. ch(0) \in Seq(Links) /\ Len(ch(0)) = 1 /\ ch(0)[1] = start
        BY <1>7, <1>8
      <4>2. ch(0)[1].tag = stmt.msg
        BY <1>5, <4>1
      <4>3. Place(fields, 0 + 1) - 2 = 1
        BY <2>4
      <4> QED
        BY <4>1, <4>2, <4>3
    <3>2. Fields(ch(0)) = [j \in 1..0 |-> fields[j].method]
      BY <1>8, <2>2, <2>3
    <3>3. \A j \in 1..0 : LinkAt(ch(0), fields, j)
      OBVIOUS
    <3> QED
      BY <3>1, <3>2, <3>3
  <2> QED
    BY <2>5
<1>11. ASSUME NEW k \in Nat, k \in T PROVE k + 1 \in T
  <2> SUFFICES ASSUME k + 1 <= n PROVE good(k + 1)
    OBVIOUS
  <2> DEFINE c == ch(k)
             d == ch(k + 1)
             f == fields[k + 1]
             types(i) == [j \in 1..i |-> fields[j].method]
  <2>1. good(k) /\ k + 1 \in 1..n
    BY <1>2, <1>11
  <2>2. c \in Seq(Links) /\ Len(c) = Place(fields, k + 1) - 2 /\ Fields(c) = types(k)
        /\ \A j \in 1..k : LinkAt(c, fields, j)
    BY <2>1
  <2>3. Len(c) >= 1 /\ Len(c) \in Nat /\ Place(fields, k + 1) = Len(c) + 2
    BY <2>2, PlaceSteps
  <2>4. d = c \o FieldCalls(f)
    BY <1>9
  <2>5. f.method \in Methods => Append(types(k), f.method) = types(k + 1)
    <3> SUFFICES ASSUME f.method \in Methods PROVE Append(types(k), f.method) = types(k + 1)
      OBVIOUS
    <3>1. types(k) \in Seq(Methods) /\ Len(types(k)) = k /\ \A j \in 1..k : types(k)[j] = fields[j].method
      BY <2>2, FieldsAppend, <1>5
    <3> QED
      BY <3>1
  <2>6. Place(fields, (k + 1) + 1) = Place(fields, k + 1) + (IF f.method = "cs" THEN 2 ELSE 1)
    BY PlaceSteps
  <2> HIDE DEF c, d, f, types
  <2>7. CASE f.method = "cs"
    <3>1. PICK a \in Links, b \in Links :
            FieldCalls(f) = <<a, b>> /\ a.tag = f.name /\ b.tag = f.val /\ a.method = "cs" /\ b.method = "cs_val"
      BY <1>3, <2>1, <2>7 DEF f
    <3> DEFINE e == Append(c, a)
    <3>2. d = Append(e, b)
      BY <2>2, <2>4, <3>1
    <3>3. e \in Seq(Links) /\ Len(e) = Len(c) + 1 /\ e[Len(c) + 1] = a /\ e[1] = c[1]
      BY <2>2, <2>3
    <3>4. Fields(e) = types(k + 1)
      <4>1. a.method \in Methods /\ a.method = f.method
        BY <2>7, <3>1 DEF Methods
      <4> QED
        BY <2>2, <2>5, <4>1, FieldsAppend
    <3>5. \A j \in 1..k : LinkAt(e, fields, j)
      BY <2>2, LinkStays
    <3> HIDE DEF e
    <3>6. d \in Seq(Links) /\ Len(d) = Len(e) + 1 /\ d[Len(e) + 1] = b /\ d[1] = e[1] /\ d[Len(c) + 1] = e[Len(c) + 1]
      BY <2>3, <3>2, <3>3
    <3>7. Fields(d) = types(k + 1)
      <4>1. b.method \notin Methods
        BY <3>1 DEF Methods
      <4> QED
        BY <3>2, <3>3, <3>4, <4>1, FieldsAppend
    <3>8. \A j \in 1..k : LinkAt(d, fields, j)
      BY <3>2, <3>3, <3>5, LinkStays
    <3>9. LinkAt(d, fields, k + 1)
      <4>1. Place(fields, k + 1) - 1 = Len(c) + 1 /\ Place(fields, k + 1) = Len(e) + 1 /\ Len(d) = Len(c) + 2
        BY <2>3, <3>3, <3>6
      <4>2. Len(c) + 1 \in 1..Len(d) /\ Len(e) + 1 \in 1..Len(d)
        BY <2>3, <3>3, <4>1
      <4> QED
        BY <3>1, <3>3, <3>6, <4>1, <4>2 DEF LinkAt, f
    <3>10. \A j \in 1..(k + 1) : LinkAt(d, fields, j)
      <4>1. \A j \in 1..(k + 1) : j \in 1..k \/ j = k + 1
        OBVIOUS
      <4> QED
        BY <3>8, <3>9, <4>1
    <3>11. Len(d) = Place(fields, (k + 1) + 1) - 2
      BY <2>3, <2>6, <2>7, <3>3, <3>6
    <3> QED
      BY <2>1, <3>3, <3>6, <3>7, <3>10, <3>11 DEF c, d, types
  <2>8. CASE f.method # "cs"
    <3>1. PICK a \in Links :
            FieldCalls(f) = <<a>> /\ a.tag = f.name /\ a.method = f.method /\ a.method \in Methods
      BY <1>3, <2>1, <2>8 DEF f
    <3>2. d = Append(c, a)
      BY <2>2, <2>4, <3>1
    <3>3. d \in Seq(Links) /\ Len(d) = Len(c) + 1 /\ d[Len(c) + 1] = a /\ d[1] = c[1]
      BY <2>2, <2>3, <3>2
    <3>4. Fields(d) = types(k + 1)
      BY <2>2, <2>5, <3>1, <3>2, FieldsAppend
    <3>5. \A j \in 1..k : LinkAt(d, fields, j)
      BY <2>2, <3>2, LinkStays
    <3>6. LinkAt(d, fields, k + 1)
      <4>1. Place(fields, k + 1) - 1 = Len(c) + 1 /\ Len(c) + 1 \in 1..Len(d)
        BY <2>3, <3>3
      <4> QED
        BY <2>8, <3>1, <3>3, <4>1 DEF LinkAt, f
    <3>7. \A j \in 1..(k + 1) : LinkAt(d, fields, j)
      <4>1. \A j \in 1..(k + 1) : j \in 1..k \/ j = k + 1
        OBVIOUS
      <4> QED
        BY <3>5, <3>6, <4>1
    <3>8. Len(d) = Place(fields, (k + 1) + 1) - 2
      BY <2>3, <2>6, <2>8, <3>3
    <3> QED
      BY <2>1, <3>3, <3>4, <3>7, <3>8 DEF c, d, types
  <2> QED
    BY <2>7, <2>8
<1> HIDE DEF T
<1>12. Nat \subseteq T
  BY <1>10, <1>11, SetInduction
<1>13. good(n)
  BY <1>2, <1>12 DEF T
<1>14. Len(ch(n)) >= 1
  BY <1>2, <1>13, PlaceSteps
<1>15. 1..n = DOMAIN stmt.fields
  BY <1>2 DEF fields
<1> QED
  BY <1>8, <1>13, <1>14, <1>15 DEF fields

(* A schema that describes sources knows each statement in them.           *)
LEMMA CallKnown ==
    ASSUME NEW doc, NEW files, InSync(doc, files), NEW call \in AllCalls(files), call.ids \in Seq(Int),
           NEW stmt, IsStatement(stmt), call.chain = ChainOf(stmt),
           \A k \in DOMAIN call.chain : call.chain[k].tag # NoName
    PROVE  Knows(call.ids, stmt, doc.tags, doc.events)
<1> DEFINE ids == call.ids
           ch == call.chain
           fields == stmt.fields
<1>1. /\ ch \in Seq(Links) /\ Len(ch) >= 1 /\ ch[1].tag = stmt.msg
      /\ Fields(ch) = [k \in DOMAIN fields |-> fields[k].method]
      /\ \A k \in DOMAIN fields : LinkAt(ch, fields, k)
  BY ChainTyped
<1>2. /\ Len(ids) = 1 + Len(ch)
      /\ doc.events[ids[1]] = Fields(ch)
      /\ \A k \in DOMAIN ch : ids[k + 1] \in DOMAIN doc.tags /\ doc.tags[ids[k + 1]] = ch[k].tag
  BY DEF InSync
<1>3. ids \in Seq(Int) /\ DOMAIN ch = 1..Len(ch) /\ Len(ch) \in Nat
  BY <1>1
<1>4. ids[1] \in DOMAIN doc.events
  <2>1. ids # <<>>
    BY <1>1, <1>2, <1>3
  <2> QED
    BY <2>1 DEF InSync, EventIds
<1> HIDE DEF ids, ch, fields
<1>5. DOMAIN ids = 1..(1 + Len(ch))
  BY <1>2, <1>3
<1>6. ASSUME NEW k \in 1..Len(ch) PROVE TagText(doc.tags, NextId(ids, k + 1)) = Str(ch[k].tag)
  <2>1. k + 1 \in DOMAIN ids /\ k \in DOMAIN ch
    BY <1>3, <1>5
  <2> QED
    BY <1>2, <2>1 DEF NextId, TagText
<1>7. NextId(ids, 1) = ids[1]
  <2>1. 1 \in DOMAIN ids
    BY <1>3, <1>5
  <2> QED
    BY <2>1 DEF NextId
<1>8. TagText(doc.tags, NextId(ids, 2)) = Str(stmt.msg)
  <2>1. 1 \in 1..Len(ch) /\ 1 + 1 = 2
    BY <1>1, <1>3
  <2>2. TagText(doc.tags, NextId(ids, 1 + 1)) = Str(ch[1].tag)
    BY <1>6, <2>1
  <2> QED
    BY <1>1, <2>1, <2>2
<1>9. ASSUME NEW k \in DOMAIN fields PROVE Named(FieldPair(ids, fields, k), doc.tags)
  <2> DEFINE p == FieldPair(ids, fields, k)
             at == Place(fields, k)
  <2>1. /\ at - 1 \in 1..Len(ch) /\ ch[at - 1].tag = fields[k].name
        /\ fields[k].method = "cs" => at \in 1..Len(ch) /\ ch[at].tag = fields[k].val
    BY <1>1 DEF LinkAt
  <2>2. /\ p.kind = fields[k].method /\ p.id = NextId(ids, at) /\ p.name = fields[k].name /\ p.val = fields[k].val
        /\ p.kind = "cs" => p.valId = NextId(ids, at + 1)
    BY DEF FieldPair
  <2>3. at \in Int
    <3>1. \A x \in DOMAIN fields : x \in Nat
      BY DEF fields, IsStatement
    <3>2. k \in Nat
      BY <3>1
    <3> DEFINE T == {j \in 1..(k - 1) : fields[j].method = "cs"}
    <3>3. IsFiniteSet(1..(k - 1))
      BY <3>2, FS_Interval
    <3>4. IsFiniteSet(T)
      BY <3>3, FS_Subset
    <3>5. Cardinality(T) \in Nat
      BY <3>4, FS_CardinalityType
    <3>6. at = 2 + k + Cardinality(T)
      BY Zenon DEF Place
    <3> HIDE DEF T, at
    <3> QED
      BY <3>2, <3>5, <3>6
  <2> HIDE DEF p, at
  <2>4. (at - 1) + 1 = at
    BY <2>3
  <2>5. TagText(doc.tags, p.id) = Str(p.name)
    BY <1>6, <2>1, <2>2, <2>4
  <2>6. p.kind = "cs" => TagText(doc.tags, p.valId) = Str(p.val)
    BY <1>6, <2>1, <2>2
  <2> QED
    BY <2>5, <2>6 DEF Named, p
<1> QED
  BY <1>1, <1>2, <1>4, <1>7, <1>8, <1>9 DEF Knows, ids, ch, fields

-----------------------------------------------------------------------------
(* The versions and what the preprocessor makes of them *)

Calls == CallSet(Seq(Links))
Document(v) == BuildSchema(Compiled[v].schema)

(* The versions are sequences of statements, whose chains are sequences.   *)
LEMMA SiteTyped ==
    /\ Len(Versions) \in Nat /\ DOMAIN Versions = 1..Len(Versions)
    /\ \A v \in DOMAIN Versions :
        /\ Len(Versions[v]) \in Nat /\ DOMAIN Versions[v] = 1..Len(Versions[v])
        /\ \A k \in DOMAIN Versions[v] :
            /\ IsSite(v, Versions[v][k])
            /\ Chain(Versions[v][k]) \in Seq(Links) /\ Len(Chain(Versions[v][k])) >= 1
            /\ \A j \in DOMAIN Chain(Versions[v][k]) : Chain(Versions[v][k])[j].tag # NoName
<1>1. Len(Versions) \in Nat /\ DOMAIN Versions = 1..Len(Versions)
  BY VersionsAssumption
<1>2. ASSUME NEW v \in DOMAIN Versions
      PROVE  /\ Len(Versions[v]) \in Nat /\ DOMAIN Versions[v] = 1..Len(Versions[v])
             /\ \A k \in DOMAIN Versions[v] : IsSite(v, Versions[v][k])
  BY VersionsAssumption
<1>3. ASSUME NEW v \in DOMAIN Versions, NEW k \in DOMAIN Versions[v]
      PROVE  /\ Chain(Versions[v][k]) \in Seq(Links) /\ Len(Chain(Versions[v][k])) >= 1
             /\ \A j \in DOMAIN Chain(Versions[v][k]) : Chain(Versions[v][k])[j].tag # NoName
  <2> DEFINE site == Versions[v][k]
  <2>1. IsSite(v, site)
    BY <1>2
  <2> HIDE DEF site
  <2>2. PICK stmt \in site.runs : IsStatement(stmt) /\ ChainOf(stmt) = Chain(site)
    BY <2>1 DEF IsSite
  <2>3. Chain(site) \in Seq(Links) /\ Len(Chain(site)) >= 1
    BY <2>2, ChainTyped
  <2>4. \A j \in DOMAIN Chain(site) : Chain(site)[j].tag # NoName
    BY <2>1 DEF IsSite
  <2> QED
    BY <2>3, <2>4 DEF site
<1> QED
  BY <1>1, <1>2, <1>3

(* What a run of the preprocessor over version v leaves.                   *)
Result(v, c) ==
    /\ GoodDocument(BuildSchema(c.schema))
    /\ c.files \in Seq(Seq(Calls)) /\ Len(c.files) = 1
    /\ Len(c.files[1]) = IF v = 0 THEN 0 ELSE Len(Versions[v])
    /\ v # 0 => /\ InSync(BuildSchema(c.schema), c.files) /\ Distinct(BuildSchema(c.schema), c.files)
                /\ \A k \in DOMAIN Versions[v] : c.files[1][k].chain = Chain(Versions[v][k])

FirstResult == [files |-> <<<<>>>>, schema |-> LoadSchema(NoDocument)]
NextResult(v, c) == Assigned(LoadSchema(BuildSchema(c.schema)), <<Scanned(v, c.files[1])>>)

(* Before the first version there is nothing.                              *)
LEMMA ResultBegins == Result(0, FirstResult)
<1>1. BuildSchema(FirstResult.schema) = NoDocument
  BY DEF BuildSchema, FirstResult, LoadSchema, NoDocument
<1>2. GoodDocument(NoDocument)
  <2>1. DOMAIN NoDocument.tags = {} /\ DOMAIN NoDocument.events = {}
    BY DEF NoDocument
  <2>2. NoName \notin Range(NoDocument.tags) /\ IsInjective(NoDocument.tags)
    BY <2>1 DEF Range, IsInjective
  <2> QED
    BY <2>1, <2>2, FS_EmptySet DEF GoodDocument
<1>3. FirstResult.files = <<<<>>>>
  BY DEF FirstResult
<1>4. <<>> \in Seq(Calls) /\ Len(<<>>) = 0
  OBVIOUS
<1>5. <<<<>>>> \in Seq(Seq(Calls)) /\ Len(<<<<>>>>) = 1 /\ <<<<>>>>[1] = <<>>
  BY <1>4
<1> QED
  BY <1>1, <1>2, <1>3, <1>4, <1>5 DEF Result

(* What the scan of a version finds.                                       *)
LEMMA ScannedTyped ==
    ASSUME NEW v \in DOMAIN Versions, NEW c, Result(v - 1, c)
    PROVE  /\ Scanned(v, c.files[1]) \in Seq(Calls)
           /\ Len(Scanned(v, c.files[1])) = Len(Versions[v])
           /\ \A k \in 1..Len(Versions[v]) :
                /\ Versions[v][k].was \in 0..(IF v = 1 THEN 0 ELSE Len(Versions[v - 1]))
                /\ Versions[v][k].was # 0 =>
                    /\ Versions[v][k].was \in 1..Len(c.files[1])
                    /\ c.files[1][Versions[v][k].was] \in Calls
                /\ Scanned(v, c.files[1])[k].chain = Chain(Versions[v][k])
                /\ Scanned(v, c.files[1])[k].ids =
                     IF Versions[v][k].was = 0 THEN <<>> ELSE c.files[1][Versions[v][k].was].ids
<1> DEFINE n == Len(Versions[v])
           before == c.files[1]
           scan == Scanned(v, before)
<1>1. n \in Nat /\ DOMAIN Versions[v] = 1..n
      /\ \A k \in 1..n : IsSite(v, Versions[v][k]) /\ Chain(Versions[v][k]) \in Seq(Links)
  BY SiteTyped
<1>2. before \in Seq(Calls) /\ Len(before) = IF v = 1 THEN 0 ELSE Len(Versions[v - 1])
  <2>1. c.files \in Seq(Seq(Calls)) /\ Len(c.files) = 1 /\ Len(before) = IF v - 1 = 0 THEN 0 ELSE Len(Versions[v - 1])
    BY DEF Result
  <2>2. before \in Seq(Calls)
    BY <2>1
  <2>3. v \in Nat
    BY SiteTyped
  <2> QED
    BY <2>1, <2>2, <2>3
<1> HIDE DEF before
<1>3. ASSUME NEW k \in 1..n
      PROVE  /\ Versions[v][k].was \in 0..Len(before)
             /\ Versions[v][k].was # 0 => Versions[v][k].was \in 1..Len(before) /\ before[Versions[v][k].was] \in Calls
             /\ scan[k] = [ids |-> IF Versions[v][k].was = 0 THEN <<>> ELSE before[Versions[v][k].was].ids,
                           write |-> TRUE, chain |-> Chain(Versions[v][k])]
             /\ scan[k] \in Calls
  <2>1. Versions[v][k].was \in 0..Len(before)
    BY <1>1, <1>2 DEF IsSite
  <2>2. Versions[v][k].was # 0 => Versions[v][k].was \in 1..Len(before) /\ before[Versions[v][k].was] \in Calls
    BY <1>2, <2>1
  <2>3. scan[k] = [ids |-> IF Versions[v][k].was = 0 THEN <<>> ELSE before[Versions[v][k].was].ids,
                   write |-> TRUE, chain |-> Chain(Versions[v][k])]
    BY <1>1 DEF Scanned
  <2> HIDE DEF scan
  <2>4. scan[k].ids \in Seq(Int)
    <3>1. Versions[v][k].was # 0 => before[Versions[v][k].was].ids \in Seq(Int)
      BY <2>2 DEF Calls, CallSet
    <3>2. <<>> \in Seq(Int)
      OBVIOUS
    <3> QED
      BY <2>3, <3>1, <3>2
  <2>5. Chain(Versions[v][k]) \in Seq(Links)
    BY <1>1
  <2>6. scan[k] \in Calls
    BY <2>3, <2>4, <2>5 DEF Calls, CallSet
  <2> QED
    BY <2>1, <2>2, <2>3, <2>6
<1>4. scan = [k \in 1..n |-> scan[k]]
  BY <1>1 DEF Scanned
<1> HIDE DEF scan, n
<1>5. scan \in Seq(Calls) /\ Len(scan) = n
  BY <1>1, <1>3, <1>4
<1>6. ASSUME NEW k \in 1..n
      PROVE  /\ Versions[v][k].was \in 0..(IF v = 1 THEN 0 ELSE Len(Versions[v - 1]))
             /\ scan[k].chain = Chain(Versions[v][k])
             /\ scan[k].ids = IF Versions[v][k].was = 0 THEN <<>> ELSE before[Versions[v][k].was].ids
  <2>1. Versions[v][k].was \in 0..(IF v = 1 THEN 0 ELSE Len(Versions[v - 1]))
    BY <1>2, <1>3
  <2>2. scan[k] = [ids |-> IF Versions[v][k].was = 0 THEN <<>> ELSE before[Versions[v][k].was].ids,
                   write |-> TRUE, chain |-> Chain(Versions[v][k])]
    BY <1>3
  <2> HIDE DEF scan
  <2> QED
    BY <2>1, <2>2
<1> QED
  BY <1>3, <1>5, <1>6 DEF scan, before, n

(* From one version to the next.                                           *)
LEMMA ResultStep ==
    ASSUME NEW v \in DOMAIN Versions, NEW b, Result(v - 1, b), NEW c, c = NextResult(v, b)
    PROVE  /\ Result(v, c)
           /\ Stable(BuildSchema(b.schema), <<Scanned(v, b.files[1])>>, BuildSchema(c.schema), c.files)
<1> DEFINE doc == BuildSchema(b.schema)
           scan == Scanned(v, b.files[1])
           files == <<scan>>
           next == BuildSchema(c.schema)
           n == Len(Versions[v])
<1>1. scan \in Seq(Calls) /\ Len(scan) = n /\ \A k \in 1..n : scan[k].chain = Chain(Versions[v][k])
  BY ScannedTyped
<1>2. n \in Nat /\ DOMAIN Versions[v] = 1..n /\ v # 0
  BY SiteTyped
<1>3. GoodDocument(doc)
  BY DEF Result
<1>4. c = Assigned(LoadSchema(doc), files)
  BY DEF NextResult
<1> HIDE DEF doc, scan, next, n
<1>5. files \in Seq(Seq(Calls)) /\ Len(files) = 1 /\ files[1] = scan
  BY <1>1
<1> HIDE DEF files
<1>6. \A ch \in Seq(Links) : Len(ch) \in Nat /\ DOMAIN ch = 1..Len(ch)
  OBVIOUS
<1>7. /\ GoodDocument(next)
      /\ c.files \in Seq(Seq(Calls)) /\ Len(c.files) = Len(files)
      /\ Places(c.files) = Places(files)
      /\ \A p \in Places(files) : Placed(c.files)[p].chain = Placed(files)[p].chain
      /\ InSync(next, c.files)
      /\ Distinct(next, c.files)
      /\ Stable(doc, files, next, c.files)
  BY <1>3, <1>4, <1>5, <1>6, AssignedWell DEF Calls, next
<1>8. c.files[1] \in Seq(Calls) /\ Len(c.files[1]) \in Nat /\ 1 \in 1..Len(files) /\ 1 \in 1..Len(c.files)
  BY <1>5, <1>7
<1>9. \A k \in 1..n : k \in 1..Len(c.files[1])
  <2> SUFFICES ASSUME NEW k \in 1..n PROVE k \in 1..Len(c.files[1])
    OBVIOUS
  <2>1. <<1, k>> \in Places(files)
    BY <1>1, <1>5, <1>8, IsPlace
  <2> DEFINE p == <<1, k>>
  <2>2. p \in Places(c.files) /\ p[1] = 1 /\ p[2] = k
    BY <1>7, <2>1
  <2> HIDE DEF p
  <2> QED
    BY <1>7, <2>2, PlaceIn
<1>10. \A k \in 1..Len(c.files[1]) : k \in 1..n
  <2> SUFFICES ASSUME NEW k \in 1..Len(c.files[1]) PROVE k \in 1..n
    OBVIOUS
  <2>1. <<1, k>> \in Places(c.files)
    BY <1>7, <1>8, IsPlace
  <2> DEFINE p == <<1, k>>
  <2>2. p \in Places(files) /\ p[1] = 1 /\ p[2] = k
    BY <1>7, <2>1
  <2> HIDE DEF p
  <2> QED
    BY <1>1, <1>5, <2>2, PlaceIn
<1>11. Len(c.files[1]) = n
  <2> DEFINE m == Len(c.files[1])
  <2>1. m \in Nat /\ n \in Nat /\ (\A k \in 1..n : k \in 1..m) /\ (\A k \in 1..m : k \in 1..n)
    BY <1>2, <1>8, <1>9, <1>10
  <2> HIDE DEF m
  <2>2. m = n
    BY <2>1
  <2> QED
    BY <2>2 DEF m
<1>12. ASSUME NEW k \in 1..n PROVE c.files[1][k].chain = Chain(Versions[v][k])
  <2> DEFINE p == <<1, k>>
  <2>1. p \in Places(files) /\ Placed(files)[p] = scan[k]
    BY <1>1, <1>5, <1>8, IsPlace, ZenonT(30)
  <2>2. Placed(c.files)[p] = c.files[1][k]
    BY <1>7, <1>8, <1>9, IsPlace
  <2> QED
    BY <1>1, <1>7, <2>1, <2>2
<1> QED
  BY <1>2, <1>5, <1>7, <1>11, <1>12 DEF Result, doc, scan, files, next, n

(* The loop over the versions exists, and gives what it should.            *)
IsCompilation(after) ==
    after = [v \in 0..Len(Versions) |-> IF v = 0 THEN FirstResult ELSE NextResult(v, after[v - 1])]

(* The loop over the versions is a function.                               *)
LEMMA CompilationExists == \E after : IsCompilation(after)
<1> DEFINE Upto(f, n) == f = [v \in 0..n |-> IF v = 0 THEN FirstResult ELSE NextResult(v, f[v - 1])]
           T == {n \in Nat : \E f : Upto(f, n)}
<1> HIDE DEF FirstResult, NextResult
<1>1. 0 \in T
  <2> DEFINE f == [v \in 0..0 |-> FirstResult]
  <2>1. f = [v \in 0..0 |-> IF v = 0 THEN FirstResult ELSE NextResult(v, f[v - 1])]
    OBVIOUS
  <2>2. Upto(f, 0)
    BY <2>1
  <2> HIDE DEF f, Upto
  <2> QED
    BY <2>2
<1>2. ASSUME NEW n \in Nat, n \in T PROVE n + 1 \in T
  <2>1. PICK f : Upto(f, n)
    BY <1>2
  <2> DEFINE g == [v \in 0..(n + 1) |-> IF v = n + 1 THEN NextResult(n + 1, f[n]) ELSE f[v]]
  <2>2. DOMAIN g = 0..(n + 1) /\ (\A v \in 0..n : g[v] = f[v]) /\ g[n + 1] = NextResult(n + 1, f[n])
    OBVIOUS
  <2> HIDE DEF g
  <2>3. \A v \in 0..n : f[v] = IF v = 0 THEN FirstResult ELSE NextResult(v, f[v - 1])
    BY <2>1
  <2>4. ASSUME NEW v \in 0..(n + 1) PROVE g[v] = IF v = 0 THEN FirstResult ELSE NextResult(v, g[v - 1])
    <3>1. CASE v = n + 1
      <4>1. v - 1 = n /\ n \in 0..n /\ v # 0
        BY <3>1
      <4> QED
        BY <2>2, <3>1, <4>1
    <3>2. CASE v # n + 1
      <4>1. v \in 0..n /\ (v # 0 => v - 1 \in 0..n)
        BY <3>2
      <4> QED
        BY <2>2, <2>3, <4>1
    <3> QED
      BY <3>1, <3>2
  <2>5. g = [v \in 0..(n + 1) |-> g[v]]
    <3>1. \E h : \E S : g = [v \in S |-> h[v]]
      BY Zenon DEF g
    <3> QED
      BY <2>2 DEF g
  <2>6. Upto(g, n + 1)
    BY <2>4, <2>5
  <2> QED
    BY <2>6
<1> HIDE DEF T
<1>3. Nat \subseteq T
  BY <1>1, <1>2, SetInduction
<1>4. Len(Versions) \in T
  BY <1>3, SiteTyped
<1> QED
  BY <1>4 DEF T, IsCompilation

(* What is known of each version.                                          *)
LEMMA Versioned ==
    ASSUME NEW v \in DOMAIN Versions
    PROVE  /\ Result(v, Compiled[v])
           /\ v > 1 => /\ v - 1 \in DOMAIN Versions /\ Result(v - 1, Compiled[v - 1])
                       /\ Stable(Document(v - 1), <<Scanned(v, Compiled[v - 1].files[1])>>, Document(v), Compiled[v].files)
<1> DEFINE n == Len(Versions)
           after == CHOOSE f : IsCompilation(f)
           T == {k \in Nat : k <= n => Result(k, after[k])}
<1>1. IsCompilation(after)
  BY CompilationExists
<1>2. Compiled = [k \in DOMAIN Versions |-> after[k]]
  BY Zenon DEF Compiled, IsCompilation, FirstResult, NextResult
<1> HIDE DEF after
<1>3. n \in Nat /\ DOMAIN Versions = 1..n
  BY SiteTyped
<1>4. \A k \in 0..n : after[k] = IF k = 0 THEN FirstResult ELSE NextResult(k, after[k - 1])
  <2> HIDE DEF n
  <2>1. after = [k \in 0..n |-> IF k = 0 THEN FirstResult ELSE NextResult(k, after[k - 1])]
    BY <1>1 DEF IsCompilation, n
  <2> QED
    BY <2>1
<1> HIDE DEF n
<1>5. 0 \in T
  BY <1>3, <1>4, ResultBegins
<1>6. ASSUME NEW k \in Nat, k \in T PROVE k + 1 \in T
  <2> SUFFICES ASSUME k + 1 <= n PROVE Result(k + 1, after[k + 1])
    OBVIOUS
  <2>1. k + 1 \in DOMAIN Versions /\ (k + 1) - 1 = k /\ k + 1 # 0 /\ k + 1 \in 0..n /\ k <= n
    BY <1>3
  <2>2. after[k + 1] = NextResult(k + 1, after[k]) /\ Result((k + 1) - 1, after[k])
    BY <1>4, <1>6, <2>1
  <2> QED
    BY <2>1, <2>2, ResultStep
<1> HIDE DEF T
<1>7. Nat \subseteq T
  BY <1>5, <1>6, SetInduction
<1>8. \A k \in 0..n : Result(k, after[k])
  BY <1>3, <1>7 DEF T
<1>9. v \in 0..n /\ v - 1 \in 0..n /\ v # 0 /\ (v > 1 => v - 1 \in DOMAIN Versions)
  BY <1>3
<1>10. after[v] = NextResult(v, after[v - 1]) /\ Result(v - 1, after[v - 1]) /\ Result(v, after[v])
  BY <1>4, <1>8, <1>9
<1>11. Stable(BuildSchema(after[v - 1].schema), <<Scanned(v, after[v - 1].files[1])>>,
              BuildSchema(after[v].schema), after[v].files)
  BY <1>10, ResultStep
<1>12. Compiled[v] = after[v] /\ (v > 1 => Compiled[v - 1] = after[v - 1])
  BY <1>2, <1>9
<1> QED
  BY <1>9, <1>10, <1>11, <1>12 DEF Document

(* The field types of a schema.                                            *)
LEMMA EventsTyped ==
    ASSUME NEW v \in DOMAIN Versions
    PROVE  \A e \in DOMAIN Document(v).events : Document(v).events[e] \in Seq(Methods)
<1> DEFINE doc == Document(v)
           c == Compiled[v]
<1>1. Result(v, c)
  BY Versioned
<1>2. v # 0
  BY SiteTyped
<1>3. InSync(doc, c.files) /\ c.files \in Seq(Seq(Calls)) /\ Len(c.files) = 1
  BY <1>1, <1>2 DEF Result, Document
<1> HIDE DEF doc, c
<1>4. SUFFICES ASSUME NEW e \in DOMAIN doc.events PROVE doc.events[e] \in Seq(Methods)
  BY DEF doc
<1>5. PICK call \in AllCalls(c.files) : e = call.ids[1]
  BY <1>3 DEF InSync, EventIds
<1>6. doc.events[e] = Fields(call.chain)
  BY <1>3, <1>5 DEF InSync
<1>7. call.chain \in Seq(Links)
  <2>1. PICK p \in Places(c.files) : Placed(c.files)[p] = call
    BY <1>3, <1>5, CallsAtPlaces
  <2>2. call \in Calls
    BY <1>3, <2>1, PlaceIn
  <2> QED
    BY <2>2 DEF Calls, CallSet
<1> QED
  BY <1>6, <1>7, FieldsTyped

-----------------------------------------------------------------------------
(* Statements that stay keep their ids *)

(* The call of statement k in the sources of version v.                    *)
CallOf(v, k) == Compiled[v].files[1][k]

(* The call of a statement has its chain, and an id for each link.         *)
LEMMA CallTyped ==
    ASSUME NEW v \in DOMAIN Versions, NEW k \in DOMAIN Versions[v]
    PROVE  /\ CallOf(v, k) \in AllCalls(Compiled[v].files)
           /\ CallOf(v, k).ids \in Seq(Int) /\ Len(CallOf(v, k).ids) = 1 + Len(Chain(Versions[v][k]))
           /\ CallOf(v, k).chain = Chain(Versions[v][k])
           /\ <<1, k>> \in Places(Compiled[v].files) /\ Placed(Compiled[v].files)[<<1, k>>] = CallOf(v, k)
           /\ InSync(Document(v), Compiled[v].files) /\ Distinct(Document(v), Compiled[v].files)
           /\ \A i \in DOMAIN Chain(Versions[v][k]) :
                /\ CallOf(v, k).ids[i + 1] \in DOMAIN Document(v).tags
                /\ Document(v).tags[CallOf(v, k).ids[i + 1]] = Chain(Versions[v][k])[i].tag
<1> DEFINE files == Compiled[v].files
           doc == Document(v)
           call == CallOf(v, k)
           ch == Chain(Versions[v][k])
<1>1. v # 0 /\ k \in 1..Len(Versions[v]) /\ \A i \in DOMAIN ch : ch[i].tag # NoName
  BY SiteTyped
<1>2. /\ files \in Seq(Seq(Calls)) /\ Len(files) = 1 /\ Len(files[1]) = Len(Versions[v])
      /\ InSync(doc, files) /\ Distinct(doc, files) /\ call.chain = ch
  BY <1>1, Versioned DEF Result, Document, CallOf
<1>3. call = files[1][k]
  BY DEF CallOf
<1> HIDE DEF files, doc, call, ch
<1>4. <<1, k>> \in Places(files) /\ Placed(files)[<<1, k>>] = call
  <2>1. 1 \in 1..Len(files) /\ k \in 1..Len(files[1])
    BY <1>1, <1>2
  <2> QED
    BY <1>2, <1>3, <2>1, IsPlace
<1>5. call \in AllCalls(files)
  BY <1>2, <1>4, CallsAtPlaces
<1>6. call \in Calls
  <2> DEFINE p == <<1, k>>
  <2>1. p \in Places(files) /\ Placed(files)[p] = call
    BY <1>4
  <2> HIDE DEF p
  <2> QED
    BY <1>2, <2>1, PlaceIn
<1>7. call.ids \in Seq(Int)
  BY <1>6 DEF Calls, CallSet
<1>8. /\ Len(call.ids) = 1 + Len(ch)
      /\ \A i \in DOMAIN ch : call.ids[i + 1] \in DOMAIN doc.tags /\ doc.tags[call.ids[i + 1]] = ch[i].tag
  BY <1>1, <1>2, <1>5 DEF InSync
<1> QED
  BY <1>2, <1>4, <1>5, <1>7, <1>8 DEF files, doc, call, ch

(* A statement that was not touched keeps all its ids: the event id since  *)
(* it is the first with it, a tag since its name stays in use.             *)
LEMMA IdsStay ==
    ASSUME NEW v \in DOMAIN Versions, v > 1, NEW from, from \subseteq DOMAIN Versions[v - 1],
           NEW k \in Heirs(v, from)
    PROVE  /\ v - 1 \in DOMAIN Versions /\ k \in DOMAIN Versions[v] /\ Versions[v][k].was \in from
           /\ CallOf(v, k).ids = CallOf(v - 1, Versions[v][k].was).ids
           /\ Chain(Versions[v][k]) = Chain(Versions[v - 1][Versions[v][k].was])
<1> DEFINE was == Versions[v][k].was
           u == v - 1
           oldFiles == Compiled[u].files
           scan == Scanned(v, oldFiles[1])
           files == Compiled[v].files
           ch == Chain(Versions[v][k])
           old == CallOf(u, was)
           new == CallOf(v, k)
<1>1. /\ k \in DOMAIN Versions[v] /\ was \in from /\ was \in DOMAIN Versions[u]
      /\ \A j \in 1..(k - 1) : Versions[v][j].was # was
      /\ ch = Chain(Versions[u][was])
  BY DEF Heirs
<1>2. /\ u \in DOMAIN Versions /\ Result(u, Compiled[u])
      /\ Stable(Document(u), <<scan>>, Document(v), files)
  BY Versioned
<1>3. /\ scan \in Seq(Calls) /\ Len(scan) = Len(Versions[v])
      /\ \A j \in 1..Len(Versions[v]) :
           /\ Versions[v][j].was # 0 => Versions[v][j].was \in 1..Len(oldFiles[1])
           /\ scan[j].ids = IF Versions[v][j].was = 0 THEN <<>> ELSE oldFiles[1][Versions[v][j].was].ids
  BY <1>2, ScannedTyped
<1>4. /\ oldFiles \in Seq(Seq(Calls)) /\ Len(oldFiles) = 1 /\ Len(oldFiles[1]) = Len(Versions[u])
  <2>1. u # 0
    BY <1>2, SiteTyped
  <2> QED
    BY <1>2, <2>1 DEF Result
<1>5. /\ k \in 1..Len(Versions[v]) /\ Len(Versions[v]) \in Nat
      /\ was \in 1..Len(Versions[u]) /\ DOMAIN Versions[u] = 1..Len(Versions[u]) /\ Len(Versions[u]) \in Nat
      /\ ch \in Seq(Links) /\ Len(ch) >= 1
  BY <1>1, <1>2, SiteTyped
<1>6. /\ old.ids \in Seq(Int) /\ Len(old.ids) = 1 + Len(ch)
      /\ Distinct(Document(u), oldFiles)
      /\ \A i \in DOMAIN ch : old.ids[i + 1] \in DOMAIN Document(u).tags /\ Document(u).tags[old.ids[i + 1]] = ch[i].tag
  <2>1. u \in DOMAIN Versions /\ was \in DOMAIN Versions[u] /\ ch = Chain(Versions[u][was])
    BY <1>1, <1>2
  <2>2. old = CallOf(u, was) /\ oldFiles = Compiled[u].files
    OBVIOUS
  <2> HIDE DEF u, was, ch, old, oldFiles
  <2> QED
    BY <2>1, <2>2, CallTyped
<1>7. /\ new.ids \in Seq(Int) /\ Len(new.ids) = 1 + Len(ch)
      /\ Placed(files)[<<1, k>>] = new /\ Distinct(Document(v), files)
      /\ \A i \in DOMAIN ch : new.ids[i + 1] \in DOMAIN Document(v).tags /\ Document(v).tags[new.ids[i + 1]] = ch[i].tag
  BY <1>1, CallTyped
<1>8. \A j \in DOMAIN Versions[u] :
        CallOf(u, j) = oldFiles[1][j] /\ <<1, j>> \in Places(oldFiles) /\ Placed(oldFiles)[<<1, j>>] = oldFiles[1][j]
  BY <1>2, CallTyped DEF CallOf
<1> HIDE DEF was, u, oldFiles, scan, files, ch, old, new
<1> DEFINE now == <<scan>>
<1>9. now \in Seq(Seq(Calls)) /\ Len(now) = 1 /\ now[1] = scan
  BY <1>3
<1> HIDE DEF now
<1>10. scan[k].ids = old.ids /\ old.ids # <<>>
  <2>1. was # 0
    BY <1>5
  <2>2. scan[k].ids = oldFiles[1][was].ids
    BY <1>3, <1>5, <2>1 DEF was
  <2>3. old = oldFiles[1][was]
    BY <1>1, <1>8 DEF old
  <2>4. Len(ch) \in Nat
    BY <1>5
  <2>5. old.ids # <<>>
    BY <1>6, <2>4
  <2> QED
    BY <2>2, <2>3, <2>5
<1>11. FirstWithId(now, <<1, k>>)
  <2>1. 1 \in 1..Len(now) /\ \A j \in 1..Len(Versions[v]) : j \in 1..Len(now[1])
    BY <1>3, <1>9
  <2>2. Placed(now)[<<1, k>>] = scan[k]
    BY <1>5, <1>9, <2>1, IsPlace
  <2>3. ASSUME NEW q \in Places(now), Before(q, <<1, k>>)
        PROVE  Placed(now)[q].ids = <<>> \/ Placed(now)[q].ids[1] # scan[k].ids[1]
    <3>1. q[1] \in 1..1 /\ q[2] \in 1..Len(scan) /\ q = <<q[1], q[2]>> /\ Placed(now)[q] = now[q[1]][q[2]]
      BY <1>9, PlaceIn
    <3>2. q[1] = 1
      BY <3>1
    <3> DEFINE j == q[2]
               prior == Versions[v][j].was
    <3>3. j < k
      BY <2>3, <3>2 DEF Before
    <3>4. j \in 1..Len(Versions[v]) /\ Placed(now)[q] = scan[j]
      BY <1>3, <1>9, <3>1, <3>2
    <3> HIDE DEF j
    <3>5. prior # was
      <4>1. j \in 1..(k - 1)
        BY <1>5, <3>3, <3>4
      <4> QED
        BY <1>1, <4>1
    <3>6. CASE prior = 0
      BY <1>3, <3>4, <3>6
    <3>7. CASE prior # 0
      <4>1. prior \in DOMAIN Versions[u]
        BY <1>3, <1>4, <1>5, <3>4, <3>7
      <4>2. scan[j].ids = oldFiles[1][prior].ids
        BY <1>3, <3>4, <3>7
      <4> HIDE DEF prior
      <4> DEFINE a == <<1, prior>>
                 b == <<1, was>>
      <4>3. a \in Places(oldFiles) /\ Placed(oldFiles)[a] = oldFiles[1][prior]
        BY <1>8, <4>1
      <4>4. b \in Places(oldFiles) /\ Placed(oldFiles)[b] = old
        BY <1>1, <1>8 DEF old
      <4>5. a # b
        BY <3>5
      <4> HIDE DEF a, b
      <4>6. Placed(oldFiles)[a].ids[1] # Placed(oldFiles)[b].ids[1]
        BY <1>6, <4>3, <4>4, <4>5 DEF Distinct
      <4> QED
        BY <1>10, <3>4, <4>2, <4>3, <4>4, <4>6
    <3> QED
      BY <3>6, <3>7
  <2> QED
    BY <1>10, <2>2, <2>3 DEF FirstWithId
<1>12. new.ids[1] = old.ids[1]
  <2>1. 1 \in 1..Len(now) /\ k \in 1..Len(now[1])
    BY <1>3, <1>5, <1>9
  <2>2. <<1, k>> \in Places(now) /\ Placed(now)[<<1, k>>] = scan[k]
    BY <1>9, <2>1, IsPlace
  <2>3. Stable(Document(u), now, Document(v), files)
    BY <1>2 DEF now
  <2>4. Placed(files)[<<1, k>>].ids[1] = Placed(now)[<<1, k>>].ids[1]
    BY <1>11, <2>2, <2>3 DEF Stable
  <2> QED
    BY <1>7, <1>10, <2>2, <2>4
<1>13. ASSUME NEW i \in DOMAIN ch PROVE new.ids[i + 1] = old.ids[i + 1]
  <2> DEFINE a == old.ids[i + 1]
             b == new.ids[i + 1]
             was1 == Document(u).tags
             tags == Document(v).tags
  <2>1. a \in DOMAIN was1 /\ was1[a] = ch[i].tag /\ b \in DOMAIN tags /\ tags[b] = ch[i].tag
    BY <1>6, <1>7
  <2>2. \A id \in DOMAIN was1 : was1[id] \in Range(tags) => id \in DOMAIN tags /\ tags[id] = was1[id]
    BY <1>2 DEF Stable
  <2>3. IsInjective(tags)
    BY <1>7 DEF Distinct
  <2> HIDE DEF a, b, was1, tags
  <2>4. was1[a] \in Range(tags)
    BY <2>1 DEF Range
  <2>5. a \in DOMAIN tags /\ tags[a] = tags[b]
    BY <2>1, <2>2, <2>4
  <2>6. a = b
    BY <2>1, <2>3, <2>5 DEF IsInjective
  <2> QED
    BY <2>6 DEF a, b
<1>14. new.ids = old.ids
  <2> DEFINE x == new.ids
             y == old.ids
             n == Len(ch)
  <2>1. x \in Seq(Int) /\ y \in Seq(Int) /\ Len(x) = 1 + n /\ Len(y) = 1 + n /\ n \in Nat /\ DOMAIN ch = 1..n
    BY <1>5, <1>6, <1>7
  <2>2. x[1] = y[1] /\ \A i \in DOMAIN ch : x[i + 1] = y[i + 1]
    BY <1>12, <1>13
  <2> HIDE DEF x, y, n
  <2>3. ASSUME NEW i \in 1..(1 + n) PROVE x[i] = y[i]
    <3>1. CASE i = 1
      BY <2>2, <3>1
    <3>2. CASE i # 1
      <4>1. i - 1 \in DOMAIN ch /\ (i - 1) + 1 = i
        BY <2>1, <3>2
      <4> QED
        BY <2>2, <4>1
    <3> QED
      BY <3>1, <3>2
  <2>4. x = y
    BY <2>1, <2>3
  <2> QED
    BY <2>4 DEF x, y
<1> QED
  BY <1>1, <1>2, <1>14 DEF was, u, ch, old, new

(* Over any number of versions.                                            *)
LEMMA DescendantsStay ==
    ASSUME NEW u \in DOMAIN Versions, NEW k \in DOMAIN Versions[u], NEW v \in DOMAIN Versions, u <= v,
           NEW j \in Descendants(u, k, v)
    PROVE  /\ j \in DOMAIN Versions[v]
           /\ CallOf(v, j).ids = CallOf(u, k).ids
           /\ Chain(Versions[v][j]) = Chain(Versions[u][k])
<1> DEFINE IsDescent(f, n) == f = [w \in u..n |-> IF w = u THEN {k} ELSE Heirs(w, f[w - 1])]
           E == {n \in Nat : \E f : IsDescent(f, u + n)}
           from == CHOOSE f : IsDescent(f, v)
           same(w) == /\ from[w] \subseteq DOMAIN Versions[w]
                      /\ \A i \in from[w] : /\ CallOf(w, i).ids = CallOf(u, k).ids
                                            /\ Chain(Versions[w][i]) = Chain(Versions[u][k])
           T == {n \in Nat : u + n <= v => same(u + n)}
<1>1. u \in Nat /\ v \in Nat /\ u >= 1 /\ DOMAIN Versions = 1..Len(Versions) /\ Len(Versions) \in Nat /\ v <= Len(Versions)
  BY SiteTyped
<1>2. 0 \in E
  <2> DEFINE f == [w \in u..u |-> {k}]
  <2>1. f = [w \in u..u |-> IF w = u THEN {k} ELSE Heirs(w, f[w - 1])]
    BY <1>1
  <2>2. IsDescent(f, u) /\ u = u + 0
    BY <1>1, <2>1
  <2> HIDE DEF f, IsDescent
  <2> QED
    BY <2>2
<1>3. ASSUME NEW n \in Nat, n \in E PROVE n + 1 \in E
  <2> DEFINE m == u + n
             l == u + (n + 1)
  <2>1. m \in Nat /\ l = m + 1 /\ u <= m
    BY <1>1
  <2> HIDE DEF m, l
  <2>2. PICK f : IsDescent(f, m)
    BY <1>3 DEF m
  <2> DEFINE g == [w \in u..l |-> IF w = l THEN Heirs(l, f[m]) ELSE f[w]]
  <2>3. DOMAIN g = u..l /\ (\A w \in u..m : g[w] = f[w]) /\ g[l] = Heirs(l, f[m])
    BY <1>1, <2>1
  <2>4. \E h : g = [w \in u..l |-> h[w]]
    BY Zenon
  <2> HIDE DEF g
  <2>5. \A w \in u..m : f[w] = IF w = u THEN {k} ELSE Heirs(w, f[w - 1])
    BY <2>2
  <2>6. ASSUME NEW w \in u..l PROVE g[w] = IF w = u THEN {k} ELSE Heirs(w, g[w - 1])
    <3>1. CASE w = l
      <4>1. w - 1 = m /\ m \in u..m /\ w # u
        BY <1>1, <2>1, <3>1
      <4> QED
        BY <2>3, <3>1, <4>1
    <3>2. CASE w # l
      <4>1. w \in u..m /\ (w # u => w - 1 \in u..m)
        BY <1>1, <2>1, <3>2
      <4> QED
        BY <2>3, <2>5, <4>1
    <3> QED
      BY <3>1, <3>2
  <2>7. g = [w \in u..l |-> g[w]]
    BY <2>3, <2>4
  <2>8. IsDescent(g, l)
    BY <2>6, <2>7
  <2> HIDE DEF IsDescent
  <2>9. \E h : IsDescent(h, u + (n + 1))
    BY <2>8 DEF l
  <2> QED
    BY <2>9
<1> HIDE DEF E
<1>4. Nat \subseteq E
  BY <1>2, <1>3, SetInduction
<1>5. \E f : IsDescent(f, v)
  <2>1. v - u \in Nat /\ u + (v - u) = v
    BY <1>1
  <2> QED
    BY <1>4, <2>1 DEF E
<1>6. IsDescent(from, v)
  BY <1>5, Zenon
<1>7. Descendants(u, k, v) = from[v]
  BY Zenon DEF Descendants
<1> HIDE DEF from
<1>8. \A w \in u..v : from[w] = IF w = u THEN {k} ELSE Heirs(w, from[w - 1])
  BY <1>6
<1> HIDE DEF IsDescent
<1>9. 0 \in T
  <2>1. u + 0 = u /\ u \in u..v
    BY <1>1
  <2>2. from[u] = {k}
    BY <1>8, <2>1
  <2>3. same(u)
    BY <2>2
  <2> QED
    BY <2>1, <2>3
<1>10. ASSUME NEW n \in Nat, n \in T PROVE n + 1 \in T
  <2> SUFFICES ASSUME u + (n + 1) <= v PROVE same(u + (n + 1))
    OBVIOUS
  <2> DEFINE w == u + (n + 1)
  <2>1. u + n = w - 1 /\ w \in u..v /\ w # u /\ w > 1 /\ w \in DOMAIN Versions /\ u + n <= v
    BY <1>1
  <2>2. same(w - 1)
    BY <1>10, <2>1
  <2>3. from[w] = Heirs(w, from[w - 1])
    BY <1>8, <2>1
  <2> HIDE DEF w
  <2>4. ASSUME NEW i \in from[w]
        PROVE  /\ i \in DOMAIN Versions[w]
               /\ CallOf(w, i).ids = CallOf(u, k).ids
               /\ Chain(Versions[w][i]) = Chain(Versions[u][k])
    <3>1. /\ i \in DOMAIN Versions[w] /\ Versions[w][i].was \in from[w - 1]
          /\ CallOf(w, i).ids = CallOf(w - 1, Versions[w][i].was).ids
          /\ Chain(Versions[w][i]) = Chain(Versions[w - 1][Versions[w][i].was])
      BY <2>1, <2>2, <2>3, IdsStay
    <3> QED
      BY <2>2, <3>1
  <2> QED
    BY <2>4 DEF w
<1> HIDE DEF T
<1>11. Nat \subseteq T
  BY <1>9, <1>10, SetInduction
<1>12. same(v)
  <2>1. v - u \in Nat /\ u + (v - u) = v /\ v <= v
    BY <1>1
  <2> QED
    BY <1>11, <2>1 DEF T
<1> QED
  BY <1>7, <1>12

(* A statement that is logged is a record, and the schema knows it if its  *)
(* statement is known.                                                     *)
THEOREM RecordsKnown ==
    ASSUME built \in 0..Len(Versions), known \in 1..Len(Versions),
           NEW k \in DOMAIN Program, NEW stmt \in Program[k].runs
    PROVE  /\ IsRecord(Ids(k), stmt)
           /\ Known(k) => Knows(Ids(k), stmt, TagNames, EventFields)
<1> DEFINE b == IF built = 0 THEN 1 ELSE built
           ids == Ids(k)
<1>1. DOMAIN Versions = 1..Len(Versions) /\ Len(Versions) \in Nat /\ known \in DOMAIN Versions
  BY SiteTyped
<1>2. b \in DOMAIN Versions /\ Program = Versions[b]
  BY <1>1 DEF Program
<1>3. IsSite(b, Versions[b][k])
  BY <1>2, SiteTyped
<1>4. /\ IsStatement(stmt) /\ (\A i \in DOMAIN stmt.fields : Fits(stmt.fields[i]))
      /\ ChainOf(stmt) = Chain(Versions[b][k])
      /\ \A i \in DOMAIN Chain(Versions[b][k]) : Chain(Versions[b][k])[i].tag # NoName
  <2> HIDE DEF b
  <2> QED
    BY <1>2, <1>3 DEF IsSite
<1>5. ASSUME NEW n \in Nat PROVE NextId(ids, n) \in 0..(Word - 1)
  <2>1. CASE n \in DOMAIN ids
    <3>1. CASE built = 0
      <4>1. ids = <<>>
        BY <3>1 DEF Ids
      <4> QED
        BY <2>1, <4>1
    <3>2. CASE built # 0
      <4>1. b = built /\ ids = CallOf(b, k).ids
        BY <3>2 DEF Ids, CallOf
      <4>2. CallOf(b, k) \in Range(Compiled[b].files[1])
        <5> DEFINE calls == Compiled[b].files[1]
        <5>1. k \in DOMAIN calls
          <6>1. Result(b, Compiled[b])
            BY <1>2, Versioned
          <6>2. Len(calls) = Len(Versions[b]) /\ calls \in Seq(Calls) /\ k \in 1..Len(Versions[b])
            <7>1. b # 0 /\ k \in 1..Len(Versions[b])
              BY <1>2, SiteTyped
            <7> HIDE DEF b
            <7> QED
              BY <6>1, <7>1 DEF Result
          <6> HIDE DEF calls
          <6> QED
            BY <6>2
        <5> QED
          BY <5>1 DEF CallOf, Range
      <4> HIDE DEF b, ids
      <4>3. ids[n] \in 0..(Word - 1)
        BY <1>2, <2>1, <4>1, <4>2, IdsAssumption
      <4> QED
        BY <2>1, <4>3 DEF NextId
    <3> QED
      BY <3>1, <3>2
  <2>2. CASE n \notin DOMAIN ids
    <3>1. Word >= Power[2] /\ Word \in Nat
      BY WordSize
    <3>2. Power[2] \in Nat \ {0}
      <4>1. 2 \in 0..MaxWidth /\ 2 <= 2
        BY Sizes
      <4> QED
        BY <4>1, PowerGrows
    <3>3. 0 \in 0..(Word - 1)
      BY <3>1, <3>2
    <3> QED
      BY <2>2, <3>3 DEF NextId
  <2> QED
    BY <2>1, <2>2
<1>6. IsRecord(ids, stmt)
  BY <1>4, <1>5 DEF IsRecord
<1> HIDE DEF b, ids
<1>7. ASSUME Known(k) PROVE Knows(ids, stmt, TagNames, EventFields)
  <2>1. built # 0 /\ b = built /\ ids = CallOf(b, k).ids
    BY <1>7 DEF Known, Ids, CallOf, b, ids
  <2>2. PICK j \in DOMAIN Versions[known] :
          /\ CallOf(known, j).ids = CallOf(b, k).ids
          /\ Chain(Versions[known][j]) = Chain(Versions[b][k])
    <3>1. CASE built <= known
      <4>1. Descendants(b, k, known) # {} /\ b <= known
        BY <1>7, <2>1, <3>1 DEF Known
      <4>2. PICK j : j \in Descendants(b, k, known)
        BY <4>1
      <4>3. k \in DOMAIN Versions[b]
        BY <1>2
      <4> QED
        BY <1>1, <1>2, <4>1, <4>2, <4>3, DescendantsStay
    <3>2. CASE ~(built <= known)
      <4>1. PICK j \in DOMAIN Versions[known] : k \in Descendants(known, j, b)
        BY <1>7, <2>1, <3>2 DEF Known
      <4>2. known <= b
        BY <1>1, <2>1, <3>2
      <4> QED
        BY <1>1, <1>2, <4>1, <4>2, DescendantsStay
    <3> QED
      BY <3>1, <3>2
  <2> DEFINE call == CallOf(known, j)
  <2>3. /\ call \in AllCalls(Compiled[known].files) /\ call.ids \in Seq(Int)
        /\ call.chain = Chain(Versions[known][j]) /\ InSync(Document(known), Compiled[known].files)
    BY <1>1, CallTyped
  <2> HIDE DEF call
  <2>4. call.chain = ChainOf(stmt) /\ \A i \in DOMAIN call.chain : call.chain[i].tag # NoName
    BY <1>4, <2>2, <2>3
  <2>5. Knows(call.ids, stmt, Document(known).tags, Document(known).events)
    BY <1>4, <2>3, <2>4, CallKnown
  <2>6. call.ids = ids
    BY <2>1, <2>2 DEF call
  <2> QED
    BY <2>5, <2>6 DEF TagNames, EventFields, Document
<1> QED
  BY <1>6, <1>7 DEF ids

-----------------------------------------------------------------------------
(* What always holds of the state *)

(* The text is of these tokens.                                            *)
Tokens == Letters(TagNames)
RecordLines == UNION {{Line(Ids(k), Cut(stmt)) : stmt \in Program[k].runs} : k \in DOMAIN Program}

TypeInv ==
    /\ built \in 0..Len(Versions) /\ known \in 1..Len(Versions) /\ cap \in Nat
    /\ phase \in {"run", "format", "done"}
    /\ file \in Seq(Bytes) /\ pos \in 0..Len(file) /\ text \in Seq(Tokens)
    /\ lines \in Seq([text : RecordLines, end : Nat, sound : BOOLEAN])
    /\ count \in Nat /\ turns \in Nat /\ 6 * count <= pos
    /\ phase = "run" => pos = 0 /\ text = <<>> /\ count = 0 /\ turns = 0
    /\ phase = "format" => turns = count
    /\ phase = "done" => turns <= count + 1

(* It holds at first, ...                                                  *)
LEMMA TypeBegins == Init => TypeInv
<1> SUFFICES ASSUME Init PROVE TypeInv
  OBVIOUS
<1>1. cap \in Nat
  BY StagingAssumption DEF Init
<1>2. \A S : <<>> \in Seq(S)
  OBVIOUS
<1>3. Len(<<>>) = 0 /\ 6 * 0 = 0
  OBVIOUS
<1> HIDE DEF RecordLines
<1> QED
  BY <1>1, <1>2, <1>3 DEF Init, TypeInv

(* The settings do not change, nor does what depends on them.              *)
LEMMA SettingStays ==
    ASSUME UNCHANGED setting
    PROVE  /\ built' = built /\ known' = known /\ cap' = cap
           /\ Tokens' = Tokens /\ RecordLines' = RecordLines /\ Program' = Program
           /\ TagNames' = TagNames /\ EventFields' = EventFields
           /\ \A k : Ids(k)' = Ids(k) /\ Known(k)' = Known(k)
<1>1. built' = built /\ known' = known /\ cap' = cap
  BY DEF setting
<1>2. Program' = Program /\ TagNames' = TagNames /\ EventFields' = EventFields
  BY <1>1 DEF Program, TagNames, EventFields
<1>3. \A k : Ids(k)' = Ids(k)
  BY <1>1 DEF Ids
<1>4. \A k : Known(k)' = Known(k)
  BY <1>1 DEF Known
<1>5. Tokens' = Tokens
  BY <1>2 DEF Tokens
<1>6. RecordLines' = RecordLines
  BY <1>2, <1>3 DEF RecordLines
<1> QED
  BY <1>1, <1>2, <1>3, <1>4, <1>5, <1>6

(* A turn of the formatter's loop.                                         *)
LEMMA TurnTyped ==
    ASSUME TypeInv, NEW r, r = Formatted(file, pos, TagNames, EventFields)
    PROVE  /\ r \in Cursors(file, Tokens) /\ r.pos >= pos
           /\ r.ok => r.pos >= pos + 6
<1>1. known \in DOMAIN Versions
  BY SiteTyped DEF TypeInv
<1>2. \A e \in DOMAIN EventFields : EventFields[e] \in Seq({"i", "f", "b", "s", "cs"})
  BY <1>1, EventsTyped DEF EventFields, Document, Methods
<1> QED
  BY <1>2, FormattedTyped DEF TypeInv, Tokens

(* A sink stages the first bytes of a record, or all of them.              *)
LEMMA StagedTyped ==
    ASSUME NEW record \in Seq(Bytes), cap \in Nat
    PROVE  Staged(record) \in Seq(Bytes) /\ (Len(record) <= cap => Staged(record) = record)
<1>1. Len(record) \in Nat /\ \A n \in 0..Len(record) : SubSeq(record, 1, n) \in Seq(Bytes)
  OBVIOUS
<1>2. (IF Len(record) < cap THEN Len(record) ELSE cap) \in 0..Len(record)
  BY <1>1
<1>3. SubSeq(record, 1, Len(record)) = record
  OBVIOUS
<1>4. Len(record) <= cap => (IF Len(record) < cap THEN Len(record) ELSE cap) = Len(record)
  BY <1>1
<1> QED
  BY <1>1, <1>2, <1>3, <1>4 DEF Staged

(* ... and after every step.                                               *)
LEMMA TypeStays == TypeInv /\ [Next]_vars => TypeInv'
<1> SUFFICES ASSUME TypeInv, [Next]_vars PROVE TypeInv'
  OBVIOUS
<1>1. UNCHANGED setting
  BY DEF Next, Log, End, Format, Finished, vars
<1>2. /\ built' = built /\ known' = known /\ cap' = cap /\ Tokens' = Tokens /\ RecordLines' = RecordLines
  BY <1>1, SettingStays
<1> HIDE DEF Tokens, RecordLines
<1>3. ASSUME NEW k \in DOMAIN Program, NEW stmt \in Program[k].runs, Log(k, stmt) PROVE TypeInv'
  <2> DEFINE record == Encoded(Ids(k), stmt)
             l == [text |-> Line(Ids(k), Cut(stmt)), end |-> Len(file'), sound |-> Known(k) /\ Len(record) <= cap]
  <2>1. record \in Seq(Bytes)
    BY RecordsKnown, RecordTyped DEF TypeInv
  <2>2. Staged(record) \in Seq(Bytes)
    BY <2>1, StagedTyped DEF TypeInv
  <2>3. file' = file \o Staged(record) /\ lines' = Append(lines, l) /\ phase = "run"
        /\ phase' = phase /\ pos' = pos /\ text' = text /\ count' = count /\ turns' = turns
    BY <1>3 DEF Log
  <2>4. file' \in Seq(Bytes) /\ Len(file') \in Nat
    BY <2>2, <2>3 DEF TypeInv
  <2>5. l \in [text : RecordLines, end : Nat, sound : BOOLEAN]
    <3>1. Line(Ids(k), Cut(stmt)) \in RecordLines
      BY DEF RecordLines
    <3> QED
      BY <2>4, <3>1
  <2> HIDE DEF l, record
  <2>6. lines' \in Seq([text : RecordLines, end : Nat, sound : BOOLEAN])
    BY <2>3, <2>5 DEF TypeInv
  <2> QED
    BY <1>2, <2>3, <2>4, <2>6 DEF TypeInv
<1>4. CASE End
  <2>1. PICK n \in 0..Len(file) : file' = SubSeq(file, 1, n)
    BY <1>4 DEF End
  <2>2. file' \in Seq(Bytes) /\ Len(file') \in Nat
    BY <2>1 DEF TypeInv
  <2>3. /\ phase = "run" /\ phase' = "format" /\ lines' = lines /\ pos' = pos /\ text' = text
        /\ count' = count /\ turns' = turns
    BY <1>4 DEF End
  <2> QED
    BY <1>2, <2>2, <2>3 DEF TypeInv
<1>5. CASE Format
  <2>1. PICK r : /\ r = Formatted(file, pos, TagNames, EventFields)
                 /\ pos' = r.pos /\ text' = text \o r.text /\ count' = count + IF r.ok THEN 1 ELSE 0
                 /\ phase' = IF r.ok THEN "format" ELSE "done"
    BY <1>5 DEF Format
  <2>2. phase = "format" /\ turns' = turns + 1 /\ file' = file /\ lines' = lines
    BY <1>5 DEF Format
  <2>3. r \in Cursors(file, Tokens) /\ r.pos >= pos /\ (r.ok => r.pos >= pos + 6)
    BY <2>1, TurnTyped
  <2>4. r.pos \in 0..Len(file) /\ r.ok \in BOOLEAN /\ r.text \in Seq(Tokens)
    BY <2>3 DEF Cursors
  <2>5. text' \in Seq(Tokens)
    BY <2>1, <2>4 DEF TypeInv
  <2>6. /\ count' \in Nat /\ turns' \in Nat /\ 6 * count' <= pos'
        /\ phase' = "format" => turns' = count'
        /\ phase' = "done" => turns' <= count' + 1
    <3>1. count \in Nat /\ turns = count /\ 6 * count <= pos /\ pos \in Nat /\ r.pos \in Nat
      BY <2>2, <2>4 DEF TypeInv
    <3>2. CASE r.ok
      BY <2>1, <2>2, <2>3, <3>1, <3>2
    <3>3. CASE ~r.ok
      BY <2>1, <2>2, <2>3, <3>1, <3>3
    <3> QED
      BY <3>2, <3>3
  <2> QED
    BY <1>2, <2>1, <2>2, <2>4, <2>5, <2>6 DEF TypeInv
<1>6. CASE Finished \/ UNCHANGED vars
  <2>1. UNCHANGED <<phase, file, lines, pos, text, count, turns>>
    BY <1>6 DEF Finished, vars
  <2> QED
    BY <1>2, <2>1 DEF TypeInv
<1> QED
  BY <1>3, <1>4, <1>5, <1>6 DEF Next

(* It says that the state has its type and that the loop ends.             *)
LEMMA TypeImplies == TypeInv => TypeOK /\ FormattingEnds
<1> SUFFICES ASSUME TypeInv PROVE TypeOK /\ FormattingEnds
  OBVIOUS
<1>1. /\ phase \in {"run", "format", "done"} /\ file \in Seq(Bytes) /\ pos \in 0..Len(file)
      /\ count \in Nat /\ turns \in Nat /\ 6 * count <= pos
      /\ phase = "run" => count = 0 /\ turns = 0
      /\ phase = "format" => turns = count
      /\ phase = "done" => turns <= count + 1
  BY DEF TypeInv
<1>2. turns <= count + 1
  BY <1>1
<1>3. Len(file) \in Nat /\ count \in 0..Len(file)
  BY <1>1
<1> QED
  BY <1>1, <1>2, <1>3 DEF TypeOK, FormattingEnds, Bytes

-----------------------------------------------------------------------------
(* What the file holds *)

(* Where the bytes of the first n records end.                             *)
EndOf(n) == IF n = 0 THEN 0 ELSE lines[n].end

(* Record i is what the program wrote for a statement that is known.       *)
IsWritten(i) ==
    \E k \in DOMAIN Program : \E stmt \in Program[k].runs :
        /\ Known(k)
        /\ lines[i].text = Line(Ids(k), Cut(stmt))
        /\ lines[i].end = EndOf(i - 1) + Len(Encoded(Ids(k), stmt))
        /\ Agrees(file, EndOf(i - 1), Encoded(Ids(k), stmt))

RecordsInv ==
    /\ \A i \in 1..Len(lines) : EndOf(i - 1) <= EndOf(i) /\ (lines[i].sound => IsWritten(i))
    /\ Len(file) <= EndOf(Len(lines))
    /\ phase = "run" => Len(file) = EndOf(Len(lines))

(* That holds at first, when there are no records, ...                     *)
LEMMA RecordsBegin == Init => RecordsInv
<1> SUFFICES ASSUME Init PROVE RecordsInv
  OBVIOUS
<1>1. Len(lines) = 0 /\ Len(file) = 0 /\ EndOf(0) = 0
  BY DEF Init, EndOf
<1> QED
  BY <1>1 DEF RecordsInv

(* The records end somewhere.                                              *)
LEMMA LinesTyped ==
    ASSUME TypeInv
    PROVE  /\ Len(lines) \in Nat /\ DOMAIN lines = 1..Len(lines) /\ Len(file) \in Nat
           /\ \A i \in 1..Len(lines) : lines[i].end \in Nat /\ lines[i].sound \in BOOLEAN /\ EndOf(i) = lines[i].end
           /\ \A i \in 0..Len(lines) : EndOf(i) \in Nat
           /\ EndOf(0) = 0
<1>1. Len(lines) \in Nat /\ DOMAIN lines = 1..Len(lines) /\ Len(file) \in Nat
  BY DEF TypeInv
<1>2. ASSUME NEW i \in 1..Len(lines) PROVE lines[i].end \in Nat /\ lines[i].sound \in BOOLEAN
  <2> DEFINE S == [text : RecordLines, end : Nat, sound : BOOLEAN]
  <2>1. lines \in Seq(S)
    BY DEF TypeInv
  <2> HIDE DEF S
  <2>2. lines[i] \in S
    BY <2>1
  <2> QED
    BY <2>2 DEF S
<1>3. \A i \in 1..Len(lines) : EndOf(i) = lines[i].end
  BY <1>1 DEF EndOf
<1>4. EndOf(0) = 0
  BY DEF EndOf
<1> QED
  BY <1>1, <1>2, <1>3, <1>4

(* The records follow one another.                                         *)
LEMMA EndsGrow ==
    ASSUME TypeInv, RecordsInv, NEW i \in 0..Len(lines), NEW j \in 0..Len(lines), i <= j
    PROVE  EndOf(i) <= EndOf(j)
<1> DEFINE T == {k \in Nat : i + k <= Len(lines) => EndOf(i) <= EndOf(i + k)}
<1>1. Len(lines) \in Nat /\ \A k \in 0..Len(lines) : EndOf(k) \in Nat
  BY LinesTyped
<1>2. 0 \in T
  BY <1>1
<1>3. ASSUME NEW k \in Nat, k \in T PROVE k + 1 \in T
  <2> SUFFICES ASSUME i + (k + 1) <= Len(lines) PROVE EndOf(i) <= EndOf(i + (k + 1))
    OBVIOUS
  <2> DEFINE m == i + (k + 1)
  <2>1. m \in 1..Len(lines) /\ m - 1 = i + k /\ i + k <= Len(lines) /\ m - 1 \in 0..Len(lines) /\ m \in 0..Len(lines)
    BY <1>1
  <2>2. EndOf(i) <= EndOf(m - 1)
    BY <1>3, <2>1
  <2> HIDE DEF m
  <2>3. EndOf(m - 1) <= EndOf(m)
    BY <2>1 DEF RecordsInv
  <2>4. EndOf(i) <= EndOf(m)
    BY <1>1, <2>1, <2>2, <2>3
  <2> QED
    BY <2>4 DEF m
<1> HIDE DEF T
<1>4. Nat \subseteq T
  BY <1>2, <1>3, SetInduction
<1>5. j - i \in Nat /\ i + (j - i) = j
  OBVIOUS
<1>6. j - i \in T
  BY <1>4, <1>5
<1>7. i + (j - i) <= Len(lines) => EndOf(i) <= EndOf(i + (j - i))
  BY <1>6 DEF T
<1> QED
  BY <1>5, <1>7

(* ... and after every step: what is written goes to the end of the file,  *)
(* and what is lost is lost there.                                         *)
LEMMA RecordsStay == TypeInv /\ RecordsInv /\ [Next]_vars => RecordsInv'
<1> SUFFICES ASSUME TypeInv, RecordsInv, [Next]_vars PROVE RecordsInv'
  OBVIOUS
<1>0. PICK n : n = Len(lines)
  OBVIOUS
<1>1. UNCHANGED setting
  BY DEF Next, Log, End, Format, Finished, vars
<1>2. Program' = Program /\ \A k : Ids(k)' = Ids(k) /\ Known(k)' = Known(k)
  BY <1>1, SettingStays
<1>3. /\ n \in Nat /\ Len(file) \in Nat
      /\ \A i \in 1..n : lines[i].end \in Nat /\ EndOf(i) = lines[i].end
      /\ \A i \in 0..n : EndOf(i) \in Nat
  BY <1>0, LinesTyped
<1>4. /\ \A i \in 1..n : EndOf(i - 1) <= EndOf(i) /\ (lines[i].sound => IsWritten(i))
      /\ Len(file) <= EndOf(n)
      /\ phase = "run" => Len(file) = EndOf(n)
  BY <1>0 DEF RecordsInv
<1>5. ASSUME NEW k \in DOMAIN Program, NEW stmt \in Program[k].runs, Log(k, stmt) PROVE RecordsInv'
  <2> DEFINE record == Encoded(Ids(k), stmt)
             l == [text |-> Line(Ids(k), Cut(stmt)), end |-> Len(file'), sound |-> Known(k) /\ Len(record) <= cap]
             some == Staged(record)
  <2>1. record \in Seq(Bytes) /\ some \in Seq(Bytes) /\ (Len(record) <= cap => some = record)
    <3>1. record \in Seq(Bytes)
      BY RecordsKnown, RecordTyped DEF TypeInv
    <3> QED
      BY <3>1, StagedTyped DEF TypeInv
  <2>2. file' = file \o some /\ lines' = Append(lines, l) /\ phase = "run"
    BY <1>5 DEF Log
  <2>3. l.end = Len(file') /\ l.text = Line(Ids(k), Cut(stmt)) /\ (l.sound => Known(k) /\ Len(record) <= cap)
    OBVIOUS
  <2> HIDE DEF l, record, some
  <2>4. /\ Len(file') = Len(file) + Len(some) /\ Len(some) \in Nat /\ Len(record) \in Nat /\ Len(file') \in Nat
        /\ \A i \in 1..Len(file) : file'[i] = file[i]
        /\ \A i \in 1..Len(some) : file'[Len(file) + i] = some[i]
    <3>1. file \in Seq(Bytes)
      BY DEF TypeInv
    <3> QED
      BY <2>1, <2>2, <3>1, Joined
  <2>5. Len(lines') = n + 1 /\ lines'[n + 1] = l /\ \A i \in 1..n : lines'[i] = lines[i]
    <3>1. lines \in Seq([text : RecordLines, end : Nat, sound : BOOLEAN])
      BY DEF TypeInv
    <3> HIDE DEF RecordLines
    <3> QED
      BY <1>0, <2>2, <3>1
  <2>6. (\A i \in 0..n : EndOf(i)' = EndOf(i)) /\ EndOf(n + 1)' = Len(file')
    <3>1. \A i \in 0..n : i = 0 \/ i \in 1..n
      BY <1>3
    <3>2. n + 1 # 0
      BY <1>3
    <3> QED
      BY <2>3, <2>5, <3>1, <3>2 DEF EndOf
  <2>7. Len(file) = EndOf(n)
    BY <1>4, <2>2
  <2>8. ASSUME NEW i \in 1..n, lines[i].sound PROVE IsWritten(i)'
    <3>1. PICK h \in DOMAIN Program : \E s \in Program[h].runs :
            /\ Known(h)
            /\ lines[i].text = Line(Ids(h), Cut(s))
            /\ lines[i].end = EndOf(i - 1) + Len(Encoded(Ids(h), s))
            /\ Agrees(file, EndOf(i - 1), Encoded(Ids(h), s))
      BY <1>4, <2>8 DEF IsWritten
    <3>2. PICK s \in Program[h].runs :
            /\ Known(h)
            /\ lines[i].text = Line(Ids(h), Cut(s))
            /\ lines[i].end = EndOf(i - 1) + Len(Encoded(Ids(h), s))
            /\ Agrees(file, EndOf(i - 1), Encoded(Ids(h), s))
      BY <3>1
    <3>3. i - 1 \in 0..n /\ i \in 0..n /\ n \in 0..n /\ i <= n
      BY <1>3
    <3>4. lines[i].end <= Len(file)
      <4>1. EndOf(i) <= EndOf(n)
        BY <1>0, <3>3, EndsGrow
      <4> QED
        BY <1>3, <2>7, <4>1
    <3> DEFINE bytes == Encoded(Ids(h), s)
               at == EndOf(i - 1)
    <3>5. Len(bytes) \in Nat
      <4>1. bytes \in Seq(Bytes)
        BY RecordsKnown, RecordTyped DEF TypeInv
      <4> QED
        BY <4>1
    <3>6. at \in Nat /\ lines[i].end = at + Len(bytes)
      BY <1>3, <3>2, <3>3
    <3> HIDE DEF bytes, at
    <3>7. Agrees(file', at, bytes)
      <4>1. Agrees(file, at, bytes)
        BY <3>2 DEF at, bytes
      <4> SUFFICES ASSUME NEW j \in 1..Len(bytes), at + j <= Len(file') PROVE file'[at + j] = bytes[j]
        BY DEF Agrees
      <4>2. at + j \in 1..Len(file)
        BY <1>3, <3>4, <3>5, <3>6
      <4>3. at + j <= Len(file)
        BY <1>3, <4>2
      <4> QED
        BY <2>4, <4>1, <4>2, <4>3 DEF Agrees
    <3>8. lines'[i] = lines[i] /\ EndOf(i - 1)' = at /\ Ids(h)' = Ids(h) /\ Known(h)' = Known(h) /\ Program' = Program
      BY <1>2, <2>5, <2>6, <3>3 DEF at
    <3> QED
      BY <3>2, <3>6, <3>7, <3>8 DEF IsWritten, bytes, at
  <2>9. ASSUME l.sound PROVE IsWritten(n + 1)'
    <3>1. Known(k) /\ some = record
      BY <2>1, <2>3, <2>9
    <3>2. (n + 1) - 1 = n /\ n \in 0..n
      BY <1>3
    <3>3. l.end = EndOf(n) + Len(record)
      BY <2>3, <2>4, <2>7, <3>1
    <3>4. Agrees(file', EndOf(n), record)
      BY <2>4, <2>7, <3>1 DEF Agrees
    <3>5. lines'[n + 1] = l /\ EndOf((n + 1) - 1)' = EndOf(n) /\ Ids(k)' = Ids(k) /\ Known(k)' = Known(k) /\ Program' = Program
      BY <1>2, <2>5, <2>6, <3>2
    <3> QED
      BY <2>3, <3>1, <3>3, <3>4, <3>5 DEF IsWritten, record
  <2>10. ASSUME NEW i \in 1..(n + 1)
         PROVE  EndOf(i - 1)' <= EndOf(i)' /\ (lines'[i].sound => IsWritten(i)')
    <3>1. CASE i = n + 1
      <4>1. i - 1 = n /\ n \in 0..n
        BY <1>3, <3>1
      <4>2. EndOf(i - 1)' = Len(file) /\ EndOf(i)' = Len(file')
        BY <2>6, <2>7, <3>1, <4>1
      <4> QED
        BY <1>3, <2>4, <2>5, <2>9, <3>1, <4>2
    <3>2. CASE i # n + 1
      <4>1. i \in 1..n /\ i - 1 \in 0..n /\ i \in 0..n
        BY <1>3, <3>2
      <4> QED
        BY <1>4, <2>5, <2>6, <2>8, <4>1
    <3> QED
      BY <3>1, <3>2
  <2>11. Len(file') \in Nat
    BY <2>4
  <2> QED
    BY <2>5, <2>6, <2>10, <2>11 DEF RecordsInv
<1>6. ASSUME NEW m \in 0..Len(file), file' = SubSeq(file, 1, m) \/ file' = file,
             lines' = lines, phase' # "run" \/ (phase' = phase /\ file' = file)
      PROVE  RecordsInv'
  <2>1. Len(file') \in Nat /\ Len(file') <= Len(file) /\ \A i \in 1..Len(file') : file'[i] = file[i]
    <3>1. file \in Seq(Bytes)
      BY DEF TypeInv
    <3> QED
      BY <1>6, <3>1
  <2>2. \A i : EndOf(i)' = EndOf(i)
    BY <1>6 DEF EndOf
  <2>3. ASSUME NEW i \in 1..n, lines[i].sound PROVE IsWritten(i)'
    <3>1. PICK h \in DOMAIN Program : \E s \in Program[h].runs :
            /\ Known(h)
            /\ lines[i].text = Line(Ids(h), Cut(s))
            /\ lines[i].end = EndOf(i - 1) + Len(Encoded(Ids(h), s))
            /\ Agrees(file, EndOf(i - 1), Encoded(Ids(h), s))
      BY <1>4, <2>3 DEF IsWritten
    <3>2. PICK s \in Program[h].runs :
            /\ Known(h)
            /\ lines[i].text = Line(Ids(h), Cut(s))
            /\ lines[i].end = EndOf(i - 1) + Len(Encoded(Ids(h), s))
            /\ Agrees(file, EndOf(i - 1), Encoded(Ids(h), s))
      BY <3>1
    <3> DEFINE bytes == Encoded(Ids(h), s)
               at == EndOf(i - 1)
    <3>3. Len(bytes) \in Nat
      <4>1. bytes \in Seq(Bytes)
        BY RecordsKnown, RecordTyped DEF TypeInv
      <4> QED
        BY <4>1
    <3>4. at \in Nat
      <4>1. i - 1 \in 0..n
        BY <1>3
      <4> QED
        BY <1>3, <4>1
    <3> HIDE DEF bytes, at
    <3>5. Agrees(file', at, bytes)
      <4>1. Agrees(file, at, bytes)
        BY <3>2 DEF at, bytes
      <4> SUFFICES ASSUME NEW j \in 1..Len(bytes), at + j <= Len(file') PROVE file'[at + j] = bytes[j]
        BY DEF Agrees
      <4>2. at + j \in 1..Len(file') /\ at + j <= Len(file)
        BY <1>3, <2>1, <3>3, <3>4
      <4> QED
        BY <2>1, <4>1, <4>2 DEF Agrees
    <3>6. EndOf(i - 1)' = at /\ Ids(h)' = Ids(h) /\ Known(h)' = Known(h) /\ Program' = Program
      BY <1>2, <2>2 DEF at
    <3> QED
      BY <1>6, <3>2, <3>5, <3>6 DEF IsWritten, bytes, at
  <2>4. n \in 0..n
    BY <1>3
  <2>5. Len(file') <= EndOf(n)
    BY <1>3, <1>4, <2>1, <2>4
  <2>6. phase' = "run" => Len(file') = EndOf(n)
    BY <1>4, <1>6
  <2> QED
    BY <1>0, <1>4, <1>6, <2>2, <2>3, <2>5, <2>6 DEF RecordsInv
<1>7. 0 \in 0..Len(file)
  BY <1>3
<1>8. CASE End
  BY <1>6, <1>8 DEF End
<1>9. CASE Format
  BY <1>6, <1>7, <1>9 DEF Format
<1>10. CASE Finished \/ UNCHANGED vars
  BY <1>6, <1>7, <1>10 DEF Finished, vars
<1> QED
  BY <1>5, <1>8, <1>9, <1>10 DEF Next

-----------------------------------------------------------------------------
(* What the postprocessor has read *)

(* The formatter is at the end of as many records as it has counted, ...   *)
OnTrack == count <= Sound /\ pos = EndOf(count) /\ text = Lines(count)

(* ... or past the first damaged one, ...                                  *)
Beyond == Sound < Len(lines) /\ Sound <= count /\ IsPrefix(Lines(Sound), text)

(* ... or it has stopped, where the file ends.                             *)
Stopped ==
    /\ count <= Sound /\ EndOf(count) <= Len(file)
    /\ IsPrefix(Lines(count), text) /\ IsPrefix(text, Lines(Sound))
    /\ IF count < Sound THEN EndOf(count + 1) > Len(file)
                        ELSE Sound = Len(lines) /\ text = Lines(count)

DecodeInv ==
    /\ phase = "format" => OnTrack \/ Beyond
    /\ phase = "done" => Stopped \/ Beyond

(* A set of numbers without gaps.                                          *)
LEMMA DownClosed ==
    ASSUME NEW n \in Nat, NEW T \in SUBSET (1..n), \A i \in T : 1..i \subseteq T
    PROVE  Cardinality(T) \in 0..n /\ T = 1..Cardinality(T)
<1> DEFINE M == {k \in Nat : k + 1 \notin T}
<1>1. n \in M
  OBVIOUS
<1>2. PICK m \in M : \A k \in M : m <= k
  <2>1. M \in SUBSET Nat /\ M # {}
    BY <1>1
  <2> HIDE DEF M
  <2> QED
    BY <2>1, LeastNumber
<1>3. m \in Nat /\ m <= n /\ m + 1 \notin T
  BY <1>1, <1>2
<1>4. \A i \in T : i <= m
  <2> SUFFICES ASSUME NEW i \in T, i > m PROVE FALSE
    BY <1>3
  <2>1. m + 1 \in 1..i
    BY <1>3
  <2> QED
    BY <1>3, <2>1
<1>5. \A i \in 1..m : i \in T
  <2> SUFFICES ASSUME NEW i \in 1..m, i \notin T PROVE FALSE
    OBVIOUS
  <2>1. i - 1 \in M
    BY <1>3
  <2> QED
    BY <1>2, <1>3, <2>1
<1>6. T = 1..m
  <2>1. \A i \in T : i \in 1..m
    BY <1>3, <1>4
  <2> QED
    BY <1>5, <2>1
<1>7. Cardinality(1..m) = m
  <2>1. 1 \in Int /\ m \in Int
    BY <1>3
  <2>2. Cardinality(1..m) = IF 1 > m THEN 0 ELSE m - 1 + 1
    BY <2>1, FS_Interval
  <2> QED
    BY <1>3, <2>2
<1> QED
  BY <1>3, <1>6, <1>7

(* The records before the first damaged one.                               *)
LEMMA SoundOnes ==
    ASSUME TypeInv
    PROVE  Sound \in 0..Len(lines) /\ \A i \in 1..Sound : lines[i].sound
<1> DEFINE n == Len(lines)
           T == {i \in DOMAIN lines : \A j \in 1..i : lines[j].sound}
<1>1. n \in Nat /\ DOMAIN lines = 1..n
  BY LinesTyped
<1>2. T \in SUBSET (1..n) /\ \A i \in T : 1..i \subseteq T /\ lines[i].sound
  BY <1>1
<1>3. Sound = Cardinality(T)
  BY DEF Sound
<1> HIDE DEF T, n
<1>4. Cardinality(T) \in 0..n /\ T = 1..Cardinality(T)
  BY <1>1, <1>2, DownClosed
<1>5. \A i \in 1..Sound : lines[i].sound
  BY <1>2, <1>3, <1>4
<1> QED
  BY <1>3, <1>4, <1>5 DEF n

(* The lines of the records before the first damaged one.                  *)
LEMMA LinesJoin ==
    ASSUME TypeInv, RecordsInv, NEW n \in 0..Sound
    PROVE  /\ Lines(n) \in Seq(Tokens) /\ Lines(0) = <<>>
           /\ n < Sound => lines[n + 1].text \in Seq(Tokens) /\ Lines(n + 1) = Lines(n) \o lines[n + 1].text
<1> DEFINE m == Sound
           texts == [i \in 1..m |-> lines[i].text]
<1>1. m \in Nat /\ m <= Len(lines) /\ Len(lines) \in Nat /\ \A i \in 1..m : lines[i].sound /\ i \in 1..Len(lines)
  BY SoundOnes, LinesTyped
<1>2. ASSUME NEW i \in 1..m PROVE lines[i].text \in Seq(Tokens)
  <2>1. IsWritten(i)
    BY <1>1 DEF RecordsInv
  <2>2. PICK k \in DOMAIN Program : \E stmt \in Program[k].runs : Known(k) /\ lines[i].text = Line(Ids(k), Cut(stmt))
    BY <2>1 DEF IsWritten
  <2>3. PICK stmt \in Program[k].runs : Known(k) /\ lines[i].text = Line(Ids(k), Cut(stmt))
    BY <2>2
  <2>4. IsRecord(Ids(k), stmt) /\ Knows(Ids(k), stmt, TagNames, EventFields)
    BY <2>3, RecordsKnown DEF TypeInv
  <2> QED
    BY <2>3, <2>4, LineTyped DEF Tokens
<1> HIDE DEF m
<1>3. texts \in Seq(Seq(Tokens)) /\ Len(texts) = m /\ \A i \in 1..m : texts[i] = lines[i].text
  BY <1>1, <1>2
<1>4. \A k \in 0..m : Part(texts, k) = [i \in 1..k |-> lines[i].text]
  BY <1>1, <1>3 DEF Part
<1> HIDE DEF texts
<1>5. \A k \in 0..m : Lines(k) = FlattenSeq(Part(texts, k))
  BY <1>4, Zenon DEF Lines
<1>6. n \in 0..m /\ 0 \in 0..m /\ (n < m => n + 1 \in 0..m /\ n + 1 \in 1..m)
  BY <1>1 DEF m
<1>7. /\ FlattenSeq(Part(texts, n)) \in Seq(Tokens) /\ FlattenSeq(Part(texts, 0)) = <<>>
      /\ n < m => FlattenSeq(Part(texts, n + 1)) = FlattenSeq(Part(texts, n)) \o texts[n + 1]
  BY <1>3, <1>6, FlattenParts
<1> QED
  BY <1>2, <1>3, <1>5, <1>6, <1>7 DEF m

(* The lines of fewer records are a prefix.                                *)
LEMMA LinesGrow ==
    ASSUME TypeInv, RecordsInv, NEW i \in 0..Sound, NEW j \in 0..Sound, i <= j
    PROVE  IsPrefix(Lines(i), Lines(j))
<1> DEFINE T == {k \in Nat : i + k <= Sound => IsPrefix(Lines(i), Lines(i + k))}
<1>1. Sound \in Nat
  BY SoundOnes, LinesTyped
<1>2. \A k \in 0..Sound : Lines(k) \in Seq(Tokens)
  BY LinesJoin
<1>3. 0 \in T
  <2>1. IsPrefix(Lines(i), Lines(i))
    BY <1>2, PrefixElements
  <2> QED
    BY <1>1, <2>1
<1>4. ASSUME NEW k \in Nat, k \in T PROVE k + 1 \in T
  <2> SUFFICES ASSUME i + (k + 1) <= Sound PROVE IsPrefix(Lines(i), Lines(i + (k + 1)))
    OBVIOUS
  <2> DEFINE m == i + k
  <2>1. m \in 0..Sound /\ m < Sound /\ i + (k + 1) = m + 1
    BY <1>1
  <2>2. IsPrefix(Lines(i), Lines(m))
    BY <1>4, <2>1
  <2> HIDE DEF m
  <2>3. lines[m + 1].text \in Seq(Tokens) /\ Lines(m + 1) = Lines(m) \o lines[m + 1].text
    BY <2>1, LinesJoin
  <2>4. IsPrefix(Lines(i), Lines(m + 1))
    BY <1>2, <2>1, <2>2, <2>3, PrefixAppended
  <2> QED
    BY <2>1, <2>4
<1> HIDE DEF T
<1>5. Nat \subseteq T
  BY <1>3, <1>4, SetInduction
<1>6. j - i \in T /\ i + (j - i) = j /\ j <= Sound
  BY <1>1, <1>5
<1>7. i + (j - i) <= Sound => IsPrefix(Lines(i), Lines(i + (j - i)))
  BY <1>6 DEF T
<1> QED
  BY <1>6, <1>7

(* A turn at a record that is not damaged, ...                             *)
LEMMA SoundTurn ==
    ASSUME TypeInv, RecordsInv, count < Sound, pos = EndOf(count),
           NEW r, r = Formatted(file, pos, TagNames, EventFields)
    PROVE  Reads(r, file, EndOf(count + 1), lines[count + 1].text, Tokens)
<1> DEFINE i == count + 1
<1>1. i \in 1..Sound /\ i \in 1..Len(lines) /\ i - 1 = count /\ lines[i].sound
  <2>1. count \in Nat /\ Sound \in Nat /\ Sound <= Len(lines) /\ Len(lines) \in Nat
    BY SoundOnes, LinesTyped DEF TypeInv
  <2> QED
    BY <2>1, SoundOnes
<1>2. IsWritten(i)
  BY <1>1 DEF RecordsInv
<1>3. PICK k \in DOMAIN Program : \E stmt \in Program[k].runs :
        /\ Known(k)
        /\ lines[i].text = Line(Ids(k), Cut(stmt))
        /\ lines[i].end = EndOf(i - 1) + Len(Encoded(Ids(k), stmt))
        /\ Agrees(file, EndOf(i - 1), Encoded(Ids(k), stmt))
  BY <1>2 DEF IsWritten
<1>4. PICK stmt \in Program[k].runs :
        /\ Known(k)
        /\ lines[i].text = Line(Ids(k), Cut(stmt))
        /\ lines[i].end = EndOf(i - 1) + Len(Encoded(Ids(k), stmt))
        /\ Agrees(file, EndOf(i - 1), Encoded(Ids(k), stmt))
  BY <1>3
<1>5. IsRecord(Ids(k), stmt) /\ Knows(Ids(k), stmt, TagNames, EventFields)
  BY <1>4, RecordsKnown DEF TypeInv
<1>6. \A e \in DOMAIN EventFields : EventFields[e] \in Seq(Methods)
  <2>1. known \in DOMAIN Versions
    BY SiteTyped DEF TypeInv
  <2> QED
    BY <2>1, EventsTyped DEF EventFields, Document
<1> DEFINE bytes == Encoded(Ids(k), stmt)
<1>7. EndOf(i) = pos + Len(bytes) /\ Agrees(file, pos, bytes)
  BY <1>1, <1>4, LinesTyped
<1>8. file \in Seq(Bytes) /\ pos \in 0..Len(file)
  BY DEF TypeInv
<1>9. Reads(r, file, pos + Len(bytes), Line(Ids(k), Cut(stmt)), Letters(TagNames))
  BY <1>5, <1>6, <1>7, <1>8, FormattedReads
<1> QED
  BY <1>4, <1>7, <1>9 DEF Tokens

(* ... and at the end of the file.                                         *)
LEMMA LastTurn ==
    ASSUME TypeInv, pos = Len(file), NEW r, r = Formatted(file, pos, TagNames, EventFields)
    PROVE  ~r.ok /\ r.text = <<>>
<1>1. ~HasHead(file, pos)
  <2>1. ~(pos < Len(file))
    BY LinesTyped
  <2> QED
    BY <2>1 DEF HasHead, HasPair
<1>2. known \in DOMAIN Versions
  BY SiteTyped DEF TypeInv
<1>3. \A e \in DOMAIN EventFields : EventFields[e] \in Seq({"i", "f", "b", "s", "cs"})
  BY <1>2, EventsTyped DEF EventFields, Document, Methods
<1>4. r = [ok |-> FALSE, pos |-> Len(file), text |-> <<>>]
  BY <1>1, <1>3, FormattedSteps DEF TypeInv
<1> QED
  BY <1>4

(* From one turn to the next.                                              *)
LEMMA DecodeTurn ==
    ASSUME TypeInv, RecordsInv, OnTrack \/ Beyond,
           NEW r, r = Formatted(file, pos, TagNames, EventFields),
           file' = file, lines' = lines,
           pos' = r.pos, text' = text \o r.text, count' = count + IF r.ok THEN 1 ELSE 0
    PROVE  Beyond' \/ (r.ok /\ OnTrack') \/ (~r.ok /\ Stopped')
<1>1. /\ Sound \in 0..Len(lines) /\ Len(lines) \in Nat /\ Sound \in Nat
      /\ \A i \in 0..Len(lines) : EndOf(i) \in Nat
      /\ Len(file) \in Nat /\ count \in Nat /\ pos \in 0..Len(file) /\ text \in Seq(Tokens)
  BY SoundOnes, LinesTyped DEF TypeInv
<1>2. r.pos \in 0..Len(file) /\ r.ok \in BOOLEAN /\ r.text \in Seq(Tokens)
  BY TurnTyped DEF Cursors
<1>3. Sound' = Sound /\ \A i : EndOf(i)' = EndOf(i) /\ Lines(i)' = Lines(i)
  BY DEF Sound, EndOf, Lines
<1>4. \A i \in 0..Sound : Lines(i) \in Seq(Tokens)
  BY LinesJoin
<1>5. count' \in Nat /\ count' >= count /\ (r.ok => count' = count + 1) /\ (~r.ok => count' = count)
  BY <1>1
<1>6. ASSUME Sound < Len(lines), Sound <= count, IsPrefix(Lines(Sound), text)
      PROVE  Beyond'
  <2>1. Sound \in 0..Sound
    BY <1>1
  <2>2. IsPrefix(Lines(Sound), text \o r.text)
    BY <1>1, <1>2, <1>4, <1>6, <2>1, PrefixAppended
  <2>3. Sound <= count'
    BY <1>1, <1>5, <1>6
  <2> QED
    BY <1>3, <1>6, <2>2, <2>3 DEF Beyond
<1>7. CASE Beyond
  BY <1>6, <1>7 DEF Beyond
<1>8. CASE OnTrack /\ count = Sound /\ Sound < Len(lines)
  <2>1. Sound \in 0..Sound /\ text = Lines(Sound)
    BY <1>1, <1>8 DEF OnTrack
  <2>2. IsPrefix(Lines(Sound), text)
    BY <1>4, <2>1, PrefixElements
  <2> QED
    BY <1>1, <1>6, <1>8, <2>2
<1>9. CASE OnTrack /\ count = Sound /\ ~(Sound < Len(lines))
  <2>1. Sound = Len(lines) /\ Sound \in 0..Sound /\ pos = EndOf(Len(lines)) /\ text = Lines(Sound)
    BY <1>1, <1>9 DEF OnTrack
  <2>2. pos = Len(file)
    BY <1>1, <2>1 DEF RecordsInv
  <2>3. ~r.ok /\ r.text = <<>>
    BY <2>2, LastTurn
  <2>4. text' = text /\ count' = count
    BY <1>1, <1>5, <2>3
  <2>5. IsPrefix(text, text)
    BY <1>1, PrefixElements
  <2>6. EndOf(count) <= Len(file) /\ count <= Sound /\ ~(count < Sound)
    BY <1>1, <1>9, <2>1, <2>2
  <2>7. Stopped'
    BY <1>3, <1>9, <2>1, <2>4, <2>5, <2>6 DEF Stopped
  <2> QED
    BY <2>3, <2>7
<1>10. CASE OnTrack /\ count < Sound
  <2> DEFINE end == EndOf(count + 1)
             line == lines[count + 1].text
  <2>1. pos = EndOf(count) /\ text = Lines(count) /\ count \in 0..Sound /\ count + 1 \in 0..Sound
        /\ count + 1 \in 0..Len(lines)
    BY <1>1, <1>10 DEF OnTrack
  <2>2. Reads(r, file, end, line, Tokens)
    BY <1>10, <2>1, SoundTurn
  <2>3. line \in Seq(Tokens) /\ Lines(count + 1) = text \o line /\ end \in Nat
    BY <1>1, <1>10, <2>1, LinesJoin
  <2> HIDE DEF end, line
  <2>4. CASE end <= Len(file)
    <3>1. r.ok /\ r.pos = end /\ r.text = line
      BY <2>2, <2>4 DEF Reads
    <3>2. count' = count + 1 /\ count + 1 <= Sound /\ pos' = EndOf(count + 1) /\ text' = Lines(count + 1)
      BY <1>1, <1>5, <1>10, <2>3, <3>1 DEF end
    <3>3. OnTrack'
      BY <1>3, <3>2 DEF OnTrack
    <3> QED
      BY <3>1, <3>3
  <2>5. CASE ~(end <= Len(file))
    <3>1. end > Len(file)
      BY <1>1, <2>3, <2>5
    <3>2. ~r.ok /\ IsPrefix(r.text, line)
      BY <2>2, <3>1 DEF Reads
    <3>3. IsPrefix(text, text')
      BY <1>1, <1>2, PrefixAppended
    <3>4. IsPrefix(text', Lines(Sound))
      <4>1. IsPrefix(text \o r.text, text \o line)
        BY <1>1, <1>2, <2>3, <3>2, PrefixAppended
      <4>2. IsPrefix(Lines(count + 1), Lines(Sound))
        <5>1. count + 1 <= Sound /\ Sound \in 0..Sound
          BY <1>1, <1>10
        <5> QED
          BY <2>1, <5>1, LinesGrow
      <4>3. text \o r.text \in Seq(Tokens) /\ Lines(count + 1) \in Seq(Tokens) /\ Lines(Sound) \in Seq(Tokens)
        <5>1. Sound \in 0..Sound
          BY <1>1
        <5>2. text \o r.text \in Seq(Tokens)
          BY <1>1, <1>2
        <5> QED
          BY <1>4, <2>1, <5>1, <5>2
      <4> QED
        BY <2>3, <4>1, <4>2, <4>3, PrefixTransitive
    <3>5. count' = count /\ count < Sound /\ count <= Sound
      BY <1>1, <1>5, <1>10, <3>2
    <3>6. EndOf(count) <= Len(file)
      BY <1>1, <2>1
    <3>7. Stopped'
      BY <1>3, <2>1, <3>1, <3>3, <3>4, <3>5, <3>6 DEF Stopped, end
    <3> QED
      BY <3>2, <3>7
  <2> QED
    BY <2>4, <2>5
<1>11. OnTrack => count <= Sound
  BY DEF OnTrack
<1> QED
  BY <1>1, <1>7, <1>8, <1>9, <1>10, <1>11

-----------------------------------------------------------------------------
(* The theorems *)

LogInv == TypeInv /\ RecordsInv /\ DecodeInv

(* It holds after every step, ...                                          *)
LEMMA DecodeStays == LogInv /\ [Next]_vars => DecodeInv'
<1> SUFFICES ASSUME LogInv, [Next]_vars PROVE DecodeInv'
  OBVIOUS
<1>1. TypeInv /\ RecordsInv /\ DecodeInv
  BY DEF LogInv
<1>2. ASSUME NEW k \in DOMAIN Program, NEW stmt \in Program[k].runs, Log(k, stmt) PROVE DecodeInv'
  BY <1>2 DEF Log, DecodeInv
<1>3. CASE End
  <2>1. /\ phase = "run" /\ phase' = "format"
        /\ lines' = lines /\ pos' = pos /\ text' = text /\ count' = count
    BY <1>3 DEF End
  <2>2. pos = 0 /\ text = <<>> /\ count = 0
    BY <1>1, <2>1 DEF TypeInv
  <2>3. Sound \in Nat /\ 0 \in 0..Sound /\ EndOf(0) = 0
    BY <1>1, SoundOnes, LinesTyped
  <2>4. Lines(0) = <<>>
    BY <1>1, <2>3, LinesJoin
  <2>5. Sound' = Sound /\ EndOf(0)' = EndOf(0) /\ Lines(0)' = Lines(0)
    BY <2>1 DEF Sound, EndOf, Lines
  <2>6. count' = 0 /\ count' <= Sound' /\ pos' = EndOf(0)' /\ text' = Lines(0)'
    BY <2>1, <2>2, <2>3, <2>4, <2>5
  <2>7. EndOf(count)' = EndOf(0)' /\ Lines(count)' = Lines(0)'
    BY <2>6 DEF EndOf, Lines
  <2>8. OnTrack'
    BY <2>6, <2>7 DEF OnTrack
  <2> QED
    BY <2>1, <2>8 DEF DecodeInv
<1>4. CASE Format
  <2>1. PICK r : /\ r = Formatted(file, pos, TagNames, EventFields)
                 /\ pos' = r.pos /\ text' = text \o r.text /\ count' = count + IF r.ok THEN 1 ELSE 0
                 /\ phase' = IF r.ok THEN "format" ELSE "done"
    BY <1>4 DEF Format
  <2>2. phase = "format" /\ file' = file /\ lines' = lines
    BY <1>4 DEF Format
  <2>3. OnTrack \/ Beyond
    BY <1>1, <2>2 DEF DecodeInv
  <2>4. Beyond' \/ (r.ok /\ OnTrack') \/ (~r.ok /\ Stopped')
    BY <1>1, <2>1, <2>2, <2>3, DecodeTurn
  <2> QED
    BY <2>1, <2>4 DEF DecodeInv
<1>5. CASE Finished \/ UNCHANGED vars
  <2>1. UNCHANGED <<phase, file, lines, pos, text, count>>
    BY <1>5 DEF Finished, vars
  <2>2. OnTrack' = OnTrack /\ Beyond' = Beyond /\ Stopped' = Stopped
    BY <2>1 DEF OnTrack, Beyond, Stopped, Sound, EndOf, Lines
  <2> QED
    BY <1>1, <2>1, <2>2 DEF DecodeInv
<1> QED
  BY <1>2, <1>3, <1>4, <1>5 DEF Next

(* ... all of it at first, ...                                             *)
LEMMA LogInvBegins == Init => LogInv
<1> SUFFICES ASSUME Init PROVE LogInv
  OBVIOUS
<1>1. phase = "run"
  BY DEF Init
<1>2. DecodeInv
  BY <1>1 DEF DecodeInv
<1> QED
  BY <1>2, TypeBegins, RecordsBegin DEF LogInv

(* ... and after every step.                                               *)
LEMMA LogInvStays == LogInv /\ [Next]_vars => LogInv'
  BY TypeStays, RecordsStay, DecodeStays DEF LogInv

(* How many records are wholly in the file: the first ones.                *)
LEMMA WholeOnes ==
    ASSUME TypeInv, RecordsInv
    PROVE  /\ Whole \in 0..Sound /\ \A i \in 1..Whole : EndOf(i) <= Len(file)
           /\ \A i \in 1..Sound : EndOf(i) <= Len(file) => i <= Whole
<1> DEFINE T == {i \in 1..Sound : lines[i].end <= Len(file)}
<1>1. /\ Sound \in Nat /\ Sound <= Len(lines) /\ Len(lines) \in Nat /\ Len(file) \in Nat
      /\ \A i \in 0..Len(lines) : EndOf(i) \in Nat
      /\ \A i \in 1..Len(lines) : EndOf(i) = lines[i].end
  BY SoundOnes, LinesTyped
<1>2. ASSUME NEW i \in T, NEW j \in 1..i PROVE j \in T
  <2>1. i \in 1..Sound /\ j \in 1..Sound /\ i \in 0..Len(lines) /\ j \in 0..Len(lines) /\ j <= i
        /\ i \in 1..Len(lines) /\ j \in 1..Len(lines) /\ lines[i].end <= Len(file)
    BY <1>1
  <2>2. EndOf(j) <= EndOf(i)
    BY <2>1, EndsGrow
  <2>3. lines[j].end <= Len(file)
    BY <1>1, <2>1, <2>2
  <2> QED
    BY <2>1, <2>3
<1>3. T \in SUBSET (1..Sound) /\ \A i \in T : 1..i \subseteq T
  BY <1>2
<1>4. Whole = Cardinality(T)
  BY DEF Whole
<1>5. \A i \in 1..Sound : i \in 1..Len(lines)
  BY <1>1
<1>6. \A i \in T : EndOf(i) <= Len(file)
  BY <1>1, <1>5
<1>7. \A i \in 1..Sound : EndOf(i) <= Len(file) => i \in T
  BY <1>1, <1>5
<1> HIDE DEF T
<1>8. Whole \in 0..Sound /\ T = 1..Whole
  BY <1>1, <1>3, <1>4, DownClosed
<1>9. \A i \in 1..Sound : EndOf(i) <= Len(file) => i <= Whole
  BY <1>7, <1>8
<1> QED
  BY <1>6, <1>8, <1>9

(* It says that what was logged is decoded.                                *)
LEMMA LogInvImplies == LogInv => DecodesWhatWasLogged /\ EveryRecordDecoded
<1> SUFFICES ASSUME LogInv PROVE DecodesWhatWasLogged /\ EveryRecordDecoded
  OBVIOUS
<1>1. TypeInv /\ RecordsInv /\ DecodeInv
  BY DEF LogInv
<1>2. /\ Sound \in Nat /\ Sound <= Len(lines) /\ Len(lines) \in Nat /\ Len(file) \in Nat /\ Sound \in 0..Sound /\ 0 \in 0..Sound
      /\ \A i \in 0..Len(lines) : EndOf(i) \in Nat
      /\ count \in Nat /\ text \in Seq(Tokens)
  BY <1>1, SoundOnes, LinesTyped DEF TypeInv
<1>3. \A i \in 0..Sound : Lines(i) \in Seq(Tokens) /\ IsPrefix(Lines(i), Lines(Sound))
  <2>1. ASSUME NEW i \in 0..Sound PROVE Lines(i) \in Seq(Tokens) /\ IsPrefix(Lines(i), Lines(Sound))
    <3>1. i <= Sound
      BY <1>2
    <3> QED
      BY <1>1, <1>2, <3>1, LinesJoin, LinesGrow
  <2> QED
    BY <2>1
<1>4. Lines(0) = <<>>
  BY <1>1, <1>2, LinesJoin
<1>5. /\ Whole \in 0..Sound /\ \A i \in 1..Whole : EndOf(i) <= Len(file)
      /\ \A i \in 1..Sound : EndOf(i) <= Len(file) => i <= Whole
  BY <1>1, WholeOnes
<1>6. DecodesWhatWasLogged
  <2>1. CASE phase = "run"
    <3>1. text = Lines(0)
      BY <1>1, <1>4, <2>1 DEF TypeInv
    <3> QED
      BY <1>2, <1>3, <3>1 DEF DecodesWhatWasLogged
  <2>2. CASE OnTrack
    <3>1. count \in 0..Sound /\ text = Lines(count)
      BY <1>2, <2>2 DEF OnTrack
    <3> QED
      BY <1>3, <3>1 DEF DecodesWhatWasLogged
  <2>3. CASE Beyond
    BY <2>3 DEF Beyond, DecodesWhatWasLogged
  <2>4. CASE Stopped
    BY <2>4 DEF Stopped, DecodesWhatWasLogged
  <2> QED
    BY <1>1, <2>1, <2>2, <2>3, <2>4 DEF TypeInv, DecodeInv
<1>7. ASSUME phase = "done"
      PROVE  /\ count >= Whole
             /\ IsPrefix(Lines(Whole), text)
             /\ Sound = Len(lines) =>
                  /\ count = Whole
                  /\ Len(file) = EndOf(Len(lines)) => text = Lines(Len(lines))
  <2>1. CASE Beyond
    <3>1. Sound < Len(lines) /\ Sound <= count /\ IsPrefix(Lines(Sound), text)
      BY <2>1 DEF Beyond
    <3>2. count >= Whole /\ Sound # Len(lines)
      BY <1>2, <1>5, <3>1
    <3>3. IsPrefix(Lines(Whole), text)
      <4>1. IsPrefix(Lines(Whole), Lines(Sound)) /\ Lines(Whole) \in Seq(Tokens) /\ Lines(Sound) \in Seq(Tokens)
        BY <1>2, <1>3, <1>5
      <4> QED
        BY <1>2, <3>1, <4>1, PrefixTransitive
    <3> QED
      BY <3>2, <3>3
  <2>2. CASE Stopped
    <3>1. /\ count <= Sound /\ EndOf(count) <= Len(file) /\ IsPrefix(Lines(count), text)
          /\ count < Sound => EndOf(count + 1) > Len(file)
          /\ ~(count < Sound) => Sound = Len(lines) /\ text = Lines(count)
      BY <2>2 DEF Stopped
    <3>2. count <= Whole
      <4>1. CASE count = 0
        BY <1>2, <1>5, <4>1
      <4>2. CASE count # 0
        <5>1. count \in 1..Sound
          BY <1>2, <3>1, <4>2
        <5> QED
          BY <1>5, <3>1, <5>1
      <4> QED
        BY <4>1, <4>2
    <3>3. ~(count < Whole)
      <4> SUFFICES ASSUME count < Whole PROVE FALSE
        OBVIOUS
      <4>1. count + 1 \in 1..Whole /\ count < Sound /\ count + 1 \in 0..Len(lines)
        BY <1>2, <1>5
      <4>2. EndOf(count + 1) <= Len(file) /\ EndOf(count + 1) > Len(file)
        BY <1>5, <3>1, <4>1
      <4> QED
        BY <1>2, <4>1, <4>2
    <3>4. count = Whole
      BY <1>2, <1>5, <3>2, <3>3
    <3>5. ASSUME Sound = Len(lines), Len(file) = EndOf(Len(lines)) PROVE text = Lines(Len(lines))
      <4>1. ~(count < Sound)
        <5> SUFFICES ASSUME count < Sound PROVE FALSE
          OBVIOUS
        <5>1. count + 1 \in 0..Len(lines) /\ Len(lines) \in 0..Len(lines) /\ count + 1 <= Len(lines)
          BY <1>2
        <5>2. EndOf(count + 1) <= EndOf(Len(lines))
          BY <1>1, <5>1, EndsGrow
        <5> QED
          BY <1>2, <3>1, <3>5, <5>1, <5>2
      <4> QED
        BY <1>2, <3>1, <3>5, <4>1
    <3> QED
      BY <1>2, <3>1, <3>4, <3>5
  <2> QED
    BY <1>1, <1>7, <2>1, <2>2 DEF DecodeInv
<1>8. EndOf(Len(lines)) = IF lines = <<>> THEN 0 ELSE lines[Len(lines)].end
  <2>1. Len(lines) = 0 <=> lines = <<>>
    <3>1. lines \in Seq([text : RecordLines, end : Nat, sound : BOOLEAN])
      BY <1>1 DEF TypeInv
    <3> HIDE DEF RecordLines
    <3> QED
      BY <3>1
  <2> QED
    BY <2>1 DEF EndOf
<1>9. EveryRecordDecoded
  BY <1>7, <1>8 DEF EveryRecordDecoded
<1> QED
  BY <1>6, <1>9

(* What the program writes, what a cut leaves of it and how far the        *)
(* formatter is fit together in every state.                               *)
THEOREM LogInvariant == Spec => []LogInv
<1> QED
  BY LogInvBegins, LogInvStays, PTL DEF Spec

(* The file holds bytes, and neither the position of the stream nor the    *)
(* number of records exceeds them.                                         *)
THEOREM TypeCorrect == Spec => []TypeOK
<1>1. LogInv => TypeOK
  BY TypeImplies DEF LogInv
<1> QED
  BY <1>1, LogInvariant, PTL

(* The loop in the postprocessor's main ends: every turn but the last one  *)
(* counts a record, which is six bytes of the file or more.                *)
THEOREM FormattingIsBounded == Spec => []FormattingEnds
<1>1. LogInv => FormattingEnds
  BY TypeImplies DEF LogInv
<1> QED
  BY <1>1, LogInvariant, PTL

(* The postprocessor writes the lines that were logged, up to where the    *)
(* file was cut or a record is damaged, and never another value: with the  *)
(* schema of any version that knows the statements.                        *)
THEOREM LogIsDecoded == Spec => []DecodesWhatWasLogged
<1>1. LogInv => DecodesWhatWasLogged
  BY LogInvImplies
<1> QED
  BY <1>1, LogInvariant, PTL

(* When it is done it has written and counted each record that is wholly   *)
(* in the file, up to the first damaged one.                               *)
THEOREM RecordsAreDecoded == Spec => []EveryRecordDecoded
<1>1. LogInv => EveryRecordDecoded
  BY LogInvImplies
<1> QED
  BY <1>1, LogInvariant, PTL
=============================================================================
